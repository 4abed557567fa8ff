--------------------------- MODULE PairingProofs ---------------------------
(***************************************************************************)
(* What Pairing promises, for any ceremonies, phones, nonces, clocks and   *)
(* faults: the two sides agree on every pairing, and a nonce that reached  *)
(* the disk is not accepted again while its filter is in use.              *)
(***************************************************************************)
EXTENDS Pairing, TLAPS

-----------------------------------------------------------------------------
(* The shapes of the data.  A field written {x.f} has its place in the     *)
(* record and no type.                                                     *)

Qrs == [nonce : Nonces, expires : Nat]
Filters == [seen : SUBSET Nonces, made : Nat]

LEMMA NoneIsNoFilter == None \notin Filters
BY PairingBounds DEF Filters

Pending == {"qr_displayed", "awaiting_confirm", "gate", "burn"}
Past == {"verify", "record", "paired", "over"}

Other == [kind |-> "other"]
Sent == UNION {phone[p].sent : p \in Phones}
Chunks ==
  {Chunk(TRUE, <<>>, TRUE), Part, Whole(Other)} \cup {Whole(m) : m \in Sent}
Acks == {AckMessage(a.nonce, a.id, a.dh) : a \in acks}

IsRun(x) ==
  /\ x \in [at : Pending \cup Past \cup {"unpaired"}, qr : {x.qr}, guard : {x.guard},
            deadline : {x.deadline}, confirm : {x.confirm}, idle : {x.idle},
            drained : {x.drained}, ended : {x.ended}]
  /\ x.at = "unpaired" => x.qr = None
  /\ x.at # "unpaired" => x.qr \in Qrs /\ x.guard \in Filters /\ x.guard.made <= now
IsLink(l) ==
  /\ l \in [peer : {l.peer}, up : {l.up}, in : Seq(Chunks), out : Seq(Acks)]
  /\ l.up => l.peer \in Phones
IsPhone(x) ==
  /\ x \in [at : {x.at}, qr : {x.qr}, deadline : {x.deadline}, link : Ceremonies \cup {None},
            sent : {x.sent}, saved : {x.saved}]
  /\ x.at # "idle" => x.qr \in Qrs

-----------------------------------------------------------------------------
(* Agreement: what was sent, heard, acked and stored.                      *)

Acked(id, dh) == \E a \in acks : a.id = id /\ a.dh = dh
AckedFor(p, n) == \E a \in acks : a.nonce = n /\ a.id = p /\ a.dh = DhOf(p)

RunOk(x) ==
  /\ IsRun(x)
  /\ x.confirm \in {None, Other} \cup Sent
  /\ x.at \in {"gate", "verify", "record"} => x.confirm \in {Other} \cup Sent
  /\ x.at = "record" => Acked(x.confirm.id, x.confirm.dh)
PhoneOk(p, x) ==
  /\ IsPhone(x)
  /\ \A m \in x.sent : \E k : m = ConfirmMessage(p, k)
  /\ x.saved # None => AckedFor(p, x.saved)
  /\ x.at = "saving" => AckedFor(p, x.qr.nonce)
  /\ x.at \in {"connected", "verifying"} => x.link \in Ceremonies
RunInv(c) == RunOk(pc[c])
LinkInv(c) == IsLink(link[c])
PhoneInv(p) == PhoneOk(p, phone[p])
AckInv(a) ==
  /\ a.by \in Ceremonies /\ pc[a.by].at \in Past
  /\ a.nonce = pc[a.by].qr.nonce
  /\ a.id \in Phones /\ ConfirmMessage(a.id, a.nonce) \in phone[a.id].sent

Agreed ==
  /\ now \in Nat
  /\ pc = [c \in Ceremonies |-> pc[c]]
  /\ link = [c \in Ceremonies |-> link[c]]
  /\ phone = [p \in Phones |-> phone[p]]
  /\ \A c \in Ceremonies : RunInv(c)
  /\ \A c \in Ceremonies : LinkInv(c)
  /\ \A p \in Phones : PhoneInv(p)
  /\ \A r \in pairings : Acked(r.id, r.dh)
  /\ \A a \in acks : AckInv(a)

-----------------------------------------------------------------------------
(* Memory: what the filter, and the filters ceremonies hold, remember.     *)

\* A filter as old as b's holds b's nonce, and none is older.
Remembers(f, b) == f.made >= b.made /\ (f.made = b.made => b.nonce \in f.seen)

Alone(b) == company[b.by] = {}
BurnInv(b) ==
  /\ b.by \in Ceremonies /\ pc[b.by].at \in Past
  /\ b.made \in Nat
  /\ Alone(b) => /\ Remembers(filter, b)
                 /\ \A c \in Ceremonies :
                      pc[c].at \in Pending => Remembers(pc[c].guard, b)
KnownInv(c) ==
  /\ pc[c].at \in Pending => \A k \in known[c] : Remembers(pc[c].guard, k)
  /\ pc[c].at = "verify" =>
       [nonce |-> pc[c].qr.nonce, made |-> pc[c].guard.made] \notin known[c]
  /\ \A k \in known[c] : k.made \in Nat

Memory ==
  /\ filter \in Filters \cup {None}
  /\ filter \in Filters => filter.made <= now
  /\ filter = None => burned = {}
  /\ company = [c \in Ceremonies |-> company[c]]
  /\ known = [c \in Ceremonies |-> known[c]]
  /\ \A c, d \in Ceremonies : c # d /\ Running(c) /\ Running(d) => c \in company[d]
  /\ \A b \in burned : BurnInv(b)
  /\ \A c \in Ceremonies : KnownInv(c)
  /\ ReplayMemory

Inv == Agreed /\ Memory

-----------------------------------------------------------------------------
(* Acks and sent confirms only grow, and what they justify stays justified. *)

Grows ==
  /\ acks \subseteq acks'
  /\ \A p \in Phones : phone[p].sent \subseteq phone'[p].sent
  /\ now \in Nat /\ now' \in Nat /\ now <= now'

LEMMA RunStays ==
  ASSUME Grows, NEW x, RunOk(x)
  PROVE  RunOk(x)'
<1>1. Sent \subseteq Sent'
  BY DEF Grows, Sent
<1>2. \A id, dh : Acked(id, dh) => Acked(id, dh)'
  BY DEF Grows, Acked
<1>3. IsRun(x)'
  BY DEF RunOk, IsRun, Grows, Filters
<1> QED
  BY <1>1, <1>2, <1>3 DEF RunOk

LEMMA LinkStays ==
  ASSUME Grows, NEW l, IsLink(l)
  PROVE  IsLink(l)'
<1>1. Sent \subseteq Sent'
  BY DEF Grows, Sent
<1>2. Chunks \subseteq Chunks'
  BY <1>1 DEF Chunks
<1>3. Acks \subseteq Acks'
  BY DEF Grows, Acks
<1>4. Seq(Chunks) \subseteq Seq(Chunks') /\ Seq(Acks) \subseteq Seq(Acks')
  BY <1>2, <1>3
<1> QED
  BY <1>4 DEF IsLink

LEMMA PhoneStays ==
  ASSUME Grows, NEW p, NEW x, PhoneOk(p, x)
  PROVE  PhoneOk(p, x)'
<1>1. \A n : AckedFor(p, n) => AckedFor(p, n)'
  BY DEF Grows, AckedFor
<1> QED
  BY <1>1 DEF PhoneOk, IsPhone

\* A step that leaves every part sound keeps the agreement.
LEMMA AgreedStep ==
  ASSUME Agreed, Grows,
         pc' = [c \in Ceremonies |-> pc'[c]],
         link' = [c \in Ceremonies |-> link'[c]],
         phone' = [p \in Phones |-> phone'[p]],
         \A c \in Ceremonies : RunOk(pc'[c]) \/ RunInv(c)',
         \A c \in Ceremonies : IsLink(link'[c]) \/ LinkInv(c)',
         \A p \in Phones : PhoneOk(p, phone'[p]) \/ PhoneInv(p)',
         \A c \in Ceremonies : pc[c].at \in Past =>
           pc'[c].at \in Past /\ pc'[c].qr = pc[c].qr,
         \A r \in pairings' : r \in pairings \/ Acked(r.id, r.dh)',
         \A a \in acks' : a \in acks \/ AckInv(a)'
  PROVE  Agreed'
<1>1. \A c \in Ceremonies : RunInv(c)'
  <2> SUFFICES ASSUME NEW c \in Ceremonies, RunOk(pc'[c]) PROVE RunInv(c)'
    OBVIOUS
  <2>1. PICK x : x = pc'[c]
    OBVIOUS
  <2>2. RunOk(x)'
    BY <2>1, RunStays
  <2> QED
    BY <2>1, <2>2 DEF RunInv
<1>2. \A c \in Ceremonies : LinkInv(c)'
  <2> SUFFICES ASSUME NEW c \in Ceremonies, IsLink(link'[c]) PROVE LinkInv(c)'
    OBVIOUS
  <2>1. PICK l : l = link'[c]
    OBVIOUS
  <2>2. IsLink(l)'
    BY <2>1, LinkStays
  <2> QED
    BY <2>1, <2>2 DEF LinkInv
<1>3. \A p \in Phones : PhoneInv(p)'
  <2> SUFFICES ASSUME NEW p \in Phones, PhoneOk(p, phone'[p]) PROVE PhoneInv(p)'
    OBVIOUS
  <2>1. PICK x : x = phone'[p]
    OBVIOUS
  <2>2. PhoneOk(p, x)'
    BY <2>1, PhoneStays
  <2> QED
    BY <2>1, <2>2 DEF PhoneInv
<1>4. \A r \in pairings' : Acked(r.id, r.dh)'
  BY DEF Agreed, Acked, Grows
<1>5. \A a \in acks' : AckInv(a)'
  BY DEF Agreed, AckInv, Grows
<1> QED
  BY <1>1, <1>2, <1>3, <1>4, <1>5 DEF Agreed, Grows

-----------------------------------------------------------------------------
(* Steps that leave the filter, the burned nonces and the company alone.   *)

\* A ceremony goes on, or ends, with its code and its guard.
Forward(x, y) ==
  /\ y.qr = x.qr /\ y.guard = x.guard
  /\ x.at # "unpaired" /\ y.at # "unpaired"
  /\ y.at \in Pending => x.at \in Pending
  /\ y.at \in {"verify", "record"} => x.at \in {"verify", "record"}
  /\ y.at = "verify" => x.at = "verify"
  /\ x.at \in Past => y.at \in Past

LEMMA MemoryStep ==
  ASSUME Inv, Agreed', now <= now',
         UNCHANGED <<filter, burned, company, known>>,
         \A c \in Ceremonies : pc'[c] = pc[c] \/ Forward(pc[c], pc'[c]),
         \A a \in acks' : a \in acks \/ [nonce |-> a.nonce, made |-> a.made] \notin known[a.by]
  PROVE  Memory'
<1> USE DEF Inv
<1>1. filter' \in Filters => filter'.made <= now'
  BY DEF Memory, Filters, Agreed
<1>2. \A c \in Ceremonies : Running(c)' => Running(c)
  BY DEF Running, Agreed, RunInv, RunOk, IsRun, Forward, Pending, Past
<1>3. \A b \in burned' : BurnInv(b)'
  BY DEF Memory, BurnInv, Alone, Forward
<1>4. \A c \in Ceremonies : KnownInv(c)'
  BY DEF Memory, KnownInv, Forward
<1>5. ReplayMemory'
  BY DEF Memory, ReplayMemory
<1> QED
  BY <1>1, <1>2, <1>3, <1>4, <1>5 DEF Memory

RunsGo ==
  \/ pc' = pc
  \/ \E c \in Ceremonies : \E y :
       RunOk(y) /\ Forward(pc[c], y) /\ pc' = [pc EXCEPT ![c] = y]
LinksGo ==
  \/ link' = link
  \/ \E c \in Ceremonies : \E l : IsLink(l) /\ link' = [link EXCEPT ![c] = l]
PhonesGo ==
  \/ phone' = phone
  \/ \E p \in Phones : \E x :
       PhoneOk(p, x) /\ phone[p].sent \subseteq x.sent /\ phone' = [phone EXCEPT ![p] = x]

LEMMA RunsStep ==
  ASSUME Agreed, RunsGo
  PROVE  /\ pc' = [c \in Ceremonies |-> pc'[c]]
         /\ \A c \in Ceremonies : RunOk(pc'[c])
         /\ \A c \in Ceremonies : pc'[c] = pc[c] \/ Forward(pc[c], pc'[c])
<1>1. CASE pc' = pc
  BY <1>1 DEF Agreed, RunInv
<1>2. CASE \E c \in Ceremonies : \E y :
             RunOk(y) /\ Forward(pc[c], y) /\ pc' = [pc EXCEPT ![c] = y]
  BY <1>2 DEF Agreed, RunInv
<1> QED
  BY <1>1, <1>2 DEF RunsGo

LEMMA LinksStep ==
  ASSUME Agreed, LinksGo
  PROVE  /\ link' = [c \in Ceremonies |-> link'[c]]
         /\ \A c \in Ceremonies : IsLink(link'[c])
<1>1. CASE link' = link
  BY <1>1 DEF Agreed, LinkInv
<1>2. CASE \E c \in Ceremonies : \E l : IsLink(l) /\ link' = [link EXCEPT ![c] = l]
  BY <1>2 DEF Agreed, LinkInv
<1> QED
  BY <1>1, <1>2 DEF LinksGo

LEMMA PhonesStep ==
  ASSUME Agreed, PhonesGo
  PROVE  /\ phone' = [p \in Phones |-> phone'[p]]
         /\ \A p \in Phones : PhoneOk(p, phone'[p])
         /\ \A p \in Phones : phone[p].sent \subseteq phone'[p].sent
<1>1. CASE phone' = phone
  BY <1>1 DEF Agreed, PhoneInv
<1>2. CASE \E p \in Phones : \E x :
             PhoneOk(p, x) /\ phone[p].sent \subseteq x.sent /\ phone' = [phone EXCEPT ![p] = x]
  BY <1>2 DEF Agreed, PhoneInv
<1> QED
  BY <1>1, <1>2 DEF PhonesGo

LEMMA OrdinaryStep ==
  ASSUME Inv, RunsGo, LinksGo, PhonesGo, now' \in Nat, now <= now',
         UNCHANGED <<acks, filter, burned, company, known>>,
         \A r \in pairings' : r \in pairings \/ Acked(r.id, r.dh)
  PROVE  Inv'
<1> USE DEF Inv
<1>1. Grows
  BY PhonesStep DEF Grows, Agreed
<1>2. \A r \in pairings' : r \in pairings \/ Acked(r.id, r.dh)'
  BY DEF Acked
<1>3. \A c \in Ceremonies : pc[c].at \in Past =>
        pc'[c].at \in Past /\ pc'[c].qr = pc[c].qr
  BY RunsStep DEF Forward
<1>4. Agreed'
  BY <1>1, <1>2, <1>3, RunsStep, LinksStep, PhonesStep, AgreedStep
<1>5. Memory'
  BY <1>4, RunsStep, MemoryStep
<1> QED
  BY <1>4, <1>5

-----------------------------------------------------------------------------
(* Records.                                                                *)

\* A ceremony that ends keeps its code and its guard.
LEMMA OverIsRun ==
  ASSUME Agreed, NEW c \in Ceremonies, pc[c].at # "unpaired", NEW how,
         NEW y, y = Over(c, how)
  PROVE  RunOk(y) /\ Forward(pc[c], y) /\ y.at \in {"paired", "over"}
<1>1. PICK qr, guard : qr = pc[c].qr /\ guard = pc[c].guard
  OBVIOUS
<1>2. PICK at : at = IF how = "paired" THEN "paired" ELSE "over"
  OBVIOUS
<1>3. PICK yes : yes = TRUE
  OBVIOUS
<1>4. y = [at |-> at, qr |-> qr, guard |-> guard, deadline |-> 0, confirm |-> None,
           idle |-> yes, drained |-> 0, ended |-> how]
  BY <1>1, <1>2, <1>3 DEF Over, Unpaired
<1>5. /\ y.at = at /\ y.qr = qr /\ y.guard = guard /\ y.confirm = None
      /\ at \in {"paired", "over"}
  BY <1>2, <1>4
<1>6. pc[c].qr \in Qrs /\ pc[c].guard \in Filters /\ pc[c].guard.made <= now
  BY DEF Agreed, RunInv, RunOk, IsRun
<1>7. IsRun(y)
  BY <1>1, <1>4, <1>5, <1>6 DEF IsRun, Past
<1>8. RunOk(y)
  BY <1>5, <1>7 DEF RunOk
<1>9. Forward(pc[c], y)
  BY <1>1, <1>5 DEF Forward, Pending, Past
<1> QED
  BY <1>5, <1>8, <1>9

\* ... and its link goes down.
LEMMA DownIsLink ==
  ASSUME Agreed, NEW c \in Ceremonies, NEW l, l = [link[c] EXCEPT !.up = FALSE, !.in = <<>>]
  PROVE  IsLink(l) /\ l.out = link[c].out
<1>1. PICK b : b = link[c]
  OBVIOUS
<1>2. IsLink(b)
  BY <1>1 DEF Agreed, LinkInv
<1>3. PICK no : no = FALSE
  OBVIOUS
<1>4. PICK nil \in Seq(Chunks) : nil = <<>>
  <2>1. <<>> \in Seq(Chunks)
    OBVIOUS
  <2> QED
    BY <2>1
<1>5. l = [b EXCEPT !.up = no, !.in = nil]
  BY <1>1, <1>3, <1>4
<1> QED
  BY <1>1, <1>2, <1>4, <1>5 DEF IsLink

LEMMA DownGoes ==
  ASSUME Agreed, NEW c \in Ceremonies, link' = Down(c)
  PROVE  LinksGo
<1>1. PICK l : l = [link[c] EXCEPT !.up = FALSE, !.in = <<>>]
  OBVIOUS
<1>2. link' = [link EXCEPT ![c] = l]
  BY <1>1 DEF Down, Agreed
<1> QED
  BY <1>1, <1>2, DownIsLink DEF LinksGo

LEMMA EndGoes ==
  ASSUME Agreed, NEW c \in Ceremonies, pc[c].at # "unpaired", NEW how, End(c, how)
  PROVE  RunsGo /\ LinksGo
<1>1. PICK y : y = Over(c, how)
  OBVIOUS
<1>2. RunOk(y) /\ Forward(pc[c], y)
  BY <1>1, OverIsRun
<1>3. RunsGo
  BY <1>1, <1>2 DEF End, RunsGo
<1> QED
  BY <1>3, DownGoes DEF End

-----------------------------------------------------------------------------
(* The ceremony's steps.                                                   *)

LEMMA QuietIs ==
  ASSUME Inv, Quiet
  PROVE  now' \in Nat /\ now <= now' /\ UNCHANGED <<acks, burned, company, known>>
BY DEF Inv, Agreed, Quiet

\* A process that returns, with nothing else changed.
LEMMA StepEnd ==
  ASSUME Inv, NEW c \in Ceremonies, NEW how, pc[c].at # "unpaired", End(c, how),
         UNCHANGED <<filter, pairings, phone>>, Quiet
  PROVE  Inv'
<1>1. RunsGo /\ LinksGo
  BY EndGoes DEF Inv
<1> QED
  BY <1>1, QuietIs, OrdinaryStep DEF PhonesGo

LEMMA StepEnds ==
  ASSUME Inv, NEW c \in Ceremonies,
         \/ QrExpired(c) \/ ReceiveFails(c) \/ ConfirmTimeoutEnds(c)
         \/ RejectConfirm(c) \/ Crash(c)
  PROVE  Inv'
<1>1. \E how : End(c, how)
  BY DEF QrExpired, ReceiveFails, ConfirmTimeoutEnds, RejectConfirm, Crash
<1>2. pc[c].at # "unpaired" /\ UNCHANGED <<filter, pairings, phone>> /\ Quiet
  BY DEF QrExpired, ReceiveFails, ConfirmTimeoutEnds, RejectConfirm, Crash, At, Running
<1> QED
  BY <1>1, <1>2, StepEnd

LEMMA StepRecordPeer ==
  ASSUME Inv, NEW c \in Ceremonies, RecordPeer(c)
  PROVE  Inv'
<1>1. \E how : End(c, how)
  BY DEF RecordPeer
<1>2. pc[c].at = "record" /\ UNCHANGED <<filter, phone>> /\ Quiet
  BY DEF RecordPeer, At
<1>3. RunsGo /\ LinksGo
  BY <1>1, <1>2, EndGoes DEF Inv
<1>4. PICK id, dh : id = pc[c].confirm.id /\ dh = pc[c].confirm.dh
  OBVIOUS
<1>5. Acked(id, dh)
  BY <1>2, <1>4 DEF Inv, Agreed, RunInv, RunOk
<1>6. \A r \in pairings' : r \in pairings \/ r = [id |-> id, dh |-> dh]
  BY <1>4 DEF RecordPeer, PairedRow
<1>7. \A r \in pairings' : r \in pairings \/ Acked(r.id, r.dh)
  BY <1>5, <1>6
<1> QED
  BY <1>2, <1>3, <1>7, QuietIs, OrdinaryStep DEF PhonesGo

LEMMA StepUnpair ==
  ASSUME Inv, NEW p \in Phones, Unpair(p)
  PROVE  Inv'
<1>1. \A r \in pairings' : r \in pairings
  BY DEF Unpair, RemoveRow
<1>2. RunsGo /\ LinksGo /\ PhonesGo /\ UNCHANGED filter /\ Quiet
  BY DEF Unpair, RunsGo, LinksGo, PhonesGo
<1> QED
  BY <1>1, <1>2, QuietIs, OrdinaryStep

LEMMA StepTick ==
  ASSUME Inv, Tick
  PROVE  Inv'
<1>1. RunsGo /\ LinksGo /\ PhonesGo
  BY DEF Tick, RunsGo, LinksGo, PhonesGo
<1>2. /\ now' \in Nat /\ now <= now' /\ UNCHANGED <<acks, filter, burned, company, known>>
      /\ pairings' = pairings
  BY DEF Tick, Inv, Agreed
<1> QED
  BY <1>1, <1>2, OrdinaryStep

\* The confirm is taken, or the attempt is burned.
LEMMA StepDrained ==
  ASSUME Inv, NEW c \in Ceremonies, Drained(c)
  PROVE  Inv'
<1>1. PICK x, where :
        /\ x = pc[c] /\ where \in {"burn", "gate"}
        /\ pc' = [pc EXCEPT ![c].at = where]
  BY DEF Drained, Goto
<1>2. x.at = "awaiting_confirm" /\ x.confirm # None /\ RunOk(x)
  BY <1>1 DEF Drained, At, Inv, Agreed, RunInv
<1>3. PICK y : y = [x EXCEPT !.at = where]
  OBVIOUS
<1>4. /\ y.at = where /\ y.qr = x.qr /\ y.guard = x.guard /\ y.confirm = x.confirm
      /\ IsRun(y)
  BY <1>1, <1>2, <1>3 DEF RunOk, IsRun, Pending
<1>5. RunOk(y) /\ Forward(x, y)
  BY <1>1, <1>2, <1>4 DEF RunOk, Forward, Pending, Past
<1>6. pc' = [pc EXCEPT ![c] = y]
  BY <1>1, <1>3
<1>7. RunsGo
  BY <1>1, <1>5, <1>6 DEF RunsGo
<1>8. UNCHANGED <<filter, pairings, phone, link>> /\ Quiet
  BY DEF Drained
<1> QED
  BY <1>7, <1>8, QuietIs, OrdinaryStep DEF LinksGo, PhonesGo

LEMMA ChunkSays ==
  ASSUME NEW chunk \in Chunks, chunk.messages # <<>>
  PROVE  chunk.messages[1] \in {Other} \cup Sent
BY DEF Chunks, Chunk, Part, Whole

LEMMA QueueGoes ==
  ASSUME Agreed, NEW c \in Ceremonies, NEW q \in Seq(Chunks),
         link' = [link EXCEPT ![c].in = q]
  PROVE  LinksGo
<1>1. PICK b, l : b = link[c] /\ l = [b EXCEPT !.in = q]
  OBVIOUS
<1>2. IsLink(b)
  BY <1>1 DEF Agreed, LinkInv
<1>3. IsLink(l)
  BY <1>1, <1>2 DEF IsLink
<1>4. link' = [link EXCEPT ![c] = l]
  BY <1>1
<1> QED
  BY <1>3, <1>4 DEF LinksGo

LEMMA HangUpGoes ==
  ASSUME Agreed, NEW c, link' = [link EXCEPT ![c].up = FALSE]
  PROVE  LinksGo
<1>1. CASE c \in Ceremonies
  <2>1. PICK no : no = FALSE
    OBVIOUS
  <2>2. PICK b, l : b = link[c] /\ l = [b EXCEPT !.up = no]
    OBVIOUS
  <2>3. IsLink(b)
    BY <1>1, <2>2 DEF Agreed, LinkInv
  <2>4. IsLink(l)
    BY <2>1, <2>2, <2>3 DEF IsLink
  <2>5. link' = [link EXCEPT ![c] = l]
    BY <2>1, <2>2
  <2> QED
    BY <1>1, <2>4, <2>5 DEF LinksGo
<1>2. CASE c \notin Ceremonies
  <2>1. link' = link
    BY <1>2 DEF Agreed
  <2> QED
    BY <2>1 DEF LinksGo
<1> QED
  BY <1>1, <1>2

LEMMA StepRecvChunk ==
  ASSUME Inv, NEW c \in Ceremonies, RecvChunk(c)
  PROVE  Inv'
<1> USE DEF Inv
<1>1. PICK x, l, chunk : x = pc[c] /\ l = link[c] /\ chunk = Head(l.in)
  OBVIOUS
<1>2. /\ x.at = "awaiting_confirm" /\ l.in # <<>>
      /\ UNCHANGED <<filter, pairings, phone>> /\ Quiet
  BY <1>1 DEF RecvChunk, At
<1>3. RunOk(x) /\ IsLink(l)
  BY <1>1 DEF Agreed, RunInv, LinkInv
<1>4. chunk \in Chunks /\ Tail(l.in) \in Seq(Chunks)
  BY <1>1, <1>2, <1>3 DEF IsLink
<1>5. CASE End(c, "invalid")
  BY <1>1, <1>2, <1>5, StepEnd
<1>6. CASE ~End(c, "invalid")
  <2> DEFINE had   == pc[c].confirm # None
             over  == had /\ pc[c].drained >= MaxDrain
             extra == Len(chunk.messages) > (IF had THEN 0 ELSE 1)
             burn  == over \/ (had /\ chunk.bad) \/ (extra /\ ~chunk.bad)
  <2>1. PICK drained, idle, confirm, at :
          /\ drained = IF had THEN x.drained + 1 ELSE x.drained
          /\ idle = chunk.idle
          /\ confirm = IF had \/ chunk.messages = <<>> THEN x.confirm ELSE chunk.messages[1]
          /\ at = IF burn THEN "burn" ELSE x.at
    OBVIOUS
  <2>2. /\ pc' = [pc EXCEPT ![c].drained = drained, ![c].idle = idle,
                            ![c].confirm = confirm, ![c].at = at]
        /\ link' = [link EXCEPT ![c].in = Tail(link[c].in)]
    BY <1>1, <1>6, <2>1 DEF RecvChunk
  <2>3. at \in {"awaiting_confirm", "burn"}
    BY <1>2, <2>1
  <2>4. confirm = x.confirm \/ (chunk.messages # <<>> /\ confirm = chunk.messages[1])
    BY <2>1
  <2>5. PICK y : y = [x EXCEPT !.drained = drained, !.idle = idle, !.confirm = confirm, !.at = at]
    OBVIOUS
  <2>6. pc' = [pc EXCEPT ![c] = y]
    BY <1>1, <2>2, <2>5
  <2>7. confirm \in {None, Other} \cup Sent
    BY <1>3, <1>4, <2>4, ChunkSays DEF RunOk
  <2>8. /\ IsRun(y) /\ y.at = at /\ y.qr = x.qr /\ y.guard = x.guard /\ y.confirm = confirm
    BY <1>2, <1>3, <2>3, <2>5 DEF RunOk, IsRun, Pending
  <2>9. RunOk(y) /\ Forward(x, y)
    BY <1>2, <2>3, <2>7, <2>8 DEF RunOk, Forward, Pending, Past
  <2>10. RunsGo
    BY <1>1, <2>6, <2>9 DEF RunsGo
  <2>11. LinksGo
    BY <1>1, <1>4, <2>2, QueueGoes
  <2> QED
    BY <1>2, <2>10, <2>11, QuietIs, OrdinaryStep DEF PhonesGo
<1> QED
  BY <1>5, <1>6

LEMMA StepLink ==
  ASSUME Inv, NEW c \in Ceremonies, StrayChunk(c) \/ LinkLost(c)
  PROVE  Inv'
<1>1. UNCHANGED <<filter, pairings, phone, pc>> /\ Quiet
  BY DEF StrayChunk, LinkLost
<1>2. ASSUME LinkLost(c) PROVE LinksGo
  BY <1>2, HangUpGoes DEF LinkLost, Inv
<1>3. ASSUME StrayChunk(c) PROVE LinksGo
  <2> link[c].peer \in Phones
    BY <1>3 DEF StrayChunk, Inv, Agreed, LinkInv, IsLink
  <2>1. PICK chunk \in {Chunk(TRUE, <<>>, TRUE), Part, Whole(Other)}
                         \cup {Whole(m) : m \in phone[link[c].peer].sent} :
          link' = [link EXCEPT ![c].in = Append(link[c].in, chunk)]
    BY <1>3 DEF StrayChunk, Other
  <2>2. chunk \in Chunks
    BY <1>3, <2>1 DEF Chunks, Sent
  <2>3. Append(link[c].in, chunk) \in Seq(Chunks)
    BY <2>2 DEF Inv, Agreed, LinkInv, IsLink
  <2> QED
    BY <2>1, <2>3, QueueGoes DEF Inv
<1> QED
  BY <1>1, <1>2, <1>3, QuietIs, OrdinaryStep DEF RunsGo, PhonesGo

\* The scan finds a phone.
LEMMA StepGattConnected ==
  ASSUME Inv, NEW c \in Ceremonies, NEW p \in Phones, GattConnected(c, p)
  PROVE  Inv'
<1>1. UNCHANGED <<filter, pairings>> /\ Quiet
  BY DEF GattConnected
<1>2. RunsGo
  <2>1. PICK x, deadline : x = pc[c] /\ deadline = now + ConfirmTimeout
    OBVIOUS
  <2>2. x.at = "qr_displayed" /\ RunOk(x)
    BY <2>1 DEF GattConnected, At, Inv, Agreed, RunInv
  <2>3. PICK y : y = [x EXCEPT !.at = "awaiting_confirm", !.deadline = deadline]
    OBVIOUS
  <2>4. /\ IsRun(y) /\ y.at = "awaiting_confirm" /\ y.qr = x.qr /\ y.guard = x.guard
        /\ y.confirm = x.confirm
    BY <2>2, <2>3 DEF RunOk, IsRun, Pending
  <2>5. RunOk(y) /\ Forward(x, y)
    BY <2>2, <2>4 DEF RunOk, Forward, Pending, Past
  <2>6. pc' = [pc EXCEPT ![c] = y]
    BY <2>1, <2>3 DEF GattConnected
  <2> QED
    BY <2>1, <2>5, <2>6 DEF RunsGo
<1>3. LinksGo
  <2>1. PICK yes : yes = TRUE
    OBVIOUS
  <2>2. PICK q \in Seq(Chunks) : q = <<>>
    <3>1. <<>> \in Seq(Chunks)
      OBVIOUS
    <3> QED
      BY <3>1
  <2>3. PICK o \in Seq(Acks) : o = <<>>
    <3>1. <<>> \in Seq(Acks)
      OBVIOUS
    <3> QED
      BY <3>1
  <2>4. PICK no : no = FALSE
    OBVIOUS
  <2>5. PICK b : b = [peer |-> None, up |-> no, in |-> q, out |-> o]
    OBVIOUS
  <2>6. b = NoLink
    BY <2>2, <2>3, <2>4, <2>5 DEF NoLink
  <2>7. b \in [peer : {None}, up : {no}, in : Seq(Chunks), out : Seq(Acks)]
    BY ONLY q \in Seq(Chunks), o \in Seq(Acks), <2>5
  <2>8. PICK l : l = [b EXCEPT !.peer = p, !.up = yes]
    OBVIOUS
  <2>9. l \in [peer : {l.peer}, up : {l.up}, in : Seq(Chunks), out : Seq(Acks)] /\ l.peer = p
    BY ONLY <2>7, <2>8
  <2>10. IsLink(l)
    BY <2>9 DEF IsLink
  <2>11. link' = [link EXCEPT ![c] = l]
    BY <2>1, <2>6, <2>8 DEF GattConnected
  <2> QED
    BY <2>10, <2>11 DEF LinksGo
<1>4. PhonesGo
  <2>1. PICK x : x = phone[p]
    OBVIOUS
  <2>2. x.at = "advertising" /\ PhoneOk(p, x)
    BY <2>1 DEF GattConnected, Inv, Agreed, PhoneInv
  <2>3. PICK z : z = [x EXCEPT !.at = "connected", !.link = c]
    OBVIOUS
  <2>4. /\ IsPhone(z) /\ z.at = "connected" /\ z.link = c /\ z.sent = x.sent
        /\ z.saved = x.saved /\ z.qr = x.qr
    BY <2>2, <2>3 DEF PhoneOk, IsPhone
  <2>5. PhoneOk(p, z)
    BY <2>2, <2>4 DEF PhoneOk
  <2>6. phone' = [phone EXCEPT ![p] = z]
    BY <2>1, <2>3 DEF GattConnected
  <2> QED
    BY <2>1, <2>4, <2>5, <2>6 DEF PhonesGo
<1> QED
  BY <1>1, <1>2, <1>3, <1>4, QuietIs, OrdinaryStep

-----------------------------------------------------------------------------
(* The phone's steps.                                                      *)

\* A phone that is back to idle keeps what it sent and what it stored.
LEMMA IdleIsPhone ==
  ASSUME NEW p \in Phones, NEW sent, NEW saved,
         \A m \in sent : \E k : m = ConfirmMessage(p, k),
         saved # None => AckedFor(p, saved),
         NEW z, z = [IdlePhone EXCEPT !.sent = sent, !.saved = saved]
  PROVE  PhoneOk(p, z) /\ z.sent = sent
<1>1. z = [at |-> "idle", qr |-> None, deadline |-> 0, link |-> None, sent |-> sent,
           saved |-> saved]
  BY DEF IdlePhone
<1>2. z.at = "idle" /\ z.sent = sent /\ z.saved = saved /\ z.link = None
  BY ONLY <1>1
<1>3. IsPhone(z)
  BY ONLY <1>1, <1>2 DEF IsPhone
<1> QED
  BY <1>2, <1>3 DEF PhoneOk

LEMMA HangUpsGo ==
  ASSUME Agreed, NEW p \in Phones, HangUp(p)
  PROVE  LinksGo
<1>1. CASE phone[p].link = None
  BY <1>1 DEF HangUp, LinksGo
<1>2. CASE phone[p].link # None
  BY <1>2, HangUpGoes DEF HangUp
<1> QED
  BY <1>1, <1>2

LEMMA FailsGo ==
  ASSUME Agreed, NEW p \in Phones, PhoneFails(p)
  PROVE  PhonesGo /\ LinksGo
<1>1. PICK sent, saved : sent = phone[p].sent /\ saved = phone[p].saved
  OBVIOUS
<1>2. PICK z : z = [IdlePhone EXCEPT !.sent = sent, !.saved = saved]
  OBVIOUS
<1>3. /\ \A m \in sent : \E k : m = ConfirmMessage(p, k)
      /\ saved # None => AckedFor(p, saved)
  BY <1>1 DEF Agreed, PhoneInv, PhoneOk
<1>4. PhoneOk(p, z) /\ z.sent = sent
  BY <1>2, <1>3, IdleIsPhone, Zenon
<1>5. phone' = [phone EXCEPT ![p] = z]
  BY <1>1, <1>2 DEF PhoneFails
<1>6. PhonesGo
  BY <1>1, <1>4, <1>5 DEF PhonesGo
<1> QED
  BY <1>6, HangUpsGo DEF PhoneFails

LEMMA StepPhoneGivesUp ==
  ASSUME Inv, NEW p \in Phones, PhoneGivesUp(p)
  PROVE  Inv'
<1>1. PhonesGo /\ LinksGo
  BY FailsGo DEF PhoneGivesUp, Inv
<1>2. UNCHANGED <<pc, filter, pairings>> /\ Quiet
  BY DEF PhoneGivesUp
<1> QED
  BY <1>1, <1>2, QuietIs, OrdinaryStep DEF RunsGo

LEMMA StepScanQr ==
  ASSUME Inv, NEW p \in Phones, NEW c \in Ceremonies, ScanQr(p, c)
  PROVE  Inv'
<1>1. PICK deadline, qr, x :
        /\ phone' = [phone EXCEPT ![p].at = "advertising", ![p].qr = pc[c].qr,
                                  ![p].deadline = deadline]
        /\ qr = pc[c].qr /\ x = phone[p]
  BY DEF ScanQr
<1>2. qr \in Qrs /\ PhoneOk(p, x)
  BY <1>1 DEF ScanQr, Inv, Agreed, RunInv, RunOk, IsRun, PhoneInv
<1>3. PICK z : z = [x EXCEPT !.at = "advertising", !.qr = qr, !.deadline = deadline]
  OBVIOUS
<1>4. /\ IsPhone(z) /\ z.at = "advertising" /\ z.sent = x.sent /\ z.saved = x.saved
  BY <1>2, <1>3 DEF PhoneOk, IsPhone
<1>5. PhoneOk(p, z)
  BY <1>2, <1>4 DEF PhoneOk
<1>6. phone' = [phone EXCEPT ![p] = z]
  BY <1>1, <1>3
<1>7. PhonesGo
  BY <1>1, <1>4, <1>5, <1>6 DEF PhonesGo
<1>8. UNCHANGED <<pc, filter, pairings, link>> /\ Quiet
  BY DEF ScanQr
<1> QED
  BY <1>7, <1>8, QuietIs, OrdinaryStep DEF RunsGo, LinksGo

\* An ack that verifies is one that was signed for this phone and this code.
LEMMA StepVerifyAck ==
  ASSUME Inv, NEW p \in Phones, VerifyAck(p)
  PROVE  Inv'
<1>1. UNCHANGED <<pc, filter, pairings>> /\ Quiet
  BY DEF VerifyAck
<1>2. PICK x, ack : x = phone[p] /\ ack = Head(link[x.link].out)
  OBVIOUS
<1>3. x.at = "verifying" /\ PhoneOk(p, x) /\ x.link \in Ceremonies
  BY <1>2 DEF VerifyAck, Inv, Agreed, PhoneInv, PhoneOk
<1>4. ack \in Acks
  BY <1>2, <1>3 DEF VerifyAck, Inv, Agreed, LinkInv, IsLink
<1>5. ASSUME AckVerifies(ack, x.qr, p) PROVE PhonesGo /\ LinksGo
  <2>1. PICK a \in acks : ack = AckMessage(a.nonce, a.id, a.dh)
    BY <1>4 DEF Acks
  <2>2. ack.nonce = a.nonce /\ ack.id = a.id /\ ack.dh = a.dh
    BY <2>1 DEF AckMessage
  <2>3. AckedFor(p, x.qr.nonce)
    BY <1>5, <2>2 DEF AckVerifies, AckedFor
  <2>4. PICK z : z = [x EXCEPT !.at = "saving"]
    OBVIOUS
  <2>5. /\ IsPhone(z) /\ z.at = "saving" /\ z.sent = x.sent /\ z.saved = x.saved
        /\ z.qr = x.qr
    BY <1>3, <2>4 DEF PhoneOk, IsPhone
  <2>6. PhoneOk(p, z)
    BY <1>3, <2>3, <2>5 DEF PhoneOk
  <2>7. phone' = [phone EXCEPT ![p] = z] /\ link' = link
    BY <1>2, <1>5, <2>4 DEF VerifyAck, PhoneGoto
  <2> QED
    BY <1>2, <2>5, <2>6, <2>7 DEF PhonesGo, LinksGo
<1>6. ASSUME ~AckVerifies(ack, x.qr, p) PROVE PhonesGo /\ LinksGo
  BY <1>2, <1>6, FailsGo DEF VerifyAck, Inv
<1> QED
  BY <1>1, <1>5, <1>6, QuietIs, OrdinaryStep DEF RunsGo

LEMMA StepSavePairing ==
  ASSUME Inv, NEW p \in Phones, SavePairing(p)
  PROVE  Inv'
<1>1. UNCHANGED <<pc, filter, pairings>> /\ Quiet
  BY DEF SavePairing
<1>2. CASE PhoneFails(p)
  BY <1>1, <1>2, FailsGo, QuietIs, OrdinaryStep DEF RunsGo, Inv
<1>3. CASE ~PhoneFails(p)
  <2>1. PICK sent, saved : sent = phone[p].sent /\ saved = phone[p].qr.nonce
    OBVIOUS
  <2>2. PICK z : z = [IdlePhone EXCEPT !.sent = sent, !.saved = saved]
    OBVIOUS
  <2>3. /\ \A m \in sent : \E k : m = ConfirmMessage(p, k)
        /\ AckedFor(p, saved)
    BY <2>1 DEF SavePairing, Inv, Agreed, PhoneInv, PhoneOk
  <2>4. PhoneOk(p, z) /\ z.sent = sent
    BY <2>2, <2>3, IdleIsPhone, Zenon
  <2>5. phone' = [phone EXCEPT ![p] = z] /\ HangUp(p)
    BY <1>3, <2>1, <2>2 DEF SavePairing
  <2>6. PhonesGo /\ LinksGo
    BY <2>1, <2>4, <2>5, HangUpsGo DEF PhonesGo, Inv
  <2> QED
    BY <1>1, <2>6, QuietIs, OrdinaryStep DEF RunsGo
<1> QED
  BY <1>2, <1>3

\* The confirm is on record before it can be in a queue.
LEMMA StepSendConfirm ==
  ASSUME Inv, NEW p \in Phones, SendConfirm(p)
  PROVE  Inv'
<1> USE DEF Inv
<1>1. UNCHANGED <<pc, filter, pairings>> /\ Quiet
  BY DEF SendConfirm
<1>2. PICK x, m, deadline :
        x = phone[p] /\ m = ConfirmMessage(p, x.qr.nonce) /\ deadline = now + ConfirmTimeout
  OBVIOUS
<1>3. x.at = "connected" /\ PhoneOk(p, x) /\ x.link \in Ceremonies
  BY <1>2 DEF SendConfirm, Agreed, PhoneInv, PhoneOk
<1>4. PICK c \in Ceremonies : c = x.link
  BY <1>3
<1>5. PICK z : z = [x EXCEPT !.at = "verifying", !.deadline = deadline, !.sent = x.sent \cup {m}]
  OBVIOUS
<1>6. /\ IsPhone(z) /\ z.at = "verifying" /\ z.sent = x.sent \cup {m} /\ z.saved = x.saved
      /\ z.qr = x.qr /\ z.link = c
  BY <1>3, <1>4, <1>5 DEF PhoneOk, IsPhone
<1>7. PhoneOk(p, z)
  BY <1>2, <1>3, <1>6 DEF PhoneOk
<1>8. phone' = [phone EXCEPT ![p] = z]
  BY <1>2, <1>5 DEF SendConfirm
<1>9. PhonesGo
  BY <1>2, <1>6, <1>7, <1>8 DEF PhonesGo
<1>10. Grows
  BY <1>1, <1>9, PhonesStep, QuietIs DEF Grows, Agreed
<1>11. m \in Sent'
  <2>1. m \in phone'[p].sent
    BY <1>6, <1>8 DEF Agreed
  <2> QED
    BY <2>1 DEF Sent
<1>12. PICK b, q : b = link[c] /\ link' = [link EXCEPT ![c].in = q]
                   /\ \E chunks \in {<<Whole(m)>>, <<Part, Whole(m)>>} :
                        q = IF b.up THEN b.in \o chunks ELSE b.in
  BY <1>2, <1>4 DEF SendConfirm
<1>13. IsLink(b)'
  BY <1>10, <1>12, LinkStays DEF Agreed, LinkInv
<1>14. q \in Seq(Chunks')
  <2>1. Whole(m) \in Chunks' /\ Part \in Chunks'
    BY <1>11 DEF Chunks
  <2>2. b.in \in Seq(Chunks')
    BY <1>13 DEF IsLink
  <2>3. \A chunks \in {<<Whole(m)>>, <<Part, Whole(m)>>} : chunks \in Seq(Chunks')
    <3> SUFFICES ASSUME NEW S, NEW w \in S, NEW h \in S
                 PROVE  <<w>> \in Seq(S) /\ <<h, w>> \in Seq(S)
      BY <2>1, Zenon
    <3> QED
      OBVIOUS
  <2> QED
    BY <1>12, <2>2, <2>3
<1>15. PICK l : l = [b EXCEPT !.in = q]
  OBVIOUS
<1>16. IsLink(l)'
  BY <1>13, <1>14, <1>15 DEF IsLink
<1>17. link' = [link EXCEPT ![c] = l]
  BY <1>12, <1>15
<1>18. /\ link' = [d \in Ceremonies |-> link'[d]]
       /\ \A d \in Ceremonies : IsLink(link'[d]) \/ LinkInv(d)'
  BY <1>16, <1>17 DEF Agreed, LinkInv
<1>19. RunsGo
  BY <1>1 DEF RunsGo
<1>20. Agreed'
  BY <1>1, <1>9, <1>10, <1>18, <1>19, RunsStep, PhonesStep, QuietIs, AgreedStep
<1>21. Memory'
  BY <1>1, <1>20, QuietIs, MemoryStep
<1> QED
  BY <1>20, <1>21

-----------------------------------------------------------------------------
(* The guard, the gate and the ack.                                        *)

LEMMA StepFilterDamaged ==
  ASSUME Inv, FilterDamaged
  PROVE  Inv'
<1> USE DEF Inv
<1>1. UNCHANGED <<pc, pairings, phone, link, now, acks, company, known>>
      /\ filter' = None /\ burned' = {}
  BY DEF FilterDamaged
<1>2. Grows
  BY <1>1 DEF Grows, Agreed
<1>3. RunsGo /\ LinksGo /\ PhonesGo
  BY <1>1 DEF RunsGo, LinksGo, PhonesGo
<1>4. Agreed'
  BY <1>1, <1>2, <1>3, RunsStep, LinksStep, PhonesStep, AgreedStep
<1> QED
  BY NoneIsNoFilter, <1>1, <1>4 DEF Memory, KnownInv, ReplayMemory, Running

\* Opening or rotating a filter forgets only what an older filter held.
LEMMA OpenRemembers ==
  ASSUME Memory, now \in Nat, filter \in Filters, filter # None,
         NEW b, b.made \in Nat, Remembers(filter, b)
  PROVE  Remembers(OpenGuard, b)
<1>1. CASE Aged(filter)
  <2>1. PICK f : f = FreshFilter
    OBVIOUS
  <2>2. f.made = now
    BY <2>1 DEF FreshFilter
  <2>3. now > filter.made
    BY <1>1, PairingBounds DEF Aged, Filters
  <2>4. Remembers(f, b)
    BY <2>2, <2>3 DEF Remembers, Filters
  <2> QED
    BY <1>1, <2>1, <2>4 DEF OpenGuard
<1>2. CASE ~Aged(filter)
  BY <1>2 DEF OpenGuard
<1> QED
  BY <1>1, <1>2

LEMMA OpenIsFilter ==
  ASSUME Memory, now \in Nat
  PROVE  OpenGuard \in Filters /\ OpenGuard.made <= now
<1>1. FreshFilter \in Filters /\ FreshFilter.made <= now
  BY DEF FreshFilter, Filters
<1> QED
  BY <1>1 DEF OpenGuard, Memory

LEMMA MarkIsFilter ==
  ASSUME now \in Nat, NEW g \in Filters, g.made <= now, NEW n \in Nonces
  PROVE  /\ Rotated(g) \in Filters /\ Marked(g, n) \in Filters
         /\ Marked(g, n).made = Rotated(g).made
         /\ Marked(g, n).seen = Rotated(g).seen \cup {n}
         /\ g.made <= Rotated(g).made /\ Rotated(g).made <= now
         /\ Rotated(g).made = g.made => Rotated(g) = g
<1>1. FreshFilter \in Filters /\ FreshFilter.made = now
  BY DEF FreshFilter, Filters
<1>2. Aged(g) => now # g.made
  BY PairingBounds DEF Aged, Filters
<1>3. PICK r : r = Rotated(g)
  OBVIOUS
<1>4. /\ r \in Filters /\ g.made <= r.made /\ r.made <= now
      /\ r.made = g.made => r = g
  BY <1>1, <1>2, <1>3 DEF Rotated, Filters
<1>5. PICK m : m = [r EXCEPT !.seen = r.seen \cup {n}]
  OBVIOUS
<1>6. m \in Filters /\ m.made = r.made /\ m.seen = r.seen \cup {n}
  BY <1>4, <1>5 DEF Filters
<1>7. m = Marked(g, n)
  BY <1>3, <1>5 DEF Marked
<1> QED
  BY <1>3, <1>4, <1>6, <1>7

LEMMA StepBeginPairing ==
  ASSUME Inv, NEW c \in Ceremonies, NEW n \in Nonces, BeginPairing(c, n)
  PROVE  Inv'
<1> USE DEF Inv
<1>1. /\ pc[c].at = "unpaired"
      /\ UNCHANGED <<filter, pairings, phone, link, now, acks, burned>>
  BY DEF BeginPairing, At
<1>2. now \in Nat
  BY DEF Agreed
<1>3. PICK qr, guard, deadline, yes :
        /\ qr = PairingQr(n) /\ guard = OpenGuard /\ deadline = now + QrTtl /\ yes = TRUE
  OBVIOUS
<1>4. PICK at, ended :
        /\ at = IF FieldsValid(qr) THEN "qr_displayed" ELSE "over"
        /\ ended = IF FieldsValid(qr) THEN "none" ELSE "bad_qr"
  OBVIOUS
<1>5. PICK y : y = [Unpaired EXCEPT !.at = at, !.ended = ended, !.qr = qr, !.guard = guard,
                                    !.deadline = deadline]
  OBVIOUS
<1>6. pc' = [pc EXCEPT ![c] = y]
  BY <1>3, <1>4, <1>5 DEF BeginPairing
<1> y = [at |-> at, qr |-> qr, guard |-> guard, deadline |-> deadline,
         confirm |-> None, idle |-> yes, drained |-> 0, ended |-> ended]
  BY <1>3, <1>5 DEF Unpaired
<1>7. /\ y.at = at /\ y.qr = qr /\ y.guard = guard /\ y.confirm = None
      /\ at \in {"qr_displayed", "over"}
  BY <1>4
<1>8. qr \in Qrs /\ guard \in Filters /\ guard.made <= now
  <2>1. qr \in Qrs
    BY <1>2, <1>3, PairingBounds DEF Qrs, PairingQr
  <2> QED
    BY <1>2, <1>3, <2>1, OpenIsFilter
<1>9. IsRun(y)
  BY <1>7, <1>8 DEF IsRun, Pending, Past
<1>10. RunOk(y)
  BY <1>7, <1>9 DEF RunOk
<1>11. /\ pc' = [d \in Ceremonies |-> pc'[d]]
       /\ \A d \in Ceremonies : pc'[d] = IF d = c THEN y ELSE pc[d]
  BY <1>6 DEF Agreed
<1>12. Agreed'
  <2>1. Grows
    BY <1>1, <1>2 DEF Grows
  <2>2. \A d \in Ceremonies : RunOk(pc'[d])
    BY <1>10, <1>11 DEF Agreed, RunInv
  <2>3. \A d \in Ceremonies : pc[d].at \in Past =>
          pc'[d].at \in Past /\ pc'[d].qr = pc[d].qr
    BY <1>1, <1>11 DEF Past
  <2>4. LinksGo /\ PhonesGo
    BY <1>1 DEF LinksGo, PhonesGo
  <2> QED
    BY <1>1, <1>11, <2>1, <2>2, <2>3, <2>4, LinksStep, PhonesStep, AgreedStep
<1>13. /\ \A d \in Ceremonies : company'[d] =
             IF d = c THEN {e \in Ceremonies : Running(e)}
             ELSE IF Running(d) THEN company[d] \cup {c} ELSE company[d]
       /\ company' = [d \in Ceremonies |-> company'[d]]
  BY DEF BeginPairing
<1>14. /\ known' = [d \in Ceremonies |-> known'[d]]
       /\ \A d \in Ceremonies : d # c => known'[d] = known[d]
       /\ known'[c] = {[nonce |-> b.nonce, made |-> b.made] :
                         b \in {b \in burned : company[b.by] = {}}}
  BY DEF BeginPairing, Memory
<1>15. \A b \in burned : Alone(b) => Remembers(guard, b)
  <2> SUFFICES ASSUME NEW b \in burned, Alone(b) PROVE Remembers(guard, b)
    OBVIOUS
  <2>1. Remembers(filter, b) /\ b.made \in Nat
    BY DEF Memory, BurnInv
  <2>2. filter # None /\ filter \in Filters
    BY DEF Memory
  <2> QED
    BY <1>2, <1>3, <2>1, <2>2, OpenRemembers
<1>16. \A d, e \in Ceremonies : d # e /\ Running(d)' /\ Running(e)' => d \in company'[e]
  BY <1>11, <1>13 DEF Memory, Running
<1>17. \A b \in burned' : BurnInv(b)'
  <2> SUFFICES ASSUME NEW b \in burned PROVE BurnInv(b)'
    BY <1>1
  <2>1. BurnInv(b)
    BY DEF Memory
  <2>2. b.by \in Ceremonies /\ b.by # c /\ pc'[b.by].at \in Past /\ b.made \in Nat
    BY <1>1, <1>11, <2>1 DEF BurnInv, Past
  <2>3. Alone(b)' => Alone(b)
    BY <1>13, <2>2 DEF Alone
  <2>4. ASSUME Alone(b) PROVE \A d \in Ceremonies :
          pc'[d].at \in Pending => Remembers(pc'[d].guard, b)
    BY <1>7, <1>11, <1>15, <2>1, <2>4 DEF BurnInv
  <2>5. Alone(b) => Remembers(filter', b)
    BY <1>1, <2>1 DEF BurnInv
  <2> QED
    BY <2>2, <2>3, <2>4, <2>5 DEF BurnInv
<1>18. \A d \in Ceremonies : KnownInv(d)'
  <2> SUFFICES ASSUME NEW d \in Ceremonies PROVE KnownInv(d)'
    OBVIOUS
  <2>1. CASE d # c
    BY <1>11, <1>14, <2>1 DEF Memory, KnownInv
  <2>2. CASE d = c
    <3>1. \A k \in known'[c] : Remembers(guard, k) /\ k.made \in Nat
      <4> SUFFICES ASSUME NEW k \in known'[c] PROVE Remembers(guard, k) /\ k.made \in Nat
        OBVIOUS
      <4>1. PICK b \in burned : Alone(b) /\ k = [nonce |-> b.nonce, made |-> b.made]
        BY <1>14 DEF Alone
      <4>2. k.nonce = b.nonce /\ k.made = b.made /\ b.made \in Nat
        BY <4>1 DEF Memory, BurnInv
      <4> QED
        BY <1>15, <4>1, <4>2 DEF Remembers
    <3>2. pc'[c].at # "verify" /\ pc'[c].guard = guard
      BY <1>7, <1>11
    <3> QED
      BY <2>2, <3>1, <3>2 DEF KnownInv
  <2> QED
    BY <2>1, <2>2
<1>19. ReplayMemory'
  <2> SUFFICES ASSUME NEW a \in acks
               PROVE  [nonce |-> a.nonce, made |-> a.made] \notin known'[a.by]
    BY <1>1 DEF ReplayMemory
  <2>1. a.by \in Ceremonies /\ a.by # c
    BY <1>1 DEF Agreed, AckInv, Past
  <2> QED
    BY <1>14, <2>1 DEF Memory, ReplayMemory
<1>20. Memory'
  BY <1>1, <1>13, <1>14, <1>16, <1>17, <1>18, <1>19 DEF Memory
<1> QED
  BY <1>12, <1>20

\* A ceremony that passes the gate, or ends there, leaves its mark in its own
\* guard; the file has the mark as well when the flush goes well.
LEMMA StepReplayGate ==
  ASSUME Inv, NEW c \in Ceremonies, ReplayGate(c)
  PROVE  Inv'
<1> USE DEF Inv
<1>1. PICK x, g, n : x = pc[c] /\ g = x.guard /\ n = x.qr.nonce
  OBVIOUS
<1>2. /\ x.at \in {"gate", "burn"}
      /\ UNCHANGED <<pairings, phone, now, acks, company, known>>
  BY <1>1 DEF ReplayGate
<1>3. now \in Nat /\ RunOk(x)
  BY <1>1 DEF Agreed, RunInv
<1>4. g \in Filters /\ g.made <= now /\ x.qr \in Qrs /\ n \in Nonces
  BY <1>1, <1>2, <1>3 DEF RunOk, IsRun, Qrs
<1>5. PICK r, marked : r = Rotated(g) /\ marked = Marked(g, n)
  OBVIOUS
<1>6. /\ r \in Filters /\ marked \in Filters
      /\ marked.made = r.made /\ marked.seen = r.seen \cup {n}
      /\ g.made <= r.made /\ r.made <= now
      /\ r.made = g.made => r = g
  BY <1>3, <1>4, <1>5, MarkIsFilter
<1>7. PICK how : how = IF n \in r.seen THEN "replayed" ELSE "invalid"
  OBVIOUS
<1>8. PICK z : z = IF n \notin r.seen /\ x.at = "gate" THEN [x EXCEPT !.at = "verify"]
                   ELSE Over(c, how)
  OBVIOUS
<1>9. PICK y : y = [z EXCEPT !.guard = marked]
  OBVIOUS
<1>10. pc' = [pc EXCEPT ![c] = y]
  BY <1>1, <1>5, <1>7, <1>8, <1>9 DEF ReplayGate, At
<1>11. /\ RunOk(z) /\ z.qr = x.qr /\ z.at \in {"verify", "paired", "over"}
       /\ z.at = "verify" => n \notin r.seen
  <2>1. CASE n \notin r.seen /\ x.at = "gate"
    <3>1. z = [x EXCEPT !.at = "verify"]
      BY <1>8, <2>1
    <3>2. IsRun(z) /\ z.at = "verify" /\ z.qr = x.qr /\ z.confirm = x.confirm
      BY <1>2, <1>3, <3>1 DEF RunOk, IsRun, Past
    <3> QED
      BY <1>3, <2>1, <3>2 DEF RunOk
  <2>2. CASE ~(n \notin r.seen /\ x.at = "gate")
    <3>1. z = Over(c, how)
      BY <1>8, <2>2
    <3>2. RunOk(z) /\ Forward(x, z) /\ z.at \in {"paired", "over"}
      BY <1>1, <1>2, <3>1, OverIsRun
    <3> QED
      BY <3>2 DEF Forward
  <2> QED
    BY <2>1, <2>2
<1>12. /\ IsRun(y) /\ y.at = z.at /\ y.qr = x.qr /\ y.guard = marked
       /\ y.confirm = z.confirm
  BY <1>6, <1>9, <1>11 DEF RunOk, IsRun, Pending, Past
<1>13. RunOk(y)
  BY <1>11, <1>12 DEF RunOk
<1>14. /\ pc' = [d \in Ceremonies |-> pc'[d]]
       /\ \A d \in Ceremonies : pc'[d] = IF d = c THEN y ELSE pc[d]
  BY <1>10 DEF Agreed
<1>15. y.at \in Past /\ x.at \in Pending
  BY <1>2, <1>11, <1>12 DEF Past, Pending
<1>16. Agreed'
  <2>1. Grows
    BY <1>2, <1>3 DEF Grows
  <2>2. \A d \in Ceremonies : RunOk(pc'[d])
    BY <1>13, <1>14 DEF Agreed, RunInv
  <2>3. \A d \in Ceremonies : pc[d].at \in Past =>
          pc'[d].at \in Past /\ pc'[d].qr = pc[d].qr
    BY <1>1, <1>12, <1>14, <1>15
  <2>4. link' = link \/ link' = Down(c)
    BY DEF ReplayGate
  <2>5. LinksGo /\ PhonesGo
    BY <1>2, <2>4, DownGoes DEF LinksGo, PhonesGo
  <2> QED
    BY <1>2, <1>14, <2>1, <2>2, <2>3, <2>5, LinksStep, PhonesStep, AgreedStep
\* What the guard remembered the marked filter remembers.
<1>17. \A b : b.made \in Nat /\ Remembers(g, b) => Remembers(marked, b)
  BY <1>4, <1>6 DEF Remembers, Filters
<1>18. PICK new : new = [by |-> c, nonce |-> n, made |-> marked.made]
  OBVIOUS
<1>19. \/ filter' = marked /\ burned' = burned \cup {new}
       \/ filter' = filter /\ burned' = burned
  BY <1>1, <1>5, <1>18 DEF ReplayGate, Flush
<1>20. /\ filter' \in Filters \cup {None}
       /\ filter' \in Filters => filter'.made <= now'
       /\ filter' = None => burned' = {}
  BY NoneIsNoFilter, <1>2, <1>6, <1>19 DEF Memory
<1>21. \A d \in Ceremonies : Running(d)' => Running(d)
  BY <1>1, <1>2, <1>14 DEF Running
<1>22. ASSUME NEW b \in burned PROVE BurnInv(b)'
  <2>1. BurnInv(b)
    BY DEF Memory
  <2>2. b.by \in Ceremonies /\ pc'[b.by].at \in Past /\ b.made \in Nat
    BY <1>14, <1>15, <2>1 DEF BurnInv
  <2>3. Alone(b)' <=> Alone(b)
    BY <1>2 DEF Alone
  <2>4. ASSUME Alone(b) PROVE Remembers(filter', b)
    BY <1>1, <1>15, <1>17, <1>19, <2>1, <2>2, <2>4 DEF BurnInv
  <2>5. ASSUME Alone(b), NEW d \in Ceremonies, pc'[d].at \in Pending
        PROVE  Remembers(pc'[d].guard, b)
    <3>1. pc'[d] = pc[d]
      BY <1>14, <1>15, <2>5 DEF Past, Pending
    <3> QED
      BY <2>1, <2>5, <3>1 DEF BurnInv
  <2> QED
    BY <2>2, <2>3, <2>4, <2>5 DEF BurnInv
\* Had another ceremony been running, this one would not be alone.
<1>23. ASSUME filter' = marked PROVE BurnInv(new)'
  <2>1. new.by = c /\ new.nonce = n /\ new.made = marked.made /\ new.made \in Nat
    BY <1>6, <1>18 DEF Filters
  <2>2. Remembers(filter', new)
    BY <1>6, <1>23, <2>1 DEF Remembers
  <2>3. ASSUME Alone(new)', NEW d \in Ceremonies, pc'[d].at \in Pending
        PROVE  FALSE
    <3>1. d # c /\ pc'[d] = pc[d]
      BY <1>14, <1>15, <2>3 DEF Past, Pending
    <3>2. Running(d) /\ Running(c)
      BY <1>1, <1>15, <2>3, <3>1 DEF Running, Pending
    <3>3. d \in company[c]
      BY <3>1, <3>2 DEF Memory
    <3> QED
      BY <1>2, <2>1, <2>3, <3>3 DEF Alone
  <2>4. pc'[c].at \in Past
    BY <1>14, <1>15
  <2> QED
    BY <2>1, <2>2, <2>3, <2>4 DEF BurnInv
<1>24. \A b \in burned' : BurnInv(b)'
  BY <1>19, <1>22, <1>23
<1>25. \A d \in Ceremonies : KnownInv(d)'
  <2> SUFFICES ASSUME NEW d \in Ceremonies PROVE KnownInv(d)'
    OBVIOUS
  <2>1. KnownInv(d)
    BY DEF Memory
  <2>2. CASE d # c
    BY <1>2, <1>14, <2>1, <2>2 DEF KnownInv
  <2>3. CASE d = c
    <3>1. ASSUME y.at = "verify", [nonce |-> n, made |-> marked.made] \in known[c]
          PROVE  FALSE
      <4>1. PICK k \in known[c] : k.nonce = n /\ k.made = marked.made
        BY <3>1
      <4>2. Remembers(g, k) /\ k.made \in Nat
        BY <1>1, <1>15, <2>1, <2>3 DEF KnownInv
      <4>3. r = g /\ n \in g.seen
        BY <1>4, <1>6, <4>1, <4>2 DEF Remembers, Filters
      <4> QED
        BY <1>11, <1>12, <3>1, <4>3
    <3>2. pc'[c] = y /\ pc'[c].at \notin Pending
      BY <1>14, <1>15 DEF Past, Pending
    <3>3. y.at = "verify" => [nonce |-> pc'[c].qr.nonce, made |-> pc'[c].guard.made] \notin known'[c]
      BY <1>1, <1>2, <1>12, <3>1, <3>2
    <3> QED
      BY <1>2, <2>1, <2>3, <3>2, <3>3 DEF KnownInv
  <2> QED
    BY <2>2, <2>3
<1>26. ReplayMemory'
  BY <1>2 DEF Memory, ReplayMemory
<1>27. Memory'
  BY <1>2, <1>20, <1>21, <1>24, <1>25, <1>26 DEF Memory
<1> QED
  BY <1>16, <1>27

\* A confirm that verifies was sent by the phone it names for the code shown.
LEMMA ConfirmWasSent ==
  ASSUME Agreed, NEW m \in {Other} \cup Sent, NEW n, ConfirmVerifies(m, n)
  PROVE  m.id \in Phones /\ ConfirmMessage(m.id, n) \in phone[m.id].sent
<1>1. m # Other
  BY DEF ConfirmVerifies, Other
<1>2. PICK p \in Phones : m \in phone[p].sent
  BY <1>1 DEF Sent
<1>3. PICK k : m = ConfirmMessage(p, k)
  BY <1>2 DEF Agreed, PhoneInv, PhoneOk
<1>4. m.id = p /\ m.dh = DhOf(p) /\ m.sig = Sign(p, PairingPayload(k, p, DhOf(p)))
  BY <1>3 DEF ConfirmMessage
<1>5. Sign(p, PairingPayload(k, p, DhOf(p))) = Sign(p, PairingPayload(n, p, DhOf(p)))
  BY <1>4 DEF ConfirmVerifies
<1>6. PairingPayload(k, p, DhOf(p)) = PairingPayload(n, p, DhOf(p))
  BY <1>5 DEF Sign
<1>7. k = n
  BY <1>6 DEF PairingPayload
<1> QED
  BY <1>2, <1>3, <1>4, <1>7

\* The ack is on record before it can be on the link.
LEMMA StepSendAck ==
  ASSUME Inv, NEW c \in Ceremonies, SendAck(c)
  PROVE  Inv'
<1> USE DEF Inv
<1>1. PICK x, m, n, b : x = pc[c] /\ m = x.confirm /\ n = x.qr.nonce /\ b = link[c]
  OBVIOUS
<1>2. /\ x.at = "verify" /\ ConfirmVerifies(m, n)
      /\ UNCHANGED <<filter, pairings, phone, now, burned, company, known>>
  BY <1>1 DEF SendAck, At
<1>3. now \in Nat /\ RunOk(x) /\ IsLink(b)
  BY <1>1 DEF Agreed, RunInv, LinkInv
<1>4. PICK a : a = [by |-> c, nonce |-> n, id |-> m.id, dh |-> m.dh, made |-> x.guard.made]
  OBVIOUS
<1>5. /\ acks' = acks \cup {a}
      /\ a.by = c /\ a.nonce = n /\ a.id = m.id /\ a.dh = m.dh /\ a.made = x.guard.made
  BY <1>1, <1>4 DEF SendAck
<1>6. PICK msg, sent : msg = AckMessage(n, m.id, m.dh) /\ sent = Append(b.out, msg)
  OBVIOUS
<1>7. a.id \in Phones /\ ConfirmMessage(a.id, a.nonce) \in phone[a.id].sent
  BY <1>1, <1>2, <1>3, <1>5, ConfirmWasSent DEF RunOk
<1>8. Grows
  BY <1>2, <1>3, <1>5 DEF Grows
<1>9. Acked(m.id, m.dh)'
  BY <1>5 DEF Acked
<1>10. sent \in Seq(Acks')
  <2>1. msg \in Acks'
    BY <1>5, <1>6 DEF Acks
  <2>2. b.out \in Seq(Acks')
    BY <1>3, <1>8, LinkStays DEF IsLink
  <2> QED
    BY <1>6, <2>1, <2>2
<1>11. PICK y : /\ pc' = [pc EXCEPT ![c] = y]
                /\ \/ y = [x EXCEPT !.at = "record"]
                   \/ y = Over(c, "ack_failed")
  BY <1>1 DEF SendAck, Goto
<1>12. /\ RunOk(y)' /\ Forward(x, y) /\ y.at \in Past
  <2>1. CASE y = [x EXCEPT !.at = "record"]
    <3>1. /\ IsRun(y) /\ y.at = "record" /\ y.qr = x.qr /\ y.guard = x.guard
          /\ y.confirm = x.confirm
      BY <1>2, <1>3, <2>1 DEF RunOk, IsRun, Past
    <3>2. RunOk(x)'
      BY <1>3, <1>8, RunStays
    <3>3. IsRun(y)'
      BY <1>2, <3>1 DEF IsRun
    <3>4. RunOk(y)'
      BY <1>1, <1>2, <1>9, <3>1, <3>2, <3>3 DEF RunOk
    <3> QED
      BY <1>2, <3>1, <3>4 DEF Forward, Past, Pending
  <2>2. CASE y = Over(c, "ack_failed")
    <3>1. RunOk(y) /\ Forward(x, y) /\ y.at \in {"paired", "over"}
      BY <1>1, <1>2, <2>2, OverIsRun
    <3> QED
      BY <1>8, <3>1, RunStays DEF Past
  <2> QED
    BY <1>11, <2>1, <2>2
<1>13. /\ pc' = [d \in Ceremonies |-> pc'[d]]
       /\ \A d \in Ceremonies : pc'[d] = IF d = c THEN y ELSE pc[d]
  BY <1>11 DEF Agreed
<1>14. PICK down : down = [link[c] EXCEPT !.up = FALSE, !.in = <<>>]
  OBVIOUS
<1>15. IsLink(down)' /\ IsLink(b)'
  BY <1>3, <1>8, <1>14, DownIsLink, LinkStays
<1>16. PICK l : /\ link' = [link EXCEPT ![c] = l]
                /\ \/ l = [b EXCEPT !.out = sent]
                   \/ l = down
                   \/ l = [down EXCEPT !.out = sent]
  <2>1. CASE link' = [link EXCEPT ![c].out = sent]
    BY <1>1, <2>1
  <2>2. CASE link' = Down(c)
    BY <1>14, <2>2 DEF Down, Agreed
  <2>3. CASE link' = [Down(c) EXCEPT ![c].out = sent]
    <3>1. Down(c) = [link EXCEPT ![c] = down]
      BY <1>14 DEF Down, Agreed
    <3>2. link' = [link EXCEPT ![c] = [down EXCEPT !.out = sent]]
      BY <2>3, <3>1 DEF Agreed
    <3> QED
      BY <3>2
  <2>4. \/ link' = [link EXCEPT ![c].out = sent]
        \/ link' = Down(c)
        \/ link' = [Down(c) EXCEPT ![c].out = sent]
    <3>1. PICK delivered : delivered = [link EXCEPT ![c].out = sent]
      OBVIOUS
    <3>2. delivered[c] = [b EXCEPT !.out = sent]
      BY <1>1, <3>1 DEF Agreed
    <3>3. delivered[c].out = sent
      BY <1>3, <3>2 DEF IsLink
    <3>4. \/ link' = delivered
          \/ link' \in {Down(c), [Down(c) EXCEPT ![c].out = delivered[c].out]}
      BY <1>1, <1>6, <3>1 DEF SendAck
    <3> QED
      BY <3>1, <3>3, <3>4
  <2> QED
    BY <2>1, <2>2, <2>3, <2>4
<1>17. IsLink(l)'
  BY <1>10, <1>15, <1>16 DEF IsLink
<1>18. /\ link' = [d \in Ceremonies |-> link'[d]]
       /\ \A d \in Ceremonies : IsLink(link'[d]) \/ LinkInv(d)'
  BY <1>16, <1>17 DEF Agreed, LinkInv
<1>19. \A d \in Ceremonies : RunOk(pc'[d]) \/ RunInv(d)'
  BY <1>12, <1>13 DEF Agreed, RunInv
<1>20. \A d \in Ceremonies : pc[d].at \in Past =>
         pc'[d].at \in Past /\ pc'[d].qr = pc[d].qr
  BY <1>1, <1>12, <1>13 DEF Forward
<1>21. AckInv(a)'
  BY <1>1, <1>2, <1>5, <1>7, <1>12, <1>13 DEF AckInv, Forward
<1>22. PhonesGo
  BY <1>2 DEF PhonesGo
<1>23. Agreed'
  BY <1>2, <1>5, <1>8, <1>13, <1>18, <1>19, <1>20, <1>21, <1>22, PhonesStep, AgreedStep
<1>24. Memory'
  <2>1. [nonce |-> a.nonce, made |-> a.made] \notin known[a.by]
    BY <1>1, <1>2, <1>5 DEF Memory, KnownInv
  <2>2. \A d \in Ceremonies : pc'[d] = pc[d] \/ Forward(pc[d], pc'[d])
    BY <1>1, <1>12, <1>13
  <2> QED
    BY <1>2, <1>3, <1>5, <1>23, <2>1, <2>2, MemoryStep
<1> QED
  BY <1>23, <1>24

-----------------------------------------------------------------------------
(* The theorems.                                                           *)

LEMMA InvInit ==
  ASSUME Init
  PROVE  Inv
<1> USE DEF Init
<1>1. \A c \in Ceremonies : RunInv(c)
  <2>1. PICK u, yes : u = Unpaired /\ yes = TRUE
    OBVIOUS
  <2>2. u = [at |-> "unpaired", qr |-> None, guard |-> None, deadline |-> 0,
             confirm |-> None, idle |-> yes, drained |-> 0, ended |-> "none"]
    BY <2>1 DEF Unpaired
  <2>3. u.at = "unpaired" /\ u.qr = None /\ u.confirm = None
    BY ONLY <2>2
  <2>4. IsRun(u)
    BY ONLY <2>2, <2>3 DEF IsRun
  <2>5. RunOk(u)
    BY <2>3, <2>4 DEF RunOk
  <2> QED
    BY <2>1, <2>5 DEF RunInv
<1>2. \A c \in Ceremonies : LinkInv(c)
  <2>1. PICK b, no : b = NoLink /\ no = FALSE
    OBVIOUS
  <2>2. PICK q \in Seq(Chunks), o \in Seq(Acks) : q = <<>> /\ o = <<>>
    <3>1. <<>> \in Seq(Chunks) /\ <<>> \in Seq(Acks)
      OBVIOUS
    <3> QED
      BY <3>1
  <2>3. b = [peer |-> None, up |-> no, in |-> q, out |-> o]
    BY <2>1, <2>2 DEF NoLink
  <2>4. b \in [peer : {b.peer}, up : {b.up}, in : Seq(Chunks), out : Seq(Acks)] /\ b.up = no
    BY ONLY q \in Seq(Chunks), o \in Seq(Acks), <2>3
  <2>5. IsLink(b)
    BY <2>1, <2>4 DEF IsLink
  <2> QED
    BY <2>1, <2>5 DEF LinkInv
<1>3. \A p \in Phones : PhoneInv(p)
  <2> SUFFICES ASSUME NEW p \in Phones PROVE PhoneInv(p)
    OBVIOUS
  <2>1. PICK sent, z : sent = {} /\ z = IdlePhone
    OBVIOUS
  <2>2. z = [at |-> "idle", qr |-> None, deadline |-> 0, link |-> None, sent |-> sent,
             saved |-> None]
    BY <2>1 DEF IdlePhone
  <2>3. z.at = "idle" /\ z.sent = {} /\ z.saved = None /\ IsPhone(z)
    BY <2>1, <2>2 DEF IsPhone
  <2>4. PhoneOk(p, z)
    BY <2>3 DEF PhoneOk
  <2> QED
    BY <2>1, <2>4 DEF PhoneInv
<1>4. Agreed
  BY <1>1, <1>2, <1>3 DEF Agreed
<1>5. \A c \in Ceremonies : pc[c].at = "unpaired"
  BY DEF Unpaired
<1>6. Memory
  BY <1>5, NoneIsNoFilter DEF Memory, KnownInv, ReplayMemory, Running, Pending
<1> QED
  BY <1>4, <1>6 DEF Inv

LEMMA InvNext ==
  ASSUME Inv, [Next]_vars
  PROVE  Inv'
<1>1. CASE UNCHANGED vars
  <2>1. RunsGo /\ LinksGo /\ PhonesGo
    BY <1>1 DEF vars, RunsGo, LinksGo, PhonesGo
  <2>2. /\ now' \in Nat /\ now <= now' /\ pairings' = pairings
        /\ UNCHANGED <<acks, filter, burned, company, known>>
    BY <1>1 DEF vars, Inv, Agreed
  <2> QED
    BY <2>1, <2>2, OrdinaryStep
<1>2. ASSUME NEW c \in Ceremonies, NEW n \in Nonces, BeginPairing(c, n) PROVE Inv'
  BY <1>2, StepBeginPairing
<1>3. ASSUME NEW c \in Ceremonies, NEW p \in Phones, GattConnected(c, p) PROVE Inv'
  BY <1>3, StepGattConnected
<1>4. ASSUME NEW c \in Ceremonies, Own(c) PROVE Inv'
  BY <1>4, StepEnds, StepRecvChunk, StepDrained, StepReplayGate, StepSendAck, StepRecordPeer
     DEF Own
<1>5. ASSUME NEW c \in Ceremonies, Crash(c) \/ StrayChunk(c) \/ LinkLost(c) PROVE Inv'
  BY <1>5, StepEnds, StepLink
<1>6. ASSUME NEW p \in Phones, NEW c \in Ceremonies, ScanQr(p, c) PROVE Inv'
  BY <1>6, StepScanQr
<1>7. ASSUME NEW p \in Phones,
             \/ SendConfirm(p) \/ VerifyAck(p) \/ SavePairing(p)
             \/ PhoneGivesUp(p) \/ Unpair(p)
      PROVE  Inv'
  BY <1>7, StepSendConfirm, StepVerifyAck, StepSavePairing, StepPhoneGivesUp, StepUnpair
<1>8. CASE FilterDamaged \/ Tick
  BY <1>8, StepFilterDamaged, StepTick
<1> QED
  BY <1>1, <1>2, <1>3, <1>4, <1>5, <1>6, <1>7, <1>8 DEF Next

\* The inductive invariant: what each run, link and phone holds is justified
\* by what was sent and acked, and the filters remember what was burned.
THEOREM Invariance ==
  Spec => []Inv
<1>1. Init => Inv
  BY InvInit
<1>2. Inv /\ [Next]_vars => Inv'
  BY InvNext
<1> QED
  BY <1>1, <1>2, PTL DEF Spec

\* The PC and the phones agree on every pairing: its row stands for an ack,
\* an ack for a confirm of the code that was shown, and a phone's pairing for
\* an ack to that phone (run_pairing, PendingPairing).
THEOREM PairingAgreement ==
  Spec => []Agreement
<1>1. Inv => Agreement
  BY DEF Inv, Agreed, Agreement, Acked, AckedFor, AckInv, PhoneInv, PhoneOk
<1> QED
  BY <1>1, Invariance, PTL

\* No ceremony acks a nonce that an earlier one, running alone, burned into
\* the filter still in use (NonceGuard::record_and_check and open).
THEOREM BurnedNoncesAreRefused ==
  Spec => []ReplayMemory
<1>1. Inv => ReplayMemory
  BY DEF Inv, Memory
<1> QED
  BY <1>1, Invariance, PTL
=============================================================================
