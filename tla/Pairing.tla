------------------------------- MODULE Pairing -------------------------------
(***************************************************************************)
(* The pairing ceremony: runs of `conveyance pair` on the PC               *)
(* (conveyance-core/src/pairing/), the phones that scan their QR codes     *)
(* (conveyance-crypto-ffi/src/pairing.rs), and what outlives both: the     *)
(* nonce filter, the PC's pairings and the phones' pairings.               *)
(*                                                                         *)
(* A signature is the pair of its key and its payload.  A link carries     *)
(* chunks, each given by what the assembler makes of it.  Nonces come from *)
(* an EntropySource, which may repeat itself.                              *)
(***************************************************************************)
EXTENDS Integers, Sequences, FiniteSets

CONSTANTS
  Ceremonies,      \* runs of `conveyance pair`
  Phones,          \* phone identities
  PcKey,           \* the identity of the PC
  Nonces,          \* what the entropy source may give
  ZeroNonce,       \* the nonce of 32 zero bytes
  None,
  Skews,           \* how far a phone's clock may be ahead of the PC's
  QrTtl, FutureSkew, ConfirmTimeout, Retention,  \* the code's durations
  MaxDrain,        \* MAX_QUEUED_CHUNKS_TO_DRAIN
  MaxTime,         \* bound: the clock
  MaxFaults        \* bound: stray chunks, lost links, crashes, failed writes and stores

ASSUME PairingBounds ==
  /\ {QrTtl, FutureSkew, ConfirmTimeout, Retention, MaxDrain,
      MaxTime, MaxFaults} \subseteq Nat
  /\ Skews \subseteq Int
  /\ None \notin Phones \cup [seen : SUBSET Nonces, made : Nat]  \* no phone, no filter

VARIABLES
  pc,        \* each ceremony's process
  filter,    \* pairing-nonce-bloom.bin: what it holds and when it was made
  pairings,  \* the rows of the PC's pairings table
  phone,     \* each phone's PendingPairing, and what it has stored
  link,      \* each ceremony's link: peer, chunks to the PC, acks to the phone
  now,       \* the PC's clock
  faults     \* faults so far

\* What happened, for the properties; no action reads them.
VARIABLES
  acks,      \* acks signed
  burned,    \* nonces whose filter reached the disk
  company,   \* the ceremonies each ceremony has run beside
  known      \* what the file must have told each ceremony when it began

vars == <<pc, filter, pairings, phone, link, now, faults, acks, burned, company, known>>

-----------------------------------------------------------------------------
(* Messages.                                                               *)

PairingPayload(nonce, id, dh) == [pc |-> PcKey, nonce |-> nonce, id |-> id, dh |-> dh]
Sign(key, payload) == [by |-> key, over |-> payload]

\* The X25519 half of a phone's identity.
DhOf(p) == <<"dh", p>>

ConfirmMessage(p, nonce) ==
  [kind |-> "confirm", id |-> p, dh |-> DhOf(p),
   sig |-> Sign(p, PairingPayload(nonce, p, DhOf(p)))]
AckMessage(nonce, id, dh) ==
  [kind |-> "ack", nonce |-> nonce, pc |-> PcKey, id |-> id, dh |-> dh,
   sig |-> Sign(PcKey, PairingPayload(nonce, id, dh))]

\* Seeded fault: the signature is checked over whatever nonce it carries.
ConfirmSigned(m, nonce) ==
  m.kind = "confirm" /\ m.sig.by = m.id

\* decode_confirm_message and PairingConfirm::verify against the nonce shown.
ConfirmVerifies(m, nonce) ==
  /\ m.kind = "confirm"
  /\ m.sig = Sign(m.id, PairingPayload(nonce, m.id, m.dh))

\* verify_ack_fields: the ack names this QR and this phone, and the PC of the
\* QR signed it.
AckVerifies(m, qr, p) ==
  /\ m.kind = "ack"
  /\ m.nonce = qr.nonce /\ m.pc = PcKey /\ m.id = p /\ m.dh = DhOf(p)
  /\ m.sig = Sign(PcKey, PairingPayload(m.nonce, m.id, m.dh))

Chunk(bad, messages, idle) == [bad |-> bad, messages |-> messages, idle |-> idle]
Whole(m) == Chunk(FALSE, <<m>>, TRUE)
Part == Chunk(FALSE, <<>>, FALSE)

-----------------------------------------------------------------------------
(* The QR code.                                                            *)

PairingQr(n) == [nonce |-> n, expires |-> now + QrTtl]

\* validate_fields, without and with the expiry check.
FieldsValid(qr) == qr.nonce # ZeroNonce
QrParses(qr, clock) ==
  /\ FieldsValid(qr)
  /\ clock < qr.expires
  /\ qr.expires - clock <= FutureSkew

-----------------------------------------------------------------------------
(* NonceGuard.                                                             *)

FreshFilter == [seen |-> {}, made |-> now]
Aged(f) == now - f.made > Retention

\* open: a missing, corrupt or aged file is an empty filter.
OpenGuard == IF filter = None \/ Aged(filter) THEN FreshFilter ELSE filter

\* maybe_rotate, then check_and_set.
Rotated(g) == IF Aged(g) THEN FreshFilter ELSE g
Marked(g, n) == [Rotated(g) EXCEPT !.seen = @ \cup {n}]

-----------------------------------------------------------------------------

Unpaired == [at |-> "unpaired", qr |-> None, guard |-> None, deadline |-> 0,
             confirm |-> None, idle |-> TRUE, drained |-> 0, ended |-> "none"]
NoLink == [peer |-> None, up |-> FALSE, in |-> <<>>, out |-> <<>>]
IdlePhone == [at |-> "idle", qr |-> None, deadline |-> 0, link |-> None, sent |-> {},
              saved |-> None]

Init ==
  /\ pc = [c \in Ceremonies |-> Unpaired]
  /\ filter = None
  /\ pairings = {}
  /\ phone = [p \in Phones |-> IdlePhone]
  /\ link = [c \in Ceremonies |-> NoLink]
  /\ now = 0 /\ faults = 0
  /\ acks = {} /\ burned = {}
  /\ company = [c \in Ceremonies |-> {}]
  /\ known = [c \in Ceremonies |-> {}]

Running(c) == pc[c].at \notin {"unpaired", "paired", "over"}
At(c, where) == pc[c].at = where
Goto(c, where) == pc' = [pc EXCEPT ![c].at = where]
Quiet == UNCHANGED <<now, acks, burned, company, known>>

\* The process returns and its link goes down with it.
Over(c, how) ==
  [Unpaired EXCEPT !.at = IF how = "paired" THEN "paired" ELSE "over",
                   !.qr = pc[c].qr, !.guard = pc[c].guard, !.ended = how]

Down(c) == [link EXCEPT ![c].up = FALSE, ![c].in = <<>>]
End(c, how) == pc' = [pc EXCEPT ![c] = Over(c, how)] /\ link' = Down(c)

-----------------------------------------------------------------------------
(* run_pairing.                                                            *)

\* `pair` opens the guard, draws a nonce and shows its QR.
BeginPairing(c, n) ==
  /\ At(c, "unpaired")
  /\ now + QrTtl + ConfirmTimeout <= MaxTime
  /\ LET qr == PairingQr(n)
     IN  pc' = [pc EXCEPT ![c] =
                  [Unpaired EXCEPT !.at = IF FieldsValid(qr) THEN "qr_displayed" ELSE "over",
                                   !.ended = IF FieldsValid(qr) THEN "none" ELSE "bad_qr",
                                   !.qr = qr, !.guard = OpenGuard, !.deadline = now + QrTtl]]
  /\ company' = [d \in Ceremonies |->
                   IF d = c THEN {e \in Ceremonies : Running(e)}
                   ELSE IF Running(d) THEN company[d] \cup {c} ELSE company[d]]
  /\ known' = [known EXCEPT ![c] = {[nonce |-> b.nonce, made |-> b.made] :
                                      b \in {b \in burned : company[b.by] = {}}}]
  /\ UNCHANGED <<filter, pairings, phone, link, now, faults, acks, burned>>

\* The scan finds a phone that advertises the service, whichever QR it read.
GattConnected(c, p) ==
  /\ At(c, "qr_displayed") /\ now < pc[c].deadline
  /\ phone[p].at = "advertising"
  /\ pc' = [pc EXCEPT ![c].at = "awaiting_confirm", ![c].deadline = now + ConfirmTimeout]
  /\ link' = [link EXCEPT ![c] = [NoLink EXCEPT !.peer = p, !.up = TRUE]]
  /\ phone' = [phone EXCEPT ![p].at = "connected", ![p].link = c]
  /\ UNCHANGED <<filter, pairings, faults>> /\ Quiet

QrExpired(c) ==
  /\ At(c, "qr_displayed") /\ now >= pc[c].deadline
  /\ End(c, "qr_expired")
  /\ UNCHANGED <<filter, pairings, phone, faults>> /\ Quiet

\* A chunk goes through the assembler: a framing error, a second message or a
\* chunk past the drain bound ends the receive.
RecvChunk(c) ==
  LET chunk == Head(link[c].in)
      had   == pc[c].confirm # None
      over  == had /\ pc[c].drained >= MaxDrain
      extra == Len(chunk.messages) > (IF had THEN 0 ELSE 1)
      burn  == over \/ (had /\ chunk.bad) \/ (extra /\ ~chunk.bad)
  IN  /\ At(c, "awaiting_confirm") /\ link[c].in # <<>>
      /\ IF chunk.bad /\ ~burn THEN End(c, "invalid")
         ELSE /\ pc' = [pc EXCEPT
                   ![c].drained = IF had THEN @ + 1 ELSE @,
                   ![c].idle = chunk.idle,
                   ![c].confirm = IF had \/ chunk.messages = <<>> THEN @ ELSE chunk.messages[1],
                   ![c].at = IF burn THEN "burn" ELSE @]
              /\ link' = [link EXCEPT ![c].in = Tail(@)]
      /\ UNCHANGED <<filter, pairings, phone, faults>> /\ Quiet

\* Nothing is queued behind the confirm: it is taken if the assembler is idle.
Drained(c) ==
  /\ At(c, "awaiting_confirm") /\ pc[c].confirm # None /\ link[c].in = <<>>
  /\ Goto(c, IF ~link[c].up \/ ~pc[c].idle THEN "burn" ELSE "gate")
  /\ UNCHANGED <<filter, pairings, phone, link, faults>> /\ Quiet

\* The link is gone before a whole message came.
ReceiveFails(c) ==
  /\ At(c, "awaiting_confirm") /\ pc[c].confirm = None
  /\ link[c].in = <<>> /\ ~link[c].up
  /\ End(c, "invalid")
  /\ UNCHANGED <<filter, pairings, phone, faults>> /\ Quiet

\* Seeded fault: the timer is restarted while a message is half received.
TimeoutUnlessPartial(c) ==
  /\ At(c, "awaiting_confirm") /\ pc[c].confirm = None
  /\ now >= pc[c].deadline
  /\ pc[c].idle
  /\ End(c, "confirm_timeout")
  /\ UNCHANGED <<filter, pairings, phone, faults>> /\ Quiet

\* The one timeout around the receive loop; past the first message the loop
\* no longer waits.
ConfirmTimeoutEnds(c) ==
  /\ At(c, "awaiting_confirm") /\ pc[c].confirm = None
  /\ now >= pc[c].deadline
  /\ End(c, "confirm_timeout")
  /\ UNCHANGED <<filter, pairings, phone, faults>> /\ Quiet

\* Seeded fault: an attempt that ends here leaves its mark in memory only.
FlushOnSuccess(c, marked) ==
  IF At(c, "burn") THEN filter' = filter ELSE filter' = marked

\* flush: the file is replaced by this process's filter.
Flush(c, marked) == filter' = marked

\* record_and_check, before anything in the message is looked at.  The flush
\* succeeds, or fails unheard.
ReplayGate(c) ==
  LET n == pc[c].qr.nonce
      marked == Marked(pc[c].guard, n)
      seen == n \in Rotated(pc[c].guard).seen
      goes == ~seen /\ At(c, "gate")
  IN  /\ pc[c].at \in {"gate", "burn"}
      /\ pc' = [pc EXCEPT ![c] =
                  [(IF goes THEN [pc[c] EXCEPT !.at = "verify"]
                    ELSE Over(c, IF seen THEN "replayed" ELSE "invalid")) EXCEPT !.guard = marked]]
      /\ link' = IF goes THEN link ELSE Down(c)
      /\ \/ /\ Flush(c, marked)
            /\ burned' = burned \cup {[by |-> c, nonce |-> n, made |-> marked.made]}
            /\ UNCHANGED faults
         \/ /\ faults < MaxFaults
            /\ faults' = faults + 1
            /\ UNCHANGED <<filter, burned>>
      /\ UNCHANGED <<pairings, phone, now, acks, company, known>>

RejectConfirm(c) ==
  /\ At(c, "verify") /\ ~ConfirmVerifies(pc[c].confirm, pc[c].qr.nonce)
  /\ End(c, "invalid")
  /\ UNCHANGED <<filter, pairings, phone, faults>> /\ Quiet

\* The ack is signed and written.  A write that is reported as failed may
\* have reached the phone.
SendAck(c) ==
  LET m   == pc[c].confirm
      n   == pc[c].qr.nonce
      delivered == [link EXCEPT ![c].out = Append(@, AckMessage(n, m.id, m.dh))]
  IN  /\ At(c, "verify") /\ ConfirmVerifies(m, n)
      /\ acks' = acks \cup {[by |-> c, nonce |-> n, id |-> m.id, dh |-> m.dh,
                             made |-> pc[c].guard.made]}
      /\ \/ link[c].up /\ link' = delivered /\ Goto(c, "record") /\ UNCHANGED faults
         \/ /\ link[c].up => faults < MaxFaults
            /\ faults' = IF link[c].up THEN faults + 1 ELSE faults
            /\ pc' = [pc EXCEPT ![c] = Over(c, "ack_failed")]
            /\ link' \in {Down(c), [Down(c) EXCEPT ![c].out = delivered[c].out]}
      /\ UNCHANGED <<filter, pairings, phone, now, burned, company, known>>

\* PairingsDb::record: insert, or refresh the row of the same identity.
PairedRow(rows, id, dh) == {r \in rows : r.id # id} \cup {[id |-> id, dh |-> dh]}

\* PairingsDb::remove.
RemoveRow(rows, id) == {r \in rows : r.id # id}

RecordPeer(c) ==
  LET m == pc[c].confirm
  IN  /\ At(c, "record")
      /\ \/ /\ pairings' = PairedRow(pairings, m.id, m.dh)
            /\ End(c, "paired")
            /\ UNCHANGED faults
         \/ /\ faults < MaxFaults
            /\ faults' = faults + 1
            /\ End(c, "storage")
            /\ UNCHANGED pairings
      /\ UNCHANGED <<filter, phone>> /\ Quiet

\* The process is killed (Ctrl-C included).
Crash(c) ==
  /\ Running(c) /\ faults < MaxFaults
  /\ faults' = faults + 1
  /\ End(c, "crashed")
  /\ UNCHANGED <<filter, pairings, phone>> /\ Quiet

\* `unpair`: a row that is not there is refused and nothing changes.
Unpair(p) ==
  /\ \E r \in pairings : r.id = p
  /\ pairings' = RemoveRow(pairings, p)
  /\ UNCHANGED <<pc, filter, phone, link, faults>> /\ Quiet

-----------------------------------------------------------------------------
(* The phone: PairingCoordinator.pair over PendingPairing.                 *)

PhoneGoto(p, where) == phone' = [phone EXCEPT ![p].at = where]
HangUp(p) ==
  link' = IF phone[p].link = None THEN link
          ELSE [link EXCEPT ![phone[p].link].up = FALSE]
PhoneFails(p) ==
  /\ phone' = [phone EXCEPT ![p] = [IdlePhone EXCEPT !.sent = phone[p].sent,
                                                     !.saved = phone[p].saved]]
  /\ HangUp(p)

\* parse_pairing_qr and create_confirm: the code on the screen of a run that
\* may be over.  The phone then advertises until the code expires.
ScanQr(p, c) ==
  /\ phone[p].at = "idle" /\ pc[c].qr # None
  /\ \E skew \in Skews :
       /\ QrParses(pc[c].qr, now + skew)
       /\ LET left == pc[c].qr.expires - (now + skew)
          IN  phone' = [phone EXCEPT ![p].at = "advertising", ![p].qr = pc[c].qr,
                          ![p].deadline = now + (IF left < QrTtl THEN left ELSE QrTtl)]
  /\ UNCHANGED <<pc, filter, pairings, link, faults>> /\ Quiet

\* The confirm goes out in one chunk or in two.
SendConfirm(p) ==
  /\ phone[p].at = "connected"
  /\ LET c == phone[p].link
         m == ConfirmMessage(p, phone[p].qr.nonce)
     IN  /\ \E chunks \in {<<Whole(m)>>, <<Part, Whole(m)>>} :
              link' = [link EXCEPT ![c].in = IF link[c].up THEN @ \o chunks ELSE @]
         /\ phone' = [phone EXCEPT ![p].at = "verifying", ![p].deadline = now + ConfirmTimeout,
                                   ![p].sent = @ \cup {m}]
  /\ UNCHANGED <<pc, filter, pairings, faults>> /\ Quiet

VerifyAck(p) ==
  /\ phone[p].at = "verifying"
  /\ link[phone[p].link].out # <<>>
  /\ IF AckVerifies(Head(link[phone[p].link].out), phone[p].qr, p)
     THEN PhoneGoto(p, "saving") /\ UNCHANGED link
     ELSE PhoneFails(p)
  /\ UNCHANGED <<pc, filter, pairings, faults>> /\ Quiet

SavePairing(p) ==
  /\ phone[p].at = "saving"
  /\ \/ /\ phone' = [phone EXCEPT ![p] = [IdlePhone EXCEPT !.sent = phone[p].sent,
                                                           !.saved = phone[p].qr.nonce]]
        /\ HangUp(p)
        /\ UNCHANGED faults
     \/ faults < MaxFaults /\ faults' = faults + 1 /\ PhoneFails(p)
  /\ UNCHANGED <<pc, filter, pairings>> /\ Quiet

\* The connect window, the ack timeout, or a link that the PC has dropped.
PhoneGivesUp(p) ==
  /\ \/ phone[p].at \in {"advertising", "verifying"} /\ now >= phone[p].deadline
     \/ /\ phone[p].at \in {"connected", "verifying"}
        /\ ~link[phone[p].link].up /\ link[phone[p].link].out = <<>>
  /\ PhoneFails(p)
  /\ UNCHANGED <<pc, filter, pairings, faults>> /\ Quiet

\* Chunks outside the exchange: bytes that do not frame, half a message, a
\* message of another kind, or a confirm of an earlier attempt again.
StrayChunk(c) ==
  LET p == link[c].peer
  IN  /\ link[c].up /\ faults < MaxFaults
      /\ faults' = faults + 1
      /\ \E chunk \in {Chunk(TRUE, <<>>, TRUE), Part, Whole([kind |-> "other"])}
                         \cup {Whole(m) : m \in phone[p].sent} :
           link' = [link EXCEPT ![c].in = Append(@, chunk)]
      /\ UNCHANGED <<pc, filter, pairings, phone>> /\ Quiet

\* The radio loses the connection.
LinkLost(c) ==
  /\ link[c].up /\ faults < MaxFaults
  /\ faults' = faults + 1
  /\ link' = [link EXCEPT ![c].up = FALSE]
  /\ UNCHANGED <<pc, filter, pairings, phone>> /\ Quiet

\* try_load discards a file it cannot read.
FilterDamaged ==
  /\ filter # None /\ faults < MaxFaults
  /\ faults' = faults + 1
  /\ filter' = None
  /\ burned' = {}
  /\ UNCHANGED <<pc, pairings, phone, link, now, acks, company, known>>

Tick ==
  /\ now < MaxTime
  /\ now' = now + 1
  /\ UNCHANGED <<pc, filter, pairings, phone, link, faults, acks, burned, company, known>>

-----------------------------------------------------------------------------

Own(c) ==
  \/ QrExpired(c) \/ RecvChunk(c) \/ Drained(c) \/ ReceiveFails(c)
  \/ ConfirmTimeoutEnds(c) \/ ReplayGate(c) \/ RejectConfirm(c)
  \/ SendAck(c) \/ RecordPeer(c)

Next ==
  \/ \E c \in Ceremonies : \/ \E n \in Nonces : BeginPairing(c, n)
                            \/ \E p \in Phones : GattConnected(c, p)
                            \/ Own(c) \/ Crash(c) \/ StrayChunk(c) \/ LinkLost(c)
  \/ \E p \in Phones : \/ \E c \in Ceremonies : ScanQr(p, c)
                        \/ SendConfirm(p) \/ VerifyAck(p) \/ SavePairing(p)
                        \/ PhoneGivesUp(p) \/ Unpair(p)
  \/ FilterDamaged \/ Tick

\* The process runs until it returns, and time goes on.
Fairness == WF_vars(Tick) /\ \A c \in Ceremonies : WF_vars(Own(c))

Spec == Init /\ [][Next]_vars /\ Fairness

-----------------------------------------------------------------------------
(* Properties.                                                             *)

\* The two sides agree on a pairing: a row of the PC stands for an ack to
\* that phone, and an ack was signed only for a phone that sent the confirm
\* of the very code this ceremony showed; a phone stores a PC only on an ack
\* for the code it scanned and for its own two keys.
Agreement ==
  /\ \A r \in pairings : \E a \in acks : a.id = r.id /\ a.dh = r.dh
  /\ \A a \in acks : /\ a.nonce = pc[a.by].qr.nonce
                     /\ ConfirmMessage(a.id, a.nonce) \in phone[a.id].sent
  /\ \A p \in Phones : phone[p].saved # None =>
       \E a \in acks : a.nonce = phone[p].saved /\ a.id = p /\ a.dh = DhOf(p)

\* A nonce that a ceremony running alone burned to disk is refused by every
\* ceremony that begins later, however it ended, as long as the filter it
\* was put in is in use (record_and_check's immediate flush; open).
ReplayMemory ==
  \A a \in acks : [nonce |-> a.nonce, made |-> a.made] \notin known[a.by]

\* Every run of `conveyance pair` returns: no phone, or one that stops in the
\* middle of its message, holds it past its two timeouts.
CeremonyEnds == \A c \in Ceremonies : Running(c) ~> ~Running(c)
=============================================================================
