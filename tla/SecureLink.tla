----------------------------- MODULE SecureLink -----------------------------
(***************************************************************************)
(* One connection between the PC and the phone: the Noise KK handshake and *)
(* transport (conveyance-noise), the core session around it                *)
(* (conveyance-core/src/session/mod.rs), frames and their reassembly       *)
(* (conveyance-wire), and the link that carries chunks of bytes            *)
(* (conveyance-core/src/transport/).                                       *)
(*                                                                         *)
(* A byte is a cell: the header of a frame is one cell, a unit of payload  *)
(* another.  A ciphertext is the record of its key pair, sender, nonce and *)
(* plaintext, cut into cells; cells that are not those of one ciphertext,  *)
(* whole and in order, fail the MAC.                                       *)
(***************************************************************************)
EXTENDS Integers, Sequences, FiniteSets, FiniteSetsExt

CONSTANTS
  Pc, Phone,      \* the two ends
  StaticOf,       \* each end's X25519 static key
  Statics,        \* keys an end may have stored for the other
  Sizes,          \* plaintext lengths, in units of payload
  MtuPayload,     \* max_write_len of each end
  SeqLimit,         \* sequence numbers wrap at this value
  Cap,            \* DEFAULT_REASSEMBLY_CAP, MAX_WIRE_MESSAGE_BYTES
  NoiseMax,       \* the longest ciphertext snow writes
  PumpCap,        \* the PC's notification queue
  MaxSends,       \* bound: messages each end sends
  MaxFaults,      \* bound: bursts lost; frames repeated, swapped or damaged
  MaxAcks         \* bound: ACK frames

Sides == {Pc, Phone}
Other(s) == IF s = Pc THEN Phone ELSE Pc

ASSUME LinkBounds ==
  /\ Pc # Phone
  /\ StaticOf \in [Sides -> Statics]
  /\ Sizes \subseteq Nat
  /\ MtuPayload \in [Sides -> Nat \ {0}]
  /\ \A s \in Sides : 2 * (MtuPayload[s] + 1) <= Cap
  /\ {SeqLimit, PumpCap} \subseteq Nat \ {0}
  /\ {Cap, NoiseMax, MaxSends, MaxFaults, MaxAcks} \subseteq Nat
  /\ NoiseMax <= Cap

VARIABLES
  peer,    \* the static each end has stored for the other, right or stale
  noise,   \* each end's Noise state: phase, and the two nonces
  tx,      \* each end's next sequence number, and frames it has yet to write
  wire,    \* cells on the way from each end
  rx,      \* each end's InboundAssembler
  open,    \* ends whose link is up
  faults, acks

\* What happened, for the properties; no action reads them.
VARIABLES
  sent,       \* plaintexts each end's session took
  delivered,  \* plaintexts each end's session gave out
  ended       \* why each end closed

vars == <<peer, noise, tx, wire, rx, open, faults, acks, sent, delivered, ended>>

-----------------------------------------------------------------------------
(* Frames.                                                                 *)

None == [none |-> TRUE]
Cells(m) == [i \in 1 .. m.size |-> [of |-> m, at |-> i]]
Frame(len, seq, start, end) ==
  [len |-> len, seq |-> seq, start |-> start, end |-> end, ack |-> FALSE, legal |-> TRUE]

\* wrapping_add.
WrappingSeq(start, i) == (start + i) % SeqLimit

\* Seeded fault: the frames of one message are numbered without wrapping.
FrameSeqUnwrapped(start, i) == start + i

FrameSeq(start, i) == WrappingSeq(start, i)

\* split_message: at least one frame, the first START and the last END.
SplitMessage(cells, max, seq) ==
  LET ceil  == (Len(cells) + max - 1) \div max
      count == IF ceil = 0 THEN 1 ELSE ceil
      piece(i) == SubSeq(cells, (i - 1) * max + 1,
                         IF i * max < Len(cells) THEN i * max ELSE Len(cells))
  IN  [frames |-> [i \in 1 .. count |->
                     <<Frame(Len(piece(i)), FrameSeq(seq, i - 1), i = 1, i = count)>>
                       \o piece(i)],
       next |-> WrappingSeq(seq, count)]

NewFramer == [busy |-> FALSE, next |-> None, buffer |-> <<>>]

\* Framer::ingest of one frame.  The shape is checked before the sequence
\* number, the sequence number before the buffer; an ACK skips both.
FramerIngest(f, header, payload) ==
  LET bad     == [ok |-> FALSE, framer |-> f, message |-> None]
      grown   == IF header.start THEN payload ELSE f.buffer \o payload
      next    == [seq |-> WrappingSeq(header.seq, 1)]
      single  == header.start /\ header.end
      illegal == ~header.legal \/ header.len # Len(payload) \/ (header.ack /\ payload # <<>>)
      nested  == header.start /\ f.busy
      stray   == ~header.start /\ ~f.busy
      gap     == f.next # None /\ f.next # [seq |-> header.seq]
      large   == ~single /\ Len(grown) > Cap
  IN  IF illegal THEN bad
      ELSE IF header.ack THEN [bad EXCEPT !.ok = TRUE]
      ELSE IF nested \/ stray \/ gap \/ large THEN bad
      ELSE [ok |-> TRUE, message |-> IF header.end THEN [cells |-> grown] ELSE None,
            framer |-> IF single THEN [f EXCEPT !.next = next]
                       ELSE [busy |-> ~header.end, next |-> next,
                             buffer |-> IF header.end THEN <<>> ELSE grown]]

NewAssembler == [buffer |-> <<>>, framer |-> NewFramer, messages |-> <<>>, ok |-> TRUE]

\* InboundAssembler::ingest, a byte at a time: whole frames leave the buffer
\* for the framer.
IngestCell(a, cell) ==
  LET buffer == Append(a.buffer, cell)
  IN  IF ~a.ok THEN a
      ELSE IF Len(buffer) < 1 + buffer[1].len THEN [a EXCEPT !.buffer = buffer]
      ELSE LET r == FramerIngest(a.framer, buffer[1], Tail(buffer))
           IN  [buffer |-> <<>>, framer |-> r.framer, ok |-> r.ok,
                messages |-> IF r.message = None THEN a.messages
                             ELSE Append(a.messages, r.message.cells)]

Ingest(a, chunk) ==
  IF Len(a.buffer) + Len(chunk) > Cap THEN [a EXCEPT !.ok = FALSE]
  ELSE LET got[i \in 0 .. Len(chunk)] ==
             IF i = 0 THEN [a EXCEPT !.messages = <<>>] ELSE IngestCell(got[i - 1], chunk[i])
       IN  got[Len(chunk)]

-----------------------------------------------------------------------------
(* Noise.                                                                  *)

\* What a message is authenticated under: both statics, in KK from the first.
KeyOf(s) == {<<s, StaticOf[s]>>, <<Other(s), peer[s]>>}
Sealed(s, kind, n, body, size) ==
  [key |-> KeyOf(s), from |-> s, kind |-> kind, n |-> n, body |-> body, size |-> size]
TagLen == 1

\* The ciphertext these cells are, or None.
Opened(cells) ==
  IF cells # <<>> /\ cells = Cells(cells[1].of) THEN cells[1].of ELSE None

\* Seeded fault: the nonce of what arrives is not compared.
OpensAnyNonce(s, kind, n, cells) ==
  LET m == Opened(cells)
  IN  m # None /\ m.key = KeyOf(s) /\ m.from = Other(s) /\ m.kind = kind

\* read_message: the MAC holds for this key, direction and nonce.
Opens(s, kind, n, cells) ==
  LET m == Opened(cells)
  IN  /\ m # None
      /\ m.key = KeyOf(s) /\ m.from = Other(s) /\ m.kind = kind /\ m.n = n

-----------------------------------------------------------------------------

Init ==
  /\ peer \in [Sides -> Statics]
  /\ noise = [s \in Sides |-> [phase |-> IF s = Phone THEN "write" ELSE "read", tx |-> 0, rx |-> 0]]
  /\ tx = [s \in Sides |-> [seq |-> 0, frames |-> <<>>]]
  /\ wire = [s \in Sides |-> <<>>]
  /\ rx = [s \in Sides |-> NewAssembler]
  /\ open = Sides
  /\ faults = 0 /\ acks = 0
  /\ sent = [s \in Sides |-> <<>>]
  /\ delivered = [s \in Sides |-> <<>>]
  /\ ended = [s \in Sides |-> "no"]

\* Frame one message and queue its frames behind the sequence number.
Queue(s, m) ==
  LET split == SplitMessage(Cells(m), MtuPayload[s], tx[s].seq)
  IN  tx' = [tx EXCEPT ![s] = [seq |-> split.next, frames |-> @.frames \o split.frames]]

Writing(s) == tx[s].frames # <<>>

\* teardown: the transport and the assembler go, the peer drains what is on
\* the way.
Close(s, why) ==
  /\ open' = open \ {s}
  /\ ended' = [ended EXCEPT ![s] = why]
  /\ rx' = [rx EXCEPT ![s] = NewAssembler]

\* Where the frames on the way start; the first may be the rest of one.
IsHeader(cell) == "ack" \in DOMAIN cell
Starts(w) == {i \in DOMAIN w : i = 1 \/ IsHeader(w[i])}

\* Seeded fault: both inbound queues are bounded.
BothBounded(s) == Cardinality(Starts(wire[s])) < PumpCap

\* The phone's inbound queue is unlimited; the PC's holds PumpCap chunks.
Room(s) == s = Phone => Cardinality(Starts(wire[s])) < PumpCap

\* The phone opens the handshake.
WriteHandshake(s) ==
  /\ s \in open /\ noise[s].phase = "write"
  /\ Queue(s, Sealed(s, "handshake", 0, 0, 1))
  /\ noise' = [noise EXCEPT ![s].phase = "read"]
  /\ UNCHANGED <<peer, wire, rx, open, faults, acks, sent, delivered, ended>>

\* Session::send: one transport message.  One longer than snow's limit ends
\* the session instead.
Send(s, size) ==
  /\ s \in open /\ noise[s].phase = "transport" /\ ~Writing(s)
  /\ Len(sent[s]) < MaxSends /\ size <= Cap
  /\ IF size + TagLen <= NoiseMax
     THEN LET m == [by |-> s, i |-> Len(sent[s]) + 1, size |-> size]
          IN  /\ Queue(s, Sealed(s, "transport", noise[s].tx, m, size + TagLen))
              /\ noise' = [noise EXCEPT ![s].tx = @ + 1]
              /\ sent' = [sent EXCEPT ![s] = Append(@, m)]
              /\ UNCHANGED <<rx, open, ended>>
     ELSE Close(s, "too_long") /\ UNCHANGED <<tx, noise, sent>>
  /\ UNCHANGED <<peer, wire, faults, acks, delivered>>

\* Link::send of the next frame; it waits while the link is full.
WriteFrame(s) ==
  /\ s \in open /\ Writing(s)
  /\ tx' = [tx EXCEPT ![s].frames = Tail(@)]
  /\ IF Other(s) \in open
     THEN /\ Room(s)
          /\ wire' = [wire EXCEPT ![s] = @ \o Head(tx[s].frames)]
          /\ UNCHANGED <<rx, open, ended>>
     ELSE Close(s, "disconnected") /\ UNCHANGED wire
  /\ UNCHANGED <<peer, noise, faults, acks, sent, delivered>>

\* What is on the way to s.
Arriving(s) == wire[Other(s)]

\* A handshake message moves the handshake on, a transport message is opened.
TakeMessage(state, cells) ==
  LET s == state.side
  IN  IF ~state.ok \/ state.reply THEN state
      ELSE IF state.noise.phase = "read"
      THEN IF ~Opens(s, "handshake", IF s = Pc THEN 0 ELSE 1, cells) THEN [state EXCEPT !.ok = FALSE]
           ELSE [state EXCEPT !.noise.phase = "transport", !.reply = (s = Pc)]
      ELSE IF ~Opens(s, "transport", state.noise.rx, cells) THEN [state EXCEPT !.ok = FALSE]
      ELSE [state EXCEPT !.noise.rx = @ + 1, !.out = Append(@, Opened(cells).body)]

\* What the messages of one chunk do to the Noise state, in order.
TakeMessages(s, messages) ==
  LET took[i \in 0 .. Len(messages)] ==
        IF i = 0
        THEN [side |-> s, ok |-> TRUE, noise |-> noise[s], reply |-> FALSE, out |-> <<>>]
        ELSE TakeMessage(took[i - 1], messages[i])
  IN  took[Len(messages)]

\* A chunk arrives: part of a frame, a frame, or more than one.
Receive(s, k) ==
  LET a == Ingest(rx[s], SubSeq(Arriving(s), 1, k))
      t == TakeMessages(s, a.messages)
  IN  /\ s \in open /\ ~Writing(s) /\ noise[s].phase # "write"
      /\ k <= Len(Arriving(s)) /\ k <= MtuPayload[Other(s)] + 1
      /\ wire' = [wire EXCEPT ![Other(s)] = SubSeq(@, k + 1, Len(@))]
      /\ noise' = [noise EXCEPT ![s] = IF a.ok THEN t.noise ELSE @]
      /\ delivered' = [delivered EXCEPT ![s] = IF a.ok THEN @ \o t.out ELSE @]
      /\ IF a.ok /\ t.reply THEN Queue(s, Sealed(s, "handshake", 1, 0, 1)) ELSE UNCHANGED tx
      /\ IF a.ok /\ t.ok
         THEN /\ rx' = [rx EXCEPT ![s] = [a EXCEPT !.messages = <<>>]]
              /\ UNCHANGED <<open, ended>>
         ELSE Close(s, "violation")
      /\ UNCHANGED <<peer, faults, acks, sent>>

\* recv after the peer has gone and the queue is empty.
Disconnected(s) ==
  /\ s \in open /\ Other(s) \notin open /\ wire[Other(s)] = <<>>
  /\ Close(s, "disconnected")
  /\ UNCHANGED <<peer, noise, tx, wire, faults, acks, sent, delivered>>

\* Session::end at either end, for a reason of its own.
EndSession(s) ==
  /\ s \in open
  /\ Close(s, "ended")
  /\ UNCHANGED <<peer, noise, tx, wire, faults, acks, sent, delivered>>

-----------------------------------------------------------------------------
(* The air: an ACK is put in between two frames, which is legal; a frame   *)
(* is lost, alone or with those behind it, repeated, overtaken, damaged.   *)

Untouched(w) == w # <<>> /\ IsHeader(Head(w))

InsertAck(s) ==
  /\ acks < MaxAcks /\ acks' = acks + 1
  /\ Untouched(wire[s]) /\ Room(s)
  /\ LET ack == [Frame(0, wire[s][1].seq, FALSE, FALSE) EXCEPT !.ack = TRUE]
     IN  wire' = [wire EXCEPT ![s] = <<ack>> \o @]
  /\ UNCHANGED <<peer, noise, tx, rx, open, faults, sent, delivered, ended>>

Damaged(w) ==
  LET later == Starts(w) \ {1}
      cut   == Min(later \cup {Len(w) + 1})
      first == SubSeq(w, 1, cut - 1)
      swapped(end) == SubSeq(w, cut, end - 1) \o first \o SubSeq(w, end, Len(w))
  IN  {SubSeq(w, k, Len(w)) : k \in later \cup {Len(w) + 1}}
        \cup {first \o w, [w EXCEPT ![1].legal = FALSE]}
        \cup (IF later = {} THEN {} ELSE {swapped(Min((later \ {cut}) \cup {Len(w) + 1}))})

Fault(s) ==
  /\ faults < MaxFaults /\ faults' = faults + 1
  /\ Untouched(wire[s])
  /\ \E w \in Damaged(wire[s]) : wire' = [wire EXCEPT ![s] = w]
  /\ UNCHANGED <<peer, noise, tx, rx, open, acks, sent, delivered, ended>>

Next ==
  \E s \in Sides : \/ WriteHandshake(s) \/ WriteFrame(s)
                   \/ \E size \in Sizes : Send(s, size)
                   \/ \E k \in 1 .. Cap : Receive(s, k)
                   \/ Disconnected(s) \/ EndSession(s) \/ InsertAck(s) \/ Fault(s)

Spec == Init /\ [][Next]_vars

-----------------------------------------------------------------------------
(* Properties.                                                             *)

Paired == \A s \in Sides : peer[s] = StaticOf[Other(s)]

\* Through losses, repetitions, swaps, damage, wrapped sequence numbers and
\* any cutting of frames into chunks, each end gives out what the other was
\* handed, in order and once, until it closes.
Channel == INSTANCE MessageChannel WITH
  Messages <- [by : Sides, i : 1 .. MaxSends, size : Sizes],
  deaf <- Sides \ open
InOrder == Channel!ChannelSpec

\* Without a fault on the air, no end of a matched pair ever calls the other
\* a violator: sequence numbers wrap, ACKs pass, frames are cut and joined,
\* and the longest message Noise writes fits the reassembly cap.
NoFalseAlarm ==
  faults = 0 /\ Paired => \A s \in Sides : ended[s] # "violation"

\* While both ends are up and something is on its way, an end can move it:
\* neither waits for room that only the other, waiting itself, could make, and
\* nothing comes to an end that has yet to open the handshake (an end does not
\* read while it writes, nor before its turn; send's backpressure).
NoStandoff ==
  open = Sides /\ (\E s \in Sides : Writing(s) \/ wire[s] # <<>>) =>
    \E s \in Sides : IF Writing(s) THEN Room(s)
                     ELSE wire[Other(s)] # <<>> /\ noise[s].phase # "write"
=============================================================================
