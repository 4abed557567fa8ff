-------------------------- MODULE SecureLinkProofs --------------------------
(***************************************************************************)
(* What SecureLink promises, for any message sizes, frame sizes, bounds    *)
(* and faults: it implements MessageChannel, and its ends do not wait for  *)
(* each other.                                                             *)
(*                                                                         *)
(* The argument for the channel never looks at the framing.  Whatever the  *)
(* air and the assembler do to the cells, they make none: a cell that is   *)
(* read is of a message that was sealed, and the message of a nonce is the *)
(* one plaintext that was sent at that place.                              *)
(*                                                                         *)
(* The last part is the other half of the promise: without a fault on the  *)
(* air, no end of a matched pair closes over what the other sent.  Here    *)
(* the framing is what matters.  The assembler that has yet to read all    *)
(* that is on the way and all that waits to be written reads it without a  *)
(* fault, and when it has, what it has read is what was said: each step    *)
(* adds a message that was split at one end of that reading, moves frames  *)
(* along it, or takes a chunk off the other.  That a message split into    *)
(* frames and read again is the message is the lemma SplitReads; that a    *)
(* chunk is read the same however the frames are cut is IngestReads.       *)
(***************************************************************************)
EXTENDS SecureLink, FiniteSetTheorems, SequenceTheorems, WellFoundedInduction, TLAPS

-----------------------------------------------------------------------------
(* Counting.                                                               *)

\* A set of naturals has a least member.
LEMMA FirstOf ==
  ASSUME NEW P, P \subseteq Nat, P # {}
  PROVE  \E i \in P : \A j \in P : i <= j
<1>1. \E i \in P : \A j \in P : ~(<<j, i>> \in OpToRel(<, Nat))
  BY WFMin, NatLessThanWellFounded, Zenon
<1>2. PICK i \in P : \A j \in P : ~(<<j, i>> \in OpToRel(<, Nat))
  BY <1>1
<1>3. \A j \in P : ~(j < i)
  BY <1>2 DEF OpToRel
<1> QED
  BY <1>3

\* Induction up to n, for a set.
LEMMA Upto ==
  ASSUME NEW n \in Nat, NEW P, 0 \in P, \A i \in 0 .. n - 1 : i \in P => i + 1 \in P
  PROVE  \A i \in 0 .. n : i \in P
<1> SUFFICES ASSUME NEW k \in 0 .. n, k \notin P PROVE FALSE
  OBVIOUS
<1>1. PICK Q : Q = {i \in 0 .. n : i \notin P}
  OBVIOUS
<1>2. PICK i \in Q : \A j \in Q : i <= j
  BY <1>1, FirstOf
<1>3. i # 0 /\ i - 1 \in 0 .. n - 1 /\ i - 1 \notin Q
  BY <1>1, <1>2
<1>4. i - 1 \in P /\ (i - 1) + 1 = i
  BY <1>1, <1>3
<1> QED
  BY <1>1, <1>3, <1>4

\* A cut out of a sequence, whatever is left between its ends.
LEMMA SubSeqIn ==
  ASSUME NEW S, NEW w \in Seq(S), NEW m \in Int, NEW n \in Int, m >= 1, n <= Len(w)
  PROVE  SubSeq(w, m, n) \in Seq(S)
<1>1. CASE m <= n + 1
  BY <1>1, SubSeqProperties
<1>2. CASE m > n + 1
  <2>1. SubSeq(w, m, n) = << >>
    BY <1>2, SubSeqEmpty
  <2> QED
    BY <2>1
<1> QED
  BY <1>1, <1>2

-----------------------------------------------------------------------------
(* Cells.                                                                  *)

Headers == [len : Nat, seq : Int, start : BOOLEAN, end : BOOLEAN,
            ack : BOOLEAN, legal : BOOLEAN]
Plaintexts == [by : Sides, i : 1 .. MaxSends, size : Sizes]

\* The messages sealed so far.
Transport(s, i) == Sealed(s, "transport", i - 1, sent[s][i], sent[s][i].size + TagLen)
Made ==
  {Sealed(s, "handshake", n, 0, 1) : s \in Sides, n \in 0 .. 1}
    \cup UNION {{Transport(s, i) : i \in 1 .. Len(sent[s])} : s \in Sides}
Elements == Headers \cup {[of |-> m, at |-> i] : m \in Made, i \in Nat}

IsFramer(f) == f \in [busy : BOOLEAN, next : {f.next}, buffer : Seq(Elements)]
IsAssembler(a) ==
  /\ a \in [buffer : Seq(Elements), framer : {a.framer}, messages : Seq(Seq(Elements)),
            ok : {a.ok}]
  /\ IsFramer(a.framer)

-----------------------------------------------------------------------------
(* The invariant.                                                          *)

Phases == {"write", "read", "transport"}
Turned == Phases \ {"write"}

EndInv(s) ==
  /\ noise[s] \in [phase : Phases, tx : Nat, rx : Nat]
  /\ sent[s] \in Seq(Plaintexts)
  /\ noise[s].tx = Len(sent[s])
  /\ tx[s] \in [seq : Nat, frames : Seq(Seq(Elements))]
  /\ wire[s] \in Seq(Elements)
  /\ IsAssembler(rx[s])

\* What an end has given out is as much of what the other was handed as it
\* has read.
ReadInv(s) ==
  /\ noise[s].rx <= Len(sent[Other(s)])
  /\ delivered[s] = SubSeq(sent[Other(s)], 1, noise[s].rx)

Inv ==
  /\ noise = [s \in Sides |-> noise[s]]
  /\ tx = [s \in Sides |-> tx[s]]
  /\ wire = [s \in Sides |-> wire[s]]
  /\ rx = [s \in Sides |-> rx[s]]
  /\ sent = [s \in Sides |-> sent[s]]
  /\ delivered = [s \in Sides |-> delivered[s]]
  /\ open \subseteq Sides
  /\ \A s \in Sides : EndInv(s) /\ ReadInv(s)

-----------------------------------------------------------------------------
(* Reassembly makes no cells.                                              *)

\* What a frame leaves: a framer, and perhaps one message.
IsIngested(r) ==
  /\ IsFramer(r.framer)
  /\ r.message = None \/ \E cells \in Seq(Elements) : r.message = [cells |-> cells]

LEMMA FramerKeeps ==
  ASSUME NEW f, IsFramer(f), NEW header, NEW payload \in Seq(Elements),
         NEW r, r = FramerIngest(f, header, payload)
  PROVE  IsIngested(r)
<1> DEFINE grown == IF header.start THEN payload ELSE f.buffer \o payload
           next  == [seq |-> WrappingSeq(header.seq, 1)]
<1>1. PICK g \in Seq(Elements), nil \in Seq(Elements) : g = grown /\ nil = <<>>
  <2>1. grown \in Seq(Elements) /\ <<>> \in Seq(Elements)
    BY DEF IsFramer
  <2> QED
    BY <2>1
<1>2. PICK n, no, yes : n = next /\ no = FALSE /\ yes = TRUE
  OBVIOUS
<1>3. \/ r.framer = f
      \/ r.framer = [f EXCEPT !.next = n]
      \/ \E busy \in {no, yes}, b \in {nil, g} :
           r.framer = [busy |-> busy, next |-> n, buffer |-> b]
  BY <1>1, <1>2 DEF FramerIngest
<1>4. r.message = None \/ r.message = [cells |-> g]
  BY <1>1, <1>2 DEF FramerIngest
<1>5. IsFramer(r.framer)
  <2>1. no \in BOOLEAN /\ yes \in BOOLEAN
    BY <1>2
  <2>2. \A busy \in BOOLEAN, b \in Seq(Elements) :
          IsFramer([busy |-> busy, next |-> n, buffer |-> b])
    BY DEF IsFramer
  <2>3. IsFramer([f EXCEPT !.next = n])
    BY DEF IsFramer
  <2> QED
    BY <1>3, <2>1, <2>2, <2>3
<1> QED
  BY <1>1, <1>4, <1>5 DEF IsIngested

LEMMA IngestCellKeeps ==
  ASSUME NEW a, IsAssembler(a), NEW cell \in Elements
  PROVE  IsAssembler(IngestCell(a, cell))
<1>1. PICK buffer \in Seq(Elements) : buffer = Append(a.buffer, cell)
  <2>1. Append(a.buffer, cell) \in Seq(Elements)
    BY DEF IsAssembler
  <2> QED
    BY <2>1
<1>2. buffer # <<>> /\ Tail(buffer) \in Seq(Elements)
  BY <1>1 DEF IsAssembler
<1>3. IsAssembler([a EXCEPT !.buffer = buffer])
  BY DEF IsAssembler
<1>4. PICK r : r = FramerIngest(a.framer, buffer[1], Tail(buffer))
  OBVIOUS
<1>5. IsIngested(r)
  <2>1. PICK f, header, payload : f = a.framer /\ header = buffer[1] /\ payload = Tail(buffer)
    OBVIOUS
  <2>2. IsFramer(f) /\ payload \in Seq(Elements) /\ r = FramerIngest(f, header, payload)
    BY <1>2, <1>4, <2>1 DEF IsAssembler
  <2> QED
    BY <2>2, FramerKeeps
<1>6. PICK messages \in Seq(Seq(Elements)), nil \in Seq(Elements) :
        /\ messages = IF r.message = None THEN a.messages ELSE Append(a.messages, r.message.cells)
        /\ nil = <<>>
  <2>1. a.messages \in Seq(Seq(Elements)) /\ <<>> \in Seq(Elements)
    BY DEF IsAssembler
  <2>2. \A cells \in Seq(Elements) : Append(a.messages, cells) \in Seq(Seq(Elements))
    BY <2>1
  <2>3. ASSUME r.message # None PROVE r.message.cells \in Seq(Elements)
    <3>1. PICK cells \in Seq(Elements) : r.message = [cells |-> cells]
      BY <1>5, <2>3 DEF IsIngested
    <3> QED
      BY <3>1
  <2> QED
    BY <2>1, <2>2, <2>3
<1>7. PICK b : b = [buffer |-> nil, framer |-> r.framer, ok |-> r.ok, messages |-> messages]
  OBVIOUS
<1>8. IsAssembler(b)
  BY <1>5, <1>7 DEF IsAssembler, IsIngested
<1>9. IngestCell(a, cell) \in {a, [a EXCEPT !.buffer = buffer], b}
  BY <1>1, <1>4, <1>6, <1>7 DEF IngestCell
<1> QED
  BY <1>3, <1>8, <1>9

IsGot(got, a, chunk, n) ==
  got = [i \in 0 .. n |-> IF i = 0 THEN [a EXCEPT !.messages = <<>>]
                          ELSE IngestCell(got[i - 1], chunk[i])]

LEMMA GotExists ==
  ASSUME NEW a, NEW chunk, NEW n \in Nat
  PROVE  \E got : IsGot(got, a, chunk, n)
<1>1. PICK P : P = {k \in Nat : \E got : IsGot(got, a, chunk, k)}
  OBVIOUS
<1>2. PICK a0 : a0 = [a EXCEPT !.messages = <<>>]
  OBVIOUS
<1>3. 0 \in P
  <2>1. IsGot([i \in 0 .. 0 |-> a0], a, chunk, 0)
    BY <1>2 DEF IsGot
  <2> QED
    BY <1>1, <2>1
<1>4. ASSUME NEW k \in 0 .. n - 1, k \in P PROVE k + 1 \in P
  <2>1. PICK g : IsGot(g, a, chunk, k)
    BY <1>1, <1>4
  <2>2. PICK h : h = [i \in 0 .. k + 1 |-> IF i = k + 1 THEN IngestCell(g[k], chunk[k + 1])
                                           ELSE g[i]]
    OBVIOUS
  <2>3. \A i \in 0 .. k : g[i] = IF i = 0 THEN a0 ELSE IngestCell(g[i - 1], chunk[i])
    BY <1>2, <2>1 DEF IsGot
  <2>4. \A i \in 0 .. k : h[i] = g[i]
    BY <2>2
  <2>5. \A i \in 0 .. k + 1 : h[i] = IF i = 0 THEN a0 ELSE IngestCell(h[i - 1], chunk[i])
    BY <2>2, <2>3, <2>4
  <2>6. IsGot(h, a, chunk, k + 1)
    BY <1>2, <2>2, <2>5 DEF IsGot
  <2> QED
    BY <1>1, <2>6
<1>5. n \in P
  BY <1>3, <1>4, Upto
<1> QED
  BY <1>1, <1>5

\* Ingest within the cap is the end of such a run.
LEMMA IngestRuns ==
  ASSUME NEW a, NEW chunk, Len(chunk) \in Nat, ~(Len(a.buffer) + Len(chunk) > Cap)
  PROVE  \E got : IsGot(got, a, chunk, Len(chunk)) /\ Ingest(a, chunk) = got[Len(chunk)]
<1>1. PICK g : g = CHOOSE got : IsGot(got, a, chunk, Len(chunk))
  OBVIOUS
<1>2. IsGot(g, a, chunk, Len(chunk))
  BY <1>1, GotExists
<1>3. Ingest(a, chunk) = g[Len(chunk)]
  BY <1>1 DEF Ingest, IsGot
<1> QED
  BY <1>2, <1>3

LEMMA IngestKeeps ==
  ASSUME NEW a, IsAssembler(a), NEW chunk \in Seq(Elements)
  PROVE  IsAssembler(Ingest(a, chunk))
<1>1. CASE Len(a.buffer) + Len(chunk) > Cap
  <2>1. PICK no : no = FALSE
    OBVIOUS
  <2>2. Ingest(a, chunk) = [a EXCEPT !.ok = no]
    BY <1>1, <2>1 DEF Ingest
  <2>3. IsAssembler([a EXCEPT !.ok = no])
    BY DEF IsAssembler
  <2> QED
    BY <2>2, <2>3
<1>2. CASE ~(Len(a.buffer) + Len(chunk) > Cap)
  <2>1. PICK got : IsGot(got, a, chunk, Len(chunk)) /\ Ingest(a, chunk) = got[Len(chunk)]
    BY <1>2, IngestRuns
  <2>2. PICK a0 : \E nil \in Seq(Seq(Elements)) : a0 = [a EXCEPT !.messages = nil] /\ nil = <<>>
    <3>1. <<>> \in Seq(Seq(Elements))
      OBVIOUS
    <3> QED
      BY <3>1
  <2>3. \A i \in 0 .. Len(chunk) : got[i] = IF i = 0 THEN a0 ELSE IngestCell(got[i - 1], chunk[i])
    BY <2>1, <2>2 DEF IsGot
  <2>4. PICK P : P = {i \in 0 .. Len(chunk) : IsAssembler(got[i])}
    OBVIOUS
  <2>5. 0 \in P
    <3>1. IsAssembler(a0)
      BY <2>2 DEF IsAssembler
    <3> QED
      BY <2>3, <2>4, <3>1
  <2>6. ASSUME NEW i \in 0 .. Len(chunk) - 1, i \in P PROVE i + 1 \in P
    <3>1. got[i + 1] = IngestCell(got[i], chunk[i + 1]) /\ chunk[i + 1] \in Elements
      BY <2>3
    <3>2. IsAssembler(got[i])
      BY <2>4, <2>6
    <3>3. IsAssembler(got[i + 1])
      BY <3>1, <3>2, IngestCellKeeps
    <3> QED
      BY <2>4, <3>3
  <2>7. Len(chunk) \in P
    <3>1. PICK n \in Nat : n = Len(chunk)
      OBVIOUS
    <3>2. \A i \in 0 .. n - 1 : i \in P => i + 1 \in P
      BY <2>6, <3>1
    <3>3. \A i \in 0 .. n : i \in P
      BY <2>5, <3>2, Upto
    <3> QED
      BY <3>1, <3>3
  <2> QED
    BY <2>1, <2>4, <2>7
<1> QED
  BY <1>1, <1>2

-----------------------------------------------------------------------------
(* Neither does cutting.                                                   *)

LEMMA FrameIsHeader ==
  ASSUME NEW len \in Nat, NEW seq \in Int, NEW start \in BOOLEAN, NEW end \in BOOLEAN
  PROVE  Frame(len, seq, start, end) \in Headers
<1>1. PICK no \in BOOLEAN, yes \in BOOLEAN : no = FALSE /\ yes = TRUE
  OBVIOUS
<1>2. [len |-> len, seq |-> seq, start |-> start, end |-> end, ack |-> no, legal |-> yes] \in Headers
  BY DEF Headers
<1> QED
  BY <1>1, <1>2 DEF Frame

LEMMA WrapIsNat ==
  ASSUME NEW a \in Nat, NEW b \in Nat
  PROVE  WrappingSeq(a, b) \in Nat
<1>1. SeqLimit \in Nat /\ SeqLimit > 0
  BY LinkBounds
<1> QED
  BY <1>1 DEF WrappingSeq

LEMMA SplitKeeps ==
  ASSUME NEW S, Headers \subseteq S, NEW cells \in Seq(S),
         NEW max \in Nat, max > 0, NEW seq \in Nat,
         NEW split, split = SplitMessage(cells, max, seq)
  PROVE  split.frames \in Seq(Seq(S)) /\ split.next \in Nat
<1> DEFINE ceil  == (Len(cells) + max - 1) \div max
           count == IF ceil = 0 THEN 1 ELSE ceil
           piece(i) == SubSeq(cells, (i - 1) * max + 1,
                              IF i * max < Len(cells) THEN i * max ELSE Len(cells))
           frame(i) == <<Frame(Len(piece(i)), FrameSeq(seq, i - 1), i = 1, i = count)>> \o piece(i)
<1>1. count \in Nat /\ count > 0
  <2>1. ceil \in Nat
    OBVIOUS
  <2> QED
    BY <2>1
<1>2. ASSUME NEW i \in 1 .. count PROVE frame(i) \in Seq(S)
  <2> HIDE DEF count
  <2>1. (i - 1) * max \in Nat /\ i * max \in Nat
    BY <1>1
  <2>2. piece(i) \in Seq(S)
    BY <2>1, SubSeqIn
  <2> HIDE DEF piece
  <2>3. Len(piece(i)) \in Nat
    BY <2>2
  <2>4. FrameSeq(seq, i - 1) \in Nat
    <3>1. i - 1 \in Nat
      BY <1>1
    <3> QED
      BY <3>1, WrapIsNat DEF FrameSeq
  <2>5. PICK len \in Nat, sq \in Nat, start \in BOOLEAN, end \in BOOLEAN :
          /\ len = Len(piece(i)) /\ sq = FrameSeq(seq, i - 1)
          /\ start = (i = 1) /\ end = (i = count)
    BY <2>3, <2>4
  <2>6. PICK h \in S : h = Frame(len, sq, start, end)
    BY FrameIsHeader
  <2>7. <<h>> \o piece(i) \in Seq(S)
    BY <2>2
  <2> QED
    BY <2>5, <2>6, <2>7
<1>3. /\ split.frames = [i \in 1 .. count |-> frame(i)]
      /\ split.next = WrappingSeq(seq, count)
  BY DEF SplitMessage
<1> HIDE DEF count, frame
<1>4. [i \in 1 .. count |-> frame(i)] \in Seq(Seq(S))
  BY <1>1, <1>2
<1> QED
  BY <1>1, <1>3, <1>4, WrapIsNat

LEMMA QueueKeeps ==
  ASSUME NEW s \in Sides, NEW m, NEW S, Headers \subseteq S, Cells(m) \in Seq(S),
         tx = [q \in Sides |-> tx[q]], tx[s] \in [seq : Nat, frames : Seq(Seq(S))],
         Queue(s, m)
  PROVE  /\ tx' = [tx EXCEPT ![s] = tx'[s]]
         /\ tx'[s] \in [seq : Nat, frames : Seq(Seq(S))]
<1>1. PICK split : split = SplitMessage(Cells(m), MtuPayload[s], tx[s].seq)
  OBVIOUS
<1>2. MtuPayload[s] \in Nat /\ MtuPayload[s] > 0
  BY LinkBounds
<1>3. split.frames \in Seq(Seq(S)) /\ split.next \in Nat
  BY <1>1, <1>2, SplitKeeps
<1>4. PICK t : t = [seq |-> split.next, frames |-> tx[s].frames \o split.frames]
  OBVIOUS
<1>5. tx' = [tx EXCEPT ![s] = t]
  BY <1>1, <1>4 DEF Queue
<1>6. tx[s].frames \o split.frames \in Seq(Seq(S))
  BY <1>3
<1>7. t \in [seq : Nat, frames : Seq(Seq(S))]
  BY <1>3, <1>4, <1>6
<1>8. tx'[s] = t
  BY <1>5
<1> QED
  BY <1>5, <1>7, <1>8

-----------------------------------------------------------------------------
(* A message that opens was sealed.                                        *)

LEMMA OpenedWasMade ==
  ASSUME NEW cells \in Seq(Elements), Opened(cells) # None
  PROVE  Opened(cells) \in Made
<1>1. cells # <<>> /\ cells = Cells(cells[1].of) /\ Opened(cells) = cells[1].of
  BY DEF Opened
<1>2. cells[1] \in Elements /\ 1 \in DOMAIN cells
  BY <1>1
<1>3. PICK m : m = cells[1].of
  OBVIOUS
<1>4. cells[1] = [of |-> m, at |-> 1]
  BY <1>1, <1>2, <1>3 DEF Cells
<1>5. cells[1] \notin Headers
  <2> SUFFICES ASSUME cells[1] \in Headers PROVE FALSE
    OBVIOUS
  <2>1. "len" \in DOMAIN cells[1]
    BY DEF Headers
  <2>2. DOMAIN cells[1] = {"of", "at"}
    BY <1>4
  <2> QED
    BY <2>1, <2>2
<1>6. PICK k \in Made, i \in Nat : cells[1] = [of |-> k, at |-> i]
  BY <1>2, <1>5 DEF Elements
<1>7. cells[1].of = k
  BY <1>6
<1> QED
  BY <1>1, <1>7

LEMMA MadeSays ==
  ASSUME Inv, NEW m \in Made, NEW s \in Sides, m.from = s, m.kind = "transport",
         NEW n \in Nat, m.n = n
  PROVE  n + 1 \in 1 .. Len(sent[s]) /\ m.body = sent[s][n + 1]
<1>1. ASSUME NEW q \in Sides, NEW k, m = Sealed(q, "handshake", k, 0, 1) PROVE FALSE
  BY <1>1 DEF Sealed
<1>2. PICK q \in Sides : \E i \in 1 .. Len(sent[q]) : m = Transport(q, i)
  BY <1>1 DEF Made
<1>3. PICK i \in 1 .. Len(sent[q]) : m = Transport(q, i)
  BY <1>2
<1>4. m.from = q /\ m.n = i - 1 /\ m.body = sent[q][i]
  BY <1>3 DEF Transport, Sealed
<1>5. i \in Int /\ i = n + 1
  BY <1>4
<1> QED
  BY <1>4, <1>5

TookInv(t, s) ==
  /\ t \in [side : {s}, ok : {t.ok}, noise : [phase : Turned, tx : {noise[s].tx}, rx : Nat],
            reply : {t.reply}, out : Seq(Plaintexts)]
  /\ noise[s].rx <= t.noise.rx /\ t.noise.rx <= Len(sent[Other(s)])
  /\ t.out = SubSeq(sent[Other(s)], noise[s].rx + 1, t.noise.rx)

\* The next message read is the next that was sent.
LEMMA TakeKeeps ==
  ASSUME Inv, NEW s \in Sides, NEW t, TookInv(t, s), NEW cells \in Seq(Elements)
  PROVE  TookInv(TakeMessage(t, cells), s)
<1>1. Other(s) \in Sides /\ sent[Other(s)] \in Seq(Plaintexts)
  BY DEF Inv, EndInv, Other, Sides
<1>2. t.side = s
  BY DEF TookInv
<1>3. PICK no, reply, phase : no = FALSE /\ reply = (s = Pc) /\ phase = "transport"
  OBVIOUS
<1>4. TookInv([t EXCEPT !.ok = no], s)
  BY DEF TookInv
<1>5. TookInv([t EXCEPT !.noise.phase = phase, !.reply = reply], s)
  BY <1>3 DEF TookInv, Turned, Phases
<1>6. ASSUME Opens(s, "transport", t.noise.rx, cells)
      PROVE  TookInv([t EXCEPT !.noise.rx = t.noise.rx + 1,
                               !.out = Append(t.out, Opened(cells).body)], s)
  <2>1. PICK n \in Nat : n = t.noise.rx
    BY DEF TookInv
  <2>2. PICK m : m = Opened(cells)
    OBVIOUS
  <2>3. m \in Made /\ m.from = Other(s) /\ m.kind = "transport" /\ m.n = n
    BY <1>6, <2>1, <2>2, OpenedWasMade DEF Opens
  <2>4. n + 1 \in 1 .. Len(sent[Other(s)]) /\ m.body = sent[Other(s)][n + 1]
    BY <1>1, <2>3, MadeSays
  <2>5. PICK w \in Seq(Plaintexts) : w = sent[Other(s)]
    BY <1>1
  <2>6. PICK r \in Nat : r = noise[s].rx
    BY DEF Inv, EndInv
  <2>7. PICK b \in Plaintexts : b = m.body
    BY <2>4, <2>5
  <2>8. t.out = SubSeq(w, r + 1, n) /\ r <= n
    BY <2>1, <2>5, <2>6 DEF TookInv
  <2>9. t.out \in Seq(Plaintexts)
    BY DEF TookInv
  <2>10. Append(t.out, b) = SubSeq(w, r + 1, n + 1)
    <3>1. SubSeq(w, r + 1, n + 1) = SubSeq(w, r + 1, (n + 1) - 1) \o << w[n + 1] >>
      <4>1. r + 1 \in 1 .. Len(w) /\ n + 1 \in r + 1 .. Len(w)
        BY <2>4, <2>5, <2>8
      <4> QED
        BY <4>1, SubSeqRecursiveSecond
    <3>2. (n + 1) - 1 = n /\ w[n + 1] = b
      BY <2>4, <2>5, <2>7
    <3>3. Append(t.out, b) = t.out \o << b >>
      BY <2>9, AppendIsConcat
    <3> QED
      BY <2>8, <3>1, <3>2, <3>3
  <2>11. PICK o \in Seq(Plaintexts) : o = Append(t.out, b)
    <3>1. Append(t.out, b) \in Seq(Plaintexts)
      BY <2>9, AppendProperties
    <3> QED
      BY <3>1
  <2>12. PICK k \in Nat : k = n + 1
    OBVIOUS
  <2>13. PICK u : u = [t EXCEPT !.noise.rx = k, !.out = o]
    OBVIOUS
  <2>14. /\ u \in [side : {s}, ok : {u.ok}, noise : [phase : Turned, tx : {noise[s].tx}, rx : Nat],
                    reply : {u.reply}, out : Seq(Plaintexts)]
         /\ u.noise.rx = k /\ u.out = o
    BY <2>13 DEF TookInv
  <2>15. TookInv(u, s)
    BY <2>4, <2>5, <2>6, <2>8, <2>10, <2>11, <2>12, <2>14 DEF TookInv
  <2> QED
    BY <2>1, <2>2, <2>7, <2>11, <2>12, <2>13, <2>15
<1>7. \/ TakeMessage(t, cells) \in {t, [t EXCEPT !.ok = no],
                                   [t EXCEPT !.noise.phase = phase, !.reply = reply]}
      \/ /\ Opens(s, "transport", t.noise.rx, cells)
         /\ TakeMessage(t, cells) = [t EXCEPT !.noise.rx = t.noise.rx + 1,
                                              !.out = Append(t.out, Opened(cells).body)]
  BY <1>2, <1>3 DEF TakeMessage
<1> QED
  BY <1>4, <1>5, <1>6, <1>7

IsTook(took, s, messages, n) ==
  took = [i \in 0 .. n |->
            IF i = 0
            THEN [side |-> s, ok |-> TRUE, noise |-> noise[s], reply |-> FALSE, out |-> <<>>]
            ELSE TakeMessage(took[i - 1], messages[i])]

LEMMA TookExists ==
  ASSUME NEW s, NEW messages, NEW n \in Nat
  PROVE  \E took : IsTook(took, s, messages, n)
<1>1. PICK P : P = {k \in Nat : \E took : IsTook(took, s, messages, k)}
  OBVIOUS
<1>2. PICK t0 : t0 = [side |-> s, ok |-> TRUE, noise |-> noise[s], reply |-> FALSE, out |-> <<>>]
  OBVIOUS
<1>3. 0 \in P
  <2>1. IsTook([i \in 0 .. 0 |-> t0], s, messages, 0)
    BY <1>2 DEF IsTook
  <2> QED
    BY <1>1, <2>1
<1>4. ASSUME NEW k \in 0 .. n - 1, k \in P PROVE k + 1 \in P
  <2>1. PICK g : IsTook(g, s, messages, k)
    BY <1>1, <1>4
  <2>2. PICK h : h = [i \in 0 .. k + 1 |-> IF i = k + 1 THEN TakeMessage(g[k], messages[k + 1])
                                           ELSE g[i]]
    OBVIOUS
  <2>3. \A i \in 0 .. k : g[i] = IF i = 0 THEN t0 ELSE TakeMessage(g[i - 1], messages[i])
    BY <1>2, <2>1 DEF IsTook
  <2>4. \A i \in 0 .. k : h[i] = g[i]
    BY <2>2
  <2>5. \A i \in 0 .. k + 1 : h[i] = IF i = 0 THEN t0 ELSE TakeMessage(h[i - 1], messages[i])
    BY <2>2, <2>3, <2>4
  <2>6. IsTook(h, s, messages, k + 1)
    BY <1>2, <2>2, <2>5 DEF IsTook
  <2> QED
    BY <1>1, <2>6
<1>5. n \in P
  BY <1>3, <1>4, Upto
<1> QED
  BY <1>1, <1>5

LEMMA TakeRuns ==
  ASSUME NEW s, NEW messages, Len(messages) \in Nat
  PROVE  \E took : /\ IsTook(took, s, messages, Len(messages))
                   /\ TakeMessages(s, messages) = took[Len(messages)]
<1>1. PICK g : g = CHOOSE took : IsTook(took, s, messages, Len(messages))
  OBVIOUS
<1>2. IsTook(g, s, messages, Len(messages))
  BY <1>1, TookExists
<1>3. TakeMessages(s, messages) = g[Len(messages)]
  BY <1>1 DEF TakeMessages, IsTook
<1> QED
  BY <1>2, <1>3

LEMMA TakesKeep ==
  ASSUME Inv, NEW s \in Sides, NEW messages \in Seq(Seq(Elements)), noise[s].phase # "write"
  PROVE  TookInv(TakeMessages(s, messages), s)
<1>1. PICK took : /\ IsTook(took, s, messages, Len(messages))
                  /\ TakeMessages(s, messages) = took[Len(messages)]
  BY TakeRuns
<1>2. PICK t0 : t0 = [side |-> s, ok |-> TRUE, noise |-> noise[s], reply |-> FALSE, out |-> <<>>]
  OBVIOUS
<1>3. \A i \in 0 .. Len(messages) :
        took[i] = IF i = 0 THEN t0 ELSE TakeMessage(took[i - 1], messages[i])
  BY <1>1, <1>2 DEF IsTook
<1>4. PICK P : P = {i \in 0 .. Len(messages) : TookInv(took[i], s)}
  OBVIOUS
<1>5. 0 \in P
  <2>1. /\ noise[s] \in [phase : Turned, tx : {noise[s].tx}, rx : Nat]
        /\ noise[s].rx \in Nat /\ noise[s].rx <= Len(sent[Other(s)])
    BY DEF Inv, EndInv, ReadInv, Turned
  <2>2. PICK r \in Nat : r = noise[s].rx
    BY <2>1
  <2>3. SubSeq(sent[Other(s)], r + 1, r) = <<>>
    BY SubSeqEmpty
  <2>4. PICK nil \in Seq(Plaintexts) : nil = <<>>
    <3>1. <<>> \in Seq(Plaintexts)
      OBVIOUS
    <3> QED
      BY <3>1
  <2>5. PICK no, yes, ns : no = FALSE /\ yes = TRUE /\ ns = noise[s]
    OBVIOUS
  <2>6. t0 = [side |-> s, ok |-> yes, noise |-> ns, reply |-> no, out |-> nil]
    BY <1>2, <2>4, <2>5
  <2>7. /\ t0 \in [side : {s}, ok : {t0.ok}, noise : [phase : Turned, tx : {noise[s].tx}, rx : Nat],
                   reply : {t0.reply}, out : Seq(Plaintexts)]
        /\ t0.noise = ns /\ t0.out = nil
    BY <2>1, <2>5, <2>6
  <2>8. TookInv(t0, s)
    BY <2>1, <2>2, <2>3, <2>4, <2>5, <2>7 DEF TookInv
  <2> QED
    BY <1>3, <1>4, <2>8
<1>6. ASSUME NEW i \in 0 .. Len(messages) - 1, i \in P PROVE i + 1 \in P
  <2>1. /\ i + 1 \in 1 .. Len(messages) /\ (i + 1) - 1 = i
        /\ messages[i + 1] \in Seq(Elements)
    OBVIOUS
  <2>2. took[i + 1] = TakeMessage(took[i], messages[i + 1])
    BY <1>3, <2>1
  <2>3. TookInv(took[i], s)
    BY <1>4, <1>6
  <2>4. TookInv(took[i + 1], s)
    BY <2>1, <2>2, <2>3, TakeKeeps
  <2> QED
    BY <1>4, <2>1, <2>4
<1>7. Len(messages) \in P
  <2>1. PICK n \in Nat : n = Len(messages)
    OBVIOUS
  <2>2. \A i \in 0 .. n - 1 : i \in P => i + 1 \in P
    BY <1>6, <2>1
  <2>3. \A i \in 0 .. n : i \in P
    BY <1>5, <2>2, Upto
  <2> QED
    BY <2>1, <2>3
<1> QED
  BY <1>1, <1>4, <1>7

-----------------------------------------------------------------------------
(* Steps.                                                                  *)

LEMMA CarryFrom ==
  ASSUME Inv, UNCHANGED <<peer, sent>>
  PROVE  Made' = Made /\ Elements' = Elements
<1>1. Made' = Made
  BY DEF Made, Transport, Sealed, KeyOf
<1> QED
  BY <1>1 DEF Elements

LEMMA Carry ==
  ASSUME Inv, UNCHANGED <<peer, sent, delivered>>,
         noise' = [s \in Sides |-> noise'[s]],
         tx' = [s \in Sides |-> tx'[s]],
         wire' = [s \in Sides |-> wire'[s]],
         rx' = [s \in Sides |-> rx'[s]],
         open' \subseteq Sides,
         \A s \in Sides :
           /\ noise'[s] \in [phase : Phases, tx : Nat, rx : Nat]
           /\ noise'[s].tx = noise[s].tx /\ noise'[s].rx = noise[s].rx
           /\ tx'[s] \in [seq : Nat, frames : Seq(Seq(Elements))]
           /\ wire'[s] \in Seq(Elements)
           /\ IsAssembler(rx'[s])
  PROVE  Inv'
<1>1. Elements' = Elements
  BY CarryFrom
<1>2. \A a : IsAssembler(a) => IsAssembler(a)'
  BY <1>1 DEF IsAssembler, IsFramer
<1>3. \A s \in Sides : EndInv(s)'
  <2> SUFFICES ASSUME NEW s \in Sides PROVE EndInv(s)'
    OBVIOUS
  <2>1. PICK a : a = rx'[s]
    OBVIOUS
  <2>2. IsAssembler(a)'
    BY <1>2, <2>1
  <2> QED
    BY <1>1, <2>1, <2>2 DEF EndInv, Inv
<1>4. \A s \in Sides : ReadInv(s)'
  BY DEF Inv, ReadInv, Other
<1> QED
  BY <1>3, <1>4 DEF Inv

LEMMA NewIsAssembler == IsAssembler(NewAssembler)
<1>1. PICK nil \in Seq(Elements), none \in Seq(Seq(Elements)) : nil = <<>> /\ none = <<>>
  <2>1. <<>> \in Seq(Elements) /\ <<>> \in Seq(Seq(Elements))
    OBVIOUS
  <2> QED
    BY <2>1
<1>2. PICK no \in BOOLEAN, yes \in BOOLEAN : no = FALSE /\ yes = TRUE
  OBVIOUS
<1>3. PICK f, next : next = None /\ f = [busy |-> no, next |-> next, buffer |-> nil]
  OBVIOUS
<1>4. IsFramer(f)
  BY <1>3 DEF IsFramer
<1>5. PICK a : a = [buffer |-> nil, framer |-> f, messages |-> none, ok |-> yes]
  OBVIOUS
<1>6. IsAssembler(a)
  BY <1>4, <1>5 DEF IsAssembler
<1>7. f = NewFramer
  BY <1>1, <1>2, <1>3 DEF NewFramer
<1>8. a = NewAssembler
  BY <1>1, <1>2, <1>5, <1>7 DEF NewAssembler
<1> QED
  BY <1>6, <1>8

LEMMA HeaderOrCell ==
  ASSUME NEW e \in Elements, IsHeader(e)
  PROVE  e \in Headers
<1> SUFFICES ASSUME e \notin Headers PROVE FALSE
  OBVIOUS
<1>1. PICK m \in Made, i \in Nat : e = [of |-> m, at |-> i]
  BY DEF Elements
<1>2. DOMAIN e = {"of", "at"}
  BY <1>1
<1> QED
  BY <1>2 DEF IsHeader

LEMMA CellsIn ==
  ASSUME NEW m \in Made, m.size \in Nat
  PROVE  Cells(m) \in Seq(Elements)
<1>1. \A i \in 1 .. m.size : [of |-> m, at |-> i] \in Elements
  BY DEF Elements
<1> QED
  BY <1>1 DEF Cells

\* An end closes; nothing else of the invariant moves.
LEMMA StepCloses ==
  ASSUME Inv, NEW s \in Sides, NEW why, Close(s, why),
         UNCHANGED <<peer, noise, wire, sent, delivered>>,
         tx' = [q \in Sides |-> tx'[q]],
         \A q \in Sides : tx'[q] \in [seq : Nat, frames : Seq(Seq(Elements))]
  PROVE  Inv'
<1>1. rx' = [rx EXCEPT ![s] = NewAssembler] /\ open' = open \ {s}
  BY DEF Close
<1>2. /\ rx' = [q \in Sides |-> rx'[q]]
      /\ \A q \in Sides : IsAssembler(rx'[q])
  BY <1>1, NewIsAssembler DEF Inv, EndInv
<1>3. \A q \in Sides : /\ noise'[q] \in [phase : Phases, tx : Nat, rx : Nat]
                       /\ wire'[q] \in Seq(Elements)
  BY DEF Inv, EndInv
<1>4. /\ noise' = [q \in Sides |-> noise'[q]] /\ wire' = [q \in Sides |-> wire'[q]]
      /\ open' \subseteq Sides
  BY <1>1 DEF Inv
<1> QED
  BY <1>2, <1>3, <1>4, Carry

LEMMA StepClosed ==
  ASSUME Inv, NEW s \in Sides, Disconnected(s) \/ EndSession(s)
  PROVE  Inv'
<1>1. /\ \E why : Close(s, why)
      /\ UNCHANGED <<peer, noise, tx, wire, sent, delivered>>
  BY DEF Disconnected, EndSession
<1>2. /\ tx' = [q \in Sides |-> tx'[q]]
      /\ \A q \in Sides : tx'[q] \in [seq : Nat, frames : Seq(Seq(Elements))]
  BY <1>1 DEF Inv, EndInv
<1> QED
  BY <1>1, <1>2, StepCloses

LEMMA StepWriteHandshake ==
  ASSUME Inv, NEW s \in Sides, WriteHandshake(s)
  PROVE  Inv'
<1>1. /\ UNCHANGED <<peer, wire, rx, open, sent, delivered>>
      /\ noise' = [noise EXCEPT ![s].phase = "read"]
      /\ Queue(s, Sealed(s, "handshake", 0, 0, 1))
  BY DEF WriteHandshake
<1>2. PICK m : m = Sealed(s, "handshake", 0, 0, 1)
  OBVIOUS
<1>3. m \in Made /\ m.size = 1
  <2>1. 0 \in 0 .. 1
    OBVIOUS
  <2> QED
    BY <1>2, <2>1 DEF Made, Sealed
<1>4. Cells(m) \in Seq(Elements)
  BY <1>3, CellsIn
<1>5. /\ tx' = [tx EXCEPT ![s] = tx'[s]]
      /\ tx'[s] \in [seq : Nat, frames : Seq(Seq(Elements))]
  <2>1. Headers \subseteq Elements
    BY DEF Elements
  <2>2. tx = [q \in Sides |-> tx[q]] /\ tx[s] \in [seq : Nat, frames : Seq(Seq(Elements))]
    BY DEF Inv, EndInv
  <2>3. Queue(s, m)
    BY <1>1, <1>2
  <2> QED
    BY <1>4, <2>1, <2>2, <2>3, QueueKeeps
<1>6. /\ tx' = [q \in Sides |-> tx'[q]]
      /\ \A q \in Sides : tx'[q] \in [seq : Nat, frames : Seq(Seq(Elements))]
  BY <1>5 DEF Inv, EndInv
<1>7. /\ noise' = [q \in Sides |-> noise'[q]]
      /\ \A q \in Sides : /\ noise'[q] \in [phase : Phases, tx : Nat, rx : Nat]
                          /\ noise'[q].tx = noise[q].tx /\ noise'[q].rx = noise[q].rx
  <2>1. PICK n : n = [noise[s] EXCEPT !.phase = "read"]
    OBVIOUS
  <2>2. n \in [phase : Phases, tx : Nat, rx : Nat] /\ n.tx = noise[s].tx /\ n.rx = noise[s].rx
    BY <2>1 DEF Inv, EndInv, Phases
  <2>3. noise' = [noise EXCEPT ![s] = n]
    BY <1>1, <2>1
  <2> QED
    BY <2>2, <2>3 DEF Inv, EndInv
<1>8. \A q \in Sides : wire'[q] \in Seq(Elements) /\ IsAssembler(rx'[q])
  BY <1>1 DEF Inv, EndInv
<1>9. /\ wire' = [q \in Sides |-> wire'[q]] /\ rx' = [q \in Sides |-> rx'[q]]
      /\ open' \subseteq Sides
  BY <1>1 DEF Inv
<1> QED
  BY <1>1, <1>6, <1>7, <1>8, <1>9, Carry

\* A step of the air or of a writer: only cells on the way, and frames
\* waiting, change.
LEMMA StepMoves ==
  ASSUME Inv, NEW s \in Sides, UNCHANGED <<peer, noise, rx, open, sent, delivered>>,
         NEW w \in Seq(Elements), wire' = [wire EXCEPT ![s] = w],
         tx' = [q \in Sides |-> tx'[q]],
         \A q \in Sides : tx'[q] \in [seq : Nat, frames : Seq(Seq(Elements))]
  PROVE  Inv'
<1>1. /\ wire' = [q \in Sides |-> wire'[q]]
      /\ \A q \in Sides : wire'[q] \in Seq(Elements)
  BY DEF Inv, EndInv
<1>2. \A q \in Sides : /\ noise'[q] \in [phase : Phases, tx : Nat, rx : Nat]
                       /\ IsAssembler(rx'[q])
  BY DEF Inv, EndInv
<1>3. /\ noise' = [q \in Sides |-> noise'[q]] /\ rx' = [q \in Sides |-> rx'[q]]
      /\ open' \subseteq Sides
  BY DEF Inv
<1> QED
  BY <1>1, <1>2, <1>3, Carry

LEMMA StepWriteFrame ==
  ASSUME Inv, NEW s \in Sides, WriteFrame(s)
  PROVE  Inv'
<1>1. /\ UNCHANGED <<peer, noise, sent, delivered>>
      /\ tx[s].frames # <<>>
      /\ tx' = [tx EXCEPT ![s].frames = Tail(tx[s].frames)]
  BY DEF WriteFrame, Writing
<1>2. /\ tx[s] \in [seq : Nat, frames : Seq(Seq(Elements))]
      /\ wire[s] \in Seq(Elements)
  BY DEF Inv, EndInv
<1>3. Head(tx[s].frames) \in Seq(Elements) /\ Tail(tx[s].frames) \in Seq(Seq(Elements))
  BY <1>1, <1>2
<1>4. PICK t, rest : rest = Tail(tx[s].frames) /\ t = [tx[s] EXCEPT !.frames = rest]
  OBVIOUS
<1>5. t \in [seq : Nat, frames : Seq(Seq(Elements))]
  BY <1>2, <1>3, <1>4
<1>6. tx' = [tx EXCEPT ![s] = t]
  BY <1>1, <1>4
<1>7. /\ tx' = [q \in Sides |-> tx'[q]]
      /\ \A q \in Sides : tx'[q] \in [seq : Nat, frames : Seq(Seq(Elements))]
  BY <1>5, <1>6 DEF Inv, EndInv
<1>8. CASE Other(s) \in open
  <2>1. PICK w \in Seq(Elements) : w = wire[s] \o Head(tx[s].frames)
    <3>1. wire[s] \o Head(tx[s].frames) \in Seq(Elements)
      BY <1>2, <1>3, ConcatProperties
    <3> QED
      BY <3>1
  <2>2. wire' = [wire EXCEPT ![s] = w] /\ UNCHANGED <<rx, open>>
    BY <1>8, <2>1 DEF WriteFrame
  <2> QED
    BY <1>1, <1>7, <2>2, StepMoves
<1>9. CASE Other(s) \notin open
  <2>1. Close(s, "disconnected") /\ wire' = wire
    BY <1>9 DEF WriteFrame
  <2> QED
    BY <1>1, <1>7, <2>1, StepCloses
<1> QED
  BY <1>8, <1>9

LEMMA StepInsertAck ==
  ASSUME Inv, NEW s \in Sides, InsertAck(s)
  PROVE  Inv'
<1>1. /\ UNCHANGED <<peer, noise, tx, rx, open, sent, delivered>>
      /\ wire[s] # <<>> /\ IsHeader(Head(wire[s]))
  BY DEF InsertAck, Untouched
<1>2. wire[s] \in Seq(Elements)
  BY DEF Inv, EndInv
<1>3. wire[s][1] \in Headers
  BY <1>1, <1>2, HeaderOrCell
<1>4. PICK seq \in Int : seq = wire[s][1].seq
  BY <1>3 DEF Headers
<1>5. PICK ack : ack = [Frame(0, seq, FALSE, FALSE) EXCEPT !.ack = TRUE]
  OBVIOUS
<1>6. ack \in Elements
  <2>1. PICK yes \in BOOLEAN : yes = TRUE
    OBVIOUS
  <2> PICK h : h = Frame(0, seq, FALSE, FALSE)
    OBVIOUS
  <2>2. h \in Headers
    BY <2>1, FrameIsHeader
  <2>3. [h EXCEPT !.ack = yes] \in Headers
    BY <2>2 DEF Headers
  <2> QED
    BY <1>5, <2>1, <2>3 DEF Elements
<1>7. PICK w \in Seq(Elements) : w = <<ack>> \o wire[s]
  <2>1. <<ack>> \in Seq(Elements)
    BY <1>6
  <2>2. <<ack>> \o wire[s] \in Seq(Elements)
    BY <1>2, <2>1, ConcatProperties
  <2> QED
    BY <2>2
<1>8. wire' = [wire EXCEPT ![s] = w]
  BY <1>4, <1>5, <1>7 DEF InsertAck
<1>9. /\ tx' = [q \in Sides |-> tx'[q]]
      /\ \A q \in Sides : tx'[q] \in [seq : Nat, frames : Seq(Seq(Elements))]
  BY <1>1 DEF Inv, EndInv
<1> QED
  BY <1>1, <1>8, <1>9, StepMoves

LEMMA LeastCut ==
  ASSUME NEW n \in Nat, NEW P, P \subseteq 1 .. n
  PROVE  Min(P \cup {n + 1}) \in 1 .. n + 1
<1>1. PICK Q : Q = P \cup {n + 1}
  OBVIOUS
<1>2. \A i \in Q : i \in 1 .. n + 1
  BY <1>1
<1>3. Q \subseteq Nat /\ Q # {}
  BY <1>1, <1>2
<1>4. \E i \in Q : \A j \in Q : i <= j
  BY <1>3, FirstOf
<1>5. Min(Q) \in Q
  BY <1>4, Zenon DEF Min
<1> QED
  BY <1>1, <1>2, <1>5

\* Loss, repetition, swap and damage put no cell on the way that was not.
LEMMA DamageKeeps ==
  ASSUME NEW w \in Seq(Elements), Untouched(w), NEW v \in Damaged(w)
  PROVE  v \in Seq(Elements)
<1> DEFINE later == Starts(w) \ {1}
           cut   == Min(later \cup {Len(w) + 1})
           first == SubSeq(w, 1, cut - 1)
           end   == Min((later \ {cut}) \cup {Len(w) + 1})
           swapped(e) == SubSeq(w, cut, e - 1) \o first \o SubSeq(w, e, Len(w))
<1>1. Len(w) \in Nat /\ later \subseteq 1 .. Len(w)
  BY DEF Starts
<1>2. \A P : P \subseteq 1 .. Len(w) => Min(P \cup {Len(w) + 1}) \in 1 .. Len(w) + 1
  BY <1>1, LeastCut
<1>3. cut \in 1 .. Len(w) + 1 /\ end \in 1 .. Len(w) + 1
  BY <1>1, <1>2
<1> HIDE DEF later, cut, end
<1>4. first \in Seq(Elements)
  BY <1>1, <1>3, SubSeqIn
<1>5. first \o w \in Seq(Elements)
  BY <1>4, ConcatProperties
<1>6. swapped(end) \in Seq(Elements)
  <2>1. SubSeq(w, cut, end - 1) \in Seq(Elements) /\ SubSeq(w, end, Len(w)) \in Seq(Elements)
    BY <1>1, <1>3, SubSeqIn
  <2> QED
    BY <1>4, <2>1, ConcatProperties
<1>7. ASSUME NEW k \in later \cup {Len(w) + 1} PROVE SubSeq(w, k, Len(w)) \in Seq(Elements)
  <2>1. k \in 1 .. Len(w) + 1
    BY <1>1, <1>7
  <2> QED
    BY <1>1, <2>1, SubSeqIn
<1>8. [w EXCEPT ![1].legal = FALSE] \in Seq(Elements)
  <2>1. w # <<>> /\ w[1] \in Headers
    BY HeaderOrCell DEF Untouched
  <2>2. PICK h : \E no \in BOOLEAN : no = FALSE /\ h = [w[1] EXCEPT !.legal = no]
    OBVIOUS
  <2>3. h \in Elements
    BY <2>1, <2>2 DEF Headers, Elements
  <2>4. [w EXCEPT ![1] = h] \in Seq(Elements)
    BY <2>1, <2>3, ExceptSeq
  <2> QED
    BY <2>2, <2>4
<1>9. \/ \E k \in later \cup {Len(w) + 1} : v = SubSeq(w, k, Len(w))
      \/ v = first \o w \/ v = [w EXCEPT ![1].legal = FALSE] \/ v = swapped(end)
  BY Zenon DEF Damaged, later, cut, end
<1> QED
  BY <1>5, <1>6, <1>7, <1>8, <1>9

LEMMA StepFault ==
  ASSUME Inv, NEW s \in Sides, Fault(s)
  PROVE  Inv'
<1>1. PICK w \in Damaged(wire[s]) : wire' = [wire EXCEPT ![s] = w]
  BY DEF Fault
<1>2. w \in Seq(Elements)
  BY <1>1, DamageKeeps DEF Fault, Inv, EndInv
<1>3. UNCHANGED <<peer, noise, tx, rx, open, sent, delivered>>
  BY DEF Fault
<1>4. /\ tx' = [q \in Sides |-> tx'[q]]
      /\ \A q \in Sides : tx'[q] \in [seq : Nat, frames : Seq(Seq(Elements))]
  BY <1>3 DEF Inv, EndInv
<1> QED
  BY <1>1, <1>2, <1>3, <1>4, StepMoves

LEMMA PrefixStays ==
  ASSUME NEW S, NEW w \in Seq(S), NEW e \in S, NEW r \in Nat, r <= Len(w)
  PROVE  SubSeq(Append(w, e), 1, r) = SubSeq(w, 1, r)
<1>1. Append(w, e) \in Seq(S) /\ \A i \in 1 .. r : Append(w, e)[i] = w[i] /\ w[i] \in S
  BY AppendProperties
<1>2. PICK a, b : a = SubSeq(Append(w, e), 1, r) /\ b = SubSeq(w, 1, r)
  OBVIOUS
<1>3. a \in Seq(S) /\ Len(a) = r /\ \A i \in 1 .. r : a[i] = Append(w, e)[i]
  BY <1>1, <1>2, SubSeqProperties
<1>4. b \in Seq(S) /\ Len(b) = r /\ \A i \in 1 .. r : b[i] = w[i]
  BY <1>1, <1>2, SubSeqProperties
<1>5. a = b
  BY <1>1, <1>3, <1>4, SeqEqual
<1> QED
  BY <1>2, <1>5

LEMMA StepSend ==
  ASSUME Inv, NEW s \in Sides, NEW size \in Sizes, Send(s, size)
  PROVE  Inv'
<1>1. CASE ~(size + TagLen <= NoiseMax)
  <2>1. Close(s, "too_long") /\ UNCHANGED <<peer, noise, tx, wire, sent, delivered>>
    BY <1>1 DEF Send
  <2>2. /\ tx' = [q \in Sides |-> tx'[q]]
        /\ \A q \in Sides : tx'[q] \in [seq : Nat, frames : Seq(Seq(Elements))]
    BY <2>1 DEF Inv, EndInv
  <2> QED
    BY <2>1, <2>2, StepCloses
<1>2. CASE size + TagLen <= NoiseMax
  <2>1. PICK w \in Seq(Plaintexts), n \in Nat : w = sent[s] /\ n = Len(w) /\ n = noise[s].tx
    BY DEF Inv, EndInv
  <2>2. PICK m : m = [by |-> s, i |-> n + 1, size |-> size]
    OBVIOUS
  <2>3. n < MaxSends /\ MaxSends \in Nat /\ size \in Nat
    BY <2>1, LinkBounds DEF Send
  <2>4. m \in Plaintexts /\ m.size = size
    BY <2>2, <2>3 DEF Plaintexts
  <2>5. PICK c : c = Sealed(s, "transport", n, m, size + TagLen)
    OBVIOUS
  <2>6. /\ Queue(s, c)
        /\ noise' = [noise EXCEPT ![s].tx = noise[s].tx + 1]
        /\ sent' = [sent EXCEPT ![s] = Append(sent[s], m)]
        /\ UNCHANGED <<peer, wire, rx, open, delivered>>
    BY <1>2, <2>1, <2>2, <2>5 DEF Send
  <2>7. PICK v \in Seq(Plaintexts) : v = Append(w, m)
    <3>1. Append(w, m) \in Seq(Plaintexts)
      BY <2>4, AppendProperties
    <3> QED
      BY <3>1
  <2>8. /\ Len(v) = n + 1 /\ v[n + 1] = m
        /\ \A i \in 1 .. n : v[i] = w[i]
    <3>1. /\ Len(Append(w, m)) = Len(w) + 1 /\ Append(w, m)[Len(w) + 1] = m
          /\ \A i \in 1 .. Len(w) : Append(w, m)[i] = w[i]
      BY <2>4, AppendProperties
    <3> QED
      BY ONLY <2>1, <2>7, <3>1
  <2>9. \A q \in Sides : sent'[q] = IF q = s THEN v ELSE sent[q]
    BY <2>1, <2>6, <2>7 DEF Inv
  <2>10. Made \subseteq Made'
    <3>1. \A q : KeyOf(q)' = KeyOf(q)
      BY <2>6 DEF KeyOf
    <3>2. \A q \in Sides : \A i \in 1 .. Len(sent[q]) :
            i \in 1 .. Len(sent'[q]) /\ Transport(q, i)' = Transport(q, i)
      <4> SUFFICES ASSUME NEW q \in Sides, NEW i \in 1 .. Len(sent[q])
                   PROVE  i \in 1 .. Len(sent'[q]) /\ Transport(q, i)' = Transport(q, i)
        OBVIOUS
      <4>1. i \in 1 .. Len(sent'[q]) /\ sent'[q][i] = sent[q][i]
        <5>1. CASE q = s
          <6>1. i \in 1 .. n /\ sent'[q] = v /\ sent[q] = w
            BY <2>1, <2>9, <5>1
          <6> QED
            BY <2>8, <6>1
        <5>2. CASE q # s
          BY <2>9, <5>2
        <5> QED
          BY <5>1, <5>2
      <4> QED
        BY <3>1, <4>1 DEF Transport, Sealed
    <3>3. \A q, k : Sealed(q, "handshake", k, 0, 1)' = Sealed(q, "handshake", k, 0, 1)
      BY <3>1 DEF Sealed
    <3> QED
      BY <3>2, <3>3 DEF Made
  <2>11. c \in Made' /\ c.size \in Nat
    <3>1. c = Transport(s, n + 1)'
      <4>1. (n + 1) - 1 = n /\ sent'[s][n + 1] = m /\ KeyOf(s)' = KeyOf(s)
        <5>1. sent'[s] = v
          BY <2>9
        <5>2. KeyOf(s)' = KeyOf(s)
          BY <2>6 DEF KeyOf
        <5> QED
          BY <2>8, <5>1, <5>2
      <4> QED
        BY <2>4, <2>5, <4>1 DEF Transport, Sealed
    <3>2. n + 1 \in 1 .. Len(sent'[s])
      BY <2>8, <2>9
    <3>3. c \in Made'
      BY <3>1, <3>2 DEF Made
    <3>4. c.size = size + TagLen /\ TagLen = 1
      BY <2>5 DEF Sealed, TagLen
    <3> QED
      BY <2>3, <3>3, <3>4
  <2>12. Elements \subseteq Elements' /\ Headers \subseteq Elements'
    BY <2>10 DEF Elements
  <2>13. Seq(Elements) \subseteq Seq(Elements') /\ Seq(Seq(Elements)) \subseteq Seq(Seq(Elements'))
    <3>1. Seq(Elements) \subseteq Seq(Elements')
      BY <2>12
    <3> QED
      BY <3>1
  <2>14. Cells(c) \in Seq(Elements')
    <3>1. \A i \in 1 .. c.size : [of |-> c, at |-> i] \in Elements'
      BY <2>11 DEF Elements
    <3> QED
      BY <2>11, <3>1 DEF Cells
  <2>15. \A q \in Sides : tx[q] \in [seq : Nat, frames : Seq(Seq(Elements'))]
    BY <2>13 DEF Inv, EndInv
  <2>16. /\ tx' = [tx EXCEPT ![s] = tx'[s]]
         /\ tx'[s] \in [seq : Nat, frames : Seq(Seq(Elements'))]
    <3>1. tx = [q \in Sides |-> tx[q]] /\ Queue(s, c)
      BY <2>6 DEF Inv
    <3> QED
      BY <2>12, <2>14, <2>15, <3>1, QueueKeeps
  <2>17. /\ tx' = [q \in Sides |-> tx'[q]]
         /\ \A q \in Sides : tx'[q] \in [seq : Nat, frames : Seq(Seq(Elements'))]
    BY <2>15, <2>16 DEF Inv
  <2>18. /\ noise' = [q \in Sides |-> noise'[q]]
         /\ \A q \in Sides : /\ noise'[q] \in [phase : Phases, tx : Nat, rx : Nat]
                             /\ noise'[q].tx = Len(sent'[q]) /\ noise'[q].rx = noise[q].rx
    <3>1. PICK up \in Nat : up = n + 1
      OBVIOUS
    <3>2. PICK k : k = [noise[s] EXCEPT !.tx = up]
      OBVIOUS
    <3>3. noise[s] \in [phase : Phases, tx : Nat, rx : Nat]
      BY DEF Inv, EndInv
    <3>4. k \in [phase : Phases, tx : Nat, rx : Nat] /\ k.tx = n + 1 /\ k.rx = noise[s].rx
      BY ONLY up \in Nat, <3>2, <3>1, <3>3
    <3>5. noise' = [noise EXCEPT ![s] = k]
      BY <2>1, <2>6, <3>2, <3>1
    <3> QED
      BY <2>8, <2>9, <3>4, <3>5 DEF Inv, EndInv
  <2>19. \A a : IsAssembler(a) => IsAssembler(a)'
    BY <2>13 DEF IsAssembler, IsFramer
  <2>20. \A q \in Sides : EndInv(q)'
    <3> SUFFICES ASSUME NEW q \in Sides PROVE EndInv(q)'
      OBVIOUS
    <3>1. PICK a : a = rx[q]
      OBVIOUS
    <3>2. IsAssembler(a)' /\ rx'[q] = a
      BY <2>6, <2>19, <3>1 DEF Inv, EndInv
    <3>3. wire'[q] \in Seq(Elements') /\ sent'[q] \in Seq(Plaintexts)
      BY <2>6, <2>9, <2>13 DEF Inv, EndInv
    <3> QED
      BY <2>17, <2>18, <3>2, <3>3 DEF EndInv
  <2>21. \A q \in Sides : ReadInv(q)'
    <3> SUFFICES ASSUME NEW q \in Sides PROVE ReadInv(q)'
      OBVIOUS
    <3>1. ReadInv(q) /\ noise'[q].rx = noise[q].rx /\ delivered'[q] = delivered[q]
      BY <2>6, <2>18 DEF Inv
    <3>2. PICK r \in Nat : r = noise[q].rx
      BY DEF Inv, EndInv
    <3>3. CASE Other(q) = s
      <4>1. SubSeq(v, 1, r) = SubSeq(w, 1, r) /\ r <= Len(v)
        BY <2>1, <2>4, <2>7, <2>8, <3>1, <3>2, <3>3, PrefixStays DEF ReadInv
      <4> QED
        BY <2>1, <2>9, <3>1, <3>2, <3>3, <4>1 DEF ReadInv, Other
    <3>4. CASE Other(q) # s
      <4>1. sent'[Other(q)] = sent[Other(q)]
        BY <2>9, <3>4 DEF Other, Sides
      <4> QED
        BY <3>1, <4>1 DEF ReadInv, Other
    <3> QED
      BY <3>3, <3>4
  <2>22. sent' = [q \in Sides |-> sent'[q]]
    BY <2>6 DEF Inv
  <2> QED
    BY <2>6, <2>17, <2>18, <2>20, <2>21, <2>22 DEF Inv
<1> QED
  BY <1>1, <1>2

\* What a chunk does to the end that reads it: some number of the messages
\* sent to it come out, the next ones, perhaps none.
LEMMA ReceiveGives ==
  ASSUME Inv, NEW s \in Sides, NEW k \in Nat, k > 0, Receive(s, k)
  PROVE  \E n \in [phase : Turned, tx : Nat, rx : Nat] :
           /\ n.tx = noise[s].tx /\ noise[s].rx <= n.rx /\ n.rx <= Len(sent[Other(s)])
           /\ noise' = [noise EXCEPT ![s] = n]
           /\ delivered' = [delivered EXCEPT ![s] = SubSeq(sent[Other(s)], 1, n.rx)]
           /\ rx' = [q \in Sides |-> rx'[q]]
           /\ \A q \in Sides : IsAssembler(rx'[q])
<1>1. PICK chunk, a, t : /\ chunk = SubSeq(Arriving(s), 1, k)
                         /\ a = Ingest(rx[s], chunk) /\ t = TakeMessages(s, a.messages)
  OBVIOUS
<1>2. Other(s) \in Sides
  BY DEF Other, Sides
<1>3. chunk \in Seq(Elements)
  <2>1. wire[Other(s)] \in Seq(Elements) /\ k <= Len(wire[Other(s)])
    BY <1>2 DEF Inv, EndInv, Receive, Arriving
  <2> QED
    BY <1>1, <2>1, SubSeqIn DEF Arriving
<1>4. IsAssembler(a)
  BY <1>1, <1>3, IngestKeeps DEF Inv, EndInv
<1>5. TookInv(t, s)
  BY <1>1, <1>4, TakesKeep DEF IsAssembler, Receive
<1>6. PICK w \in Seq(Plaintexts), r \in Nat :
        w = sent[Other(s)] /\ r = noise[s].rx /\ r <= Len(w) /\ delivered[s] = SubSeq(w, 1, r)
  <2>1. EndInv(s) /\ EndInv(Other(s)) /\ ReadInv(s)
    BY <1>2 DEF Inv
  <2>2. sent[Other(s)] \in Seq(Plaintexts) /\ noise[s].rx \in Nat
    BY <2>1 DEF EndInv
  <2>3. /\ noise[s].rx <= Len(sent[Other(s)])
        /\ delivered[s] = SubSeq(sent[Other(s)], 1, noise[s].rx)
    BY <2>1 DEF ReadInv
  <2> QED
    BY <2>2, <2>3
<1>7. PICK n : n = IF a.ok THEN t.noise ELSE noise[s]
  OBVIOUS
<1>8. /\ n \in [phase : Turned, tx : Nat, rx : Nat] /\ n.tx = noise[s].tx
      /\ r <= n.rx /\ n.rx <= Len(w)
  <2>1. noise[s] \in [phase : Turned, tx : Nat, rx : Nat]
    BY DEF Inv, EndInv, Turned, Receive
  <2>2. CASE a.ok
    BY <1>5, <1>6, <1>7, <2>1, <2>2 DEF TookInv, Turned
  <2>3. CASE ~a.ok
    BY <1>6, <1>7, <2>1, <2>3
  <2> QED
    BY <2>2, <2>3
<1>9. (IF a.ok THEN delivered[s] \o t.out ELSE delivered[s]) = SubSeq(w, 1, n.rx)
  <2>1. CASE a.ok
    <3>1. PICK j \in Nat : j = n.rx
      BY <1>8
    <3>2. t.out = SubSeq(w, r + 1, j)
      BY <1>5, <1>6, <1>7, <2>1, <3>1 DEF TookInv
    <3>3. 1 \in 1 .. Len(w) + 1 /\ r \in 1 - 1 .. Len(w) /\ j \in r .. Len(w)
      BY <1>8, <3>1
    <3>4. SubSeq(w, 1, r) \o SubSeq(w, r + 1, j) = SubSeq(w, 1, j)
      BY <3>3, ConcatAdjacentSubSeq
    <3> QED
      BY <1>6, <2>1, <3>1, <3>2, <3>4
  <2>2. CASE ~a.ok
    BY <1>6, <1>7, <2>2
  <2> QED
    BY <2>1, <2>2
<1>10. noise' = [noise EXCEPT ![s] = n]
  BY <1>1, <1>7 DEF Receive
<1>11. delivered' = [delivered EXCEPT ![s] = SubSeq(w, 1, n.rx)]
  <2>1. delivered' = [delivered EXCEPT ![s] = IF a.ok THEN delivered[s] \o t.out ELSE delivered[s]]
    BY <1>1 DEF Receive
  <2> QED
    BY <1>9, <2>1
<1>12. PICK b : /\ IsAssembler(b)
                /\ rx' = [rx EXCEPT ![s] = b]
  <2>1. CASE a.ok /\ t.ok
    <3>1. PICK none \in Seq(Seq(Elements)) : none = <<>>
      <4>1. <<>> \in Seq(Seq(Elements))
        OBVIOUS
      <4> QED
        BY <4>1
    <3>2. PICK b : b = [a EXCEPT !.messages = none]
      OBVIOUS
    <3>3. IsAssembler(b)
      BY <1>4, <3>2 DEF IsAssembler
    <3>4. rx' = [rx EXCEPT ![s] = b]
      BY <1>1, <2>1, <3>1, <3>2 DEF Receive
    <3> QED
      BY <3>3, <3>4
  <2>2. CASE ~(a.ok /\ t.ok)
    <3>1. rx' = [rx EXCEPT ![s] = NewAssembler]
      BY <1>1, <2>2 DEF Receive, Close
    <3> QED
      BY <3>1, NewIsAssembler
  <2> QED
    BY <2>1, <2>2
<1>13. rx' = [q \in Sides |-> rx'[q]] /\ \A q \in Sides : IsAssembler(rx'[q])
  BY <1>12 DEF Inv, EndInv
<1> QED
  BY <1>6, <1>8, <1>10, <1>11, <1>13

LEMMA StepReceive ==
  ASSUME Inv, NEW s \in Sides, NEW k \in Nat, k > 0, Receive(s, k)
  PROVE  Inv'
<1>1. PICK n \in [phase : Turned, tx : Nat, rx : Nat] :
        /\ n.tx = noise[s].tx /\ noise[s].rx <= n.rx /\ n.rx <= Len(sent[Other(s)])
        /\ noise' = [noise EXCEPT ![s] = n]
        /\ delivered' = [delivered EXCEPT ![s] = SubSeq(sent[Other(s)], 1, n.rx)]
        /\ rx' = [q \in Sides |-> rx'[q]]
        /\ \A q \in Sides : IsAssembler(rx'[q])
  BY ReceiveGives
<1>2. /\ UNCHANGED <<peer, sent>>
      /\ wire' = [wire EXCEPT ![Other(s)] = SubSeq(wire[Other(s)], k + 1, Len(wire[Other(s)]))]
      /\ open' \subseteq open
  BY DEF Receive, Close
<1>3. Made' = Made /\ Elements' = Elements
  BY <1>2, CarryFrom
<1>4. Other(s) \in Sides
  BY DEF Other, Sides
<1>5. /\ wire' = [q \in Sides |-> wire'[q]]
      /\ \A q \in Sides : wire'[q] \in Seq(Elements)
  <2>1. PICK v \in Seq(Elements) : v = SubSeq(wire[Other(s)], k + 1, Len(wire[Other(s)]))
    <3>1. wire[Other(s)] \in Seq(Elements)
      BY <1>4 DEF Inv, EndInv
    <3>2. SubSeq(wire[Other(s)], k + 1, Len(wire[Other(s)])) \in Seq(Elements)
      BY <3>1, SubSeqIn
    <3> QED
      BY <3>2
  <2>2. wire' = [wire EXCEPT ![Other(s)] = v]
    BY <1>2, <2>1
  <2> QED
    BY <2>2 DEF Inv, EndInv
<1>6. /\ tx' = [q \in Sides |-> tx'[q]]
      /\ \A q \in Sides : tx'[q] \in [seq : Nat, frames : Seq(Seq(Elements))]
  <2>1. CASE tx' = tx
    BY <2>1 DEF Inv, EndInv
  <2>2. CASE tx' # tx
    <3>1. PICK m : m = Sealed(s, "handshake", 1, 0, 1)
      OBVIOUS
    <3>2. Queue(s, m)
      BY <2>2, <3>1 DEF Receive
    <3>3. m \in Made /\ m.size = 1
      <4>1. 1 \in 0 .. 1
        OBVIOUS
      <4> QED
        BY <3>1, <4>1 DEF Made, Sealed
    <3>4. Cells(m) \in Seq(Elements)
      BY <3>3, CellsIn
    <3>5. /\ Headers \subseteq Elements
          /\ tx = [q \in Sides |-> tx[q]] /\ tx[s] \in [seq : Nat, frames : Seq(Seq(Elements))]
      BY DEF Inv, EndInv, Elements
    <3>6. /\ tx' = [tx EXCEPT ![s] = tx'[s]]
          /\ tx'[s] \in [seq : Nat, frames : Seq(Seq(Elements))]
      BY <3>2, <3>4, <3>5, QueueKeeps
    <3> QED
      BY <3>6 DEF Inv, EndInv
  <2> QED
    BY <2>1, <2>2
<1>7. \A a : IsAssembler(a) => IsAssembler(a)'
  BY <1>3 DEF IsAssembler, IsFramer
<1>8. \A q \in Sides : noise'[q] = IF q = s THEN n ELSE noise[q]
  BY <1>1 DEF Inv
<1>9. \A q \in Sides : EndInv(q)'
  <2> SUFFICES ASSUME NEW q \in Sides PROVE EndInv(q)'
    OBVIOUS
  <2>1. PICK a : a = rx'[q]
    OBVIOUS
  <2>2. IsAssembler(a)'
    BY <1>1, <1>7, <2>1
  <2>3. /\ noise'[q] \in [phase : Phases, tx : Nat, rx : Nat]
        /\ noise'[q].tx = Len(sent[q]) /\ sent[q] \in Seq(Plaintexts)
    BY <1>1, <1>8 DEF Inv, EndInv, Turned
  <2> QED
    BY <1>2, <1>3, <1>5, <1>6, <2>1, <2>2, <2>3 DEF EndInv
<1>10. \A q \in Sides : ReadInv(q)'
  <2> SUFFICES ASSUME NEW q \in Sides PROVE ReadInv(q)'
    OBVIOUS
  <2>1. delivered'[q] = IF q = s THEN SubSeq(sent[Other(s)], 1, n.rx) ELSE delivered[q]
    BY <1>1 DEF Inv
  <2>2. ReadInv(q)
    BY DEF Inv
  <2> QED
    BY <1>1, <1>2, <1>8, <2>1, <2>2 DEF ReadInv, Other
<1>11. /\ noise' = [q \in Sides |-> noise'[q]] /\ delivered' = [q \in Sides |-> delivered'[q]]
       /\ sent' = [q \in Sides |-> sent'[q]] /\ open' \subseteq Sides
  BY <1>1, <1>2 DEF Inv
<1> QED
  BY <1>1, <1>5, <1>6, <1>9, <1>10, <1>11 DEF Inv

LEMMA InvInit ==
  ASSUME Init
  PROVE  Inv
<1> USE DEF Init
<1>1. <<>> \in Seq(Elements) /\ <<>> \in Seq(Seq(Elements)) /\ <<>> \in Seq(Plaintexts)
  OBVIOUS
<1>2. \A s \in Sides : EndInv(s)
  <2> SUFFICES ASSUME NEW s \in Sides PROVE EndInv(s)
    OBVIOUS
  <2>1. PICK nil \in Seq(Seq(Elements)) : nil = <<>>
    BY <1>1
  <2>2. tx[s] = [seq |-> 0, frames |-> nil]
    BY <2>1
  <2>3. tx[s] \in [seq : Nat, frames : Seq(Seq(Elements))]
    BY <2>2
  <2>4. noise[s] \in [phase : Phases, tx : Nat, rx : Nat] /\ noise[s].tx = 0
    BY DEF Phases
  <2>5. wire[s] \in Seq(Elements) /\ sent[s] \in Seq(Plaintexts) /\ Len(sent[s]) = 0
    BY <1>1
  <2>6. IsAssembler(rx[s])
    BY NewIsAssembler
  <2> QED
    BY <2>3, <2>4, <2>5, <2>6 DEF EndInv
<1>3. \A s \in Sides : ReadInv(s)
  <2> SUFFICES ASSUME NEW s \in Sides PROVE ReadInv(s)
    OBVIOUS
  <2>1. noise[s].rx = 0 /\ sent[Other(s)] = <<>> /\ delivered[s] = <<>>
    BY DEF Other, Sides
  <2>2. SubSeq(sent[Other(s)], 1, 0) = <<>>
    BY SubSeqEmpty
  <2> QED
    BY <2>1, <2>2 DEF ReadInv
<1> QED
  BY <1>2, <1>3 DEF Inv

LEMMA InvNext ==
  ASSUME Inv, [Next]_vars
  PROVE  Inv'
<1>1. CASE UNCHANGED vars
  <2>1. /\ UNCHANGED <<peer, sent, delivered, open, noise, tx, wire, rx>>
    BY <1>1 DEF vars
  <2>2. Made' = Made /\ Elements' = Elements
    BY <2>1, CarryFrom
  <2> QED
    BY <2>1, <2>2 DEF Inv, EndInv, ReadInv, Other, IsAssembler, IsFramer
<1>2. ASSUME NEW s \in Sides, WriteHandshake(s) \/ WriteFrame(s) PROVE Inv'
  BY <1>2, StepWriteHandshake, StepWriteFrame
<1>3. ASSUME NEW s \in Sides, NEW size \in Sizes, Send(s, size) PROVE Inv'
  BY <1>3, StepSend
<1>4. ASSUME NEW s \in Sides, NEW k \in 1 .. Cap, Receive(s, k) PROVE Inv'
  BY <1>4, StepReceive
<1>5. ASSUME NEW s \in Sides, Disconnected(s) \/ EndSession(s) PROVE Inv'
  BY <1>5, StepClosed
<1>6. ASSUME NEW s \in Sides, InsertAck(s) \/ Fault(s) PROVE Inv'
  BY <1>6, StepInsertAck, StepFault
<1> QED
  BY <1>1, <1>2, <1>3, <1>4, <1>5, <1>6 DEF Next

-----------------------------------------------------------------------------
(* Each step is one of the channel's, or none.                             *)

LEMMA ChannelStarts ==
  ASSUME Init
  PROVE  Channel!ChannelInit
BY DEF Init, Channel!ChannelInit

LEMMA ReceiveDelivers ==
  ASSUME Inv, NEW s \in Sides, NEW k \in Nat, k > 0, Receive(s, k)
  PROVE  [Channel!ChannelNext]_(Channel!cvars)
<1>1. PICK n \in [phase : Turned, tx : Nat, rx : Nat] :
        /\ noise[s].rx <= n.rx /\ n.rx <= Len(sent[Other(s)])
        /\ delivered' = [delivered EXCEPT ![s] = SubSeq(sent[Other(s)], 1, n.rx)]
  BY ReceiveGives
<1>2. /\ s \in open /\ sent' = sent
      /\ open' = open \/ open' = open \ {s}
  BY DEF Receive, Close
<1>3. Other(s) \in Sides \ {s}
  BY LinkBounds DEF Other, Sides
<1>4. /\ s \notin Sides \ open
      /\ Sides \ open' \in {Sides \ open, (Sides \ open) \cup {s}}
  BY <1>2
<1>5. PICK w \in Seq(Plaintexts), r \in Nat :
        w = sent[Other(s)] /\ r = noise[s].rx /\ r <= Len(w) /\ delivered[s] = SubSeq(w, 1, r)
  <2>1. EndInv(s) /\ EndInv(Other(s)) /\ ReadInv(s)
    BY <1>3 DEF Inv
  <2>2. sent[Other(s)] \in Seq(Plaintexts) /\ noise[s].rx \in Nat
    BY <2>1 DEF EndInv
  <2>3. /\ noise[s].rx <= Len(sent[Other(s)])
        /\ delivered[s] = SubSeq(sent[Other(s)], 1, noise[s].rx)
    BY <2>1 DEF ReadInv
  <2> QED
    BY <2>2, <2>3
<1>6. Len(delivered[s]) = r
  <2>1. \A i \in 1 .. r : w[i] \in Plaintexts
    BY <1>5
  <2> QED
    BY <1>5, <2>1, SubSeqProperties
<1>7. CASE n.rx = r
  <2>1. delivered' = delivered
    BY <1>1, <1>5, <1>7 DEF Inv
  <2> QED
    BY <1>2, <1>4, <2>1 DEF Channel!ChannelNext, Channel!StopListening, Channel!cvars
<1>8. CASE n.rx # r
  <2>1. n.rx \in Len(delivered[s]) + 1 .. Len(sent[Other(s)])
    BY <1>1, <1>5, <1>6, <1>8
  <2>2. Channel!Deliver(s, Other(s))
    BY <1>1, <1>2, <1>4, <2>1 DEF Channel!Deliver
  <2> QED
    BY <1>3, <2>2 DEF Channel!ChannelNext
<1> QED
  BY <1>7, <1>8

LEMMA ChannelSteps ==
  ASSUME Inv, [Next]_vars
  PROVE  [Channel!ChannelNext]_(Channel!cvars)
<1>1. ASSUME NEW s \in Sides, UNCHANGED <<sent, delivered>>,
             open' = open \/ open' = open \ {s}
      PROVE  [Channel!ChannelNext]_(Channel!cvars)
  <2>1. CASE open' = open
    BY <1>1, <2>1 DEF Channel!cvars
  <2>2. CASE open' = open \ {s}
    <3>1. Sides \ open' = (Sides \ open) \cup {s}
      BY <2>2
    <3> QED
      BY <1>1, <3>1 DEF Channel!ChannelNext, Channel!StopListening
  <2> QED
    BY <1>1, <2>1, <2>2
<1>2. CASE UNCHANGED vars
  BY <1>2 DEF vars, Channel!cvars
<1>3. ASSUME NEW s \in Sides,
             \/ WriteHandshake(s) \/ WriteFrame(s) \/ Disconnected(s) \/ EndSession(s)
             \/ InsertAck(s) \/ Fault(s)
      PROVE  [Channel!ChannelNext]_(Channel!cvars)
  BY <1>1, <1>3 DEF WriteHandshake, WriteFrame, Disconnected, EndSession, InsertAck, Fault, Close
<1>4. ASSUME NEW s \in Sides, NEW size \in Sizes, Send(s, size)
      PROVE  [Channel!ChannelNext]_(Channel!cvars)
  <2>1. CASE size + TagLen <= NoiseMax
    <3>1. PICK m : m = [by |-> s, i |-> Len(sent[s]) + 1, size |-> size]
      OBVIOUS
    <3>2. /\ sent' = [sent EXCEPT ![s] = Append(sent[s], m)]
          /\ UNCHANGED <<open, delivered>>
      BY <1>4, <2>1, <3>1 DEF Send
    <3>3. m \in [by : Sides, i : 1 .. MaxSends, size : Sizes]
      <4>1. Len(sent[s]) \in Nat /\ Len(sent[s]) < MaxSends /\ MaxSends \in Nat
        BY <1>4, LinkBounds DEF Send, Inv, EndInv
      <4> QED
        BY <3>1, <4>1
    <3>4. Channel!Hand(s, m)
      BY <3>2 DEF Channel!Hand
    <3> QED
      BY <3>3, <3>4 DEF Channel!ChannelNext
  <2>2. CASE ~(size + TagLen <= NoiseMax)
    BY <1>1, <1>4, <2>2 DEF Send, Close
  <2> QED
    BY <2>1, <2>2
<1>5. ASSUME NEW s \in Sides, NEW k \in 1 .. Cap, Receive(s, k)
      PROVE  [Channel!ChannelNext]_(Channel!cvars)
  BY <1>5, ReceiveDelivers
<1> QED
  BY <1>2, <1>3, <1>4, <1>5 DEF Next

-----------------------------------------------------------------------------
(* The theorems.                                                           *)

\* Every cell on the way or in reassembly is of a message that was sealed,
\* and each end has given out exactly the messages it has read, those first
\* sent to it.
THEOREM Invariance == Spec => []Inv
<1>1. Init => Inv
  BY InvInit
<1>2. Inv /\ [Next]_vars => Inv'
  BY InvNext
<1> QED
  BY <1>1, <1>2, PTL DEF Spec

\* The session over Noise, frames and the air implements the channel: what an
\* end gives out is what the other was handed, in order, without loss in the
\* middle or repetition (Session::send, Session::receive).
THEOREM MessagesInOrder == Spec => InOrder
<1>1. Init => Channel!ChannelInit
  BY ChannelStarts
<1>2. Inv /\ [Next]_vars => [Channel!ChannelNext]_(Channel!cvars)
  BY ChannelSteps
<1> QED
  BY <1>1, <1>2, Invariance, PTL DEF Spec, InOrder, Channel!ChannelSpec

-----------------------------------------------------------------------------
(* Turns: the phone opens the handshake, and nothing comes before that.    *)

Turns ==
  /\ noise[Pc].phase # "write"
  /\ noise[Phone].phase = "write" =>
       /\ noise[Pc].phase = "read"
       /\ \A s \in Sides : ~Writing(s) /\ wire[s] = <<>>

LEMMA TurnsNext ==
  ASSUME Inv, Turns, [Next]_vars
  PROVE  Turns'
<1>1. Pc # Phone /\ Pc \in Sides /\ Phone \in Sides
  BY LinkBounds DEF Sides
<1>2. CASE UNCHANGED vars
  BY <1>2 DEF Turns, vars, Writing
<1>3. ASSUME NEW s \in Sides, WriteHandshake(s) PROVE Turns'
  <2>1. s = Phone
    BY <1>3 DEF WriteHandshake, Turns, Sides
  <2>2. noise' = [noise EXCEPT ![Phone].phase = "read"]
    BY <1>3, <2>1 DEF WriteHandshake
  <2>3. noise'[Pc] = noise[Pc] /\ noise'[Phone].phase = "read"
    BY <1>1, <2>2 DEF Inv, EndInv
  <2> QED
    BY <2>3 DEF Turns
<1>4. ASSUME NEW s \in Sides, WriteFrame(s) PROVE Turns'
  BY <1>4 DEF WriteFrame, Turns
<1>5. ASSUME NEW s \in Sides, NEW size \in Sizes, Send(s, size) PROVE Turns'
  <2>1. \A q \in Sides : noise'[q].phase = noise[q].phase
    <3>1. PICK n, up : up = noise[s].tx + 1 /\ n = [noise[s] EXCEPT !.tx = up]
      OBVIOUS
    <3>2. noise' = noise \/ noise' = [noise EXCEPT ![s] = n]
      BY <1>5, <3>1 DEF Send
    <3>3. n.phase = noise[s].phase
      BY <3>1 DEF Inv, EndInv
    <3> QED
      BY <3>2, <3>3 DEF Inv
  <2>2. noise[s].phase = "transport"
    BY <1>5 DEF Send
  <2>3. noise[Phone].phase # "write"
    BY <2>2 DEF Turns, Sides
  <2> QED
    BY <1>1, <2>1, <2>3 DEF Turns
<1>6. ASSUME NEW s \in Sides, NEW k \in 1 .. Cap, Receive(s, k) PROVE Turns'
  <2>1. PICK n \in [phase : Turned, tx : Nat, rx : Nat] : noise' = [noise EXCEPT ![s] = n]
    BY <1>6, ReceiveGives
  <2>2. \A q \in Sides : noise'[q].phase = "write" => noise[q].phase = "write"
    BY <2>1 DEF Inv, Turned
  <2>3. Other(s) \in Sides /\ wire[Other(s)] # <<>>
    BY <1>6 DEF Receive, Arriving, Other, Sides
  <2> QED
    BY <1>1, <2>2, <2>3 DEF Turns
<1>7. ASSUME NEW s \in Sides, Disconnected(s) \/ EndSession(s) PROVE Turns'
  BY <1>7 DEF Disconnected, EndSession, Turns, Writing
<1>8. ASSUME NEW s \in Sides, InsertAck(s) \/ Fault(s) PROVE Turns'
  BY <1>8 DEF InsertAck, Fault, Untouched, Turns
<1> QED
  BY <1>2, <1>3, <1>4, <1>5, <1>6, <1>7, <1>8 DEF Next

\* With both ends up and something to move, one end can move it: the PC's
\* queue is the only one that fills, the PC writes into one that does not
\* (BleLink::send's backpressure), and both read once the phone has opened the
\* handshake.
THEOREM EndsNeverStandOff == Spec => []NoStandoff
<1>1. ASSUME Turns PROVE NoStandoff
  <2> SUFFICES ASSUME open = Sides, \E s \in Sides : Writing(s) \/ wire[s] # <<>>
               PROVE  \E s \in Sides : IF Writing(s) THEN Room(s)
                                       ELSE wire[Other(s)] # <<>> /\ noise[s].phase # "write"
    BY DEF NoStandoff
  <2>1. Pc # Phone /\ PumpCap \in Nat /\ PumpCap > 0
    BY LinkBounds
  <2>2. Other(Pc) = Phone /\ Other(Phone) = Pc
    BY <2>1 DEF Other
  <2>3. Room(Pc)
    BY <2>1 DEF Room
  <2>4. wire[Phone] = <<>> => Room(Phone)
    <3>1. Starts(<<>>) = {}
      BY DEF Starts
    <3> QED
      BY <2>1, <3>1, FS_EmptySet DEF Room
  <2>5. noise[Pc].phase # "write" /\ noise[Phone].phase # "write"
    BY <1>1 DEF Turns
  <2> QED
    BY <2>2, <2>3, <2>4, <2>5 DEF Sides
<1>2. Init => Turns
  BY LinkBounds DEF Init, Turns, Writing, Sides
<1>3. Inv /\ Turns /\ [Next]_vars => Turns'
  BY TurnsNext
<1> QED
  BY <1>1, <1>2, <1>3, Invariance, PTL DEF Spec

-----------------------------------------------------------------------------
(* Readings: what an assembler makes of cells, if it finds no fault.  A     *)
(* frame starts only where the one before it is whole, and what is kept of  *)
(* an unfinished one is shorter than max.                                   *)

Step(a, cell, b, max) ==
  /\ IsHeader(cell) <=> a.buffer = <<>>
  /\ b = IngestCell(a, cell) /\ b.ok /\ Len(b.buffer) <= max

Reads(a, w, b, max) ==
  \E f : /\ f[0] = a /\ f[Len(w)] = b
         /\ \A i \in 1 .. Len(w) : Step(f[i - 1], w[i], f[i], max)

\* The same for frames in a row.
ReadsAll(a, frames, b, max) ==
  \E f : /\ f[0] = a /\ f[Len(frames)] = b
         /\ \A i \in 1 .. Len(frames) : Reads(f[i - 1], frames[i], f[i], max)

\* Readings in a row are a reading,
LEMMA ReadsJoin ==
  ASSUME NEW S, NEW u \in Seq(S), NEW v \in Seq(S), NEW a, NEW b, NEW c, NEW max,
         Reads(a, u, b, max), Reads(b, v, c, max)
  PROVE  Reads(a, u \o v, c, max)
<1>1. PICK f : /\ f[0] = a /\ f[Len(u)] = b
               /\ \A i \in 1 .. Len(u) : Step(f[i - 1], u[i], f[i], max)
  BY DEF Reads
<1>2. PICK g : /\ g[0] = b /\ g[Len(v)] = c
               /\ \A i \in 1 .. Len(v) : Step(g[i - 1], v[i], g[i], max)
  BY DEF Reads
<1>3. PICK w : /\ w = u \o v
  OBVIOUS
<1>4. PICK m \in Nat, n \in Nat : m = Len(u) /\ n = Len(v)
  BY LenProperties
<1>5. PICK h : h = [i \in 0 .. m + n |-> IF i <= m THEN f[i] ELSE g[i - m]]
  OBVIOUS
<1>6. /\ Len(w) = m + n
      /\ \A i \in 1 .. m + n : w[i] = IF i <= m THEN u[i] ELSE v[i - m]
  BY <1>3, <1>4
<1>7. h[0] = a /\ h[m + n] = c
  BY <1>1, <1>2, <1>3, <1>4, <1>5
<1>8. ASSUME NEW i \in 1 .. m + n PROVE Step(h[i - 1], w[i], h[i], max)
  <2>1. CASE i <= m
    <3>1. h[i - 1] = f[i - 1] /\ h[i] = f[i] /\ w[i] = u[i] /\ i \in 1 .. m
      BY <1>5, <1>6, <2>1
    <3> QED
      BY <1>1, <1>3, <1>4, <3>1
  <2>2. CASE i > m
    <3>1. PICK j \in 1 .. n : j = i - m
      BY <2>2
    <3>2. h[i - 1] = g[j - 1]
      <4>1. CASE i = m + 1
        BY <1>1, <1>2, <1>3, <1>4, <1>5, <3>1, <4>1
      <4>2. CASE i > m + 1
        BY <1>5, <3>1, <4>2
      <4> QED
        BY <2>2, <4>1, <4>2
    <3>3. h[i] = g[j] /\ w[i] = v[j]
      BY <1>5, <1>6, <2>2, <3>1
    <3> QED
      BY <1>2, <1>3, <1>4, <3>1, <3>2, <3>3
  <2> QED
    BY <2>1, <2>2
<1> QED
  BY <1>3, <1>4, <1>6, <1>7, <1>8 DEF Reads

\* and a reading can be cut anywhere.
LEMMA ReadsSplit ==
  ASSUME NEW S, NEW w \in Seq(S), NEW k \in 0 .. Len(w), NEW a, NEW c, NEW max,
         Reads(a, w, c, max)
  PROVE  \E b : /\ Reads(a, SubSeq(w, 1, k), b, max)
                /\ Reads(b, SubSeq(w, k + 1, Len(w)), c, max)
<1>1. PICK f : /\ f[0] = a /\ f[Len(w)] = c
               /\ \A i \in 1 .. Len(w) : Step(f[i - 1], w[i], f[i], max)
  BY DEF Reads
<1>2. PICK n \in Nat : n = Len(w)
  BY LenProperties
<1>3. PICK u, v : u = SubSeq(w, 1, k) /\ v = SubSeq(w, k + 1, n)
  OBVIOUS
<1>4. /\ Len(u) = k /\ \A i \in 1 .. k : u[i] = w[i]
      /\ Len(v) = n - k /\ \A i \in 1 .. n - k : v[i] = w[i + k]
  BY <1>2, <1>3
<1>5. Reads(a, u, f[k], max)
  <2>1. ASSUME NEW i \in 1 .. k PROVE Step(f[i - 1], u[i], f[i], max)
    BY <1>1, <1>2, <1>4
  <2> QED
    BY <1>1, <1>4, <2>1 DEF Reads
<1>6. Reads(f[k], v, c, max)
  <2>1. PICK g : g = [i \in 0 .. n - k |-> f[i + k]]
    OBVIOUS
  <2>2. g[0] = f[k] /\ g[n - k] = c
    BY <1>1, <1>2, <1>3, <2>1
  <2>3. ASSUME NEW i \in 1 .. n - k PROVE Step(g[i - 1], v[i], g[i], max)
    <3>1. PICK j \in 1 .. n : j = i + k
      BY <1>2, <1>3
    <3>2. g[i] = f[j] /\ g[i - 1] = f[j - 1] /\ v[i] = w[j]
      BY <1>4, <2>1, <3>1
    <3> QED
      BY <1>1, <1>2, <1>3, <3>1, <3>2
  <2> QED
    BY <1>4, <2>2, <2>3 DEF Reads
<1> QED
  BY <1>2, <1>3, <1>5, <1>6

\* The same for rows of frames.
LEMMA ReadsAllJoin ==
  ASSUME NEW S, NEW u \in Seq(S), NEW v \in Seq(S), NEW a, NEW b, NEW c, NEW max,
         ReadsAll(a, u, b, max), ReadsAll(b, v, c, max)
  PROVE  ReadsAll(a, u \o v, c, max)
<1>1. PICK f : /\ f[0] = a /\ f[Len(u)] = b
               /\ \A i \in 1 .. Len(u) : Reads(f[i - 1], u[i], f[i], max)
  BY DEF ReadsAll
<1>2. PICK g : /\ g[0] = b /\ g[Len(v)] = c
               /\ \A i \in 1 .. Len(v) : Reads(g[i - 1], v[i], g[i], max)
  BY DEF ReadsAll
<1>3. PICK w : /\ w = u \o v
  OBVIOUS
<1>4. PICK m \in Nat, n \in Nat : m = Len(u) /\ n = Len(v)
  BY LenProperties
<1>5. PICK h : h = [i \in 0 .. m + n |-> IF i <= m THEN f[i] ELSE g[i - m]]
  OBVIOUS
<1>6. /\ Len(w) = m + n
      /\ \A i \in 1 .. m + n : w[i] = IF i <= m THEN u[i] ELSE v[i - m]
  BY <1>3, <1>4
<1>7. h[0] = a /\ h[m + n] = c
  BY <1>1, <1>2, <1>3, <1>4, <1>5
<1>8. ASSUME NEW i \in 1 .. m + n PROVE Reads(h[i - 1], w[i], h[i], max)
  <2>1. CASE i <= m
    <3>1. h[i - 1] = f[i - 1] /\ h[i] = f[i] /\ w[i] = u[i] /\ i \in 1 .. m
      BY <1>5, <1>6, <2>1
    <3> QED
      BY <1>1, <1>3, <1>4, <3>1
  <2>2. CASE i > m
    <3>1. PICK j \in 1 .. n : j = i - m
      BY <2>2
    <3>2. h[i - 1] = g[j - 1]
      <4>1. CASE i = m + 1
        BY <1>1, <1>2, <1>3, <1>4, <1>5, <3>1, <4>1
      <4>2. CASE i > m + 1
        BY <1>5, <3>1, <4>2
      <4> QED
        BY <2>2, <4>1, <4>2
    <3>3. h[i] = g[j] /\ w[i] = v[j]
      BY <1>5, <1>6, <2>2, <3>1
    <3> QED
      BY <1>2, <1>3, <1>4, <3>1, <3>2, <3>3
  <2> QED
    BY <2>1, <2>2
<1> QED
  BY <1>3, <1>4, <1>6, <1>7, <1>8 DEF ReadsAll

\* The first frame of a row is read first.
LEMMA ReadsAllFirst ==
  ASSUME NEW S, NEW w \in Seq(S), w # <<>>, NEW a, NEW c, NEW max, ReadsAll(a, w, c, max)
  PROVE  \E b : Reads(a, Head(w), b, max) /\ ReadsAll(b, Tail(w), c, max)
<1>1. PICK f : /\ f[0] = a /\ f[Len(w)] = c
               /\ \A i \in 1 .. Len(w) : Reads(f[i - 1], w[i], f[i], max)
  BY DEF ReadsAll
<1>2. PICK n \in Nat : n = Len(w) - 1
  <2>1. Len(w) \in Nat /\ Len(w) # 0
    BY EmptySeq, LenProperties
  <2> QED
    BY <2>1
<1>3. PICK v : v = Tail(w)
  OBVIOUS
<1>4. /\ 1 \in 1 .. Len(w) /\ Head(w) = w[1]
      /\ Len(v) = n /\ \A i \in 1 .. n : v[i] = w[i + 1]
  BY <1>2, <1>3
<1>5. Reads(a, Head(w), f[1], max)
  BY <1>1, <1>4
<1>6. ReadsAll(f[1], v, c, max)
  <2>1. PICK g : g = [i \in 0 .. n |-> f[i + 1]]
    OBVIOUS
  <2>2. g[0] = f[1] /\ g[n] = c
    BY <1>1, <1>2, <1>3, <2>1
  <2>3. ASSUME NEW i \in 1 .. n PROVE Reads(g[i - 1], v[i], g[i], max)
    <3>1. PICK j \in 1 .. Len(w) : j = i + 1
      BY <1>2, <1>3
    <3>2. g[i] = f[j] /\ g[i - 1] = f[j - 1] /\ v[i] = w[j]
      BY <1>4, <2>1, <3>1
    <3> QED
      BY <1>1, <3>1, <3>2
  <2> QED
    BY <1>4, <2>2, <2>3 DEF ReadsAll
<1> QED
  BY <1>2, <1>3, <1>5, <1>6

-----------------------------------------------------------------------------
(* A reading only adds messages, and does not look at those it has.        *)

Begins(S, x, z) == \E y \in Seq(S) : z = x \o y

\* Beginning with, as an order.
LEMMA BeginsItself ==
  ASSUME NEW S, NEW x \in Seq(S)
  PROVE  Begins(S, x, x)
<1>1. x \o <<>> = x
  BY ConcatEmptySeq
<1>2. <<>> \in Seq(S)
  OBVIOUS
<1> QED
  BY <1>1, <1>2 DEF Begins

\* What is added to begins as it was.
LEMMA BeginsAppend ==
  ASSUME NEW S, NEW x \in Seq(S), NEW e \in S
  PROVE  Begins(S, x, Append(x, e))
<1>1. Append(x, e) = x \o <<e>>
  BY AppendIsConcat
<1>2. <<e>> \in Seq(S)
  OBVIOUS
<1> QED
  BY <1>1, <1>2 DEF Begins

\* Beginnings of beginnings.
LEMMA BeginsOn ==
  ASSUME NEW S, NEW x \in Seq(S), NEW y, NEW z, Begins(S, x, y), Begins(S, y, z)
  PROVE  Begins(S, x, z)
<1>1. PICK u \in Seq(S) : y = x \o u
  BY DEF Begins
<1>2. PICK v \in Seq(S) : z = y \o v
  BY DEF Begins
<1>3. (x \o u) \o v = x \o (u \o v)
  BY ConcatAssociative
<1>4. u \o v \in Seq(S)
  BY ConcatProperties
<1> QED
  BY <1>1, <1>2, <1>3, <1>4 DEF Begins

\* A cell adds a message or none.
LEMMA CellGrows ==
  ASSUME NEW a, IsAssembler(a), NEW cell \in Elements
  PROVE  Begins(Seq(Elements), a.messages, IngestCell(a, cell).messages)
<1>1. PICK b : b = IngestCell(a, cell)
  OBVIOUS
<1>2. a.messages \in Seq(Seq(Elements)) /\ b.messages \in Seq(Seq(Elements))
  BY <1>1, IngestCellKeeps DEF IsAssembler
<1>3. b.messages = a.messages \/ \E x : b.messages = Append(a.messages, x)
  BY <1>1 DEF IngestCell, IsAssembler
<1>4. CASE b.messages = a.messages
  BY <1>1, <1>2, <1>4, BeginsItself
<1>5. ASSUME NEW x, b.messages = Append(a.messages, x)
      PROVE  Begins(Seq(Elements), a.messages, b.messages)
  <2>1. x \in Seq(Elements)
    <3>1. b.messages[Len(a.messages) + 1] = x /\ Len(b.messages) = Len(a.messages) + 1
      BY <1>2, <1>5
    <3> QED
      BY <1>2, <3>1
  <2> QED
    BY <1>2, <1>5, <2>1, BeginsAppend
<1> QED
  BY <1>1, <1>3, <1>4, <1>5

Grown(a, b) == IsAssembler(b) /\ Begins(Seq(Elements), a.messages, b.messages)

\* So does each cell of a reading,
LEMMA ReadsGrows ==
  ASSUME NEW a, IsAssembler(a), NEW w \in Seq(Elements), NEW b, NEW max, Reads(a, w, b, max)
  PROVE  Grown(a, b)
<1>1. PICK f : /\ f[0] = a /\ f[Len(w)] = b
               /\ \A i \in 1 .. Len(w) : Step(f[i - 1], w[i], f[i], max)
  BY DEF Reads
<1>2. PICK n \in Nat : n = Len(w)
  BY LenProperties
<1>3. PICK P : P = {i \in 0 .. n : Grown(a, f[i])}
  OBVIOUS
<1>4. a.messages \in Seq(Seq(Elements))
  BY DEF IsAssembler
<1>5. 0 \in P
  <2>1. Grown(a, a)
    BY <1>4, BeginsItself DEF Grown
  <2> QED
    BY <1>1, <1>3, <2>1
<1>6. ASSUME NEW i \in 0 .. n - 1, i \in P PROVE i + 1 \in P
  <2>1. PICK j \in 1 .. n : j = i + 1
    OBVIOUS
  <2>2. Grown(a, f[i])
    BY <1>3, <1>6
  <2>3. PICK cell \in Elements : cell = w[j]
    BY <1>2, <2>1
  <2>4. f[j] = IngestCell(f[i], cell)
    BY <1>1, <1>2, <2>1, <2>3 DEF Step
  <2>5. IsAssembler(f[j])
    BY <2>2, <2>4, IngestCellKeeps DEF Grown
  <2>6. Begins(Seq(Elements), f[i].messages, f[j].messages)
    BY <2>2, <2>4, CellGrows DEF Grown
  <2>7. Begins(Seq(Elements), a.messages, f[j].messages)
    BY <1>4, <2>2, <2>6, BeginsOn DEF Grown
  <2>8. Grown(a, f[j])
    BY <2>5, <2>7 DEF Grown
  <2> QED
    BY <1>3, <2>1, <2>8
<1>7. \A i \in 0 .. n : i \in P
  BY <1>5, <1>6, Upto
<1>8. n \in P
  BY <1>7
<1> QED
  BY <1>1, <1>2, <1>3, <1>8

\* and each frame of a row.
LEMMA ReadsAllGrows ==
  ASSUME NEW a, IsAssembler(a), NEW w \in Seq(Seq(Elements)), NEW b, NEW max,
         ReadsAll(a, w, b, max)
  PROVE  Grown(a, b)
<1>1. PICK f : /\ f[0] = a /\ f[Len(w)] = b
               /\ \A i \in 1 .. Len(w) : Reads(f[i - 1], w[i], f[i], max)
  BY DEF ReadsAll
<1>2. PICK n \in Nat : n = Len(w)
  BY LenProperties
<1>3. PICK P : P = {i \in 0 .. n : Grown(a, f[i])}
  OBVIOUS
<1>4. a.messages \in Seq(Seq(Elements))
  BY DEF IsAssembler
<1>5. 0 \in P
  <2>1. Grown(a, a)
    BY <1>4, BeginsItself DEF Grown
  <2> QED
    BY <1>1, <1>3, <2>1
<1>6. ASSUME NEW i \in 0 .. n - 1, i \in P PROVE i + 1 \in P
  <2>1. PICK j \in 1 .. n : j = i + 1
    OBVIOUS
  <2>2. Grown(a, f[i])
    BY <1>3, <1>6
  <2>3. PICK v \in Seq(Elements) : v = w[j]
    BY <1>2, <2>1
  <2>4. Reads(f[i], v, f[j], max)
    BY <1>1, <1>2, <2>1, <2>3
  <2>5. Grown(f[i], f[j])
    BY <2>2, <2>4, ReadsGrows DEF Grown
  <2>6. Begins(Seq(Elements), a.messages, f[j].messages)
    BY <1>4, <2>2, <2>5, BeginsOn DEF Grown
  <2>7. Grown(a, f[j])
    BY <2>5, <2>6 DEF Grown
  <2> QED
    BY <1>3, <2>1, <2>7
<1>7. \A i \in 0 .. n : i \in P
  BY <1>5, <1>6, Upto
<1>8. n \in P
  BY <1>7
<1> QED
  BY <1>1, <1>2, <1>3, <1>8

Asm(buffer, framer, messages, ok) ==
  [buffer |-> buffer, framer |-> framer, messages |-> messages, ok |-> ok]

\* The fields of an assembler, by position.
LEMMA AsmFields ==
  ASSUME NEW buffer, NEW framer, NEW messages, NEW ok, NEW a, a = Asm(buffer, framer, messages, ok)
  PROVE  a.buffer = buffer /\ a.framer = framer /\ a.messages = messages /\ a.ok = ok
BY DEF Asm

\* An assembler is its fields.
LEMMA IsAsm ==
  ASSUME NEW a, IsAssembler(a)
  PROVE  /\ a = Asm(a.buffer, a.framer, a.messages, a.ok)
         /\ \A x : [a EXCEPT !.messages = x] = Asm(a.buffer, a.framer, x, a.ok)
BY DEF IsAssembler, Asm

IsTrue(v) == v = TRUE

\* IngestCell, case by case, after no fault.
Short(cells) == Len(cells) < 1 + cells[1].len
Framed(framer, cells) == FramerIngest(framer, cells[1], Tail(cells))

IsLonger(longer, buffer, cell) == longer = Append(buffer, cell)
IngestsTo(a, cell, b) == b = IngestCell(a, cell)

\* A cell that leaves the frame short is kept.
LEMMA CellShort ==
  ASSUME NEW buffer, NEW framer, NEW messages, NEW yes, IsTrue(yes), NEW cell,
         NEW longer, IsLonger(longer, buffer, cell), Short(longer)
  PROVE  IngestsTo(Asm(buffer, framer, messages, yes), cell, Asm(longer, framer, messages, yes))
<1>1. PICK a : a = Asm(buffer, framer, messages, yes)
  OBVIOUS
<1>2. a.buffer = buffer /\ a.ok = yes
  BY <1>1, AsmFields
<1>3. longer = Append(a.buffer, cell)
  BY <1>2 DEF IsLonger
<1>4. a.ok
  BY <1>2 DEF IsTrue
<1>5. IngestCell(a, cell) = [a EXCEPT !.buffer = longer]
  BY ONLY <1>3, <1>4, Short(longer) DEF IngestCell, Short
<1>6. [a EXCEPT !.buffer = longer] = Asm(longer, framer, messages, yes)
  BY ONLY <1>1 DEF Asm
<1> QED
  BY ONLY <1>1, <1>5, <1>6 DEF IngestsTo

\* The framer's answer moves into the assembler.
Took(messages, r) ==
  Asm(<<>>, r.framer,
      IF r.message = None THEN messages ELSE Append(messages, r.message.cells), r.ok)

\* A cell that completes a frame hands it to the framer.
LEMMA CellWhole ==
  ASSUME NEW buffer, NEW framer, NEW messages, NEW yes, IsTrue(yes), NEW cell,
         NEW longer, IsLonger(longer, buffer, cell), ~Short(longer)
  PROVE  IngestsTo(Asm(buffer, framer, messages, yes), cell, Took(messages, Framed(framer, longer)))
<1>1. PICK a : a = Asm(buffer, framer, messages, yes)
  OBVIOUS
<1>2. a.buffer = buffer /\ a.framer = framer /\ a.messages = messages /\ a.ok = yes
  BY <1>1, AsmFields
<1>3. longer = Append(a.buffer, cell)
  BY <1>2 DEF IsLonger
<1>4. a.ok
  BY <1>2 DEF IsTrue
<1>5. PICK r, m : /\ r = Framed(framer, longer)
                  /\ m = IF r.message = None THEN messages ELSE Append(messages, r.message.cells)
  OBVIOUS
<1>6. r = FramerIngest(a.framer, longer[1], Tail(longer))
  BY ONLY <1>2, <1>5 DEF Framed
<1>7. m = IF r.message = None THEN a.messages ELSE Append(a.messages, r.message.cells)
  BY ONLY <1>2, <1>5
<1>8. IngestCell(a, cell) = [buffer |-> <<>>, framer |-> r.framer, ok |-> r.ok, messages |-> m]
  BY ONLY <1>3, <1>4, <1>6, <1>7, ~Short(longer) DEF IngestCell, Short
<1>9. IngestCell(a, cell) = Asm(<<>>, r.framer, m, r.ok)
  BY ONLY <1>8 DEF Asm
<1>10. Took(messages, r) = Asm(<<>>, r.framer, m, r.ok)
  BY ONLY <1>5 DEF Took
<1> QED
  BY ONLY <1>1, <1>5, <1>9, <1>10 DEF IngestsTo

After(x, a) == Asm(a.buffer, a.framer, x \o a.messages, a.ok)

AfterTo(x, a, b) == b = After(x, a)

\* An assembler with earlier messages put before its own.
LEMMA AfterIs ==
  ASSUME NEW buffer, NEW framer, NEW messages, NEW ok, NEW x, NEW y, y = x \o messages
  PROVE  AfterTo(x, Asm(buffer, framer, messages, ok), Asm(buffer, framer, y, ok))
<1>1. PICK a : a = Asm(buffer, framer, messages, ok)
  OBVIOUS
<1>2. a.buffer = buffer /\ a.framer = framer /\ a.messages = messages /\ a.ok = ok
  BY <1>1, AsmFields
<1> QED
  BY ONLY <1>1, <1>2, y = x \o messages DEF AfterTo, After

\* Adding a message, after earlier ones.
LEMMA AppendAfter ==
  ASSUME NEW S, NEW x \in Seq(S), NEW y \in Seq(S), NEW e \in S,
         NEW z, z = x \o y, NEW v, v = Append(z, e)
  PROVE  v = x \o Append(y, e)
<1>1. PICK one \in Seq(S) : one = <<e>>
  <2>1. <<e>> \in Seq(S)
    OBVIOUS
  <2> QED
    BY <2>1
<1>2. Append(y, e) = y \o one
  BY <1>1, AppendIsConcat
<1>3. v = (x \o y) \o one
  BY <1>1, ConcatProperties, AppendIsConcat
<1>4. (x \o y) \o one = x \o (y \o one)
  BY ConcatAssociative
<1> QED
  BY <1>2, <1>3, <1>4

\* So does the framer's answer.
LEMMA TookAfter ==
  ASSUME NEW S, NEW x \in Seq(S), NEW messages \in Seq(S), NEW y, y = x \o messages, NEW r,
         r.message = None \/ \E cells \in S : r.message = [cells |-> cells]
  PROVE  AfterTo(x, Took(messages, r), Took(y, r))
<1>1. CASE r.message = None
  <2>1. /\ Took(messages, r) = Asm(<<>>, r.framer, messages, r.ok)
        /\ Took(y, r) = Asm(<<>>, r.framer, y, r.ok)
    BY ONLY <1>1 DEF Took
  <2>2. AfterTo(x, Asm(<<>>, r.framer, messages, r.ok), Asm(<<>>, r.framer, y, r.ok))
    BY ONLY y = x \o messages, AfterIs
  <2> QED
    BY ONLY <2>1, <2>2
<1>2. CASE r.message # None
  <2>1. PICK cells \in S : r.message = [cells |-> cells]
    BY <1>2
  <2>2. r.message.cells = cells
    BY ONLY <2>1
  <2>3. PICK u, v : u = Append(messages, cells) /\ v = Append(y, cells)
    OBVIOUS
  <2>4. v = x \o Append(messages, cells)
    BY ONLY <2>3, x \in Seq(S), messages \in Seq(S), cells \in S, y = x \o messages, AppendAfter
  <2>5. v = x \o u
    BY ONLY <2>3, <2>4
  <2>6. /\ Took(messages, r) = Asm(<<>>, r.framer, u, r.ok)
        /\ Took(y, r) = Asm(<<>>, r.framer, v, r.ok)
    BY ONLY <1>2, <2>2, <2>3 DEF Took
  <2>7. AfterTo(x, Asm(<<>>, r.framer, u, r.ok), Asm(<<>>, r.framer, v, r.ok))
    BY ONLY <2>5, AfterIs
  <2> QED
    BY ONLY <2>6, <2>7
<1> QED
  BY <1>1, <1>2

\* IngestCell does not look at the messages it has.
LEMMA CellAfter ==
  ASSUME NEW a, IsAssembler(a), IsTrue(a.ok), NEW cell \in Elements, NEW x \in Seq(Seq(Elements))
  PROVE  IngestCell(After(x, a), cell) = After(x, IngestCell(a, cell))
<1>1. PICK buffer, framer, messages, yes :
        /\ a = Asm(buffer, framer, messages, yes) /\ IsTrue(yes)
        /\ buffer = a.buffer /\ framer = a.framer /\ messages = a.messages
  <2>1. PICK buffer, framer, messages, yes :
          buffer = a.buffer /\ framer = a.framer /\ messages = a.messages /\ yes = a.ok
    OBVIOUS
  <2>2. a = Asm(buffer, framer, messages, yes)
    BY <2>1, IsAsm
  <2> QED
    BY <2>1, <2>2
<1>2. /\ buffer \in Seq(Elements) /\ IsFramer(framer)
      /\ messages \in Seq(Seq(Elements))
  BY <1>1 DEF IsAssembler
<1>3. PICK y \in Seq(Seq(Elements)) : y = x \o messages
  <2>1. x \o messages \in Seq(Seq(Elements))
    BY <1>2, ConcatProperties
  <2> QED
    BY <2>1
<1>4. After(x, a) = Asm(buffer, framer, y, yes)
  <2>1. AfterTo(x, Asm(buffer, framer, messages, yes), Asm(buffer, framer, y, yes))
    BY ONLY <1>3, AfterIs
  <2> QED
    BY ONLY <1>1, <2>1 DEF AfterTo
<1>5. PICK longer \in Seq(Elements) : longer = Append(buffer, cell)
  <2>1. Append(buffer, cell) \in Seq(Elements)
    BY <1>2, AppendProperties
  <2> QED
    BY <2>1
<1>6. Tail(longer) \in Seq(Elements)
  <2>1. Len(longer) = Len(buffer) + 1 /\ Len(buffer) \in Nat
    BY <1>2, <1>5, AppendProperties, LenProperties
  <2>2. longer # <<>>
    BY <2>1
  <2> QED
    BY <2>2, HeadTailProperties
<1>7. PICK r : r = Framed(framer, longer)
  OBVIOUS
<1>8. IsIngested(r)
  BY <1>2, <1>6, <1>7, FramerKeeps DEF Framed
<1>9. IsLonger(longer, buffer, cell)
  BY <1>5 DEF IsLonger
<1>10. SUFFICES ASSUME NEW p, NEW q, IngestsTo(Asm(buffer, framer, messages, yes), cell, p),
                       IngestsTo(Asm(buffer, framer, y, yes), cell, q)
                PROVE  AfterTo(x, p, q)
  BY ONLY <1>1, <1>4, <1>10 DEF IngestsTo, AfterTo
<1>11. CASE Short(longer)
  <2>1. IngestsTo(Asm(buffer, framer, messages, yes), cell, Asm(longer, framer, messages, yes))
    BY ONLY <1>1, <1>9, <1>11, CellShort
  <2>2. IngestsTo(Asm(buffer, framer, y, yes), cell, Asm(longer, framer, y, yes))
    BY ONLY <1>1, <1>9, <1>11, CellShort
  <2>3. p = Asm(longer, framer, messages, yes) /\ q = Asm(longer, framer, y, yes)
    BY ONLY <1>10, <2>1, <2>2 DEF IngestsTo
  <2>4. AfterTo(x, Asm(longer, framer, messages, yes), Asm(longer, framer, y, yes))
    BY ONLY <1>3, AfterIs
  <2> QED
    BY ONLY <2>3, <2>4
<1>12. CASE ~Short(longer)
  <2>1. IngestsTo(Asm(buffer, framer, messages, yes), cell, Took(messages, Framed(framer, longer)))
    BY ONLY <1>1, <1>9, <1>12, CellWhole
  <2>2. IngestsTo(Asm(buffer, framer, y, yes), cell, Took(y, Framed(framer, longer)))
    BY ONLY <1>1, <1>9, <1>12, CellWhole
  <2>3. p = Took(messages, r) /\ q = Took(y, r)
    BY ONLY <1>7, <1>10, <2>1, <2>2 DEF IngestsTo
  <2>4. r.message = None \/ \E cells \in Seq(Elements) : r.message = [cells |-> cells]
    BY <1>8 DEF IsIngested
  <2>5. AfterTo(x, Took(messages, r), Took(y, r))
    BY ONLY <1>2, <1>3, <2>4, x \in Seq(Seq(Elements)), TookAfter
  <2> QED
    BY ONLY <2>3, <2>5
<1> QED
  BY <1>11, <1>12

\* What InboundAssembler::ingest makes of a chunk that reads well.
LEMMA IngestReads ==
  ASSUME NEW a, IsAssembler(a), IsTrue(a.ok), a.messages = <<>>, NEW chunk \in Seq(Elements),
         ~(Len(a.buffer) + Len(chunk) > Cap), NEW x \in Seq(Seq(Elements)), NEW c, NEW max,
         Reads([a EXCEPT !.messages = x], chunk, c, max)
  PROVE  IsAssembler(Ingest(a, chunk)) /\ c = After(x, Ingest(a, chunk))
<1>1. PICK f : /\ f[0] = [a EXCEPT !.messages = x] /\ f[Len(chunk)] = c
               /\ \A i \in 1 .. Len(chunk) : Step(f[i - 1], chunk[i], f[i], max)
  BY DEF Reads
<1>2. PICK n \in Nat : n = Len(chunk)
  BY LenProperties
<1>3. PICK got : IsGot(got, a, chunk, n) /\ Ingest(a, chunk) = got[n]
  BY <1>2, IngestRuns
<1>4. [a EXCEPT !.messages = <<>>] = a
  BY DEF IsAssembler
<1>5. \A i \in 0 .. n : got[i] = IF i = 0 THEN a ELSE IngestCell(got[i - 1], chunk[i])
  BY <1>3, <1>4 DEF IsGot
<1>6. PICK P : P = {i \in 0 .. n : IsAssembler(got[i]) /\ f[i] = After(x, got[i])}
  OBVIOUS
<1>7. 0 \in P
  <2>1. x \o <<>> = x
    BY ConcatEmptySeq
  <2>2. After(x, a) = [a EXCEPT !.messages = x]
    BY <2>1, IsAsm DEF After
  <2>3. got[0] = a
    BY <1>5
  <2> QED
    BY <1>1, <1>6, <2>2, <2>3
<1>8. ASSUME NEW i \in 0 .. n - 1, i \in P PROVE i + 1 \in P
  <2>1. PICK j \in 1 .. n : j = i + 1
    OBVIOUS
  <2>2. PICK cell \in Elements : cell = chunk[j]
    BY <1>2, <2>1
  <2>3. PICK p : p = got[i]
    OBVIOUS
  <2>4. IsAssembler(p) /\ f[i] = After(x, p)
    BY <1>6, <1>8, <2>3
  <2>5. f[j] = IngestCell(f[i], cell)
    BY <1>1, <1>2, <2>1, <2>2 DEF Step
  <2>6. got[j] = IngestCell(p, cell)
    <3>1. j \in 0 .. n /\ j # 0 /\ j - 1 = i
      BY <2>1
    <3> QED
      BY <1>5, <2>2, <2>3, <3>1
  <2>7. f[j] = After(x, got[j])
    <3>1. IsTrue(p.ok)
      <4>1. CASE i = 0
        <5>1. got[0] = a
          BY <1>5
        <5>2. p = a
          BY ONLY <2>3, <4>1, <5>1
        <5> QED
          BY <5>2
      <4>2. CASE i # 0
        <5>1. i \in 1 .. Len(chunk)
          BY <1>2, <4>2
        <5>2. f[i].ok
          BY <1>1, <5>1 DEF Step
        <5>3. f[i].ok = p.ok
          BY <2>4, AsmFields DEF After
        <5> QED
          BY <5>2, <5>3 DEF IsTrue
      <4> QED
        BY <4>1, <4>2
    <3> QED
      BY <2>4, <2>5, <2>6, <3>1, CellAfter
  <2>8. IsAssembler(got[j])
    BY <2>4, <2>6, IngestCellKeeps
  <2> QED
    BY <1>6, <2>1, <2>7, <2>8
<1>9. \A i \in 0 .. n : i \in P
  BY <1>7, <1>8, Upto
<1>10. n \in P
  BY <1>9
<1> QED
  BY <1>1, <1>2, <1>3, <1>6, <1>10

-----------------------------------------------------------------------------
(* One frame.                                                              *)

\* A frame that arrives where one may start is read whole.
LEMMA FrameReads ==
  ASSUME NEW framer, NEW messages, NEW yes, IsTrue(yes), NEW S, NEW h \in S, IsHeader(h),
         NEW p \in Seq(S), \A i \in 1 .. Len(p) : ~IsHeader(p[i]),
         h.len = Len(p), NEW max \in Nat, Len(p) <= max,
         NEW w, w = <<h>> \o p, NEW r, r = FramerIngest(framer, h, p), IsTrue(r.ok)
  PROVE  Reads(Asm(<<>>, framer, messages, yes), w, Took(messages, r), max)
<1>1. PICK n \in Nat : n = Len(p)
  BY LenProperties
<1>2. /\ w \in Seq(S) /\ Len(w) = n + 1 /\ w[1] = h /\ Tail(w) = p
      /\ \A i \in 2 .. n + 1 : w[i] = p[i - 1]
  <2>1. PICK one \in Seq(S) : one = <<h>>
    <3>1. <<h>> \in Seq(S)
      OBVIOUS
    <3> QED
      BY <3>1
  <2>2. /\ w \in Seq(S) /\ Len(w) = n + 1 /\ w[1] = h
        /\ \A i \in 2 .. n + 1 : w[i] = p[i - 1]
    BY <1>1, <2>1
  <2>3. Tail(w) = p
    BY <1>1, <2>2
  <2> QED
    BY <2>2, <2>3
<1>3. PICK f : f = [i \in 0 .. n + 1 |-> IF i <= n THEN Asm(SubSeq(w, 1, i), framer, messages, yes)
                                         ELSE Took(messages, r)]
  OBVIOUS
<1>4. f[0] = Asm(<<>>, framer, messages, yes)
  <2>1. SubSeq(w, 1, 0) = <<>>
    BY <1>2
  <2>2. f[0] = Asm(SubSeq(w, 1, 0), framer, messages, yes)
    BY <1>3
  <2> QED
    BY <2>1, <2>2
<1>5. f[n + 1] = Took(messages, r)
  BY <1>3
<1>6. ASSUME NEW i \in 1 .. n + 1 PROVE Step(f[i - 1], w[i], f[i], max)
  <2>1. PICK buffer, longer : buffer = SubSeq(w, 1, i - 1) /\ longer = SubSeq(w, 1, i)
    OBVIOUS
  <2>2. /\ Len(buffer) = i - 1 /\ Len(longer) = i /\ longer[1] = h
        /\ buffer = <<>> <=> i = 1
    BY <1>2, <2>1
  <2>3. IsLonger(longer, buffer, w[i])
    BY <1>2, <2>1 DEF IsLonger
  <2>4. f[i - 1] = Asm(buffer, framer, messages, yes)
    <3>1. i - 1 \in 0 .. n + 1 /\ i - 1 <= n
      OBVIOUS
    <3> QED
      BY <1>3, <2>1, <3>1
  <2>5. IsHeader(w[i]) <=> i = 1
    BY <1>1, <1>2
  <2>6. Short(longer) <=> i <= n
    BY <1>1, <2>2 DEF Short
  <2>7. f[i - 1].buffer = buffer
    BY <2>4, AsmFields
  <2>8. CASE i <= n
    <3>1. f[i] = Asm(longer, framer, messages, yes)
      BY <1>3, <2>1, <2>8
    <3>2. IngestsTo(f[i - 1], w[i], f[i])
      BY <2>3, <2>4, <2>6, <2>8, <3>1, CellShort
    <3>3. f[i].buffer = longer /\ f[i].ok = yes
      BY <3>1, AsmFields
    <3>4. f[i].ok
      BY <3>3 DEF IsTrue
    <3>5. Len(f[i].buffer) <= max
      BY <1>1, <2>2, <2>8, <3>3
    <3> QED
      BY <2>2, <2>5, <2>7, <3>2, <3>4, <3>5 DEF Step, IngestsTo
  <2>9. CASE i = n + 1
    <3>1. longer = w
      BY <1>2, <2>1, <2>9
    <3>2. Framed(framer, longer) = r
      BY <1>2, <3>1 DEF Framed
    <3>3. f[i] = Took(messages, r)
      BY <1>3, <2>9
    <3>4. IngestsTo(f[i - 1], w[i], f[i])
      <4>1. ~Short(longer)
        BY <2>6, <2>9
      <4>2. IngestsTo(Asm(buffer, framer, messages, yes), w[i],
                      Took(messages, Framed(framer, longer)))
        BY <2>3, <4>1, CellWhole
      <4> QED
        BY ONLY <2>4, <3>2, <3>3, <4>2
    <3>5. f[i].buffer = <<>> /\ f[i].ok = r.ok
      BY <3>3, AsmFields DEF Took
    <3>6. f[i].ok
      BY <3>5 DEF IsTrue
    <3>7. Len(f[i].buffer) <= max
      BY <3>5
    <3> QED
      BY <2>2, <2>5, <2>7, <3>4, <3>6, <3>7 DEF Step, IngestsTo
  <2>10. i <= n \/ i = n + 1
    OBVIOUS
  <2> QED
    BY <2>8, <2>9, <2>10
<1> QED
  BY <1>2, <1>4, <1>5, <1>6 DEF Reads

Fr(busy, next, buffer) == [busy |-> busy, next |-> next, buffer |-> buffer]

\* What the framer says of a good frame, by its place in the message.
Good(r, framer, message) == IsTrue(r.ok) /\ r.framer = framer /\ r.message = message
Ready(next, q) == next = None \/ next = [seq |-> q]
Then(q) == [seq |-> WrappingSeq(q, 1)]

\* Framer::ingest of each kind of frame, in its turn: a message of one frame,
LEMMA SingleFrame ==
  ASSUME NEW next, NEW buffer, NEW p, NEW q, Ready(next, q)
  PROVE  Good(FramerIngest(Fr(FALSE, next, buffer), Frame(Len(p), q, TRUE, TRUE), p),
              Fr(FALSE, Then(q), buffer), [cells |-> p])
BY DEF Good, Ready, Then, FramerIngest, Fr, Frame, IsTrue

\* the first frame of several,
LEMMA FirstFrame ==
  ASSUME NEW next, NEW buffer, NEW p, NEW q, Ready(next, q), ~(Len(p) > Cap)
  PROVE  Good(FramerIngest(Fr(FALSE, next, buffer), Frame(Len(p), q, TRUE, FALSE), p),
              Fr(TRUE, Then(q), p), None)
BY DEF Good, Ready, Then, FramerIngest, Fr, Frame, IsTrue

\* one in the middle,
LEMMA MiddleFrame ==
  ASSUME NEW next, NEW buffer, NEW p, NEW q, Ready(next, q), NEW grown, grown = buffer \o p,
         ~(Len(grown) > Cap)
  PROVE  Good(FramerIngest(Fr(TRUE, next, buffer), Frame(Len(p), q, FALSE, FALSE), p),
              Fr(TRUE, Then(q), grown), None)
BY DEF Good, Ready, Then, FramerIngest, Fr, Frame, IsTrue

\* the last,
LEMMA LastFrame ==
  ASSUME NEW next, NEW buffer, NEW p, NEW q, Ready(next, q), NEW grown, grown = buffer \o p,
         ~(Len(grown) > Cap)
  PROVE  Good(FramerIngest(Fr(TRUE, next, buffer), Frame(Len(p), q, FALSE, TRUE), p),
              Fr(FALSE, Then(q), <<>>), [cells |-> grown])
BY DEF Good, Ready, Then, FramerIngest, Fr, Frame, IsTrue

AckOf(q) == [Frame(0, q, FALSE, FALSE) EXCEPT !.ack = TRUE]

\* and an ACK.
LEMMA AckFrame ==
  ASSUME NEW framer, NEW q
  PROVE  Good(FramerIngest(framer, AckOf(q), <<>>), framer, None)
BY DEF Good, FramerIngest, AckOf, Frame, IsTrue

\* The cells of one frame.
FrameOf(w, h, p, max) ==
  /\ IsHeader(h) /\ h.len = Len(p) /\ Len(p) <= max
  /\ \E S : h \in S /\ p \in Seq(S)
  /\ \A i \in 1 .. Len(p) : ~IsHeader(p[i])
  /\ w = <<h>> \o p

\* A frame that leaves its message open.
LEMMA OpenReads ==
  ASSUME NEW framer, NEW messages, NEW w, NEW h, NEW p, NEW max \in Nat, FrameOf(w, h, p, max),
         NEW to, Good(FramerIngest(framer, h, p), to, None)
  PROVE  Reads(Asm(<<>>, framer, messages, TRUE), w, Asm(<<>>, to, messages, TRUE), max)
<1>1. PICK r : r = FramerIngest(framer, h, p)
  OBVIOUS
<1>2. IsTrue(r.ok) /\ r.framer = to /\ r.message = None /\ IsTrue(TRUE)
  BY <1>1 DEF Good, IsTrue
<1>3. Reads(Asm(<<>>, framer, messages, TRUE), w, Took(messages, r), max)
  BY <1>1, <1>2, FrameReads DEF FrameOf
<1>4. Took(messages, r) = Asm(<<>>, to, messages, TRUE)
  BY <1>2 DEF Took, IsTrue
<1> QED
  BY <1>3, <1>4

\* A frame that completes its message.
LEMMA CloseReads ==
  ASSUME NEW framer, NEW messages, NEW w, NEW h, NEW p, NEW max \in Nat, FrameOf(w, h, p, max),
         NEW to, NEW cells, Good(FramerIngest(framer, h, p), to, [cells |-> cells])
  PROVE  Reads(Asm(<<>>, framer, messages, TRUE), w,
               Asm(<<>>, to, Append(messages, cells), TRUE), max)
<1>1. PICK r : r = FramerIngest(framer, h, p)
  OBVIOUS
<1>2. IsTrue(r.ok) /\ r.framer = to /\ r.message = [cells |-> cells] /\ IsTrue(TRUE)
  BY <1>1 DEF Good, IsTrue
<1>3. Reads(Asm(<<>>, framer, messages, TRUE), w, Took(messages, r), max)
  BY <1>1, <1>2, FrameReads DEF FrameOf
<1>4. r.message # None /\ r.message.cells = cells
  BY <1>2 DEF None
<1>5. Took(messages, r) = Asm(<<>>, to, Append(messages, cells), TRUE)
  BY <1>2, <1>4 DEF Took, IsTrue
<1> QED
  BY <1>3, <1>5

\* An ACK leaves everything as it was.
LEMMA AckReads ==
  ASSUME NEW framer, NEW messages, NEW q, NEW max \in Nat
  PROVE  Reads(Asm(<<>>, framer, messages, TRUE), <<AckOf(q)>>,
               Asm(<<>>, framer, messages, TRUE), max)
<1>1. PICK h, w, p : h = AckOf(q) /\ w = <<h>> /\ p = <<>>
  OBVIOUS
<1>2. FrameOf(w, h, p, max)
  <2>1. IsHeader(h) /\ h.len = 0
    BY <1>1 DEF AckOf, Frame, IsHeader
  <2>2. h \in {h} /\ p \in Seq({h}) /\ Len(p) = 0
    BY <1>1
  <2>3. w = <<h>> \o p
    BY <1>1
  <2>4. \A i \in 1 .. Len(p) : ~IsHeader(p[i])
    BY <2>2
  <2>5. \E S : h \in S /\ p \in Seq(S)
    BY <2>2
  <2>6. h.len = Len(p) /\ Len(p) <= max
    BY <2>1, <2>2
  <2> QED
    BY ONLY <2>1, <2>3, <2>4, <2>5, <2>6 DEF FrameOf
<1>3. Good(FramerIngest(framer, h, p), framer, None)
  BY <1>1, AckFrame
<1>4. Reads(Asm(<<>>, framer, messages, TRUE), w, Asm(<<>>, framer, messages, TRUE), max)
  BY <1>2, <1>3, OpenReads
<1> QED
  BY ONLY <1>1, <1>4

\* Sequence numbers.
LEMMA ModIs ==
  ASSUME NEW a \in Int, NEW n \in Nat, n > 0, NEW q \in Int, NEW r \in 0 .. n - 1, a = n * q + r
  PROVE  a % n = r
OBVIOUS

\* A multiple of n leaves nothing over.
LEMMA ModZero ==
  ASSUME NEW b \in Int, NEW n \in Nat, n > 0, NEW p \in Int, b = n * p
  PROVE  b % n = 0
<1>1. 0 \in 0 .. n - 1 /\ b = n * p + 0
  OBVIOUS
<1> QED
  BY <1>1, ModIs

\* The number after the i-th is the next one, wrapped.
LEMMA WrapNext ==
  ASSUME NEW seq \in Nat, NEW i \in Nat
  PROVE  /\ WrappingSeq(seq, i) \in 0 .. SeqLimit - 1
         /\ WrappingSeq(WrappingSeq(seq, i), 1) = WrappingSeq(seq, i + 1)
         /\ seq \in 0 .. SeqLimit - 1 => WrappingSeq(seq, 0) = seq
<1>1. PICK n \in Nat : n = SeqLimit /\ n > 0
  BY LinkBounds
<1>2. PICK a \in Nat : a = seq + i
  OBVIOUS
<1>3. PICK q \in Int, r \in 0 .. n - 1 : q = a \div n /\ r = a % n /\ a = n * q + r
  BY <1>1
<1>4. ((r + 1) % n) = ((a + 1) % n)
  <2>1. CASE r + 1 < n
    <3>1. r + 1 \in 0 .. n - 1 /\ a + 1 = n * q + (r + 1) /\ r + 1 = n * 0 + (r + 1)
      BY <1>3, <2>1
    <3>2. (a + 1) % n = r + 1
      <4>1. PICK b \in Int, t \in 0 .. n - 1 : b = a + 1 /\ t = r + 1 /\ b = n * q + t
        BY <3>1
      <4>2. b % n = t
        BY <1>1, <4>1, ModIs
      <4> QED
        BY <4>1, <4>2
    <3>3. (r + 1) % n = r + 1
      BY <1>1, <3>1
    <3> QED
      BY <3>2, <3>3
  <2>2. CASE r + 1 = n
    <3>1. 0 \in 0 .. n - 1 /\ a + 1 = n * (q + 1) + 0 /\ r + 1 = n * 1 + 0
      BY <1>1, <1>3, <2>2
    <3>2. (a + 1) % n = 0
      <4>1. PICK b \in Int, p \in Int : b = a + 1 /\ p = q + 1 /\ b = n * p
        BY <3>1
      <4>2. b % n = 0
        BY <1>1, <4>1, ModZero
      <4> QED
        BY <4>1, <4>2
    <3>3. (r + 1) % n = 0
      <4>1. PICK b \in Int, p \in Int : b = r + 1 /\ p = 1 /\ b = n * p
        BY <3>1
      <4>2. b % n = 0
        BY <1>1, <4>1, ModZero
      <4> QED
        BY <4>1, <4>2
    <3> QED
      BY <3>2, <3>3
  <2> QED
    BY <2>1, <2>2
<1>5. ASSUME seq \in 0 .. n - 1 PROVE (seq + 0) % n = seq
  BY <1>1, <1>5
<1> QED
  BY <1>1, <1>2, <1>3, <1>4, <1>5 DEF WrappingSeq

-----------------------------------------------------------------------------
(* One message.                                                            *)

\* split_message's number of frames, and that all but the last are full.
LEMMA CeilIs ==
  ASSUME NEW len \in Nat, len >= 1, NEW max \in Nat, max > 0
  PROVE  \E count \in Nat : /\ count >= 1 /\ count = (len + max - 1) \div max
                            /\ len <= count * max
                            /\ \A i \in 0 .. count - 1 : i * max < len
<1>1. PICK a \in Nat : a = len + max - 1
  OBVIOUS
<1>2. PICK count \in Int : count = a \div max
  OBVIOUS
<1>3. count * max <= a /\ a < count * max + max
  BY <1>1, <1>2
<1>4. count >= 1
  <2> SUFFICES ASSUME count <= 0 PROVE FALSE
    OBVIOUS
  <2>1. count * max <= 0
    OBVIOUS
  <2> QED
    BY <1>1, <1>3, <2>1
<1>5. len <= count * max
  BY <1>1, <1>3
<1>6. ASSUME NEW i \in 0 .. count - 1 PROVE i * max < len
  <2>1. i * max <= (count - 1) * max
    OBVIOUS
  <2>2. (count - 1) * max = count * max - max
    OBVIOUS
  <2> QED
    BY <1>1, <1>3, <2>1, <2>2
<1> QED
  BY <1>1, <1>2, <1>4, <1>5, <1>6

\* Where the frames of n cells are cut.
Cut(n, max, i) == IF i * max < n THEN i * max ELSE n

\* Where the pieces of a message of n cells end.
LEMMA Cuts ==
  ASSUME NEW n \in Nat, n >= 1, NEW max \in Nat, max > 0
  PROVE  \E count \in Nat :
           /\ count >= 1 /\ count = (n + max - 1) \div max
           /\ Cut(n, max, 0) = 0 /\ Cut(n, max, count) = n
           /\ \A i \in 0 .. count : Cut(n, max, i) \in 0 .. n
           /\ \A i \in 1 .. count : /\ Cut(n, max, i - 1) = (i - 1) * max
                                    /\ Cut(n, max, i - 1) <= Cut(n, max, i)
                                    /\ Cut(n, max, i) <= Cut(n, max, i - 1) + max
<1>1. PICK count \in Nat : /\ count >= 1 /\ count = (n + max - 1) \div max
                           /\ n <= count * max
                           /\ \A i \in 0 .. count - 1 : i * max < n
  BY CeilIs
<1>2. Cut(n, max, 0) = 0 /\ Cut(n, max, count) = n
  <2>1. 0 * max = 0
    OBVIOUS
  <2> QED
    BY <1>1, <2>1 DEF Cut
<1>3. ASSUME NEW i \in 0 .. count PROVE Cut(n, max, i) \in 0 .. n
  <2>1. i * max \in Nat
    OBVIOUS
  <2> QED
    BY <2>1 DEF Cut
<1>4. ASSUME NEW i \in 1 .. count
      PROVE  /\ Cut(n, max, i - 1) = (i - 1) * max
             /\ Cut(n, max, i - 1) <= Cut(n, max, i)
             /\ Cut(n, max, i) <= Cut(n, max, i - 1) + max
  <2>1. PICK j \in 0 .. count - 1 : j = i - 1
    OBVIOUS
  <2>2. j * max < n
    BY <1>1
  <2>3. Cut(n, max, j) = j * max
    BY <2>2 DEF Cut
  <2>4. i * max = j * max + max /\ j * max \in Nat
    BY <2>1
  <2> QED
    BY <2>1, <2>2, <2>3, <2>4 DEF Cut
<1> QED
  BY <1>1, <1>2, <1>3, <1>4

\* The assembler between two messages.
Idle(b, seq, messages) ==
  \E next, buffer : Ready(next, seq) /\ b = Asm(<<>>, Fr(FALSE, next, buffer), messages, TRUE)

\* The frames that split_message makes.
IsPart(w, p, seq, i, count) ==
  w = <<Frame(Len(p), WrappingSeq(seq, i - 1), i = 1, i = count)>> \o p

Splits(split, cells, max, seq, n, count) ==
  /\ n \in Nat /\ n = Len(cells) /\ n >= 1
  /\ max \in Nat /\ max > 0
  /\ count \in Nat /\ count >= 1 /\ count = (n + max - 1) \div max
  /\ \A i \in 1 .. count : Cut(n, max, i - 1) = (i - 1) * max
  /\ split = SplitMessage(cells, max, seq)

\* split_message of a message that is not empty.
LEMMA SplitIs ==
  ASSUME NEW S, NEW cells \in Seq(S), NEW n, NEW max, NEW seq, NEW split, NEW count,
         Splits(split, cells, max, seq, n, count)
  PROVE  /\ split.next = WrappingSeq(seq, count)
         /\ Len(split.frames) = count
         /\ \A i \in 1 .. count :
              IsPart(split.frames[i], SubSeq(cells, Cut(n, max, i - 1) + 1, Cut(n, max, i)),
                     seq, i, count)
<1> DEFINE ceil  == (Len(cells) + max - 1) \div max
           whole == IF ceil = 0 THEN 1 ELSE ceil
           piece(i) == SubSeq(cells, (i - 1) * max + 1,
                              IF i * max < Len(cells) THEN i * max ELSE Len(cells))
           frame(i) == <<Frame(Len(piece(i)), FrameSeq(seq, i - 1), i = 1, i = whole)>> \o piece(i)
<1> USE DEF Splits
<1>1. /\ split.frames = [i \in 1 .. whole |-> frame(i)]
      /\ split.next = WrappingSeq(seq, whole)
  BY DEF SplitMessage
<1>2. whole = count
  OBVIOUS
<1>3. \A i \in 1 .. count : piece(i) = SubSeq(cells, Cut(n, max, i - 1) + 1, Cut(n, max, i))
  BY DEF Cut
<1> HIDE DEF whole, piece
<1>4. Len(split.frames) = count
  BY <1>1, <1>2
<1>5. ASSUME NEW i \in 1 .. count
      PROVE  IsPart(split.frames[i], piece(i), seq, i, count)
  BY <1>1, <1>2 DEF FrameSeq, IsPart
<1> QED
  BY <1>1, <1>2, <1>3, <1>4, <1>5

\* A part is one frame.
LEMMA PartIsFrame ==
  ASSUME NEW S, \A e \in S : ~IsHeader(e), NEW p \in Seq(S),
         NEW max \in Nat, Len(p) <= max, NEW seq, NEW i, NEW count,
         NEW w, IsPart(w, p, seq, i, count)
  PROVE  FrameOf(w, Frame(Len(p), WrappingSeq(seq, i - 1), i = 1, i = count), p, max)
<1>1. PICK h : h = Frame(Len(p), WrappingSeq(seq, i - 1), i = 1, i = count)
  OBVIOUS
<1>2. IsHeader(h) /\ h.len = Len(p)
  BY <1>1 DEF Frame, IsHeader
<1>3. w = <<h>> \o p
  BY <1>1 DEF IsPart
<1>4. \A j \in 1 .. Len(p) : ~IsHeader(p[j])
  OBVIOUS
<1>5. \E T : h \in T /\ p \in Seq(T)
  <2>1. PICK T : T = S \cup {h}
    OBVIOUS
  <2>2. h \in T /\ p \in Seq(T)
    BY <2>1
  <2> QED
    BY <2>2
<1> QED
  BY ONLY <1>1, <1>2, <1>3, <1>4, <1>5, Len(p) <= max DEF FrameOf

\* A message that is split and read again is the message.
LEMMA SplitReads ==
  ASSUME NEW seq \in 0 .. SeqLimit - 1, NEW messages, NEW b, Idle(b, seq, messages),
         NEW m, m.size \in Nat, m.size >= 1, m.size <= Cap, NEW max \in Nat, max > 0,
         NEW split, split = SplitMessage(Cells(m), max, seq)
  PROVE  /\ split.next \in 0 .. SeqLimit - 1
         /\ \E c : /\ ReadsAll(b, split.frames, c, max)
                   /\ Idle(c, split.next, Append(messages, Cells(m)))
<1>1. PICK n \in Nat : n = m.size /\ n >= 1 /\ n <= Cap
  OBVIOUS
<1>2. PICK S : S = {[of |-> m, at |-> i] : i \in Nat}
  OBVIOUS
<1>3. PICK cells \in Seq(S) : cells = Cells(m) /\ Len(cells) = n
  <2>1. Cells(m) \in Seq(S) /\ Len(Cells(m)) = n
    BY <1>1, <1>2 DEF Cells
  <2> QED
    BY <2>1
<1>4. PICK count \in Nat :
        /\ count >= 1 /\ count = (n + max - 1) \div max
        /\ Cut(n, max, 0) = 0 /\ Cut(n, max, count) = n
        /\ \A i \in 0 .. count : Cut(n, max, i) \in 0 .. n
        /\ \A i \in 1 .. count : /\ Cut(n, max, i - 1) = (i - 1) * max
                                 /\ Cut(n, max, i - 1) <= Cut(n, max, i)
                                 /\ Cut(n, max, i) <= Cut(n, max, i - 1) + max
  BY <1>1, Cuts
<1>5. PICK piece : \A i \in 1 .. count :
                     piece[i] = SubSeq(cells, Cut(n, max, i - 1) + 1, Cut(n, max, i))
  <2>1. PICK piece : piece = [i \in 1 .. count |->
                                SubSeq(cells, Cut(n, max, i - 1) + 1, Cut(n, max, i))]
    OBVIOUS
  <2> QED
    BY ONLY <2>1
<1>6. /\ split.next = WrappingSeq(seq, count) /\ Len(split.frames) = count
      /\ \A i \in 1 .. count : IsPart(split.frames[i], piece[i], seq, i, count)
  <2>1. split = SplitMessage(cells, max, seq)
    BY <1>3
  <2>2. /\ split.next = WrappingSeq(seq, count) /\ Len(split.frames) = count
        /\ \A i \in 1 .. count :
             IsPart(split.frames[i], SubSeq(cells, Cut(n, max, i - 1) + 1, Cut(n, max, i)),
                    seq, i, count)
    <3>1. n = Len(cells)
      BY <1>3
    <3>2. \A i \in 1 .. count : Cut(n, max, i - 1) = (i - 1) * max
      BY <1>4
    <3>3. Splits(split, cells, max, seq, n, count)
      BY <1>1, <1>4, <2>1, <3>1, <3>2 DEF Splits
    <3> QED
      BY ONLY <3>3, SplitIs
  <2> QED
    BY <1>5, <2>2
<1>7. split.next \in 0 .. SeqLimit - 1
  <2>1. seq \in Nat
    BY LinkBounds
  <2>2. WrappingSeq(seq, count) \in 0 .. SeqLimit - 1
    BY ONLY <2>1, count \in Nat, WrapNext
  <2> QED
    BY ONLY <1>6, <2>2
<1>8. PICK next, buffer : Ready(next, seq) /\ b = Asm(<<>>, Fr(FALSE, next, buffer), messages, TRUE)
  BY DEF Idle
<1>9. PICK so : so = [i \in 0 .. count |-> SubSeq(cells, 1, Cut(n, max, i))]
  OBVIOUS
<1>10. ASSUME NEW i \in 1 .. count
       PROVE  /\ piece[i] \in Seq(S) /\ Len(piece[i]) <= max
              /\ so[i] = so[i - 1] \o piece[i] /\ ~(Len(so[i]) > Cap)
  <2>1. PICK u \in Nat, v \in Nat : /\ u = Cut(n, max, i - 1) /\ v = Cut(n, max, i)
                                    /\ u <= v /\ v <= u + max /\ v <= n
    <3>1. i \in 0 .. count /\ i - 1 \in 0 .. count
      OBVIOUS
    <3>2. Cut(n, max, i - 1) \in 0 .. n /\ Cut(n, max, i) \in 0 .. n
      BY <1>4, <3>1
    <3> QED
      BY <1>4, <3>2
  <2>2. /\ piece[i] = SubSeq(cells, u + 1, v) /\ so[i] = SubSeq(cells, 1, v)
        /\ so[i - 1] = SubSeq(cells, 1, u)
    <3>1. i \in 0 .. count /\ i - 1 \in 0 .. count
      OBVIOUS
    <3> QED
      BY <1>5, <1>9, <2>1, <3>1
  <2>3. /\ SubSeq(cells, u + 1, v) \in Seq(S)
        /\ Len(SubSeq(cells, u + 1, v)) = v - u
        /\ SubSeq(cells, 1, v) = SubSeq(cells, 1, u) \o SubSeq(cells, u + 1, v)
        /\ Len(SubSeq(cells, 1, v)) = v
    <3>1. u <= v /\ v <= Len(cells)
      BY <1>3, <2>1
    <3> QED
      BY ONLY <3>1
  <2>4. Len(piece[i]) <= max /\ ~(Len(so[i]) > Cap)
    <3>1. Len(piece[i]) = v - u /\ Len(so[i]) = v
      BY ONLY <2>2, <2>3
    <3>2. v - u <= max
      BY ONLY <2>1, max \in Nat
    <3>3. ~(v > Cap)
      <4>1. Cap \in Nat
        BY LinkBounds
      <4> QED
        BY ONLY <1>1, <2>1, <4>1
    <3> QED
      BY ONLY <3>1, <3>2, <3>3
  <2> QED
    BY <2>2, <2>3, <2>4
<1>11. so[0] = <<>> /\ so[count] = cells
  <2>1. 0 \in 0 .. count /\ count \in 0 .. count
    OBVIOUS
  <2>2. so[0] = SubSeq(cells, 1, 0) /\ so[count] = SubSeq(cells, 1, n)
    BY <1>4, <1>9, <2>1
  <2>3. SubSeq(cells, 1, 0) = <<>> /\ SubSeq(cells, 1, n) = cells
    BY <1>3
  <2> QED
    BY <2>2, <2>3
<1>12. PICK g : g = [i \in 0 .. count |->
         IF i = 0 THEN b
         ELSE IF i < count
         THEN Asm(<<>>, Fr(TRUE, [seq |-> WrappingSeq(seq, i)], so[i]), messages, TRUE)
         ELSE Asm(<<>>, Fr(FALSE, [seq |-> WrappingSeq(seq, i)], IF count = 1 THEN buffer ELSE <<>>),
                  Append(messages, cells), TRUE)]
  OBVIOUS
<1>13. ASSUME NEW i \in 1 .. count PROVE Reads(g[i - 1], split.frames[i], g[i], max)
  <2>1. PICK w, p, q : w = split.frames[i] /\ p = piece[i] /\ q = WrappingSeq(seq, i - 1)
    OBVIOUS
  <2>2. Then(q) = [seq |-> WrappingSeq(seq, i)]
    <3>1. i - 1 \in Nat /\ (i - 1) + 1 = i
      OBVIOUS
    <3>2. WrappingSeq(q, 1) = WrappingSeq(seq, i)
      BY <2>1, <3>1, WrapNext
    <3> QED
      BY <3>2 DEF Then
  <2>3. PICK h : h = Frame(Len(p), q, i = 1, i = count)
    OBVIOUS
  <2>4. w = <<h>> \o p
    BY <1>6, <2>1, <2>3 DEF IsPart
  <2>5. FrameOf(w, h, p, max)
    <3>1. \A e \in S : ~IsHeader(e)
      BY <1>2 DEF IsHeader
    <3>2. IsPart(w, p, seq, i, count) /\ p \in Seq(S) /\ Len(p) <= max
      BY <1>6, <1>10, <2>1
    <3>3. FrameOf(w, Frame(Len(p), WrappingSeq(seq, i - 1), i = 1, i = count), p, max)
      BY <3>1, <3>2, PartIsFrame
    <3> QED
      BY ONLY <2>1, <2>3, <3>3
  <2>6. CASE i = 1
    <3>1. Ready(next, q)
      BY <1>8, <2>1, <2>6, WrapNext
    <3>2. g[i - 1] = Asm(<<>>, Fr(FALSE, next, buffer), messages, TRUE)
      BY <1>8, <1>12, <2>6
    <3>3. so[i] = p
      <4>1. so[i] = so[0] \o p /\ p \in Seq(S)
        <5>1. so[i - 1] = so[0]
          BY <2>6
        <5> QED
          BY ONLY <1>10, <2>1, <5>1
      <4>2. <<>> \o p = p
        BY <4>1
      <4> QED
        BY <1>11, <4>1, <4>2
    <3>4. CASE count = 1
      <4>1. h = Frame(Len(p), q, TRUE, TRUE)
        BY <2>3, <2>6, <3>4
      <4>2. Good(FramerIngest(Fr(FALSE, next, buffer), h, p),
                 Fr(FALSE, Then(q), buffer), [cells |-> p])
        BY <3>1, <4>1, SingleFrame
      <4>3. g[i] = Asm(<<>>, Fr(FALSE, Then(q), buffer), Append(messages, p), TRUE)
        <5>1. i \in 0 .. count /\ i # 0 /\ ~(i < count) /\ p = cells
          BY <1>11, <2>6, <3>3, <3>4
        <5> QED
          BY <1>12, <2>2, <3>4, <5>1
      <4> QED
        BY <2>1, <2>5, <3>2, <4>2, <4>3, CloseReads
    <3>5. CASE count # 1
      <4>1. h = Frame(Len(p), q, TRUE, FALSE)
        BY <2>3, <2>6, <3>5
      <4>2. Good(FramerIngest(Fr(FALSE, next, buffer), h, p), Fr(TRUE, Then(q), p), None)
        BY <1>10, <3>1, <3>3, <4>1, FirstFrame
      <4>3. g[i] = Asm(<<>>, Fr(TRUE, Then(q), p), messages, TRUE)
        BY <1>12, <2>2, <2>6, <3>3, <3>5
      <4> QED
        BY <2>1, <2>5, <3>2, <4>2, <4>3, OpenReads
    <3> QED
      BY <3>4, <3>5
  <2>7. CASE i > 1
    <3>1. PICK last : last = [seq |-> q]
      OBVIOUS
    <3>2. Ready(last, q)
      BY <3>1 DEF Ready
    <3>3. g[i - 1] = Asm(<<>>, Fr(TRUE, last, so[i - 1]), messages, TRUE)
      <4>1. i - 1 \in 0 .. count /\ i - 1 # 0 /\ i - 1 < count
        BY <2>7
      <4> QED
        BY <1>12, <2>1, <3>1, <4>1
    <3>4. so[i] = so[i - 1] \o p /\ ~(Len(so[i]) > Cap)
      BY <1>10, <2>1
    <3>5. CASE i = count
      <4>1. h = Frame(Len(p), q, FALSE, TRUE)
        <5>1. (i = 1) = FALSE /\ (i = count) = TRUE
          BY <2>7, <3>5
        <5> QED
          BY <2>3, <5>1
      <4>2. Good(FramerIngest(Fr(TRUE, last, so[i - 1]), h, p),
                 Fr(FALSE, Then(q), <<>>), [cells |-> so[i]])
        BY <3>2, <3>4, <4>1, LastFrame
      <4>3. g[i] = Asm(<<>>, Fr(FALSE, Then(q), <<>>), Append(messages, so[i]), TRUE)
        BY <1>11, <1>12, <2>2, <2>7, <3>5
      <4> QED
        BY <2>1, <2>5, <3>3, <4>2, <4>3, CloseReads
    <3>6. CASE i < count
      <4>1. h = Frame(Len(p), q, FALSE, FALSE)
        <5>1. (i = 1) = FALSE /\ (i = count) = FALSE
          BY <2>7, <3>6
        <5> QED
          BY <2>3, <5>1
      <4>2. Good(FramerIngest(Fr(TRUE, last, so[i - 1]), h, p), Fr(TRUE, Then(q), so[i]), None)
        BY <3>2, <3>4, <4>1, MiddleFrame
      <4>3. g[i] = Asm(<<>>, Fr(TRUE, Then(q), so[i]), messages, TRUE)
        <5>1. i \in 0 .. count /\ i # 0 /\ i < count
          BY <2>7, <3>6
        <5> QED
          BY <1>12, <2>2, <5>1
      <4> QED
        BY <2>1, <2>5, <3>3, <4>2, <4>3, OpenReads
    <3> QED
      BY <3>5, <3>6
  <2> QED
    BY <2>6, <2>7
<1>14. g[0] = b
  BY <1>12
<1>15. ReadsAll(b, split.frames, g[count], max)
  BY <1>6, <1>13, <1>14 DEF ReadsAll
<1>16. Idle(g[count], split.next, Append(messages, Cells(m)))
  <2>1. PICK buf : buf = IF count = 1 THEN buffer ELSE <<>>
    OBVIOUS
  <2>2. g[count] = Asm(<<>>, Fr(FALSE, [seq |-> split.next], buf), Append(messages, cells), TRUE)
    <3>1. count \in 0 .. count /\ count # 0 /\ ~(count < count)
      BY <1>4
    <3> QED
      BY <1>6, <1>12, <2>1, <3>1
  <2>3. Ready([seq |-> split.next], split.next)
    BY DEF Ready
  <2> QED
    BY <1>3, <2>2, <2>3 DEF Idle
<1> QED
  BY <1>7, <1>15, <1>16

-----------------------------------------------------------------------------
(* A direction of the link flows: what is in reassembly, on the way and    *)
(* yet to be written reads without a fault, and when it is read, what was  *)
(* said has arrived.                                                       *)

Holding(r, x) == Asm(r.buffer, r.framer, x, TRUE)

Flows(r, w, frames, seq, said, n, max) ==
  /\ IsTrue(r.ok) /\ r.messages = <<>> /\ Len(r.buffer) <= max
  /\ n \in 0 .. Len(said)
  /\ \E c, b : /\ Reads(Holding(r, SubSeq(said, 1, n)), w, c, max)
               /\ ReadsAll(c, frames, b, max)
               /\ Idle(b, seq, said)

\* Nothing is read without a change.
LEMMA NothingReads ==
  ASSUME NEW a, NEW max
  PROVE  Reads(a, <<>>, a, max) /\ ReadsAll(a, <<>>, a, max)
<1>1. PICK f : f = [i \in {0} |-> a]
  OBVIOUS
<1>2. f[0] = a /\ Len(<<>>) = 0
  BY <1>1
<1> QED
  BY <1>2 DEF Reads, ReadsAll

\* A new link flows.
LEMMA FlowStarts ==
  ASSUME NEW seq, NEW max \in Nat
  PROVE  Flows(NewAssembler, <<>>, <<>>, seq, <<>>, 0, max)
<1>1. PICK a : a = Asm(<<>>, Fr(FALSE, None, <<>>), <<>>, TRUE)
  OBVIOUS
<1>2. NewAssembler = a
  BY <1>1 DEF NewAssembler, NewFramer, Asm, Fr
<1>3. a.buffer = <<>> /\ a.framer = Fr(FALSE, None, <<>>) /\ a.messages = <<>> /\ IsTrue(a.ok)
  BY <1>1 DEF Asm, IsTrue
<1>4. SubSeq(<<>>, 1, 0) = <<>>
  OBVIOUS
<1>5. Holding(a, SubSeq(<<>>, 1, 0)) = a
  BY <1>1, <1>3, <1>4 DEF Holding
<1>6. Idle(a, seq, <<>>)
  BY <1>1 DEF Idle, Ready
<1>7. Len(a.buffer) <= max /\ 0 \in 0 .. Len(<<>>)
  BY <1>3
<1> QED
  BY <1>2, <1>3, <1>5, <1>6, <1>7, NothingReads DEF Flows

\* A message is queued.
LEMMA FlowQueues ==
  ASSUME NEW r, NEW w, NEW U, NEW frames \in Seq(U), NEW seq \in 0 .. SeqLimit - 1,
         NEW T, NEW said \in Seq(T), NEW n, NEW max \in Nat, max > 0,
         Flows(r, w, frames, seq, said, n, max),
         NEW m, Cells(m) \in T, m.size \in Nat, m.size >= 1, m.size <= Cap,
         NEW split, split = SplitMessage(Cells(m), max, seq), split.frames \in Seq(U)
  PROVE  /\ split.next \in 0 .. SeqLimit - 1
         /\ Flows(r, w, frames \o split.frames, split.next, Append(said, Cells(m)), n, max)
<1>1. PICK c, b : /\ Reads(Holding(r, SubSeq(said, 1, n)), w, c, max)
                  /\ ReadsAll(c, frames, b, max)
                  /\ Idle(b, seq, said)
  BY DEF Flows
<1>2. /\ split.next \in 0 .. SeqLimit - 1
      /\ \E d : /\ ReadsAll(b, split.frames, d, max)
                /\ Idle(d, split.next, Append(said, Cells(m)))
  BY <1>1, SplitReads
<1>3. PICK d : ReadsAll(b, split.frames, d, max) /\ Idle(d, split.next, Append(said, Cells(m)))
  BY <1>2
<1>4. ReadsAll(c, frames \o split.frames, d, max)
  BY <1>1, <1>3, ReadsAllJoin
<1>5. PICK cells \in T : cells = Cells(m)
  OBVIOUS
<1>6. /\ SubSeq(Append(said, cells), 1, n) = SubSeq(said, 1, n)
      /\ n \in 0 .. Len(Append(said, cells))
  <2>1. n \in 0 .. Len(said)
    BY DEF Flows
  <2>2. n \in Nat /\ n <= Len(said)
    BY <2>1
  <2> QED
    BY <2>1, <2>2, PrefixStays
<1>7. Reads(Holding(r, SubSeq(Append(said, cells), 1, n)), w, c, max)
  BY <1>1, <1>6
<1> QED
  BY <1>2, <1>3, <1>4, <1>5, <1>6, <1>7 DEF Flows

\* A frame is written.
LEMMA FlowWrites ==
  ASSUME NEW r, NEW S, NEW w \in Seq(S), NEW frames \in Seq(Seq(S)), frames # <<>>,
         NEW seq, NEW said, NEW n, NEW max, Flows(r, w, frames, seq, said, n, max)
  PROVE  Flows(r, w \o Head(frames), Tail(frames), seq, said, n, max)
<1>1. PICK c, b : /\ Reads(Holding(r, SubSeq(said, 1, n)), w, c, max)
                  /\ ReadsAll(c, frames, b, max)
                  /\ Idle(b, seq, said)
  BY DEF Flows
<1>2. PICK d : Reads(c, Head(frames), d, max) /\ ReadsAll(d, Tail(frames), b, max)
  BY <1>1, ReadsAllFirst
<1>3. PICK first \in Seq(S) : first = Head(frames)
  BY HeadTailProperties
<1>4. Reads(Holding(r, SubSeq(said, 1, n)), w \o first, d, max)
  BY <1>1, <1>2, <1>3, ReadsJoin
<1> QED
  BY <1>1, <1>2, <1>3, <1>4 DEF Flows

\* An ACK is put in front.
LEMMA FlowAcks ==
  ASSUME NEW r, NEW S, NEW w \in Seq(S), w # <<>>, IsHeader(Head(w)), NEW q, AckOf(q) \in S,
         NEW frames, NEW seq, NEW said, NEW n, NEW max \in Nat,
         Flows(r, w, frames, seq, said, n, max)
  PROVE  Flows(r, <<AckOf(q)>> \o w, frames, seq, said, n, max)
<1>1. PICK c, b : /\ Reads(Holding(r, SubSeq(said, 1, n)), w, c, max)
                  /\ ReadsAll(c, frames, b, max)
                  /\ Idle(b, seq, said)
  BY DEF Flows
<1>2. PICK x, a : x = SubSeq(said, 1, n) /\ a = Holding(r, x)
  OBVIOUS
<1>3. PICK f : /\ f[0] = a /\ f[Len(w)] = c
               /\ \A i \in 1 .. Len(w) : Step(f[i - 1], w[i], f[i], max)
  BY <1>1, <1>2 DEF Reads
<1>4. 1 \in 1 .. Len(w) /\ Head(w) = w[1]
  OBVIOUS
<1>5. a.buffer = <<>>
  BY <1>3, <1>4 DEF Step
<1>6. a = Asm(<<>>, r.framer, x, TRUE)
  <2>1. a = Asm(r.buffer, r.framer, x, TRUE)
    BY <1>2 DEF Holding
  <2>2. a.buffer = r.buffer
    BY ONLY <2>1, Zenon DEF Asm
  <2>3. r.buffer = <<>>
    BY ONLY <1>5, <2>2
  <2> QED
    BY ONLY <2>1, <2>3
<1>7. PICK one \in Seq(S) : one = <<AckOf(q)>>
  <2>1. <<AckOf(q)>> \in Seq(S)
    OBVIOUS
  <2> QED
    BY <2>1
<1>8. Reads(a, one, a, max)
  BY <1>6, <1>7, AckReads
<1>9. Reads(a, one \o w, c, max)
  BY <1>1, <1>2, <1>8, ReadsJoin
<1> QED
  BY <1>1, <1>2, <1>7, <1>9 DEF Flows


\* The last cell of a reading leaves no fault, and little in the buffer.
LEMMA ReadsEnd ==
  ASSUME NEW a, NEW S, NEW w \in Seq(S), w # <<>>, NEW b, NEW max, Reads(a, w, b, max)
  PROVE  b.ok /\ Len(b.buffer) <= max
<1>1. PICK f : /\ f[0] = a /\ f[Len(w)] = b
               /\ \A i \in 1 .. Len(w) : Step(f[i - 1], w[i], f[i], max)
  BY DEF Reads
<1>2. PICK n \in Nat : n = Len(w) /\ n # 0
  <2>1. Len(w) \in Nat /\ Len(w) # 0
    BY EmptySeq, LenProperties
  <2> QED
    BY <2>1
<1>3. Step(f[n - 1], w[n], f[n], max)
  BY <1>1, <1>2
<1> QED
  BY <1>1, <1>2, <1>3 DEF Step

\* What begins the same two ways.
LEMMA BeginsCut ==
  ASSUME NEW S, NEW x \in Seq(S), NEW m \in Seq(S), NEW z, Begins(S, x \o m, z)
  PROVE  /\ Len(x) + Len(m) <= Len(z)
         /\ m = SubSeq(z, Len(x) + 1, Len(x) + Len(m))
         /\ x \o m = SubSeq(z, 1, Len(x) + Len(m))
<1>1. PICK y \in Seq(S) : z = (x \o m) \o y
  BY DEF Begins
<1>2. PICK p \in Nat, q \in Nat, l \in Nat : p = Len(x) /\ q = Len(m) /\ l = Len(y)
  BY LenProperties
<1>3. z \in Seq(S) /\ Len(z) = p + q + l
  BY <1>1, <1>2
<1>4. \A i \in 1 .. p + q + l : z[i] = IF i <= p THEN x[i]
                                       ELSE IF i <= p + q THEN m[i - p] ELSE y[i - (p + q)]
  BY <1>1, <1>2
<1>5. m = SubSeq(z, p + 1, p + q)
  <2>1. SubSeq(z, p + 1, p + q) \in Seq(S)
    BY <1>3
  <2>2. PICK u \in Seq(S) : u = SubSeq(z, p + 1, p + q)
    BY <2>1
  <2>3. Len(u) = q /\ \A i \in 1 .. q : u[i] = z[i + p]
    BY <1>2, <1>3, <2>2
  <2>4. ASSUME NEW i \in 1 .. q PROVE u[i] = m[i]
    <3>1. PICK j \in 1 .. p + q + l : j = i + p
      OBVIOUS
    <3>2. ~(j <= p) /\ j <= p + q /\ j - p = i
      BY <3>1
    <3>3. z[j] = m[i]
      BY ONLY <1>4, <3>1, <3>2
    <3> QED
      BY ONLY <2>3, <3>1, <3>3, i \in 1 .. q
  <2> QED
    BY <1>2, <2>2, <2>3, <2>4, SeqEqual
<1>6. x \o m = SubSeq(z, 1, p + q)
  <2>1. SubSeq(z, 1, p + q) \in Seq(S) /\ x \o m \in Seq(S)
    BY <1>3
  <2>2. PICK u \in Seq(S), v \in Seq(S) : u = SubSeq(z, 1, p + q) /\ v = x \o m
    BY <2>1
  <2>3. Len(u) = p + q /\ \A i \in 1 .. p + q : u[i] = z[i]
    BY <1>2, <1>3, <2>2
  <2>4. Len(v) = p + q /\ \A i \in 1 .. p + q : v[i] = IF i <= p THEN x[i] ELSE m[i - p]
    BY <1>2, <2>2
  <2>5. ASSUME NEW i \in 1 .. p + q PROVE u[i] = v[i]
    <3>1. i \in 1 .. p + q + l /\ i <= p + q
      OBVIOUS
    <3>2. z[i] = IF i <= p THEN x[i] ELSE m[i - p]
      BY ONLY <1>4, <3>1
    <3> QED
      BY ONLY <2>3, <2>4, <3>2, i \in 1 .. p + q
  <2> QED
    BY <2>2, <2>3, <2>4, <2>5, SeqEqual
<1> QED
  BY <1>2, <1>3, <1>5, <1>6

\* A chunk of what is on the way is read: it holds no fault, the messages it
\* completes are the next ones said, and the rest flows on.
IsChunk(a, r, w, k) == a = Ingest(r, SubSeq(w, 1, k))
Brings(a, w, k, frames, seq, said, n, j, max) ==
  /\ IsTrue(a.ok) /\ IsAssembler(a) /\ j \in Nat /\ n + j <= Len(said)
  /\ a.messages = SubSeq(said, n + 1, n + j)
  /\ Flows([a EXCEPT !.messages = <<>>], SubSeq(w, k + 1, Len(w)), frames, seq, said, n + j, max)

LEMMA FlowReceives ==
  ASSUME NEW r, IsAssembler(r), NEW w \in Seq(Elements), NEW frames \in Seq(Seq(Elements)),
         NEW seq, NEW said \in Seq(Seq(Elements)), NEW n, NEW max \in Nat, 2 * (max + 1) <= Cap,
         Flows(r, w, frames, seq, said, n, max), NEW k \in 1 .. Len(w), k <= max + 1,
         NEW a, IsChunk(a, r, w, k)
  PROVE  Brings(a, w, k, frames, seq, said, n, Len(a.messages), max)
<1>1. PICK j : j = Len(a.messages)
  OBVIOUS
<1>2. PICK c, b : /\ Reads(Holding(r, SubSeq(said, 1, n)), w, c, max)
                  /\ ReadsAll(c, frames, b, max)
                  /\ Idle(b, seq, said)
  BY DEF Flows
<1>3. IsTrue(r.ok) /\ r.messages = <<>> /\ Len(r.buffer) <= max /\ n \in 0 .. Len(said)
  BY DEF Flows
<1>4. PICK x \in Seq(Seq(Elements)) : x = SubSeq(said, 1, n) /\ Len(x) = n
  <2>1. SubSeq(said, 1, n) \in Seq(Seq(Elements)) /\ Len(SubSeq(said, 1, n)) = n
    BY <1>3
  <2> QED
    BY <2>1
<1>5. PICK h : h = Holding(r, x)
  OBVIOUS
<1>6. h = [r EXCEPT !.messages = x]
  <2>1. [r EXCEPT !.messages = x] = Asm(r.buffer, r.framer, x, r.ok)
    BY IsAsm
  <2>2. r.ok = TRUE
    BY <1>3 DEF IsTrue
  <2> QED
    BY ONLY <1>5, <2>1, <2>2 DEF Holding
<1>7. IsAssembler(h)
  BY <1>6 DEF IsAssembler
<1>8. PICK chunk \in Seq(Elements), rest \in Seq(Elements) :
        /\ chunk = SubSeq(w, 1, k) /\ rest = SubSeq(w, k + 1, Len(w))
        /\ Len(chunk) = k /\ chunk # <<>>
  <2>1. /\ SubSeq(w, 1, k) \in Seq(Elements) /\ SubSeq(w, k + 1, Len(w)) \in Seq(Elements)
        /\ Len(SubSeq(w, 1, k)) = k
    OBVIOUS
  <2>2. k # 0 /\ Len(<<>>) = 0
    OBVIOUS
  <2>3. SubSeq(w, 1, k) # <<>>
    BY ONLY <2>1, <2>2
  <2> QED
    BY <2>1, <2>3
<1>9. PICK d : Reads(h, chunk, d, max) /\ Reads(d, rest, c, max)
  <2>1. k \in 0 .. Len(w)
    OBVIOUS
  <2>2. Reads(h, w, c, max)
    BY <1>2, <1>4, <1>5
  <2> QED
    BY <1>8, <2>1, <2>2, ReadsSplit
<1>10. a = Ingest(r, chunk)
  BY <1>8 DEF IsChunk
<1>11. IsAssembler(a) /\ d = After(x, a)
  <2>1. ~(Len(r.buffer) + Len(chunk) > Cap)
    <3>1. Len(r.buffer) \in Nat
      BY LenProperties DEF IsAssembler
    <3>2. Cap \in Nat
      BY LinkBounds
    <3> QED
      BY <1>3, <1>8, <3>1, <3>2
  <2>2. Reads([r EXCEPT !.messages = x], chunk, d, max)
    BY <1>6, <1>9
  <2> QED
    BY <1>3, <1>10, <2>1, <2>2, IngestReads
<1>12. /\ d.buffer = a.buffer /\ d.framer = a.framer /\ d.messages = x \o a.messages
       /\ d.ok = a.ok
  <2>1. d = Asm(a.buffer, a.framer, x \o a.messages, a.ok)
    BY <1>11 DEF After
  <2> QED
    BY ONLY <2>1, Zenon DEF Asm
<1>13. d.ok /\ Len(d.buffer) <= max
  BY <1>8, <1>9, ReadsEnd
<1>14. IsTrue(a.ok) /\ Len(a.buffer) <= max
  BY <1>12, <1>13 DEF IsTrue
<1>15. PICK m \in Seq(Seq(Elements)) : m = a.messages
  BY <1>11 DEF IsAssembler
<1>16. Begins(Seq(Elements), x \o m, said)
  <2>1. Grown(h, d)
    BY <1>7, <1>9, ReadsGrows
  <2>2. Grown(d, c)
    BY <1>9, <2>1, ReadsGrows DEF Grown
  <2>3. Grown(c, b)
    BY <1>2, <2>2, ReadsAllGrows DEF Grown
  <2>4. x \o m \in Seq(Seq(Elements))
    BY ConcatProperties
  <2>5. b.messages = said
    <3>1. PICK next, buffer : b = Asm(<<>>, Fr(FALSE, next, buffer), said, TRUE)
      BY <1>2 DEF Idle
    <3> QED
      BY ONLY <3>1, Zenon DEF Asm
  <2> QED
    BY <1>12, <1>15, <2>2, <2>3, <2>4, <2>5, BeginsOn DEF Grown
<1>17. /\ Len(x) + Len(m) <= Len(said)
       /\ m = SubSeq(said, Len(x) + 1, Len(x) + Len(m))
       /\ x \o m = SubSeq(said, 1, Len(x) + Len(m))
  BY <1>16, BeginsCut
<1>18. /\ j \in Nat /\ n + j <= Len(said) /\ n + j \in 0 .. Len(said)
       /\ m = SubSeq(said, n + 1, n + j) /\ x \o m = SubSeq(said, 1, n + j)
  <2>1. Len(x) = n /\ Len(m) = j
    BY <1>1, <1>4, <1>15
  <2>2. j \in Nat
    BY <2>1, LenProperties
  <2>3. n + j <= Len(said)
    BY ONLY <1>17, <2>1
  <2>4. n + j \in 0 .. Len(said)
    BY ONLY <1>3, <2>2, <2>3, said \in Seq(Seq(Elements)), LenProperties
  <2> QED
    BY ONLY <1>17, <2>1, <2>2, <2>3, <2>4
<1>19. PICK e : e = [a EXCEPT !.messages = <<>>]
  OBVIOUS
<1>20. e = Asm(a.buffer, a.framer, <<>>, a.ok)
  BY <1>11, <1>19, IsAsm
<1>21. /\ e.buffer = a.buffer /\ e.framer = a.framer /\ e.messages = <<>> /\ e.ok = a.ok
  BY ONLY <1>20, AsmFields
<1>22. Holding(e, SubSeq(said, 1, n + j)) = d
  <2>1. d = Asm(a.buffer, a.framer, x \o m, a.ok)
    BY <1>11, <1>15 DEF After
  <2>2. a.ok = TRUE
    BY <1>14 DEF IsTrue
  <2> QED
    BY ONLY <1>18, <1>21, <2>1, <2>2 DEF Holding
<1>23. Reads(Holding(e, SubSeq(said, 1, n + j)), rest, c, max)
  BY ONLY <1>9, <1>22
<1>24. Flows(e, rest, frames, seq, said, n + j, max)
  <2>1. IsTrue(e.ok) /\ e.messages = <<>> /\ Len(e.buffer) <= max
    BY ONLY <1>14, <1>21
  <2> QED
    BY ONLY <1>2, <1>18, <1>23, <2>1 DEF Flows
<1> QED
  BY ONLY <1>1, <1>8, <1>11, <1>14, <1>15, <1>18, <1>19, <1>24 DEF Brings

-----------------------------------------------------------------------------
(* The calm link: no fault has happened and the ends know each other.      *)

\* What an end has said: its part of the handshake, then what it was handed.
Opening(s) == Sealed(s, "handshake", IF s = Phone THEN 0 ELSE 1, 0, 1)
Spoke(s) == noise[s].phase = "transport" \/ (s = Phone /\ noise[s].phase = "read")
SaidAt(s, i) == Cells(IF i = 1 THEN Opening(s) ELSE Transport(s, i - 1))
Said(s) == IF Spoke(s) THEN [i \in 1 .. Len(sent[s]) + 1 |-> SaidAt(s, i)] ELSE <<>>

\* How much of what the other said an end has taken.
Heard(s) == IF noise[s].phase = "transport" THEN noise[s].rx + 1 ELSE 0

Flowing(s) ==
  Flows(rx[Other(s)], wire[s], tx[s].frames, tx[s].seq, Said(s), Heard(Other(s)), MtuPayload[s])

CalmEnd(s) ==
  /\ ended[s] # "violation"
  /\ tx[s].seq \in 0 .. SeqLimit - 1
  /\ noise[s].phase # "transport" => sent[s] = <<>> /\ noise[s].rx = 0
  /\ Other(s) \in open => Flowing(s)

Calm ==
  /\ faults \in Nat
  /\ faults = 0 /\ Paired =>
       /\ noise[Phone].phase = "transport" => noise[Pc].phase = "transport"
       /\ \A s \in Sides : CalmEnd(s)

\* Each end has a reason of its own.
Reasons == ended = [s \in Sides |-> ended[s]]

\* Every step keeps them.
LEMMA ReasonsNext ==
  ASSUME Reasons, [Next]_vars
  PROVE  Reasons'
<1>1. CASE UNCHANGED vars
  BY <1>1 DEF Reasons, vars
<1>2. ASSUME NEW s \in Sides, ended' = ended \/ \E why : ended' = [ended EXCEPT ![s] = why]
      PROVE  Reasons'
  BY <1>2 DEF Reasons
<1>3. ASSUME NEW s \in Sides, WriteHandshake(s) \/ InsertAck(s) \/ Fault(s) PROVE Reasons'
  BY <1>2, <1>3 DEF WriteHandshake, InsertAck, Fault
<1>4. ASSUME NEW s \in Sides, WriteFrame(s) PROVE Reasons'
  BY <1>2, <1>4 DEF WriteFrame, Close
<1>5. ASSUME NEW s \in Sides, NEW size \in Sizes, Send(s, size) PROVE Reasons'
  BY <1>2, <1>5 DEF Send, Close
<1>6. ASSUME NEW s \in Sides, NEW k \in 1 .. Cap, Receive(s, k) PROVE Reasons'
  BY <1>2, <1>6 DEF Receive, Close
<1>7. ASSUME NEW s \in Sides, Disconnected(s) \/ EndSession(s) PROVE Reasons'
  BY <1>2, <1>7 DEF Disconnected, EndSession, Close
<1> QED
  BY <1>1, <1>3, <1>4, <1>5, <1>6, <1>7 DEF Next

\* What the invariant reads of an end stays while that end does.
LEMMA SaidStays ==
  ASSUME Inv, UNCHANGED peer, NEW s \in Sides, sent'[s] = sent[s],
         noise'[s].phase = noise[s].phase
  PROVE  Said(s)' = Said(s)
<1>1. Spoke(s)' = Spoke(s)
  BY DEF Spoke
<1>2. \A i : SaidAt(s, i)' = SaidAt(s, i)
  BY DEF SaidAt, Opening, Transport, Sealed, KeyOf
<1> QED
  BY <1>1, <1>2 DEF Said

\* So does what it has heard,
LEMMA HeardStays ==
  ASSUME NEW s, noise'[s].phase = noise[s].phase, noise'[s].rx = noise[s].rx
  PROVE  Heard(s)' = Heard(s)
BY DEF Heard

\* and how its direction flows.
LEMMA FlowingStays ==
  ASSUME NEW s, Flowing(s), rx'[Other(s)] = rx[Other(s)], wire'[s] = wire[s], tx'[s] = tx[s],
         Said(s)' = Said(s), Heard(Other(s))' = Heard(Other(s))
  PROVE  Flowing(s)'
BY DEF Flowing

\* A step that leaves the Noise states alone.
LEMMA CalmMoves ==
  ASSUME Calm, UNCHANGED <<peer, noise, sent, faults>>, open' \subseteq open,
         \A s \in Sides :
           /\ ended'[s] # "violation" \/ ended'[s] = ended[s]
           /\ tx'[s].seq = tx[s].seq
           /\ Other(s) \in open' /\ Flowing(s) => Flowing(s)'
  PROVE  Calm'
<1> SUFFICES ASSUME faults = 0, Paired
             PROVE  /\ noise[Phone].phase = "transport" => noise[Pc].phase = "transport"
                    /\ \A s \in Sides : CalmEnd(s)'
  <2>1. Paired' = Paired
    BY DEF Paired
  <2> QED
    BY <2>1 DEF Calm
<1>1. /\ noise[Phone].phase = "transport" => noise[Pc].phase = "transport"
      /\ \A s \in Sides : CalmEnd(s)
  BY DEF Calm
<1>2. ASSUME NEW s \in Sides PROVE CalmEnd(s)'
  <2>1. CalmEnd(s)
    BY <1>1
  <2>2. Other(s) \in open' => Flowing(s)'
    BY <2>1 DEF CalmEnd
  <2> QED
    BY <2>1, <2>2 DEF CalmEnd
<1> QED
  BY <1>1, <1>2

\* An end closes, and not over a fault of the other.
LEMMA CalmCloses ==
  ASSUME Inv, Calm, UNCHANGED <<peer, noise, sent, wire, faults>>, NEW s \in Sides,
         NEW why, why # "violation", Close(s, why),
         \A q \in Sides : tx'[q].seq = tx[q].seq /\ (Other(q) \in open => tx'[q] = tx[q]),
         Reasons
  PROVE  Calm'
<1>1. /\ open' = open \ {s} /\ ended' = [ended EXCEPT ![s] = why]
      /\ rx' = [rx EXCEPT ![s] = NewAssembler]
  BY DEF Close
<1>2. ASSUME NEW q \in Sides, Other(q) \in open', Flowing(q) PROVE Flowing(q)'
  <2>1. Other(q) \in Sides /\ Other(q) # s
    BY <1>1, <1>2 DEF Other, Sides
  <2>2. rx'[Other(q)] = rx[Other(q)] /\ wire'[q] = wire[q] /\ tx'[q] = tx[q]
    BY <1>1, <1>2, <2>1 DEF Inv
  <2>3. Said(q)' = Said(q) /\ Heard(Other(q))' = Heard(Other(q))
    BY <2>1, SaidStays, HeardStays
  <2> QED
    BY <1>2, <2>2, <2>3, FlowingStays
<1>3. \A q \in Sides : ended'[q] # "violation" \/ ended'[q] = ended[q]
  BY <1>1 DEF Reasons
<1> QED
  BY <1>1, <1>2, <1>3, CalmMoves

\* Disconnected and EndSession.
LEMMA CalmClosed ==
  ASSUME Inv, Calm, Reasons, NEW s \in Sides,
         Disconnected(s) \/ EndSession(s)
  PROVE  Calm'
<1>1. PICK why \in {"disconnected", "ended"} : Close(s, why)
  BY DEF Disconnected, EndSession
<1>2. UNCHANGED <<peer, noise, tx, sent, wire, faults>>
  BY DEF Disconnected, EndSession
<1> QED
  BY <1>1, <1>2, CalmCloses

\* Link::send of a frame.
LEMMA CalmWriteFrame ==
  ASSUME Inv, Calm, Reasons, NEW s \in Sides, WriteFrame(s)
  PROVE  Calm'
<1>1. /\ UNCHANGED <<peer, noise, sent, faults>> /\ tx[s].frames # <<>>
      /\ tx' = [tx EXCEPT ![s].frames = Tail(tx[s].frames)]
  BY DEF WriteFrame, Writing
<1>2. /\ tx[s] \in [seq : Nat, frames : Seq(Seq(Elements))] /\ tx = [q \in Sides |-> tx[q]]
      /\ wire[s] \in Seq(Elements) /\ wire = [q \in Sides |-> wire[q]]
  BY DEF Inv, EndInv
<1>3. PICK rest : rest = Tail(tx[s].frames)
  OBVIOUS
<1>4. /\ \A q \in Sides : q # s => tx'[q] = tx[q]
      /\ tx'[s].seq = tx[s].seq /\ tx'[s].frames = rest
  <2>1. PICK t : t = [tx[s] EXCEPT !.frames = rest]
    OBVIOUS
  <2>2. t.seq = tx[s].seq /\ t.frames = rest
    BY <1>2, <2>1
  <2>3. tx' = [tx EXCEPT ![s] = t]
    BY <1>1, <1>3, <2>1
  <2> QED
    BY <1>2, <2>2, <2>3
<1>5. Other(s) \in Sides /\ Other(s) # s /\ Other(Other(s)) = s
  BY LinkBounds DEF Other, Sides
<1>6. CASE Other(s) \notin open
  <2>1. Close(s, "disconnected") /\ wire' = wire
    BY <1>6 DEF WriteFrame
  <2>2. ASSUME NEW q \in Sides, Other(q) \in open PROVE tx'[q] = tx[q]
    BY <1>4, <1>6, <2>2
  <2>3. \A q \in Sides : tx'[q].seq = tx[q].seq
    BY <1>4
  <2> QED
    BY <1>1, <2>1, <2>2, <2>3, CalmCloses
<1>7. CASE Other(s) \in open
  <2>1. /\ wire' = [wire EXCEPT ![s] = wire[s] \o Head(tx[s].frames)]
        /\ UNCHANGED <<rx, open, ended>>
    BY <1>7 DEF WriteFrame
  <2>2. ASSUME NEW q \in Sides, Flowing(q) PROVE Flowing(q)'
    <3>1. Other(q) \in Sides
      BY DEF Other, Sides
    <3>2. Said(q)' = Said(q) /\ Heard(Other(q))' = Heard(Other(q))
      BY <1>1, <3>1, SaidStays, HeardStays
    <3>3. CASE q # s
      <4>1. tx'[q] = tx[q] /\ wire'[q] = wire[q]
        BY <1>2, <1>4, <2>1, <3>3
      <4> QED
        BY <2>1, <2>2, <3>2, <4>1, FlowingStays
    <3>4. CASE q = s
      <4>1. PICK r, w, frames, seq, said, n, max :
              /\ r = rx[Other(s)] /\ w = wire[s] /\ frames = tx[s].frames /\ seq = tx[s].seq
              /\ said = Said(s) /\ n = Heard(Other(s)) /\ max = MtuPayload[s]
        OBVIOUS
      <4>2. Flows(r, w, frames, seq, said, n, max)
        BY <2>2, <3>4, <4>1 DEF Flowing
      <4>3. w \in Seq(Elements) /\ frames \in Seq(Seq(Elements)) /\ frames # <<>>
        BY <1>1, <1>2, <4>1
      <4>4. Flows(r, w \o Head(frames), Tail(frames), seq, said, n, max)
        BY <4>2, <4>3, FlowWrites
      <4>5. /\ rx'[Other(s)] = r /\ wire'[s] = w \o Head(frames) /\ tx'[s].frames = Tail(frames)
            /\ tx'[s].seq = seq /\ Said(s)' = said /\ Heard(Other(s))' = n
        BY <1>2, <1>3, <1>4, <2>1, <3>2, <3>4, <4>1
      <4> QED
        BY <3>4, <4>1, <4>4, <4>5 DEF Flowing
    <3> QED
      BY <3>3, <3>4
  <2>3. \A q \in Sides : tx'[q].seq = tx[q].seq
    BY <1>4
  <2> QED
    BY <1>1, <2>1, <2>2, <2>3, CalmMoves
<1> QED
  BY <1>6, <1>7

\* An ACK between two frames.
LEMMA CalmInsertAck ==
  ASSUME Inv, Calm, NEW s \in Sides, InsertAck(s)
  PROVE  Calm'
<1>1. PICK q : q = wire[s][1].seq
  OBVIOUS
<1>2. /\ wire' = [wire EXCEPT ![s] = <<AckOf(q)>> \o wire[s]]
      /\ wire[s] # <<>> /\ IsHeader(Head(wire[s]))
      /\ UNCHANGED <<peer, noise, tx, rx, open, faults, sent, ended>>
  BY <1>1 DEF InsertAck, Untouched, AckOf
<1>3. wire[s] \in Seq(Elements) /\ wire = [p \in Sides |-> wire[p]]
  BY DEF Inv, EndInv
<1>4. ASSUME NEW p \in Sides, Flowing(p) PROVE Flowing(p)'
  <2>1. Other(p) \in Sides
    BY DEF Other, Sides
  <2>2. Said(p)' = Said(p) /\ Heard(Other(p))' = Heard(Other(p))
    BY <1>2, <2>1, SaidStays, HeardStays
  <2>3. CASE p # s
    <3>1. wire'[p] = wire[p]
      BY <1>2, <1>3, <2>3
    <3> QED
      BY <1>2, <1>4, <2>2, <3>1, FlowingStays
  <2>4. CASE p = s
    <3>1. PICK r, w, frames, seq, said, n, max :
            /\ r = rx[Other(s)] /\ w = wire[s] /\ frames = tx[s].frames /\ seq = tx[s].seq
            /\ said = Said(s) /\ n = Heard(Other(s)) /\ max = MtuPayload[s]
      OBVIOUS
    <3>2. Flows(r, w, frames, seq, said, n, max)
      BY <1>4, <2>4, <3>1 DEF Flowing
    <3>3. PICK S : S = Elements \cup {AckOf(q)}
      OBVIOUS
    <3>4. w \in Seq(S) /\ w # <<>> /\ IsHeader(Head(w)) /\ AckOf(q) \in S
      BY <1>2, <1>3, <3>1, <3>3
    <3>5. max \in Nat
      BY <3>1, LinkBounds
    <3>6. Flows(r, <<AckOf(q)>> \o w, frames, seq, said, n, max)
      BY <3>2, <3>4, <3>5, FlowAcks
    <3>7. /\ rx'[Other(s)] = r /\ wire'[s] = <<AckOf(q)>> \o w /\ tx'[s].frames = frames
          /\ tx'[s].seq = seq /\ Said(s)' = said /\ Heard(Other(s))' = n
      BY <1>2, <1>3, <2>2, <2>4, <3>1
    <3> QED
      BY <2>4, <3>1, <3>6, <3>7 DEF Flowing
  <2> QED
    BY <2>3, <2>4
<1> QED
  BY <1>2, <1>4, CalmMoves

\* A message is queued behind what was said.
LEMMA FlowingQueues ==
  ASSUME NEW s \in Sides, Flowing(s), tx[s].seq \in 0 .. SeqLimit - 1,
         NEW S, tx[s] \in [seq : Nat, frames : Seq(Seq(S))], tx = [q \in Sides |-> tx[q]],
         Headers \subseteq S, NEW m, Queue(s, m), Cells(m) \in Seq(S),
         m.size \in Nat, m.size >= 1, m.size <= Cap,
         NEW T, Said(s) \in Seq(T), Cells(m) \in T,
         Said(s)' = Append(Said(s), Cells(m)),
         rx'[Other(s)] = rx[Other(s)], wire'[s] = wire[s],
         Heard(Other(s))' = Heard(Other(s))
  PROVE  Flowing(s)' /\ tx'[s].seq \in 0 .. SeqLimit - 1
<1>1. PICK r, w, frames, seq, said, n, max :
        /\ r = rx[Other(s)] /\ w = wire[s] /\ frames = tx[s].frames /\ seq = tx[s].seq
        /\ said = Said(s) /\ n = Heard(Other(s)) /\ max = MtuPayload[s]
  OBVIOUS
<1>2. Flows(r, w, frames, seq, said, n, max)
  BY <1>1 DEF Flowing
<1>3. max \in Nat /\ max > 0
  BY <1>1, LinkBounds
<1>4. PICK split : split = SplitMessage(Cells(m), max, seq)
  OBVIOUS
<1>5. frames \in Seq(Seq(S)) /\ seq \in 0 .. SeqLimit - 1 /\ seq \in Nat
  BY <1>1
<1>6. split.frames \in Seq(Seq(S))
  BY <1>3, <1>4, <1>5, SplitKeeps
<1>7. /\ split.next \in 0 .. SeqLimit - 1
      /\ Flows(r, w, frames \o split.frames, split.next, Append(said, Cells(m)), n, max)
  BY <1>1, <1>2, <1>3, <1>4, <1>5, <1>6, FlowQueues
<1>8. tx'[s].seq = split.next /\ tx'[s].frames = frames \o split.frames
  <2>1. PICK t : t = [seq |-> split.next, frames |-> frames \o split.frames]
    OBVIOUS
  <2>2. tx' = [tx EXCEPT ![s] = t]
    BY <1>1, <1>4, <2>1 DEF Queue
  <2>3. tx'[s] = t
    BY <2>2
  <2> QED
    BY <2>1, <2>3
<1> QED
  BY <1>1, <1>7, <1>8 DEF Flowing

\* A queued message leaves the next number below the limit.
LEMMA QueuedSeq ==
  ASSUME NEW s \in Sides, tx[s].seq \in 0 .. SeqLimit - 1, tx = [q \in Sides |-> tx[q]],
         NEW m, Queue(s, m), m.size \in Nat, m.size >= 1, m.size <= Cap
  PROVE  tx'[s].seq \in 0 .. SeqLimit - 1
<1>1. PICK max, seq, split : /\ max = MtuPayload[s] /\ seq = tx[s].seq
                             /\ split = SplitMessage(Cells(m), max, seq)
  OBVIOUS
<1>2. max \in Nat /\ max > 0 /\ seq \in 0 .. SeqLimit - 1
  BY <1>1, LinkBounds
<1>3. PICK b, nil : nil = <<>> /\ b = Asm(<<>>, Fr(FALSE, None, <<>>), nil, TRUE)
  OBVIOUS
<1>4. Idle(b, seq, nil)
  BY <1>3 DEF Idle, Ready
<1>5. split.next \in 0 .. SeqLimit - 1
  BY <1>1, <1>2, <1>4, SplitReads
<1>6. tx'[s].seq = split.next
  <2>1. PICK t : t = [seq |-> split.next, frames |-> tx[s].frames \o split.frames]
    OBVIOUS
  <2>2. tx' = [tx EXCEPT ![s] = t]
    BY <1>1, <2>1 DEF Queue
  <2> QED
    BY <2>1, <2>2
<1> QED
  BY <1>5, <1>6

\* The first word of an end is its part of the handshake.
LEMMA FirstWord ==
  ASSUME UNCHANGED peer, NEW s, sent'[s] = <<>>, ~Spoke(s), Spoke(s)'
  PROVE  /\ Said(s) = <<>> /\ Said(s)' = Append(Said(s), Cells(Opening(s)))
         /\ Said(s) \in Seq({Cells(Opening(s))})
<1>1. Said(s) = <<>>
  BY DEF Said
<1>2. PICK f, c : f = Said(s)' /\ c = Cells(Opening(s))
  OBVIOUS
<1>3. Opening(s)' = Opening(s)
  BY DEF Opening, Sealed, KeyOf
<1>4. f = [i \in 1 .. Len(<<>>) + 1 |-> SaidAt(s, i)']
  BY <1>2 DEF Said
<1>5. SaidAt(s, 1)' = c
  BY <1>2, <1>3 DEF SaidAt
<1>6. f = [i \in 1 .. 1 |-> c]
  BY <1>4, <1>5
<1>7. f = <<c>>
  BY ONLY <1>6
<1>8. Append(<<>>, c) = <<c>> /\ <<>> \in Seq({c})
  OBVIOUS
<1> QED
  BY <1>1, <1>2, <1>7, <1>8

\* The phone opens the handshake.
LEMMA CalmWriteHandshake ==
  ASSUME Inv, Turns, Calm, NEW s \in Sides, WriteHandshake(s)
  PROVE  Calm'
<1>1. /\ UNCHANGED <<peer, wire, rx, open, sent, ended, faults>>
      /\ noise[s].phase = "write" /\ noise' = [noise EXCEPT ![s].phase = "read"]
      /\ Queue(s, Sealed(s, "handshake", 0, 0, 1))
  BY DEF WriteHandshake
<1>2. s = Phone /\ Pc # Phone /\ Other(Phone) = Pc /\ Other(Pc) = Phone
  BY <1>1, LinkBounds DEF Turns, Sides, Other
<1>3. /\ noise'[Pc] = noise[Pc] /\ noise'[Phone].phase = "read"
      /\ noise'[Phone].rx = noise[Phone].rx /\ Pc \in Sides /\ Phone \in Sides
  <2>1. PICK n : n = [noise[s] EXCEPT !.phase = "read"]
    OBVIOUS
  <2>2. noise[s] \in [phase : Phases, tx : Nat, rx : Nat]
    BY DEF Inv, EndInv
  <2>3. n.phase = "read" /\ n.rx = noise[s].rx
    BY <2>1, <2>2
  <2>4. noise' = [noise EXCEPT ![s] = n]
    BY <1>1, <2>1
  <2> QED
    BY <1>2, <2>3, <2>4 DEF Inv, Sides
<1>4. SUFFICES ASSUME faults = 0, Paired PROVE \A q \in Sides : CalmEnd(q)'
  <2>1. Paired' = Paired
    BY <1>1 DEF Paired
  <2> QED
    BY <1>1, <1>3, <1>4, <2>1 DEF Calm
<1>5. CalmEnd(Pc) /\ CalmEnd(Phone)
  BY <1>3, <1>4 DEF Calm
<1>6. CalmEnd(Pc)'
  <2>1. tx'[Pc] = tx[Pc]
    BY <1>1, <1>2, <1>3 DEF Queue, Inv
  <2>2. Said(Pc)' = Said(Pc)
    BY <1>1, <1>3, SaidStays
  <2>3. Heard(Phone)' = Heard(Phone)
    BY <1>1, <1>2, <1>3 DEF Heard
  <2>4. Other(Pc) \in open' => Flowing(Pc)'
    BY <1>1, <1>2, <1>5, <2>1, <2>2, <2>3, FlowingStays DEF CalmEnd
  <2> QED
    BY <1>1, <1>3, <1>5, <2>1, <2>4 DEF CalmEnd
<1>7. CalmEnd(Phone)'
  <2>1. Sealed(s, "handshake", 0, 0, 1) = Opening(Phone)
    BY <1>2 DEF Opening
  <2>2. Queue(Phone, Opening(Phone))
    BY <1>1, <1>2, <2>1
  <2>3. sent[Phone] = <<>> /\ tx[Phone].seq \in 0 .. SeqLimit - 1
    BY <1>1, <1>2, <1>5 DEF CalmEnd
  <2>4. ~Spoke(Phone) /\ Spoke(Phone)'
    BY <1>1, <1>2, <1>3 DEF Spoke
  <2>5. /\ Said(Phone) = <<>> /\ Said(Phone)' = Append(Said(Phone), Cells(Opening(Phone)))
        /\ Said(Phone) \in Seq({Cells(Opening(Phone))})
    BY <1>1, <2>3, <2>4, FirstWord
  <2>6. Heard(Pc)' = Heard(Pc)
    BY <1>3, HeardStays
  <2>7. Opening(Phone) \in Made /\ Opening(Phone).size = 1
    <3>1. 0 \in 0 .. 1
      OBVIOUS
    <3> QED
      BY <1>3, <3>1 DEF Made, Sealed, Opening
  <2>8. Cells(Opening(Phone)) \in Seq(Elements)
    BY <2>7, CellsIn
  <2>9. /\ tx = [q \in Sides |-> tx[q]] /\ Headers \subseteq Elements
        /\ tx[Phone] \in [seq : Nat, frames : Seq(Seq(Elements))]
    BY <1>3 DEF Inv, EndInv, Elements
  <2>10. 1 <= Cap
    <3>1. MtuPayload[Pc] \in Nat /\ 2 * (MtuPayload[Pc] + 1) <= Cap /\ Cap \in Nat
      BY <1>3, LinkBounds
    <3> QED
      BY <3>1
  <2>11. PICK m, T : m = Opening(Phone) /\ T = {Cells(m)}
    OBVIOUS
  <2>12. /\ Queue(Phone, m) /\ Cells(m) \in Seq(Elements) /\ m.size \in Nat /\ m.size >= 1
         /\ m.size <= Cap /\ Said(Phone) \in Seq(T) /\ Cells(m) \in T
         /\ Said(Phone)' = Append(Said(Phone), Cells(m))
    BY <2>2, <2>5, <2>7, <2>8, <2>10, <2>11
  <2>13. tx'[Phone].seq \in 0 .. SeqLimit - 1
    BY <1>3, <2>3, <2>9, <2>12, QueuedSeq
  <2>14. ASSUME Other(Phone) \in open PROVE Flowing(Phone)'
    <3>1. Flowing(Phone)
      BY <1>5, <2>14 DEF CalmEnd
    <3>2. /\ rx'[Other(Phone)] = rx[Other(Phone)] /\ wire'[Phone] = wire[Phone]
          /\ Heard(Other(Phone))' = Heard(Other(Phone))
      BY <1>1, <1>2, <2>6
    <3> QED
      BY ONLY <1>3, <2>3, <2>9, <2>12, <3>1, <3>2, FlowingQueues
  <2>15. noise[Phone].rx = 0 /\ ended[Phone] # "violation"
    BY <1>1, <1>2, <1>5 DEF CalmEnd
  <2> QED
    BY <1>1, <1>3, <2>3, <2>13, <2>14, <2>15 DEF CalmEnd
<1> QED
  BY <1>6, <1>7 DEF Sides

\* What is handed to an end is said last.
LEMMA SaidMore ==
  ASSUME UNCHANGED peer, NEW s, Spoke(s), Spoke(s)', sent[s] \in Seq(Plaintexts),
         NEW m \in Plaintexts, sent'[s] = Append(sent[s], m),
         NEW c, c = Sealed(s, "transport", Len(sent[s]), m, m.size + TagLen),
         NEW T, T = {SaidAt(s, i) : i \in Nat} \cup {Cells(c)}
  PROVE  Said(s) \in Seq(T) /\ Said(s)' = Append(Said(s), Cells(c))
<1>1. PICK w \in Seq(Plaintexts), n \in Nat : w = sent[s] /\ n = Len(w)
  BY LenProperties
<1>2. PICK v : v = Append(w, m)
  OBVIOUS
<1>3. /\ sent'[s] = v /\ Len(v) = n + 1 /\ v[n + 1] = m
      /\ \A i \in 1 .. n : v[i] = w[i]
  BY <1>1, <1>2
<1>4. \A i \in 1 .. n + 1 : SaidAt(s, i)' = SaidAt(s, i)
  <2> SUFFICES ASSUME NEW i \in 1 .. n + 1 PROVE SaidAt(s, i)' = SaidAt(s, i)
    OBVIOUS
  <2>1. CASE i = 1
    BY <2>1 DEF SaidAt, Opening, Sealed, KeyOf
  <2>2. CASE i # 1
    <3>1. PICK j \in 1 .. n : j = i - 1
      BY <2>2
    <3>2. sent'[s][j] = sent[s][j]
      BY ONLY <1>1, <1>3, j \in 1 .. n
    <3>3. Transport(s, j)' = Transport(s, j)
      BY <3>2 DEF Transport, Sealed, KeyOf
    <3> QED
      BY <2>2, <3>1, <3>3 DEF SaidAt
  <2> QED
    BY <2>1, <2>2
<1>5. SaidAt(s, n + 2)' = Cells(c)
  <2>1. n + 2 # 1 /\ (n + 2) - 1 = n + 1 /\ (n + 1) - 1 = n
    OBVIOUS
  <2>2. Transport(s, n + 1)' = c
    <3>1. sent'[s][n + 1] = m /\ Len(sent[s]) = n
      BY ONLY <1>1, <1>3
    <3> QED
      BY <2>1, <3>1 DEF Transport, Sealed, KeyOf
  <2> QED
    BY <2>1, <2>2 DEF SaidAt
<1>6. PICK f, g : f = Said(s) /\ g = Said(s)'
  OBVIOUS
<1>7. f = [i \in 1 .. n + 1 |-> SaidAt(s, i)]
  BY <1>1, <1>6 DEF Said
<1>8. g = [i \in 1 .. n + 2 |-> SaidAt(s, i)']
  <2>1. g = [i \in 1 .. Len(v) + 1 |-> SaidAt(s, i)']
    BY <1>3, <1>6 DEF Said
  <2>2. Len(v) + 1 = n + 2
    BY <1>3
  <2> QED
    BY ONLY <2>1, <2>2
<1>9. PICK d : d = Cells(c)
  OBVIOUS
<1>10. PICK at : at = [i \in 1 .. n + 1 |-> SaidAt(s, i)]
  OBVIOUS
<1>11. \A i \in 1 .. n + 1 : at[i] \in T /\ at[i] = SaidAt(s, i)
  BY <1>10
<1>12. f = [i \in 1 .. n + 1 |-> at[i]]
  BY <1>7, <1>10
<1>13. g = [i \in 1 .. n + 2 |-> IF i <= n + 1 THEN at[i] ELSE d]
  <2>1. ASSUME NEW i \in 1 .. n + 2 PROVE SaidAt(s, i)' = IF i <= n + 1 THEN at[i] ELSE d
    <3>1. CASE i <= n + 1
      <4>1. i \in 1 .. n + 1
        BY <3>1
      <4> QED
        BY <1>4, <1>11, <3>1, <4>1
    <3>2. CASE ~(i <= n + 1)
      <4>1. i = n + 2
        BY <3>2
      <4> QED
        BY <1>5, <1>9, <3>2, <4>1
    <3> QED
      BY <3>1, <3>2
  <2> QED
    BY <1>8, <2>1
<1>14. d \in T
  BY <1>9
<1>15. f \in Seq(T) /\ Len(f) = n + 1
  BY ONLY <1>11, <1>12, n \in Nat
<1>16. g = Append(f, d)
  <2>1. g \in Seq(T) /\ Len(g) = n + 2
    BY ONLY <1>11, <1>13, <1>14, n \in Nat
  <2>2. PICK h : h = Append(f, d)
    OBVIOUS
  <2>3. /\ h \in Seq(T) /\ Len(h) = n + 2 /\ h[n + 2] = d
        /\ \A i \in 1 .. n + 1 : h[i] = f[i]
    BY ONLY <1>14, <1>15, <2>2, n \in Nat
  <2>4. ASSUME NEW i \in 1 .. n + 2 PROVE g[i] = h[i]
    BY ONLY <1>12, <1>13, <2>3, n \in Nat, i \in 1 .. n + 2
  <2> QED
    BY ONLY <2>1, <2>2, <2>3, <2>4, SeqEqual
<1> QED
  BY ONLY <1>6, <1>9, <1>15, <1>16

\* Session::send.
LEMMA CalmSend ==
  ASSUME Inv, Calm, Reasons, NEW s \in Sides, NEW size \in Sizes, Send(s, size)
  PROVE  Calm'
<1>1. CASE ~(size + TagLen <= NoiseMax)
  <2>1. Close(s, "too_long") /\ UNCHANGED <<peer, noise, tx, wire, sent, faults>>
    BY <1>1 DEF Send
  <2> QED
    BY <2>1, CalmCloses
<1>2. CASE size + TagLen <= NoiseMax
  <2>1. PICK w \in Seq(Plaintexts), n \in Nat : w = sent[s] /\ n = Len(w) /\ n = noise[s].tx
    BY DEF Inv, EndInv
  <2>2. PICK m : m = [by |-> s, i |-> n + 1, size |-> size]
    OBVIOUS
  <2>3. n < MaxSends /\ MaxSends \in Nat /\ size \in Nat
    BY <2>1, LinkBounds DEF Send
  <2>4. m \in Plaintexts /\ m.size = size
    BY <2>2, <2>3 DEF Plaintexts
  <2>5. PICK c : c = Sealed(s, "transport", n, m, size + TagLen)
    OBVIOUS
  <2>6. /\ Queue(s, c) /\ noise[s].phase = "transport"
        /\ noise' = [noise EXCEPT ![s].tx = noise[s].tx + 1]
        /\ sent' = [sent EXCEPT ![s] = Append(sent[s], m)]
        /\ UNCHANGED <<peer, wire, rx, open, ended, faults>>
    BY <1>2, <2>1, <2>2, <2>5 DEF Send
  <2>7. \A q \in Sides : noise'[q].phase = noise[q].phase /\ noise'[q].rx = noise[q].rx
    <3>1. PICK k, up : up = noise[s].tx + 1 /\ k = [noise[s] EXCEPT !.tx = up]
      OBVIOUS
    <3>2. noise' = [noise EXCEPT ![s] = k]
      BY <2>6, <3>1
    <3>3. k.phase = noise[s].phase /\ k.rx = noise[s].rx
      BY <3>1 DEF Inv, EndInv
    <3> QED
      BY <3>2, <3>3 DEF Inv
  <2>8. /\ sent'[s] = Append(sent[s], m)
        /\ \A q \in Sides : q # s => sent'[q] = sent[q] /\ tx'[q] = tx[q]
    BY <2>6 DEF Inv, Queue
  <2>9. Pc \in Sides /\ Phone \in Sides /\ \A q \in Sides : Other(q) \in Sides
    BY DEF Sides, Other
  <2>10. SUFFICES ASSUME faults = 0, Paired PROVE \A q \in Sides : CalmEnd(q)'
    <3>1. Paired' = Paired
      BY <2>6 DEF Paired
    <3> QED
      BY <2>6, <2>7, <2>9, <2>10, <3>1 DEF Calm
  <2>11. \A q \in Sides : CalmEnd(q)
    BY <2>10 DEF Calm
  <2>12. \A q \in Sides : Heard(q)' = Heard(q)
    BY <2>7, HeardStays
  <2>13. ASSUME NEW q \in Sides, q # s PROVE CalmEnd(q)'
    <3>1. Said(q)' = Said(q)
      BY <2>6, <2>7, <2>8, <2>13, SaidStays
    <3>2. tx'[q] = tx[q] /\ sent'[q] = sent[q]
      BY <2>8, <2>13
    <3>3. Other(q) \in open' => Flowing(q)'
      BY <2>6, <2>9, <2>11, <2>12, <3>1, <3>2, FlowingStays DEF CalmEnd
    <3> QED
      BY <2>6, <2>7, <2>11, <3>2, <3>3 DEF CalmEnd
  <2>14. CalmEnd(s)'
    <3>1. PICK T : T = {SaidAt(s, i) : i \in Nat} \cup {Cells(c)}
      OBVIOUS
    <3>2. Said(s) \in Seq(T) /\ Said(s)' = Append(Said(s), Cells(c))
      <4>1. Spoke(s) /\ Spoke(s)'
        BY <2>6, <2>7 DEF Spoke
      <4>2. c = Sealed(s, "transport", Len(sent[s]), m, m.size + TagLen)
        BY <2>1, <2>4, <2>5
      <4>3. sent[s] \in Seq(Plaintexts)
        BY <2>1
      <4> QED
        BY <2>4, <2>6, <2>8, <3>1, <4>1, <4>2, <4>3, SaidMore
    <3>3. PICK S : S = Elements \cup {[of |-> c, at |-> i] : i \in Nat}
      OBVIOUS
    <3>4. c.size \in Nat /\ c.size >= 1 /\ c.size <= Cap
      <4>1. c.size = size + TagLen /\ TagLen = 1
        BY <2>5 DEF Sealed, TagLen
      <4>2. NoiseMax \in Nat /\ Cap \in Nat /\ NoiseMax <= Cap
        BY LinkBounds
      <4> QED
        BY <1>2, <2>3, <4>1, <4>2
    <3>5. Cells(c) \in Seq(S) /\ Headers \subseteq S /\ Cells(c) \in T
      <4>1. \A i \in 1 .. c.size : [of |-> c, at |-> i] \in S
        BY <3>3, <3>4
      <4>2. Cells(c) \in Seq(S)
        BY <3>4, <4>1 DEF Cells
      <4> QED
        BY <3>1, <3>3, <4>2 DEF Elements
    <3>6. tx[s] \in [seq : Nat, frames : Seq(Seq(S))] /\ tx = [q \in Sides |-> tx[q]]
      <4>1. Elements \subseteq S
        BY <3>3
      <4>2. Seq(Elements) \subseteq Seq(S)
        BY <4>1
      <4>3. Seq(Seq(Elements)) \subseteq Seq(Seq(S))
        BY <4>2
      <4> QED
        BY <4>3 DEF Inv, EndInv
    <3>7. tx[s].seq \in 0 .. SeqLimit - 1
      BY <2>11 DEF CalmEnd
    <3>8. tx'[s].seq \in 0 .. SeqLimit - 1
      BY <2>6, <3>4, <3>6, <3>7, QueuedSeq
    <3>9. ASSUME Other(s) \in open PROVE Flowing(s)'
      <4>1. Flowing(s)
        BY <2>11, <3>9 DEF CalmEnd
      <4>2. /\ rx'[Other(s)] = rx[Other(s)] /\ wire'[s] = wire[s]
            /\ Heard(Other(s))' = Heard(Other(s)) /\ Queue(s, c)
        BY <2>6, <2>9, <2>12
      <4> QED
        BY ONLY s \in Sides, <3>2, <3>4, <3>5, <3>6, <3>7, <4>1, <4>2, FlowingQueues
    <3> QED
      BY <2>6, <2>7, <2>11, <3>8, <3>9 DEF CalmEnd
  <2> QED
    BY <2>13, <2>14
<1> QED
  BY <1>1, <1>2

\* A ciphertext that arrives whole opens.
LEMMA OpenedCells ==
  ASSUME NEW m, m.size \in Nat, m.size >= 1, m # None
  PROVE  Opened(Cells(m)) = m /\ Opened(Cells(m)) # None
<1>1. PICK n \in Nat : n = m.size
  OBVIOUS
<1>2. PICK cells : cells = Cells(m) /\ n >= 1
  BY <1>1
<1>3. cells = [i \in 1 .. n |-> [of |-> m, at |-> i]]
  BY <1>1, <1>2 DEF Cells
<1>4. 1 \in 1 .. n
  BY <1>2
<1>5. cells[1].of = m /\ cells # <<>>
  <2>1. cells[1] = [of |-> m, at |-> 1]
    BY ONLY <1>3, <1>4
  <2>2. DOMAIN cells = 1 .. n /\ DOMAIN <<>> = {}
    BY ONLY <1>3
  <2> QED
    BY ONLY <1>4, <2>1, <2>2
<1> QED
  BY <1>2, <1>5 DEF Opened

\* The fields of a ciphertext.
LEMMA SealedIs ==
  ASSUME NEW s, NEW kind, NEW n, NEW body, NEW size, NEW m, m = Sealed(s, kind, n, body, size)
  PROVE  /\ m # None /\ m.key = KeyOf(s) /\ m.from = s /\ m.kind = kind /\ m.n = n
         /\ m.body = body /\ m.size = size
<1>1. /\ m.key = KeyOf(s) /\ m.from = s /\ m.kind = kind /\ m.n = n /\ m.body = body
      /\ m.size = size
  BY DEF Sealed
<1>2. "none" \notin DOMAIN m
  BY DEF Sealed
<1>3. "none" \in DOMAIN None
  BY DEF None
<1> QED
  BY <1>1, <1>2, <1>3

\* The ends of a pair hold the same keys.
LEMMA PairedKeys ==
  ASSUME Paired, NEW s \in Sides
  PROVE  KeyOf(Other(s)) = KeyOf(s) /\ Other(Other(s)) = s
<1>1. Other(s) \in Sides /\ Other(Other(s)) = s
  BY LinkBounds DEF Other, Sides
<1>2. peer[s] = StaticOf[Other(s)] /\ peer[Other(s)] = StaticOf[s]
  BY <1>1 DEF Paired
<1> QED
  BY <1>1, <1>2 DEF KeyOf

\* What the other end of a pair sealed opens under its kind and nonce.
LEMMA OpensSealed ==
  ASSUME Paired, NEW s \in Sides, NEW kind, NEW n, NEW body, NEW size \in Nat, size >= 1
  PROVE  LET m == Sealed(Other(s), kind, n, body, size)
         IN  Opens(s, kind, n, Cells(m)) /\ Opened(Cells(m)) = m
<1>1. PICK m : m = Sealed(Other(s), kind, n, body, size)
  OBVIOUS
<1>2. m # None /\ m.key = KeyOf(s) /\ m.from = Other(s) /\ m.kind = kind /\ m.n = n /\ m.size = size
  BY <1>1, SealedIs, PairedKeys
<1>3. Opened(Cells(m)) = m
  BY <1>2, OpenedCells
<1> QED
  BY <1>1, <1>2, <1>3 DEF Opens

IsFalse(v) == v = FALSE

\* After h messages in all, of which the first is the handshake.
TookSaid(t, s, h) ==
  /\ IsTrue(t.ok)
  /\ h = 0 => t.noise = noise[s]
  /\ h > 0 => t.noise.phase = "transport" /\ t.noise.rx = h - 1
  /\ IF noise[s].phase = "read" /\ h > 0 /\ s = Pc THEN IsTrue(t.reply) ELSE IsFalse(t.reply)

\* What is said at a place.
LEMMA SaidIs ==
  ASSUME NEW s, NEW h \in Nat, h + 1 <= Len(Said(s)), Len(sent[s]) \in Nat
  PROVE  /\ Spoke(s) /\ Len(Said(s)) = Len(sent[s]) + 1 /\ h <= Len(sent[s])
         /\ Said(s)[h + 1] = SaidAt(s, h + 1)
<1>1. Spoke(s)
  <2> SUFFICES ASSUME ~Spoke(s) PROVE FALSE
    OBVIOUS
  <2>1. Said(s) = <<>>
    BY DEF Said
  <2>2. Len(Said(s)) = 0
    BY ONLY <2>1
  <2> QED
    BY <2>2
<1>2. PICK n \in Nat : n = Len(sent[s])
  OBVIOUS
<1>3. PICK f : f = Said(s)
  OBVIOUS
<1>4. f = [i \in 1 .. n + 1 |-> SaidAt(s, i)]
  BY <1>1, <1>2, <1>3 DEF Said
<1>5. Len(f) = n + 1
  BY ONLY <1>4, n \in Nat
<1>6. h + 1 \in 1 .. n + 1 /\ h <= n
  BY <1>2, <1>3, <1>5
<1>7. f[h + 1] = SaidAt(s, h + 1)
  BY ONLY <1>4, <1>6
<1> QED
  BY <1>1, <1>2, <1>3, <1>5, <1>6, <1>7

\* The next message said is taken.
LEMMA TakeSaid ==
  ASSUME Inv, Paired, NEW s \in Sides, NEW t, TookInv(t, s), NEW h \in Nat, TookSaid(t, s, h),
         h = 0 => noise[s].phase = "read", noise[s].phase = "read" => noise[s].rx = 0,
         h + 1 <= Len(Said(Other(s))),
         noise[s].phase = "read" /\ s = Pc => Len(Said(Other(s))) <= 1,
         NEW cells, cells = Said(Other(s))[h + 1]
  PROVE  TookSaid(TakeMessage(t, cells), s, h + 1)
<1>1. PICK o \in Sides : o = Other(s) /\ Pc # Phone
  BY LinkBounds DEF Other, Sides
<1>2. sent[o] \in Seq(Plaintexts) /\ Len(sent[o]) \in Nat
  BY LenProperties DEF Inv, EndInv
<1>3. h <= Len(sent[o]) /\ cells = SaidAt(o, h + 1) /\ Len(Said(o)) = Len(sent[o]) + 1
  BY <1>1, <1>2, SaidIs
<1>4. PICK u : u = TakeMessage(t, cells)
  OBVIOUS
<1>5. t.side = s /\ t.ok /\ ~t.reply
  <2>1. t.side = s
    BY DEF TookInv
  <2>2. IsTrue(t.ok)
    BY DEF TookSaid
  <2>3. ~(noise[s].phase = "read" /\ h > 0 /\ s = Pc)
    BY <1>1, <1>2
  <2>4. IsFalse(t.reply)
    BY <2>3 DEF TookSaid
  <2> QED
    BY <2>1, <2>2, <2>4 DEF IsTrue, IsFalse
<1>6. h + 1 > 0 /\ h + 1 # 0 /\ (h + 1) - 1 = h
  OBVIOUS
<1>7. CASE h = 0
  <2>1. noise[s].phase = "read" /\ t.noise = noise[s]
    BY <1>7 DEF TookSaid
  <2>2. cells = Cells(Opening(o))
    BY <1>3, <1>7 DEF SaidAt
  <2>3. PICK n : n = IF s = Pc THEN 0 ELSE 1
    OBVIOUS
  <2>4. Opening(o) = Sealed(Other(s), "handshake", n, 0, 1)
    <3>1. (IF o = Phone THEN 0 ELSE 1) = n
      BY <1>1, <2>3 DEF Other, Sides
    <3> QED
      BY <1>1, <3>1 DEF Opening
  <2>5. Opens(s, "handshake", n, cells)
    BY <2>2, <2>4, OpensSealed
  <2>6. PICK phase, reply : phase = "transport" /\ reply = (s = Pc)
    OBVIOUS
  <2>7. u = [t EXCEPT !.noise.phase = phase, !.reply = reply]
    BY <1>4, <1>5, <2>1, <2>3, <2>5, <2>6 DEF TakeMessage
  <2>8. /\ u.ok = t.ok /\ u.reply = reply
        /\ u.noise.phase = phase /\ u.noise.rx = t.noise.rx
    BY <2>7 DEF TookInv
  <2>9. u.noise.rx = (h + 1) - 1
    BY <1>7, <2>1, <2>8
  <2>10. IsTrue(u.ok)
    BY <2>8 DEF TookSaid
  <2>11. IF s = Pc THEN IsTrue(u.reply) ELSE IsFalse(u.reply)
    BY <2>6, <2>8 DEF IsTrue, IsFalse
  <2> QED
    BY <1>4, <1>6, <2>1, <2>6, <2>8, <2>9, <2>10, <2>11 DEF TookSaid
<1>8. CASE h # 0
  <2>1. h > 0 /\ t.noise.phase = "transport" /\ t.noise.rx = h - 1
    BY <1>8 DEF TookSaid
  <2>2. cells = Cells(Transport(o, h))
    BY <1>3, <1>6, <1>8 DEF SaidAt
  <2>3. PICK size \in Nat : size = sent[o][h].size + TagLen /\ size >= 1
    <3>1. h \in 1 .. Len(sent[o])
      BY <1>3, <2>1
    <3>2. sent[o][h] \in Plaintexts
      BY <1>2, <3>1
    <3>3. sent[o][h].size \in Nat
      BY <3>2, LinkBounds DEF Plaintexts
    <3> QED
      BY <3>3 DEF TagLen
  <2>4. Transport(o, h) = Sealed(Other(s), "transport", h - 1, sent[o][h], size)
    BY <1>1, <2>3 DEF Transport
  <2>5. Opens(s, "transport", t.noise.rx, cells)
    BY <2>1, <2>2, <2>3, <2>4, OpensSealed
  <2>6. PICK up, out : up = t.noise.rx + 1 /\ out = Append(t.out, Opened(cells).body)
    OBVIOUS
  <2>7. u = [t EXCEPT !.noise.rx = up, !.out = out]
    BY <1>4, <1>5, <2>1, <2>5, <2>6 DEF TakeMessage
  <2>8. u.ok = t.ok /\ u.reply = t.reply /\ u.noise.phase = t.noise.phase /\ u.noise.rx = up
    BY <2>7 DEF TookInv
  <2>9. up = (h + 1) - 1
    BY <2>1, <2>6
  <2>10. IsTrue(u.ok) /\ IsFalse(u.reply)
    BY <1>1, <1>3, <2>1, <2>8 DEF TookSaid
  <2> QED
    BY <1>1, <1>3, <1>4, <1>6, <2>1, <2>8, <2>9, <2>10 DEF TookSaid
<1> QED
  BY <1>7, <1>8

\* What is said is made of cells that were sealed.
LEMMA SaidTyped ==
  ASSUME Inv, NEW s \in Sides
  PROVE  Said(s) \in Seq(Seq(Elements))
<1>1. CASE ~Spoke(s)
  BY <1>1 DEF Said
<1>2. CASE Spoke(s)
  <2>1. PICK w \in Seq(Plaintexts), n \in Nat : w = sent[s] /\ n = Len(w)
    BY LenProperties DEF Inv, EndInv
  <2>2. ASSUME NEW i \in 1 .. n + 1 PROVE SaidAt(s, i) \in Seq(Elements)
    <3>1. CASE i = 1
      <4>1. Opening(s) \in Made /\ Opening(s).size = 1
        <5>1. 0 \in 0 .. 1 /\ 1 \in 0 .. 1
          OBVIOUS
        <5> QED
          BY <5>1 DEF Made, Sealed, Opening
      <4> QED
        BY <3>1, <4>1, CellsIn DEF SaidAt
    <3>2. CASE i # 1
      <4>1. PICK k \in 1 .. n : k = i - 1
        BY <3>2
      <4>2. Transport(s, k) \in Made
        BY <2>1 DEF Made
      <4>3. w[k].size \in Nat
        <5>1. w[k] \in Plaintexts
          BY <2>1
        <5>2. w[k].size \in Sizes
          BY ONLY <5>1 DEF Plaintexts
        <5> QED
          BY <5>2, LinkBounds
      <4>4. Transport(s, k).size \in Nat
        BY <2>1, <4>3 DEF Transport, Sealed, TagLen
      <4> QED
        BY <3>2, <4>1, <4>2, <4>4, CellsIn DEF SaidAt
    <3> QED
      BY <3>1, <3>2
  <2>3. Said(s) = [i \in 1 .. n + 1 |-> SaidAt(s, i)]
    BY <1>2, <2>1 DEF Said
  <2> QED
    BY <2>2, <2>3
<1> QED
  BY <1>1, <1>2

\* The messages of a chunk, if they are the next ones said, are all taken.
LEMMA TakesSaid ==
  ASSUME Inv, Paired, NEW s \in Sides, noise[s].phase # "write",
         noise[s].phase = "read" => noise[s].rx = 0,
         noise[s].phase = "read" /\ s = Pc => Len(Said(Other(s))) <= 1,
         NEW n, n = Heard(s), NEW j \in Nat, n + j <= Len(Said(Other(s))),
         NEW messages, messages = SubSeq(Said(Other(s)), n + 1, n + j)
  PROVE  TookSaid(TakeMessages(s, messages), s, n + j)
<1>1. Other(s) \in Sides
  BY DEF Other, Sides
<1>2. PICK said \in Seq(Seq(Elements)) : said = Said(Other(s))
  BY <1>1, SaidTyped
<1>3. /\ n \in Nat /\ noise[s] \in [phase : Phases, tx : Nat, rx : Nat]
      /\ n = 0 <=> noise[s].phase = "read"
      /\ noise[s].phase \in {"read", "transport"}
      /\ noise[s].phase = "transport" => noise[s].rx = n - 1
  <2>1. noise[s] \in [phase : Phases, tx : Nat, rx : Nat]
    BY DEF Inv, EndInv
  <2>2. PICK phase : phase = noise[s].phase
    OBVIOUS
  <2>3. PICK r \in Nat : r = noise[s].rx
    BY <2>1
  <2>4. phase \in {"read", "transport"}
    BY <2>1, <2>2 DEF Phases
  <2>5. n = IF phase = "transport" THEN r + 1 ELSE 0
    BY <2>2, <2>3 DEF Heard
  <2> QED
    BY ONLY <2>1, <2>2, <2>3, <2>4, <2>5
<1>4. /\ messages \in Seq(Seq(Elements)) /\ Len(messages) = j
      /\ \A i \in 1 .. j : messages[i] = said[n + i]
  <2>1. messages = SubSeq(said, n + 1, n + j) /\ n + j <= Len(said)
    BY <1>2
  <2>2. messages \in Seq(Seq(Elements)) /\ Len(messages) = j
    BY ONLY <1>3, <2>1, j \in Nat, said \in Seq(Seq(Elements))
  <2>3. \A i \in 1 .. j : messages[i] = said[n + i]
    BY ONLY <1>3, <2>1, j \in Nat, said \in Seq(Seq(Elements))
  <2> QED
    BY <2>2, <2>3
<1>5. PICK took : IsTook(took, s, messages, j) /\ TakeMessages(s, messages) = took[j]
  <2>1. Len(messages) \in Nat
    BY <1>4
  <2>2. \E took : /\ IsTook(took, s, messages, Len(messages))
                  /\ TakeMessages(s, messages) = took[Len(messages)]
    BY ONLY <2>1, TakeRuns
  <2> QED
    BY <1>4, <2>2
<1>6. PICK t0 : t0 = [side |-> s, ok |-> TRUE, noise |-> noise[s], reply |-> FALSE, out |-> <<>>]
  OBVIOUS
<1>7. \A i \in 0 .. j : took[i] = IF i = 0 THEN t0 ELSE TakeMessage(took[i - 1], messages[i])
  BY <1>5, <1>6 DEF IsTook
<1>8. TookInv(t0, s) /\ TookSaid(t0, s, n)
  <2>1. TookInv(t0, s)
    <3>1. TookInv(TakeMessages(s, <<>>), s)
      <4>1. <<>> \in Seq(Seq(Elements))
        OBVIOUS
      <4> QED
        BY <4>1, TakesKeep
    <3>2. TakeMessages(s, <<>>) = t0
      <4>1. Len(<<>>) = 0
        OBVIOUS
      <4>2. PICK g : IsTook(g, s, <<>>, 0) /\ TakeMessages(s, <<>>) = g[0]
        BY <4>1, TakeRuns
      <4> QED
        BY <1>6, <4>2 DEF IsTook
    <3> QED
      BY <3>1, <3>2
  <2>2. t0.ok = TRUE /\ t0.reply = FALSE /\ t0.noise = noise[s]
    BY ONLY <1>6, Zenon
  <2>3. IsTrue(t0.ok) /\ IsFalse(t0.reply)
    BY <2>2 DEF IsTrue, IsFalse
  <2>4. n > 0 => noise[s].phase = "transport" /\ noise[s].rx = n - 1
    BY ONLY <1>3
  <2>5. ~(noise[s].phase = "read" /\ n > 0 /\ s = Pc)
    BY <1>3
  <2> QED
    BY <2>1, <2>2, <2>3, <2>4, <2>5 DEF TookSaid
<1>9. PICK P : P = {i \in 0 .. j : TookInv(took[i], s) /\ TookSaid(took[i], s, n + i)}
  OBVIOUS
<1>10. 0 \in P
  <2>1. 0 \in 0 .. j
    OBVIOUS
  <2>2. n + 0 = n
    BY ONLY <1>3
  <2>3. took[0] = t0
    BY ONLY <1>7
  <2> QED
    BY <1>8, <1>9, <2>1, <2>2, <2>3
<1>11. ASSUME NEW i \in 0 .. j - 1, i \in P PROVE i + 1 \in P
  <2>1. PICK k \in 1 .. j : k = i + 1
    OBVIOUS
  <2>2. PICK t, cells, h : t = took[i] /\ cells = messages[k] /\ h = n + i
    OBVIOUS
  <2>3. TookInv(t, s) /\ TookSaid(t, s, h)
    BY <1>9, <1>11, <2>2
  <2>4. took[k] = TakeMessage(t, cells)
    <3>1. k \in 0 .. j /\ k # 0 /\ k - 1 = i
      BY <2>1
    <3> QED
      BY <1>7, <2>2, <3>1
  <2>5. h \in Nat /\ h + 1 <= Len(said) /\ h + 1 = n + k
    <3>1. PICK l \in Nat : l = Len(said) /\ n + j <= l
      BY <1>2, LenProperties
    <3>2. n \in Nat /\ h = n + i
      BY <1>3, <2>2
    <3>3. h \in Nat /\ h + 1 = n + k /\ n + k <= l
      BY ONLY <2>1, <3>1, <3>2, i \in 0 .. j - 1, j \in Nat
    <3> QED
      BY ONLY <3>1, <3>3
  <2>6. cells = said[h + 1] /\ cells \in Seq(Elements)
    <3>1. cells = said[n + k]
      BY <1>4, <2>2
    <3>2. h + 1 \in 1 .. Len(said)
      BY <2>5
    <3> QED
      BY <2>5, <3>1, <3>2
  <2>7. h = 0 => noise[s].phase = "read"
    BY <1>3, <2>2
  <2>8. TookSaid(TakeMessage(t, cells), s, h + 1)
    BY <1>2, <2>3, <2>5, <2>6, <2>7, TakeSaid
  <2>9. TookInv(TakeMessage(t, cells), s)
    BY <2>3, <2>6, TakeKeeps
  <2> QED
    BY <1>9, <2>1, <2>4, <2>5, <2>8, <2>9
<1>12. \A i \in 0 .. j : i \in P
  BY <1>10, <1>11, Upto
<1>13. j \in P
  BY <1>12
<1> QED
  BY <1>5, <1>9, <1>13

\* What an end has said stays while it does not begin to speak.
LEMMA SaidKept ==
  ASSUME UNCHANGED <<peer, sent>>, NEW s, Spoke(s)' <=> Spoke(s)
  PROVE  Said(s)' = Said(s)
<1>1. \A i : SaidAt(s, i)' = SaidAt(s, i)
  BY DEF SaidAt, Opening, Transport, Sealed, KeyOf
<1> QED
  BY <1>1 DEF Said

\* A calm end that reads finds no fault: the chunk holds the next messages
\* said, and the Noise state moves by as many.
LEMMA ReceiveTakes ==
  ASSUME Inv, Calm, faults = 0, Paired, NEW s \in Sides, NEW k \in 1 .. Cap, Receive(s, k),
         NEW a, a = Ingest(rx[s], SubSeq(wire[Other(s)], 1, k)),
         NEW t, t = TakeMessages(s, a.messages), NEW n, n = Heard(s), NEW j, j = Len(a.messages)
  PROVE  /\ a.ok /\ t.ok /\ n \in Nat /\ j \in Nat /\ n + j <= Len(Said(Other(s)))
         /\ TookInv(t, s) /\ TookSaid(t, s, n + j)
         /\ Flows([a EXCEPT !.messages = <<>>],
                  SubSeq(wire[Other(s)], k + 1, Len(wire[Other(s)])),
                  tx[Other(s)].frames, tx[Other(s)].seq, Said(Other(s)), n + j,
                  MtuPayload[Other(s)])
<1>1. PICK o \in Sides : o = Other(s) /\ s = Other(o) /\ Pc # Phone
  BY LinkBounds DEF Other, Sides
<1>2. /\ s \in open /\ noise[s].phase # "write"
      /\ k <= Len(wire[o]) /\ k <= MtuPayload[o] + 1
  BY <1>1 DEF Receive, Arriving
<1>3. /\ CalmEnd(s) /\ CalmEnd(o)
      /\ noise[Phone].phase = "transport" => noise[Pc].phase = "transport"
  BY DEF Calm
<1>4. PICK r, w, frames, seq, said, max :
        /\ r = rx[s] /\ w = wire[o] /\ frames = tx[o].frames /\ seq = tx[o].seq
        /\ said = Said(o) /\ max = MtuPayload[o]
  OBVIOUS
<1>5. Flows(r, w, frames, seq, said, n, max)
  <2>1. Flowing(o)
    BY <1>1, <1>2, <1>3 DEF CalmEnd
  <2> QED
    BY <1>1, <1>4, <2>1 DEF Flowing
<1>6. /\ IsAssembler(r) /\ w \in Seq(Elements) /\ frames \in Seq(Seq(Elements))
      /\ said \in Seq(Seq(Elements))
  <2>1. EndInv(s) /\ EndInv(o)
    BY DEF Inv
  <2>2. IsAssembler(r) /\ w \in Seq(Elements) /\ frames \in Seq(Seq(Elements))
    BY <1>4, <2>1 DEF EndInv
  <2> QED
    BY <1>4, <2>2, SaidTyped
<1>7. max \in Nat /\ 2 * (max + 1) <= Cap
  BY <1>4, LinkBounds
<1>8. k \in 1 .. Len(w) /\ k <= max + 1
  <2>1. Len(w) \in Nat
    BY <1>6, LenProperties
  <2> QED
    BY <1>2, <1>4, <2>1
<1>9. IsChunk(a, r, w, k)
  BY <1>1, <1>4 DEF IsChunk
<1>10. Brings(a, w, k, frames, seq, said, n, j, max)
  BY <1>5, <1>6, <1>7, <1>8, <1>9, FlowReceives
<1>11. n \in Nat
  BY <1>5, <1>6, LenProperties DEF Flows
<1>12. noise[s].phase = "read" => noise[s].rx = 0
  BY <1>3 DEF CalmEnd
<1>13. noise[s].phase = "read" /\ s = Pc => Len(said) <= 1
  <2> SUFFICES ASSUME noise[s].phase = "read", s = Pc PROVE Len(said) <= 1
    OBVIOUS
  <2>1. o = Phone /\ noise[o].phase # "transport"
    BY <1>1, <1>3 DEF Other
  <2>2. sent[o] = <<>>
    BY <1>3, <2>1 DEF CalmEnd
  <2>3. Len(sent[o]) = 0
    BY <2>2
  <2>4. CASE Spoke(o)
    <3>1. said = [i \in 1 .. 0 + 1 |-> SaidAt(o, i)]
      BY <1>4, <2>3, <2>4 DEF Said
    <3>2. Len(said) = 1
      BY ONLY <3>1
    <3> QED
      BY <3>2
  <2>5. CASE ~Spoke(o)
    <3>1. said = <<>>
      BY <1>4, <2>5 DEF Said
    <3>2. Len(said) = 0
      BY ONLY <3>1
    <3> QED
      BY <3>2
  <2> QED
    BY <2>4, <2>5
<1>14. TookSaid(t, s, n + j)
  <2>1. PICK messages : messages = a.messages
    OBVIOUS
  <2>2. /\ messages = SubSeq(Said(Other(s)), n + 1, n + j) /\ n + j <= Len(Said(Other(s)))
        /\ (noise[s].phase = "read" /\ s = Pc => Len(Said(Other(s))) <= 1)
    BY <1>1, <1>4, <1>10, <1>13, <2>1 DEF Brings
  <2>3. TookSaid(TakeMessages(s, messages), s, n + j)
    BY <1>2, <1>10, <1>12, <2>2, TakesSaid DEF Brings
  <2> QED
    BY <2>1, <2>3
<1>15. TookInv(t, s)
  BY <1>2, <1>10, TakesKeep DEF IsAssembler, Brings
<1>16. a.ok /\ t.ok
  BY <1>10, <1>14 DEF IsTrue, TookSaid, Brings
<1> QED
  BY <1>1, <1>4, <1>10, <1>11, <1>14, <1>15, <1>16 DEF Brings

\* A chunk arrives.
LEMMA CalmReceive ==
  ASSUME Inv, Calm, NEW s \in Sides, NEW k \in 1 .. Cap, Receive(s, k)
  PROVE  Calm'
<1>1. PICK o \in Sides : o = Other(s) /\ s = Other(o) /\ o # s /\ Sides = {s, o}
  BY LinkBounds DEF Other, Sides
<1>2. UNCHANGED <<peer, faults, sent>> /\ Pc # Phone /\ Pc \in Sides /\ Phone \in Sides
  BY LinkBounds DEF Receive, Sides
<1>3. SUFFICES ASSUME faults = 0, Paired
               PROVE  /\ noise'[Phone].phase = "transport" => noise'[Pc].phase = "transport"
                      /\ CalmEnd(s)' /\ CalmEnd(o)'
  <2>1. Paired' = Paired
    BY <1>2 DEF Paired
  <2> QED
    BY <1>1, <1>2, <1>3, <2>1 DEF Calm
<1>4. PICK a, t, n, j : /\ a = Ingest(rx[s], SubSeq(wire[Other(s)], 1, k))
                        /\ t = TakeMessages(s, a.messages)
                        /\ n = Heard(s) /\ j = Len(a.messages)
  OBVIOUS
<1>5. PICK h, rest : /\ h = n + j
                     /\ rest = SubSeq(wire[Other(s)], k + 1, Len(wire[Other(s)]))
  OBVIOUS
<1>6. /\ a.ok /\ t.ok /\ n \in Nat /\ j \in Nat /\ h <= Len(Said(o))
      /\ TookInv(t, s) /\ TookSaid(t, s, h)
      /\ Flows([a EXCEPT !.messages = <<>>], rest, tx[o].frames, tx[o].seq, Said(o), h,
               MtuPayload[o])
  BY <1>1, <1>3, <1>4, <1>5, ReceiveTakes
<1>7. /\ wire' = [wire EXCEPT ![o] = rest] /\ noise' = [noise EXCEPT ![s] = t.noise]
      /\ (IF t.reply THEN Queue(s, Sealed(s, "handshake", 1, 0, 1)) ELSE tx' = tx)
      /\ rx' = [rx EXCEPT ![s] = [a EXCEPT !.messages = <<>>]]
      /\ UNCHANGED <<open, ended>> /\ s \in open /\ noise[s].phase # "write"
  BY <1>1, <1>4, <1>5, <1>6 DEF Receive, Arriving
<1>8. /\ wire'[o] = rest /\ wire'[s] = wire[s] /\ noise'[s] = t.noise /\ noise'[o] = noise[o]
      /\ rx'[s] = [a EXCEPT !.messages = <<>>] /\ rx'[o] = rx[o] /\ tx'[o] = tx[o]
  BY <1>1, <1>7 DEF Inv, Queue
<1>9. /\ CalmEnd(s) /\ CalmEnd(o)
      /\ noise[Phone].phase = "transport" => noise[Pc].phase = "transport"
  BY <1>3 DEF Calm
<1>10. /\ h \in Nat /\ (h = 0 => t.noise = noise[s])
       /\ (h > 0 => t.noise.phase = "transport" /\ t.noise.rx = h - 1)
  BY <1>5, <1>6 DEF TookSaid
<1>11. noise[s].phase \in {"read", "transport"} /\ (noise[s].phase = "transport" => h > 0)
  <2>1. noise[s].phase \in {"read", "transport"} /\ noise[s].rx \in Nat
    BY <1>7 DEF Inv, EndInv, Phases
  <2>2. noise[s].phase = "transport" => n > 0
    BY <1>4, <2>1 DEF Heard
  <2> QED
    BY <1>5, <1>6, <2>1, <2>2
<1>12. Heard(s)' = h /\ Heard(o)' = Heard(o)
  <2>1. CASE h = 0
    BY <1>8, <1>10, <1>11, <2>1 DEF Heard
  <2>2. CASE h > 0
    BY <1>8, <1>10, <2>2 DEF Heard
  <2> QED
    BY <1>8, <1>10, <2>1, <2>2, HeardStays
<1>13. Said(o)' = Said(o)
  BY <1>2, <1>8, SaidStays
<1>14. Flowing(o)'
  BY <1>1, <1>6, <1>8, <1>12, <1>13 DEF Flowing
<1>15. CalmEnd(o)'
  BY <1>2, <1>7, <1>8, <1>9, <1>14 DEF CalmEnd
<1>16. noise'[s].phase # "transport" => sent'[s] = <<>> /\ noise'[s].rx = 0
  BY <1>2, <1>8, <1>9, <1>10 DEF CalmEnd
<1>17. tx[s].seq \in 0 .. SeqLimit - 1 /\ (o \in open => Flowing(s))
  BY <1>1, <1>9 DEF CalmEnd
<1>18. CalmEnd(s)'
  <2>1. CASE noise[s].phase = "read" /\ h > 0 /\ s = Pc
    <3>1. t.reply
      BY <1>6, <2>1 DEF TookSaid, IsTrue
    <3>2. PICK m, T : m = Opening(s) /\ T = {Cells(m)}
      OBVIOUS
    <3>3. Queue(s, m)
      <4>1. m = Sealed(s, "handshake", 1, 0, 1)
        BY <1>2, <2>1, <3>2 DEF Opening
      <4> QED
        BY <1>7, <3>1, <4>1
    <3>4. sent'[s] = <<>> /\ ~Spoke(s) /\ Spoke(s)'
      BY <1>2, <1>8, <1>9, <1>10, <2>1 DEF CalmEnd, Spoke
    <3>5. Said(s)' = Append(Said(s), Cells(m)) /\ Said(s) \in Seq(T) /\ Cells(m) \in T
      BY <1>2, <3>2, <3>4, FirstWord
    <3>6. m \in Made /\ m.size = 1
      <4>1. 0 \in 0 .. 1 /\ 1 \in 0 .. 1
        OBVIOUS
      <4> QED
        BY <3>2, <4>1 DEF Made, Sealed, Opening
    <3>7. Cells(m) \in Seq(Elements)
      BY <3>6, CellsIn
    <3>8. m.size \in Nat /\ m.size >= 1 /\ m.size <= Cap
      <4>1. k \in Nat /\ Cap \in Nat /\ 1 <= Cap
        BY LinkBounds
      <4> QED
        BY <3>6, <4>1
    <3>9. /\ tx = [q \in Sides |-> tx[q]] /\ Headers \subseteq Elements
          /\ tx[s] \in [seq : Nat, frames : Seq(Seq(Elements))]
      BY DEF Inv, EndInv, Elements
    <3>10. tx'[s].seq \in 0 .. SeqLimit - 1
      BY <1>17, <3>3, <3>8, <3>9, QueuedSeq
    <3>11. ASSUME Other(s) \in open PROVE Flowing(s)'
      <4>1. /\ rx'[Other(s)] = rx[Other(s)] /\ wire'[s] = wire[s] /\ Flowing(s)
            /\ Heard(Other(s))' = Heard(Other(s)) /\ tx[s].seq \in 0 .. SeqLimit - 1
        BY <1>1, <1>8, <1>12, <1>17, <3>11
      <4> QED
        BY ONLY s \in Sides, <3>3, <3>5, <3>7, <3>8, <3>9, <4>1, FlowingQueues
    <3> QED
      BY <1>7, <1>9, <1>16, <3>10, <3>11 DEF CalmEnd
  <2>2. CASE ~(noise[s].phase = "read" /\ h > 0 /\ s = Pc)
    <3>1. ~t.reply
      BY <1>6, <2>2 DEF TookSaid, IsFalse
    <3>2. tx' = tx
      BY <1>7, <3>1
    <3>3. Spoke(s)' <=> Spoke(s)
      BY <1>1, <1>8, <1>10, <1>11, <2>2 DEF Spoke, Sides
    <3>4. Said(s)' = Said(s)
      BY <1>2, <3>3, SaidKept
    <3>5. Other(s) \in open' => Flowing(s)'
      BY <1>1, <1>7, <1>8, <1>12, <1>17, <3>2, <3>4, FlowingStays
    <3> QED
      BY <1>7, <1>9, <1>16, <3>2, <3>5 DEF CalmEnd
  <2> QED
    BY <2>1, <2>2
<1>19. noise'[Phone].phase = "transport" => noise'[Pc].phase = "transport"
  <2>1. CASE s = Phone
    <3>1. o = Pc
      BY <1>1, <1>2, <2>1 DEF Sides
    <3>2. CASE h = 0
      BY <1>8, <1>9, <1>10, <2>1, <3>1, <3>2
    <3>3. CASE h > 0
      <4>1. Spoke(Pc)
        <5>1. PICK i \in Nat : i + 1 = h
          BY <1>10, <3>3
        <5>2. Len(sent[o]) \in Nat
          BY LenProperties DEF Inv, EndInv
        <5> QED
          BY <1>6, <3>1, <5>1, <5>2, SaidIs
      <4>2. noise[Pc].phase = "transport"
        BY <1>2, <4>1 DEF Spoke
      <4> QED
        BY <1>8, <3>1, <4>2
    <3> QED
      BY <1>10, <3>2, <3>3
  <2>2. CASE s = Pc
    <3>1. o = Phone
      BY <1>1, <1>2, <2>2 DEF Sides
    <3> QED
      BY <1>8, <1>9, <1>10, <1>11, <2>2, <3>1
  <2> QED
    BY <2>1, <2>2 DEF Sides
<1> QED
  BY <1>15, <1>18, <1>19

\* The link starts calm.
LEMMA CalmInit ==
  ASSUME Init
  PROVE  Calm /\ Reasons
<1>1. Reasons
  BY DEF Init, Reasons
<1>2. ASSUME NEW s \in Sides PROVE CalmEnd(s)
  <2>1. Other(s) \in Sides
    BY DEF Other, Sides
  <2>2. /\ rx[Other(s)] = NewAssembler /\ wire[s] = <<>> /\ tx[s].frames = <<>> /\ tx[s].seq = 0
        /\ ended[s] = "no" /\ sent[s] = <<>>
    BY <2>1 DEF Init
  <2>3. noise[s].rx = 0 /\ Heard(Other(s)) = 0
    BY <2>1 DEF Init, Heard
  <2>4. Said(s) = <<>>
    BY LinkBounds DEF Init, Said, Spoke, Sides
  <2>5. MtuPayload[s] \in Nat /\ 0 \in 0 .. SeqLimit - 1
    BY LinkBounds
  <2>6. Flowing(s)
    BY <2>2, <2>3, <2>4, <2>5, FlowStarts DEF Flowing
  <2> QED
    BY <2>2, <2>3, <2>5, <2>6 DEF CalmEnd
<1>3. faults = 0 /\ (noise[Phone].phase = "transport" => noise[Pc].phase = "transport")
  BY DEF Init, Sides
<1> QED
  BY <1>1, <1>2, <1>3 DEF Calm

\* No step disturbs it.
LEMMA CalmNext ==
  ASSUME Inv, Turns, Reasons, Calm, [Next]_vars
  PROVE  Calm'
<1>1. CASE UNCHANGED vars
  <2>1. UNCHANGED <<peer, noise, tx, wire, rx, open, faults, sent, ended>>
    BY <1>1 DEF vars
  <2>2. ASSUME NEW q \in Sides, Flowing(q) PROVE Flowing(q)'
    <3>1. Other(q) \in Sides
      BY DEF Other, Sides
    <3>2. Said(q)' = Said(q) /\ Heard(Other(q))' = Heard(Other(q))
      BY <2>1, <3>1, SaidStays, HeardStays
    <3> QED
      BY <2>1, <2>2, <3>2, FlowingStays
  <2> QED
    BY <2>1, <2>2, CalmMoves
<1>2. ASSUME NEW s \in Sides, WriteHandshake(s) \/ WriteFrame(s) PROVE Calm'
  BY <1>2, CalmWriteHandshake, CalmWriteFrame
<1>3. ASSUME NEW s \in Sides, NEW size \in Sizes, Send(s, size) PROVE Calm'
  BY <1>3, CalmSend
<1>4. ASSUME NEW s \in Sides, NEW k \in 1 .. Cap, Receive(s, k) PROVE Calm'
  BY <1>4, CalmReceive
<1>5. ASSUME NEW s \in Sides, Disconnected(s) \/ EndSession(s) PROVE Calm'
  BY <1>5, CalmClosed
<1>6. ASSUME NEW s \in Sides, InsertAck(s) PROVE Calm'
  BY <1>6, CalmInsertAck
<1>7. ASSUME NEW s \in Sides, Fault(s) PROVE Calm'
  <2>1. faults' \in Nat /\ faults' # 0
    BY <1>7 DEF Fault, Calm
  <2> QED
    BY <2>1 DEF Calm
<1> QED
  BY <1>1, <1>2, <1>3, <1>4, <1>5, <1>6, <1>7 DEF Next

-----------------------------------------------------------------------------

\* Without a fault on the air, no end of a matched pair ever closes over what
\* the other sent it: for every frame size, message size, sequence-number limit
\* and cutting into chunks within the caps, what split_message writes is what
\* InboundAssembler and Framer read, and every ciphertext opens.
THEOREM NoFalseAccusation == Spec => []NoFalseAlarm
<1>1. ASSUME Calm PROVE NoFalseAlarm
  BY <1>1 DEF Calm, CalmEnd, NoFalseAlarm
<1>2. Init => Calm /\ Reasons /\ Turns
  BY CalmInit, LinkBounds DEF Init, Turns, Writing, Sides
<1>3. Inv /\ Turns /\ [Next]_vars => Turns'
  BY TurnsNext
<1>4. Reasons /\ [Next]_vars => Reasons'
  BY ReasonsNext
<1>5. Inv /\ Turns /\ Reasons /\ Calm /\ [Next]_vars => Calm'
  BY CalmNext
<1> QED
  BY <1>1, <1>2, <1>3, <1>4, <1>5, Invariance, PTL DEF Spec
=============================================================================
