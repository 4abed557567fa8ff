--------------------------- MODULE ProtocolProofs ---------------------------
(***************************************************************************)
(* What Protocol promises, for any byte strings a peer may send, any       *)
(* policies and histories, any time to live and any limits of the codec.   *)
(*                                                                         *)
(* The binding check: the tracker is compared with the history of the      *)
(* session.  Every approval that nothing took out is pending, every one    *)
(* that was used or spoiled is a tombstone as long as tombstones count,    *)
(* and nothing else is in the tracker (Tracked).                           *)
(*                                                                         *)
(* What the daemon accepts: the bytes on the link are always those of a    *)
(* message that somebody wrote (Genuine), so what has to be shown is that  *)
(* reading them gives back its kind and its signature.  That rests on the  *)
(* words of a value being read whole wherever they stand (Solid), which    *)
(* holds of every word, array and map, and of all that a scan can find in  *)
(* any input (ScanGood): the scripted phone echoes what it was sent.       *)
(***************************************************************************)
EXTENDS Protocol, FiniteSetTheorems, SequenceTheorems, WellFoundedInduction, TLAPS

-----------------------------------------------------------------------------
(* Counting, sequences and the recursive functions of the codec.            *)

\* A set of naturals has a least member.
LEMMA FirstOf ==
  ASSUME NEW P, P \subseteq Nat, P # {}
  PROVE  \E i \in P : \A j \in P : i <= j
<1>1. \E i \in P : \A j \in P : ~(<<j, i>> \in OpToRel(<, Nat))
  BY WFMin, NatLessThanWellFounded, Zenon
<1>2. PICK i \in P : \A j \in P : ~(<<j, i>> \in OpToRel(<, Nat))
  BY <1>1
<1>3. \A j \in P : ~(j < i)
  BY <1>2 DEF OpToRel
<1> QED
  BY <1>3

\* Induction up to n, for a set.
LEMMA Upto ==
  ASSUME NEW n \in Nat, NEW P, 0 \in P, \A i \in 0 .. n - 1 : i \in P => i + 1 \in P
  PROVE  \A i \in 0 .. n : i \in P
<1> SUFFICES ASSUME NEW k \in 0 .. n, k \notin P PROVE FALSE
  OBVIOUS
<1>1. PICK Q : Q = {i \in 0 .. n : i \notin P}
  OBVIOUS
<1>2. PICK i \in Q : \A j \in Q : i <= j
  BY <1>1, FirstOf
<1>3. i # 0 /\ i - 1 \in 0 .. n - 1 /\ i - 1 \notin Q
  BY <1>1, <1>2
<1>4. i - 1 \in P /\ (i - 1) + 1 = i
  BY <1>1, <1>3
<1> QED
  BY <1>1, <1>3, <1>4

IsSeq(q) == \E S : q \in Seq(S)

\* A sequence and one more.
LEMMA AppendIs ==
  ASSUME NEW q, IsSeq(q), NEW x
  PROVE  /\ IsSeq(Append(q, x)) /\ Len(q) \in Nat /\ Len(Append(q, x)) = Len(q) + 1
         /\ DOMAIN q = 1 .. Len(q) /\ DOMAIN Append(q, x) = 1 .. Len(q) + 1
         /\ \A n \in DOMAIN q : Append(q, x)[n] = q[n]
         /\ Append(q, x)[Len(q) + 1] = x
<1>1. PICK S : q \in Seq(S)
  BY DEF IsSeq
<1>2. q \in Seq(S \cup {x}) /\ Append(q, x) \in Seq(S \cup {x})
  BY <1>1
<1>3. IsSeq(Append(q, x))
  BY <1>2 DEF IsSeq
<1> QED
  BY <1>1, <1>2, <1>3

\* The empty sequence.
LEMMA EmptyIs == IsSeq(<<>>) /\ DOMAIN <<>> = {} /\ Len(<<>>) = 0
<1>1. <<>> \in Seq({})
  OBVIOUS
<1> QED
  BY <1>1 DEF IsSeq

\* A sequence of one.
LEMMA OneIs ==
  ASSUME NEW x
  PROVE  IsSeq(<<x>>) /\ Len(<<x>>) = 1 /\ <<x>>[1] = x
<1>1. <<x>> \in Seq({x})
  OBVIOUS
<1> QED
  BY <1>1 DEF IsSeq

\* h is q and then r.
IsJoin(h, q, r) ==
  /\ IsSeq(h) /\ Len(q) \in Nat /\ Len(r) \in Nat /\ Len(h) = Len(q) + Len(r)
  /\ \A n \in 1 .. Len(q) : h[n] = q[n]
  /\ \A n \in 1 .. Len(r) : h[Len(q) + n] = r[n]

\* A sequence and another after it.
LEMMA ConcatIs ==
  ASSUME NEW q, NEW r, IsSeq(q), IsSeq(r)
  PROVE  IsJoin(q \o r, q, r)
<1>1. PICK S : q \in Seq(S)
  BY DEF IsSeq
<1>2. PICK T : r \in Seq(T)
  BY DEF IsSeq
<1>3. q \in Seq(S \cup T) /\ r \in Seq(S \cup T) /\ q \o r \in Seq(S \cup T)
  BY <1>1, <1>2
<1>4. IsSeq(q \o r)
  BY <1>3 DEF IsSeq
<1>5. \A n \in 1 .. Len(r) : (q \o r)[Len(q) + n] = r[n]
  BY <1>3
<1> QED
  BY <1>3, <1>4, <1>5 DEF IsJoin

\* What is known of any sequence.
LEMMA SeqIs ==
  ASSUME NEW q, IsSeq(q)
  PROVE  Len(q) \in Nat /\ DOMAIN q = 1 .. Len(q)
BY DEF IsSeq

\* A function on 1 .. n is a sequence.
LEMMA FunIs ==
  ASSUME NEW n \in Nat, NEW f, f = [i \in 1 .. n |-> f[i]]
  PROVE  IsSeq(f) /\ Len(f) = n
<1>1. PICK S : S = {f[i] : i \in 1 .. n}
  OBVIOUS
<1>2. f \in [1 .. n -> S]
  BY <1>1
<1>3. f \in Seq(S) /\ Len(f) = n
  BY ONLY <1>2, n \in Nat
<1> QED
  BY <1>3 DEF IsSeq

-----------------------------------------------------------------------------

ScanRow(s, left, below) ==
  [o \in 1 .. Len(s) + 1 |-> IF left = 0 THEN Err("NestingTooDeep")
                             ELSE ScanHead(take_byte(s, o), s, o, below)]

IsScan(item, s, n) == item = [left \in 0 .. n |-> ScanRow(s, left, item[left - 1])]

\* The levels of a scan exist.
LEMMA ScanExists ==
  ASSUME NEW s, NEW n \in Nat
  PROVE  \E item : IsScan(item, s, n)
<1>1. PICK P : P = {k \in Nat : \E item : IsScan(item, s, k)}
  OBVIOUS
<1>2. 0 \in P
  <2>1. PICK item : item = [i \in 0 .. 0 |-> ScanRow(s, 0, {})]
    OBVIOUS
  <2>2. \A i \in 0 .. 0 : ScanRow(s, 0, {}) = ScanRow(s, i, item[i - 1])
    BY DEF ScanRow
  <2>3. IsScan(item, s, 0)
    BY <2>1, <2>2 DEF IsScan
  <2> QED
    BY <1>1, <2>3
<1>3. ASSUME NEW k \in 0 .. n - 1, k \in P PROVE k + 1 \in P
  <2>1. PICK g : IsScan(g, s, k)
    BY <1>1, <1>3
  <2>2. PICK h : h = [i \in 0 .. k + 1 |-> IF i = k + 1 THEN ScanRow(s, k + 1, g[k]) ELSE g[i]]
    OBVIOUS
  <2>3. \A i \in 0 .. k : g[i] = ScanRow(s, i, g[i - 1])
    BY <2>1 DEF IsScan
  <2>4. \A i \in 0 .. k : h[i] = g[i]
    BY <2>2
  <2>5. ScanRow(s, 0, h[0 - 1]) = ScanRow(s, 0, g[0 - 1])
    BY DEF ScanRow
  <2>6. \A i \in 0 .. k + 1 : h[i] = ScanRow(s, i, h[i - 1])
    BY <2>2, <2>3, <2>4, <2>5
  <2>7. IsScan(h, s, k + 1)
    BY <2>2, <2>6 DEF IsScan
  <2> QED
    BY <1>1, <2>7
<1>4. n \in P
  BY <1>2, <1>3, Upto
<1> QED
  BY <1>1, <1>4

\* scan_item, one level at a time.
LEMMA ScanLevels ==
  ASSUME NEW s
  PROVE  /\ \A o \in 1 .. Len(s) + 1 : scan_item(s)[0][o] = Err("NestingTooDeep")
         /\ \A left \in 1 .. MaxDepth + 1, o \in 1 .. Len(s) + 1 :
              scan_item(s)[left][o] = ScanHead(take_byte(s, o), s, o, scan_item(s)[left - 1])
<1>1. PICK g : g = CHOOSE item : IsScan(item, s, MaxDepth + 1)
  OBVIOUS
<1>2. MaxDepth + 1 \in Nat
  BY LimitsAssumption
<1>3. IsScan(g, s, MaxDepth + 1)
  BY <1>1, <1>2, ScanExists
<1>4. scan_item(s) = g
  BY <1>1 DEF scan_item, IsScan, ScanRow
<1>5. \A left \in 0 .. MaxDepth + 1 : g[left] = ScanRow(s, left, g[left - 1])
  BY <1>3 DEF IsScan
<1>6. \A o \in 1 .. Len(s) + 1 : g[0][o] = Err("NestingTooDeep")
  <2>1. g[0] = ScanRow(s, 0, g[0 - 1])
    BY <1>2, <1>5
  <2> QED
    BY <2>1 DEF ScanRow
<1>7. ASSUME NEW left \in 1 .. MaxDepth + 1, NEW o \in 1 .. Len(s) + 1
      PROVE  g[left][o] = ScanHead(take_byte(s, o), s, o, g[left - 1])
  <2>1. g[left] = ScanRow(s, left, g[left - 1]) /\ left # 0
    BY <1>5
  <2> QED
    BY <2>1 DEF ScanRow
<1> QED
  BY <1>4, <1>6, <1>7

IsLoop(turn, s, kind, r0, below, n) ==
  turn = [k \in 0 .. n |-> IF k = 0 THEN r0 ELSE Turn(s, kind, turn[k - 1], below)]

\* The turns of a loop exist.
LEMMA LoopExists ==
  ASSUME NEW s, NEW kind, NEW r0, NEW below, NEW n \in Nat
  PROVE  \E turn : IsLoop(turn, s, kind, r0, below, n)
<1>1. PICK P : P = {k \in Nat : \E turn : IsLoop(turn, s, kind, r0, below, k)}
  OBVIOUS
<1>2. 0 \in P
  <2>1. IsLoop([k \in 0 .. 0 |-> r0], s, kind, r0, below, 0)
    BY DEF IsLoop
  <2> QED
    BY <1>1, <2>1
<1>3. ASSUME NEW k \in 0 .. n - 1, k \in P PROVE k + 1 \in P
  <2>1. PICK g : IsLoop(g, s, kind, r0, below, k)
    BY <1>1, <1>3
  <2>2. PICK h : h = [i \in 0 .. k + 1 |-> IF i = k + 1 THEN Turn(s, kind, g[k], below) ELSE g[i]]
    OBVIOUS
  <2>3. \A i \in 0 .. k : g[i] = IF i = 0 THEN r0 ELSE Turn(s, kind, g[i - 1], below)
    BY <2>1 DEF IsLoop
  <2>4. \A i \in 0 .. k : h[i] = g[i]
    BY <2>2
  <2>5. \A i \in 0 .. k + 1 : h[i] = IF i = 0 THEN r0 ELSE Turn(s, kind, h[i - 1], below)
    BY <2>2, <2>3, <2>4
  <2>6. IsLoop(h, s, kind, r0, below, k + 1)
    BY <2>2, <2>5 DEF IsLoop
  <2> QED
    BY <1>1, <2>6
<1>4. n \in P
  BY <1>2, <1>3, Upto
<1> QED
  BY <1>1, <1>4

IsRun(turn, s, kind, r0, below) ==
  turn[0] = r0 /\ \A k \in 1 .. Len(s) : turn[k] = Turn(s, kind, turn[k - 1], below)

\* Turns, one turn at a time.
LEMMA LoopRuns ==
  ASSUME NEW s, Len(s) \in Nat, NEW kind, NEW r0, NEW below
  PROVE  \E turn : /\ IsRun(turn, s, kind, r0, below)
                   /\ Turns(s, kind, r0, below) = turn[Len(s)]
<1>1. PICK g : g = CHOOSE turn : IsLoop(turn, s, kind, r0, below, Len(s))
  OBVIOUS
<1>2. IsLoop(g, s, kind, r0, below, Len(s))
  BY <1>1, LoopExists
<1>3. Turns(s, kind, r0, below) = g[Len(s)]
  BY <1>1 DEF Turns, IsLoop
<1>4. \A k \in 0 .. Len(s) : g[k] = IF k = 0 THEN r0 ELSE Turn(s, kind, g[k - 1], below)
  BY <1>2 DEF IsLoop
<1> QED
  BY <1>3, <1>4 DEF IsRun

IsFlat(flat, e, n) == flat = [i \in 1 .. n |-> IF i = 1 THEN e[i] ELSE flat[i - 1] \o e[i]]

\* The prefixes of a flattened sequence exist.
LEMMA FlatExists ==
  ASSUME NEW e, NEW n \in Nat
  PROVE  \E flat : IsFlat(flat, e, n)
<1>1. PICK P : P = {k \in Nat : \E flat : IsFlat(flat, e, k)}
  OBVIOUS
<1>2. 0 \in P
  <2>1. IsFlat([i \in 1 .. 0 |-> e[1]], e, 0)
    BY DEF IsFlat
  <2> QED
    BY <1>1, <2>1
<1>3. ASSUME NEW k \in 0 .. n - 1, k \in P PROVE k + 1 \in P
  <2>1. PICK g : IsFlat(g, e, k)
    BY <1>1, <1>3
  <2>2. PICK h : h = [i \in 1 .. k + 1 |-> IF i = k + 1 THEN IF i = 1 THEN e[i] ELSE g[k] \o e[i]
                                           ELSE g[i]]
    OBVIOUS
  <2>3. \A i \in 1 .. k : g[i] = IF i = 1 THEN e[i] ELSE g[i - 1] \o e[i]
    BY <2>1 DEF IsFlat
  <2>4. \A i \in 1 .. k : h[i] = g[i]
    BY <2>2
  <2>5. \A i \in 1 .. k + 1 : h[i] = IF i = 1 THEN e[i] ELSE h[i - 1] \o e[i]
    BY <2>2, <2>3, <2>4
  <2>6. IsFlat(h, e, k + 1)
    BY <2>2, <2>5 DEF IsFlat
  <2> QED
    BY <1>1, <2>6
<1>4. n \in P
  BY <1>2, <1>3, Upto
<1> QED
  BY <1>1, <1>4

\* FlattenSeq, one sequence at a time.
LEMMA FlatIs ==
  ASSUME NEW e, IsSeq(e), Len(e) > 0
  PROVE  \E flat : /\ FlattenSeq(e) = flat[Len(e)] /\ flat[1] = e[1]
                   /\ \A i \in 2 .. Len(e) : flat[i] = flat[i - 1] \o e[i]
<1>1. PICK g : g = CHOOSE flat : IsFlat(flat, e, Len(e))
  OBVIOUS
<1>2. Len(e) \in Nat
  BY SeqIs
<1>3. IsFlat(g, e, Len(e))
  BY <1>1, <1>2, FlatExists
<1>4. FlattenSeq(e) = g[Len(e)]
  BY <1>1 DEF FlattenSeq, IsFlat
<1>5. \A i \in 1 .. Len(e) : g[i] = IF i = 1 THEN e[i] ELSE g[i - 1] \o e[i]
  BY <1>3 DEF IsFlat
<1>6. g[1] = e[1]
  BY <1>2, <1>5
<1>7. ASSUME NEW i \in 2 .. Len(e) PROVE g[i] = g[i - 1] \o e[i]
  <2>1. i \in 1 .. Len(e) /\ i # 1
    BY <1>2
  <2> QED
    BY <1>5, <2>1
<1> QED
  BY <1>4, <1>6, <1>7

\* Where the parts of a flattened sequence lie.
Part(f, from, w) == \A j \in 1 .. Len(w) : f[from + j] = w[j]

LaidTo(off, e, f, n) ==
  /\ IsSeq(f) /\ off[0] = 0 /\ off[n] = Len(f)
  /\ \A k \in 1 .. n : /\ off[k - 1] \in Nat /\ off[k] = off[k - 1] + Len(e[k])
                       /\ off[k] <= Len(f) /\ Part(f, off[k - 1], e[k])

Laid(off, e, f) == LaidTo(off, e, f, Len(e))

\* One part more.
LEMMA LaidOn ==
  ASSUME NEW off, NEW e, NEW f, NEW n \in Nat, LaidTo(off, e, f, n),
         \A k \in 1 .. n + 1 : IsSeq(e[k]), off[n + 1] = Len(f) + Len(e[n + 1])
  PROVE  LaidTo(off, e, f \o e[n + 1], n + 1)
<1>1. PICK w, h : w = e[n + 1] /\ h = f \o w
  OBVIOUS
<1>0. IsSeq(f) /\ IsSeq(w)
  BY <1>1 DEF LaidTo
<1>2. /\ IsSeq(h) /\ Len(f) \in Nat /\ Len(w) \in Nat /\ Len(h) = Len(f) + Len(w)
      /\ \A i \in 1 .. Len(f) : h[i] = f[i]
      /\ \A i \in 1 .. Len(w) : h[Len(f) + i] = w[i]
  BY <1>1, <1>0, ConcatIs DEF IsJoin
<1>3. off[0] = 0 /\ off[n + 1] = Len(h) /\ off[n] = Len(f)
  BY <1>1, <1>2 DEF LaidTo
<1>4. ASSUME NEW k \in 1 .. n
      PROVE  /\ off[k - 1] \in Nat /\ off[k] = off[k - 1] + Len(e[k])
             /\ off[k] <= Len(h) /\ Part(h, off[k - 1], e[k])
  <2>1. /\ off[k - 1] \in Nat /\ off[k] = off[k - 1] + Len(e[k])
        /\ off[k] <= Len(f) /\ Part(f, off[k - 1], e[k])
    BY DEF LaidTo
  <2>2. PICK a, x : a \in Nat /\ a = off[k - 1] /\ x = e[k]
    BY <2>1
  <2>3. ASSUME NEW j \in 1 .. Len(x) PROVE h[a + j] = x[j]
    <3>1. f[a + j] = x[j]
      BY <2>1, <2>2 DEF Part
    <3>2. a + Len(x) <= Len(f)
      BY <2>1, <2>2
    <3>3. Len(x) \in Nat
      BY <2>2, SeqIs
    <3>4. a + j \in 1 .. Len(f)
      BY <1>2, <2>2, <3>2, <3>3
    <3> QED
      BY <1>2, <3>1, <3>4
  <2>4. Part(h, off[k - 1], e[k])
    BY <2>2, <2>3 DEF Part
  <2>5. off[k] <= Len(h)
    BY <1>2, <2>1
  <2> QED
    BY <2>1, <2>4, <2>5
<1>5. Part(h, off[n], w)
  BY <1>2, <1>3 DEF Part
<1>6. ASSUME NEW k \in 1 .. n + 1
      PROVE  /\ off[k - 1] \in Nat /\ off[k] = off[k - 1] + Len(e[k])
             /\ off[k] <= Len(h) /\ Part(h, off[k - 1], e[k])
  <2>1. CASE k \in 1 .. n
    BY <1>4, <2>1
  <2>2. CASE k = n + 1
    <3>1. k - 1 = n
      BY <2>2
    <3>2. off[k - 1] = Len(f) /\ off[k] = Len(h) /\ e[k] = w
      BY ONLY <1>1, <1>3, <2>2, <3>1
    <3>3. Part(h, off[k - 1], e[k])
      BY ONLY <1>3, <1>5, <3>2
    <3>4. Len(f) \in Nat /\ Len(h) = Len(f) + Len(w) /\ Len(h) <= Len(h)
      BY <1>2
    <3> QED
      BY ONLY <3>2, <3>3, <3>4
  <2>3. k \in 1 .. n \/ k = n + 1
    OBVIOUS
  <2> QED
    BY <2>1, <2>2, <2>3
<1> QED
  BY <1>1, <1>2, <1>3, <1>6 DEF LaidTo

\* The parts of FlattenSeq.
LEMMA FlatLaid ==
  ASSUME NEW e, IsSeq(e), \A k \in 1 .. Len(e) : IsSeq(e[k])
  PROVE  \E off : Laid(off, e, FlattenSeq(e))
<1>1. PICK n \in Nat : n = Len(e)
  BY SeqIs
<1>2. CASE n = 0
  <2>1. FlattenSeq(e) = e
    BY <1>1, <1>2 DEF FlattenSeq
  <2>2. PICK off : off = [k \in 0 .. 0 |-> 0]
    OBVIOUS
  <2>3. LaidTo(off, e, e, 0)
    BY <1>1, <1>2, <2>2 DEF LaidTo
  <2> QED
    BY <1>1, <1>2, <2>1, <2>3 DEF Laid
<1>3. CASE n > 0
  <2>1. PICK flat : /\ FlattenSeq(e) = flat[n] /\ flat[1] = e[1]
                    /\ \A i \in 2 .. n : flat[i] = flat[i - 1] \o e[i]
    BY <1>1, <1>3, FlatIs
  <2>2. PICK off : off = [k \in 0 .. n |-> IF k = 0 THEN 0 ELSE Len(flat[k])]
    OBVIOUS
  <2>3. PICK P : P = {i \in 0 .. n - 1 : LaidTo(off, e, flat[i + 1], i + 1)}
    OBVIOUS
  <2>4. 0 \in P
    <3>1. IsSeq(e[1]) /\ Len(e[1]) \in Nat
      BY <1>1, <1>3, SeqIs
    <3>2. PICK w : w = e[1]
      OBVIOUS
    <3>3. off[0] = 0 /\ off[1] = Len(w)
      BY <1>3, <2>1, <2>2, <3>2
    <3>4. Part(w, 0, w)
      BY <3>1, <3>2 DEF Part
    <3>5. LaidTo(off, e, w, 1)
      <4>1. \A k \in 1 .. 1 : k = 1 /\ k - 1 = 0
        OBVIOUS
      <4> QED
        BY <3>1, <3>2, <3>3, <3>4, <4>1 DEF LaidTo
    <3> QED
      BY <1>3, <2>1, <2>3, <3>2, <3>5
  <2>5. ASSUME NEW i \in 0 .. (n - 1) - 1, i \in P PROVE i + 1 \in P
    <3>1. PICK m \in Nat : m = i + 1
      OBVIOUS
    <3>2. m + 1 \in 2 .. n /\ m \in 1 .. n /\ (m + 1) - 1 = m
      BY <3>1
    <3>3. LaidTo(off, e, flat[m], m)
      BY <2>3, <2>5, <3>1
    <3>4. flat[m + 1] = flat[m] \o e[m + 1]
      BY <2>1, <3>2
    <3>5. \A k \in 1 .. m + 1 : IsSeq(e[k])
      BY <1>1, <3>2
    <3>6. off[m + 1] = Len(flat[m + 1])
      BY <2>2, <3>2
    <3>7. Len(flat[m + 1]) = Len(flat[m]) + Len(e[m + 1])
      <4>1. IsSeq(flat[m]) /\ IsSeq(e[m + 1])
        BY <3>1, <3>3, <3>5 DEF LaidTo
      <4> QED
        BY <3>4, <4>1, ConcatIs DEF IsJoin
    <3>8. LaidTo(off, e, flat[m + 1], m + 1)
      BY <3>3, <3>4, <3>5, <3>6, <3>7, LaidOn
    <3> QED
      BY <2>3, <3>1, <3>2, <3>8
  <2>6. PICK b \in Nat : b = n - 1
    BY <1>3
  <2>7. \A i \in 0 .. b : i \in P
    <3>1. \A i \in 0 .. b - 1 : i \in P => i + 1 \in P
      BY <2>5, <2>6
    <3> QED
      BY ONLY <2>4, <3>1, b \in Nat, Upto
  <2>8. LaidTo(off, e, flat[n], n)
    BY <2>3, <2>6, <2>7
  <2> QED
    BY <1>1, <2>1, <2>8 DEF Laid
<1> QED
  BY <1>2, <1>3

-----------------------------------------------------------------------------
(* Words: what is read is one of them, and written again it is read alike.  *)

\* What is left of an item.
LEMMA ItemIs ==
  ASSUME NEW w, NEW m
  PROVE  /\ Words(Item(w)) = w /\ Item(w).w = w /\ ~Item(w).map
         /\ Words(Map(m)) = MapOf(m) /\ Map(m).m = m /\ Map(m).map
BY DEF Words, Item, Map

\* Results.
LEMMA ResultIs ==
  ASSUME NEW o, NEW i, NEW x, x # "none"
  PROVE  /\ ~Failed(Ok(o, i)) /\ Ok(o, i).at = o /\ Ok(o, i).item = i
         /\ Failed(Err(x)) /\ Failed(Stopped(x))
BY DEF Failed, Ok, Err, Stopped, Loop

Scalars == {"int", "simple", "float", "text", "bytes"}

\* A string of definite length.
LEMMA DefiniteString ==
  ASSUME NEW s, NEW o, s[o].a # Indef
  PROVE  scan_string(s, o) = Ok(o + 1, Item(Word(s[o].t, s[o].v)))
BY DEF scan_string

\* Chunks end inside the input.
LEMMA ChunksEndIs ==
  ASSUME NEW s, IsSeq(s), NEW o \in 1 .. Len(s) + 1, NEW t \in {"text", "bytes"}
  PROVE  ChunksEnd(s, o, t) \in o .. Len(s) + 1
<1>1. Len(s) \in Nat
  BY SeqIs
<1>2. PICK Q : Q = {e \in o .. Len(s) + 1 : ~IsChunk(s, e, t)}
  OBVIOUS
<1>3. Len(s) + 1 \in Q
  BY <1>1, <1>2 DEF IsChunk, take_byte, Token
<1>4. Q \subseteq Nat
  BY <1>1, <1>2
<1>5. PICK e \in Q : \A j \in Q : e <= j
  BY <1>3, <1>4, FirstOf
<1>6. e \in o .. Len(s) + 1 /\ ~IsChunk(s, e, t)
  BY <1>2
<1>7. ASSUME NEW i \in o .. e - 1 PROVE IsChunk(s, i, t)
  <2>1. i \in o .. Len(s) + 1 /\ ~(e <= i)
    BY <1>1, <1>6
  <2> QED
    BY <1>2, <1>5, <2>1
<1> QED
  BY <1>6, <1>7 DEF ChunksEnd

\* A string is refused or it is one word, and takes what it is made of.
LEMMA StringIs ==
  ASSUME NEW s, IsSeq(s), NEW o \in 1 .. Len(s), s[o].t \in {"text", "bytes"}
  PROVE  \/ Failed(scan_string(s, o))
         \/ /\ scan_string(s, o).at \in o + 1 .. Len(s) + 1
            /\ \E v : scan_string(s, o) = Ok(scan_string(s, o).at, Item(Word(s[o].t, v)))
<1>1. Len(s) \in Nat
  BY SeqIs
<1>2. PICK t \in {"text", "bytes"} : t = s[o].t
  OBVIOUS
<1>3. CASE s[o].a # Indef
  <2>1. scan_string(s, o) = Ok(o + 1, Item(Word(t, s[o].v)))
    BY <1>2, <1>3, DefiniteString
  <2>2. scan_string(s, o).at = o + 1 /\ o + 1 \in o + 1 .. Len(s) + 1
    BY <1>1, <2>1 DEF Ok
  <2> QED
    BY <1>2, <2>1, <2>2
<1>4. CASE s[o].a = Indef
  <2>1. scan_string(s, o) = ScanChunks(s, o + 1, t)
    BY <1>2, <1>4 DEF scan_string
  <2>2. PICK e : e = ChunksEnd(s, o + 1, t)
    OBVIOUS
  <2>3. e \in o + 1 .. Len(s) + 1
    <3>1. o + 1 \in 1 .. Len(s) + 1
      BY <1>1
    <3> QED
      BY <2>2, <3>1, ChunksEndIs
  <2>4. CASE take_byte(s, e).t = "break"
    <3>1. scan_string(s, o) = Ok(e + 1, Item(Word(t, Joined(s, o + 1, e))))
      BY <2>1, <2>2, <2>4 DEF ScanChunks
    <3>2. e <= Len(s)
      BY <2>4 DEF take_byte, Token
    <3>3. e + 1 \in o + 1 .. Len(s) + 1
      BY <1>1, <2>3, <3>2
    <3>4. scan_string(s, o).at = e + 1
      BY <3>1 DEF Ok
    <3> QED
      BY <1>2, <3>1, <3>3, <3>4
  <2>5. CASE take_byte(s, e).t # "break"
    <3>1. scan_string(s, o) = Err("Cbor")
      BY <2>1, <2>2, <2>5 DEF ScanChunks
    <3> QED
      BY <3>1, ResultIs
  <2> QED
    BY <2>4, <2>5
<1> QED
  BY <1>3, <1>4

\* s has w at o.
Holds(s, o, w) ==
  /\ o \in 1 .. Len(s) + 1 /\ o + Len(w) <= Len(s) + 1
  /\ \A i \in 1 .. Len(w) : s[o + i - 1] = w[i]

\* A read of w from o: all of it and nothing else, or a refusal.
Reads(r, o, w) == Failed(r) \/ (r.at = o + Len(w) /\ Words(r.item) = w)

\* Words that are read whole wherever they stand.
Solid(w) ==
  /\ IsSeq(w) /\ Len(w) >= 1
  /\ \A s, o, left : IsSeq(s) /\ Holds(s, o, w) /\ left \in 0 .. MaxDepth + 1 =>
                       Reads(scan_item(s)[left][o], o, w)

\* The head at o, and what is made of it.
LEMMA HeadOf ==
  ASSUME NEW s, IsSeq(s), NEW o, NEW w, IsSeq(w), Len(w) >= 1, Holds(s, o, w),
         NEW left \in 1 .. MaxDepth + 1
  PROVE  /\ o \in 1 .. Len(s) /\ s[o] = w[1] /\ take_byte(s, o) = w[1]
         /\ scan_item(s)[left][o] = ScanHead(w[1], s, o, scan_item(s)[left - 1])
<1>1. Len(s) \in Nat /\ Len(w) \in Nat
  BY SeqIs
<1>2. o \in 1 .. Len(s) /\ s[o] = w[1]
  <2>1. o + 1 - 1 = o /\ 1 \in 1 .. Len(w)
    BY <1>1 DEF Holds
  <2>2. s[o + 1 - 1] = w[1]
    BY <2>1 DEF Holds
  <2> QED
    BY <1>1, <2>1, <2>2 DEF Holds
<1>3. take_byte(s, o) = w[1] /\ o \in 1 .. Len(s) + 1
  BY <1>1, <1>2 DEF take_byte
<1> QED
  BY <1>2, <1>3, ScanLevels

\* At the deepest level everything is refused.
LEMMA TooDeep ==
  ASSUME NEW s, NEW o \in 1 .. Len(s) + 1
  PROVE  Failed(scan_item(s)[0][o])
<1>1. scan_item(s)[0][o] = Err("NestingTooDeep")
  BY ScanLevels
<1> QED
  BY <1>1, ResultIs

\* A single word is solid.
LEMMA SolidWord ==
  ASSUME NEW k \in Scalars, NEW v
  PROVE  Solid(Word(k, v))
<1>1. PICK w, c : w = Word(k, v) /\ c = Token(k, 0, v)
  OBVIOUS
<1>2. IsSeq(w) /\ Len(w) = 1 /\ w[1] = c
  BY <1>1, OneIs DEF Word
<1>3. c.t = k /\ c.a # Indef /\ c.v = v
  BY <1>1 DEF Token, Indef
<1>4. ASSUME NEW s, NEW o, NEW left \in 0 .. MaxDepth + 1, IsSeq(s), Holds(s, o, w)
      PROVE  Reads(scan_item(s)[left][o], o, w)
  <2>1. CASE left = 0
    BY <1>4, <2>1, TooDeep DEF Holds, Reads
  <2>2. CASE left # 0
    <3>1. PICK r : r = scan_item(s)[left][o]
      OBVIOUS
    <3>2. s[o] = c /\ r = ScanHead(c, s, o, scan_item(s)[left - 1])
      <4>1. left \in 1 .. MaxDepth + 1
        BY <2>2
      <4>2. IsSeq(w) /\ Len(w) >= 1
        BY <1>2
      <4>3. s[o] = w[1] /\ scan_item(s)[left][o] = ScanHead(w[1], s, o, scan_item(s)[left - 1])
        BY ONLY <1>4, <4>1, <4>2, HeadOf
      <4> QED
        BY <1>2, <3>1, <4>3
    <3>3. r = Ok(o + 1, Item(w))
      <4>1. CASE k \in {"int", "simple", "float"}
        BY <1>1, <1>3, <3>2, <4>1 DEF ScanHead
      <4>2. CASE k \in {"text", "bytes"}
        <5>1. r = scan_string(s, o)
          BY <1>3, <3>2, <4>2 DEF ScanHead
        <5>2. scan_string(s, o) = Ok(o + 1, Item(Word(k, v)))
          BY <1>3, <3>2, DefiniteString
        <5> QED
          BY <1>1, <5>1, <5>2
      <4> QED
        BY <4>1, <4>2 DEF Scalars
    <3>4. r.at = o + 1 /\ Words(r.item) = w
      BY <3>3, ResultIs, ItemIs
    <3> QED
      BY <1>2, <3>1, <3>4 DEF Reads
  <2> QED
    BY <2>1, <2>2
<1> QED
  BY <1>1, <1>2, <1>4 DEF Solid

-----------------------------------------------------------------------------
(* Containers.                                                              *)

\* A loop that has failed, or has no more to do, stays as it is.
LEMMA LoopRests ==
  ASSUME NEW s, NEW kind, NEW r, NEW below, Failed(r) \/ r.n = 0
  PROVE  Turn(s, kind, r, below) = r
BY DEF Turn

\* A loop stops with the error it met.
LEMMA StoppedFails ==
  ASSUME NEW x, Failed(x)
  PROVE  Failed(Stopped(x.err))
BY DEF Failed, Stopped, Loop

\* The parts of w after its head, in s.
LEMMA PartHolds ==
  ASSUME NEW s, IsSeq(s), NEW o, NEW c, NEW f, NEW off, NEW e, Holds(s, o, <<c>> \o f),
         IsSeq(e), Laid(off, e, f), \A i \in 1 .. Len(e) : IsSeq(e[i]),
         NEW k \in 1 .. Len(e)
  PROVE  Holds(s, o + 1 + off[k - 1], e[k])
<1>1. PICK w : w = <<c>> \o f
  OBVIOUS
<1>2. IsSeq(f) /\ IsSeq(<<c>>) /\ Len(<<c>>) = 1
  BY OneIs DEF Laid, LaidTo
<1>3. IsJoin(w, <<c>>, f)
  BY <1>1, <1>2, ConcatIs
<1>4. /\ Len(f) \in Nat /\ Len(w) = 1 + Len(f)
      /\ \A n \in 1 .. Len(f) : w[1 + n] = f[n]
  BY <1>2, <1>3 DEF IsJoin
<1>10. PICK x : x = e[k]
  OBVIOUS
<1>5. PICK a \in Nat, m \in Nat, L \in Nat : a = off[k - 1] /\ m = Len(x) /\ L = Len(s)
  BY <1>10, SeqIs DEF Laid, LaidTo
<1>6. a + m <= Len(f) /\ Part(f, a, x)
  BY <1>5, <1>10 DEF Laid, LaidTo
<1>7. o \in 1 .. L + 1 /\ o + Len(w) <= L + 1 /\ \A i \in 1 .. Len(w) : s[o + i - 1] = w[i]
  BY <1>1, <1>5 DEF Holds
<1>8. o + 1 + a \in 1 .. L + 1 /\ (o + 1 + a) + m <= L + 1
  BY <1>4, <1>6, <1>7
<1>9. ASSUME NEW i \in 1 .. m PROVE s[(o + 1 + a) + i - 1] = x[i]
  <2>1. a + i \in 1 .. Len(f) /\ 1 + (a + i) \in 1 .. Len(w)
    BY <1>4, <1>6
  <2>2. f[a + i] = x[i]
    BY <1>5, <1>6 DEF Part
  <2>3. w[1 + (a + i)] = f[a + i]
    BY <1>4, <2>1
  <2>4. s[o + (1 + (a + i)) - 1] = w[1 + (a + i)]
    BY <1>7, <2>1
  <2>5. o + (1 + (a + i)) - 1 = (o + 1 + a) + i - 1
    BY <1>7
  <2> QED
    BY <2>2, <2>3, <2>4, <2>5
<1> QED
  BY <1>5, <1>8, <1>9, <1>10 DEF Holds

\* The elements read so far.
Upward(e, k) == [i \in 1 .. k |-> e[i]]

\* A sequence, element by element.
LEMMA UpwardIs ==
  ASSUME NEW e, IsSeq(e)
  PROVE  /\ Upward(e, 0) = <<>> /\ Upward(e, Len(e)) = e
         /\ \A k \in 0 .. Len(e) - 1 : Append(Upward(e, k), e[k + 1]) = Upward(e, k + 1)
<1>1. PICK S : e \in Seq(S)
  BY DEF IsSeq
<1>2. Len(e) \in Nat
  BY <1>1
<1>3. Upward(e, Len(e)) = e
  BY <1>1 DEF Upward
<1>4. Upward(e, 0) = <<>>
  BY DEF Upward
<1>5. ASSUME NEW k \in 0 .. Len(e) - 1
      PROVE  Append(Upward(e, k), e[k + 1]) = Upward(e, k + 1)
  <2>1. PICK u \in Seq(S) : u = Upward(e, k) /\ Len(u) = k
    <3>1. Upward(e, k) \in Seq(S) /\ Len(Upward(e, k)) = k
      BY <1>1, <1>2 DEF Upward
    <3> QED
      BY <3>1
  <2>2. PICK h : h = Append(u, e[k + 1])
    OBVIOUS
  <2>3. e[k + 1] \in S
    BY <1>1, <1>2
  <2>4. h \in Seq(S) /\ Len(h) = k + 1 /\ DOMAIN h = 1 .. k + 1
    BY <2>1, <2>2, <2>3
  <2>5. \A i \in 1 .. k + 1 : h[i] = e[i]
    BY <2>1, <2>2, <2>3 DEF Upward
  <2>6. h = [i \in 1 .. k + 1 |-> h[i]]
    BY <2>4
  <2>7. h = Upward(e, k + 1)
    BY <2>5, <2>6 DEF Upward
  <2> QED
    BY <2>1, <2>2, <2>7
<1> QED
  BY <1>3, <1>4, <1>5

\* After k turns of the loop over an array of n elements.
ArrayAt(r, o, off, e, k) ==
  Failed(r) \/ r = Loop("none", o + 1 + off[k], Len(e) - k, Upward(e, k))

\* One turn over an array reads its next element.
LEMMA ArrayTurn ==
  ASSUME NEW s, IsSeq(s), NEW o, NEW c, NEW off, NEW e, IsSeq(e),
         \A i \in 1 .. Len(e) : Solid(e[i]), NEW f, Holds(s, o, <<c>> \o f), Laid(off, e, f),
         NEW left \in 0 .. MaxDepth + 1, NEW k \in 0 .. Len(e) - 1, NEW r, ArrayAt(r, o, off, e, k)
  PROVE  ArrayAt(Turn(s, "array", r, scan_item(s)[left]), o, off, e, k + 1)
<1>1. CASE Failed(r)
  BY <1>1, LoopRests DEF ArrayAt
<1>2. CASE ~Failed(r)
  <2>1. Len(e) \in Nat
    BY SeqIs
  <2>13. PICK a, q : a = o + 1 + off[k] /\ q = Upward(e, k)
    OBVIOUS
  <2>2. PICK n \in Nat : n = Len(e) - k /\ a = o + 1 + off[k] /\ q = Upward(e, k)
    BY <2>1, <2>13
  <2>3. r = Loop("none", a, n, q) /\ n > 0
    BY <1>2, <2>1, <2>2 DEF ArrayAt
  <2>4. r.err = "none" /\ r.at = a /\ r.n = n /\ r.acc = q
    BY <2>3 DEF Loop
  <2>5. PICK x : x = scan_item(s)[left][a]
    OBVIOUS
  <2>6. k + 1 \in 1 .. Len(e) /\ (k + 1) - 1 = k
    BY <2>1
  <2>7. Holds(s, a, e[k + 1])
    <3>1. \A i \in 1 .. Len(e) : IsSeq(e[i])
      BY DEF Solid
    <3> QED
      BY <2>2, <2>6, <3>1, PartHolds
  <2>8. Solid(e[k + 1])
    BY <2>6
  <2>9. Reads(x, a, e[k + 1])
    BY <2>5, <2>7, <2>8 DEF Solid
  <2>10. Turn(s, "array", r, scan_item(s)[left]) = Element(r, x)
    BY <1>2, <2>3, <2>4, <2>5 DEF Turn, AtBreak, Indef
  <2>11. CASE Failed(x)
    <3>1. Failed(Element(r, x))
      BY <2>11, StoppedFails DEF Element
    <3> QED
      BY <2>10, <3>1 DEF ArrayAt
  <2>12. CASE ~Failed(x)
    <3>1. x.at = a + Len(e[k + 1]) /\ Words(x.item) = e[k + 1]
      BY <2>9, <2>12 DEF Reads
    <3>2. Element(r, x) = Loop("none", x.at, Count(n), Append(q, Words(x.item)))
      BY <2>4, <2>12 DEF Element
    <3>3. Count(n) = Len(e) - (k + 1)
      BY <2>1, <2>2, <2>3 DEF Count, Indef
    <3>4. Append(q, e[k + 1]) = Upward(e, k + 1)
      BY <2>2, UpwardIs
    <3>5. x.at = o + 1 + off[k + 1]
      <4>1. off[k] \in Nat /\ off[k + 1] = off[k] + Len(e[k + 1])
        BY <2>6 DEF Laid, LaidTo
      <4>2. Len(e[k + 1]) \in Nat
        BY <2>8, SeqIs DEF Solid
      <4>3. o \in Nat
        BY SeqIs DEF Holds
      <4> QED
        BY <2>2, <3>1, <4>1, <4>2, <4>3
    <3> QED
      <4>1. Element(r, x) = Loop("none", o + 1 + off[k + 1], Len(e) - (k + 1), Upward(e, k + 1))
        BY <3>1, <3>2, <3>3, <3>4, <3>5
      <4> QED
        BY <2>10, <4>1 DEF ArrayAt
  <2> QED
    BY <2>11, <2>12
<1> QED
  BY <1>1, <1>2

\* A loop that has come to rest ends as it is.
LEMMA LoopSettles ==
  ASSUME NEW s, NEW kind, NEW r0, NEW below, NEW turn, IsRun(turn, s, kind, r0, below),
         Len(s) \in Nat, NEW n \in 0 .. Len(s), Failed(turn[n]) \/ turn[n].n = 0
  PROVE  turn[Len(s)] = turn[n]
<1>0. PICK L \in Nat : L = Len(s) /\ \A k \in 1 .. L : turn[k] = Turn(s, kind, turn[k - 1], below)
  BY DEF IsRun
<1>1. PICK d \in Nat : d = L - n
  <2>1. L - n \in Nat
    BY <1>0
  <2> QED
    BY <2>1
<1>2. PICK P : P = {i \in 0 .. d : turn[n + i] = turn[n]}
  OBVIOUS
<1>3. 0 \in P
  BY <1>1, <1>2
<1>4. ASSUME NEW i \in 0 .. d - 1, i \in P PROVE i + 1 \in P
  <2>1. PICK j \in 1 .. L : j = n + (i + 1) /\ j - 1 = n + i
    <3>1. n + (i + 1) \in 1 .. L /\ (n + (i + 1)) - 1 = n + i
      BY <1>0, <1>1
    <3> QED
      BY <3>1
  <2>2. turn[j] = Turn(s, kind, turn[n + i], below) /\ turn[n + i] = turn[n]
    BY <1>0, <1>2, <1>4, <2>1
  <2>3. turn[j] = turn[n]
    BY <2>2, LoopRests
  <2>4. i + 1 \in 0 .. d
    BY <1>1
  <2> QED
    BY <1>2, <2>1, <2>3, <2>4
<1>5. \A i \in 0 .. d : i \in P
  <2>1. \A i \in 0 .. d - 1 : i \in P => i + 1 \in P
    BY <1>4
  <2> QED
    BY ONLY <1>3, <2>1, d \in Nat, Upto
<1>6. d \in P /\ n + d = L
  BY <1>0, <1>1, <1>5
<1> QED
  BY <1>0, <1>2, <1>6

\* Parts that are not empty are no more than the whole is long.
LEMMA LaidLong ==
  ASSUME NEW off, NEW e, NEW f, IsSeq(e), Laid(off, e, f),
         \A k \in 1 .. Len(e) : Len(e[k]) \in Nat /\ Len(e[k]) >= 1
  PROVE  Len(e) <= Len(f) /\ \A k \in 0 .. Len(e) : off[k] \in Nat
<1>1. PICK n \in Nat : n = Len(e)
  BY SeqIs
<1>2. PICK P : P = {k \in 0 .. n : off[k] \in Nat /\ k <= off[k]}
  OBVIOUS
<1>3. 0 \in P
  BY <1>2 DEF Laid, LaidTo
<1>4. ASSUME NEW k \in 0 .. n - 1, k \in P PROVE k + 1 \in P
  <2>1. PICK j \in 1 .. n : j = k + 1 /\ j - 1 = k
    OBVIOUS
  <2>2. off[j] = off[j - 1] + Len(e[j]) /\ Len(e[j]) \in Nat /\ Len(e[j]) >= 1
    BY <1>1 DEF Laid, LaidTo
  <2>3. off[k] \in Nat /\ k <= off[k]
    BY <1>2, <1>4
  <2>4. off[j] \in Nat /\ j <= off[j]
    BY <2>1, <2>2, <2>3
  <2> QED
    BY <1>2, <2>1, <2>4
<1>5. \A k \in 0 .. n : k \in P
  <2>1. \A k \in 0 .. n - 1 : k \in P => k + 1 \in P
    BY <1>4
  <2> QED
    BY ONLY <1>3, <2>1, n \in Nat, Upto
<1>6. off[n] = Len(f)
  BY <1>1 DEF Laid, LaidTo
<1> QED
  BY <1>1, <1>2, <1>5, <1>6

\* An array of solid words is solid.
LEMMA SolidArray ==
  ASSUME NEW e, IsSeq(e), \A k \in 1 .. Len(e) : Solid(e[k])
  PROVE  Solid(ArrayOf(e))
<1>1. PICK n \in Nat : n = Len(e)
  BY SeqIs
<1>2. PICK c, f : c = Token("array", n, <<>>) /\ f = FlattenSeq(e)
  OBVIOUS
<1>3. \A k \in 1 .. n : IsSeq(e[k]) /\ Len(e[k]) \in Nat /\ Len(e[k]) >= 1
  BY <1>1, SeqIs DEF Solid
<1>4. PICK off : Laid(off, e, f)
  BY <1>1, <1>2, <1>3, FlatLaid
<1>5. n <= Len(f) /\ \A k \in 0 .. n : off[k] \in Nat
  BY <1>1, <1>3, <1>4, LaidLong
<1>6. off[0] = 0 /\ off[n] = Len(f) /\ IsSeq(f)
  BY <1>1, <1>4 DEF Laid, LaidTo
<1>7. PICK w : w = <<c>> \o f
  OBVIOUS
<1>8. IsSeq(w) /\ Len(f) \in Nat /\ Len(w) = 1 + Len(f) /\ w[1] = c
  BY <1>6, <1>7, OneIs, ConcatIs DEF IsJoin
<1>9. w = ArrayOf(e)
  BY <1>1, <1>2, <1>7 DEF ArrayOf
<1>10. c.t = "array" /\ c.a = n
  BY <1>2 DEF Token
<1>11. ASSUME NEW s, NEW o, NEW left \in 0 .. MaxDepth + 1, IsSeq(s), Holds(s, o, w)
       PROVE  Reads(scan_item(s)[left][o], o, w)
  <2>1. CASE left = 0
    BY <1>11, <2>1, TooDeep DEF Holds, Reads
  <2>2. CASE left # 0
    <3>1. PICK r, below : r = scan_item(s)[left][o] /\ below = scan_item(s)[left - 1]
      OBVIOUS
    <3>2. left \in 1 .. MaxDepth + 1 /\ left - 1 \in 0 .. MaxDepth + 1
      BY <2>2, LimitsAssumption
    <3>3. r = ScanHead(c, s, o, below)
      <4>1. IsSeq(w) /\ Len(w) >= 1
        BY <1>8
      <4>2. scan_item(s)[left][o] = ScanHead(w[1], s, o, scan_item(s)[left - 1])
        BY ONLY <1>11, <3>2, <4>1, HeadOf
      <4> QED
        BY <1>8, <3>1, <4>2
    <3>4. r = scan_array(s, o + 1, n, below)
      BY <1>10, <3>3 DEF ScanHead
    <3>5. PICK r0 : r0 = Loop("none", o + 1, n, <<>>)
      OBVIOUS
    <3>6. PICK L \in Nat : L = Len(s) /\ o \in 1 .. L + 1 /\ n <= L
      BY <1>5, <1>8, <1>11, SeqIs DEF Holds
    <3>7. PICK turn : /\ IsRun(turn, s, "array", r0, below)
                      /\ Turns(s, "array", r0, below) = turn[L]
      BY <3>6, LoopRuns
    <3>18. turn[0] = r0 /\ \A k \in 1 .. L : turn[k] = Turn(s, "array", turn[k - 1], below)
      BY <3>6, <3>7 DEF IsRun
    <3>8. PICK P : P = {k \in 0 .. n : ArrayAt(turn[k], o, off, e, k)}
      OBVIOUS
    <3>9. 0 \in P
      <4>1. Upward(e, 0) = <<>>
        BY UpwardIs
      <4>2. o + 1 + off[0] = o + 1 /\ Len(e) - 0 = n
        BY <1>1, <1>6, <3>6
      <4>3. ArrayAt(r0, o, off, e, 0)
        BY <3>5, <4>1, <4>2 DEF ArrayAt
      <4> QED
        BY <3>8, <3>18, <4>3
    <3>10. ASSUME NEW k \in 0 .. n - 1, k \in P PROVE k + 1 \in P
      <4>1. ArrayAt(turn[k], o, off, e, k) /\ k \in 0 .. Len(e) - 1
        BY <1>1, <3>8, <3>10
      <4>2. Holds(s, o, <<c>> \o f)
        BY <1>7, <1>11
      <4>3. ArrayAt(Turn(s, "array", turn[k], below), o, off, e, k + 1)
        BY <1>4, <1>11, <3>1, <3>2, <4>1, <4>2, ArrayTurn
      <4>4. k + 1 \in 1 .. L /\ (k + 1) - 1 = k /\ k + 1 \in 0 .. n
        BY <3>6
      <4>5. turn[k + 1] = Turn(s, "array", turn[k], below)
        BY <3>18, <4>4
      <4> QED
        BY <3>8, <4>3, <4>4, <4>5
    <3>11. n \in P
      <4>1. \A k \in 0 .. n - 1 : k \in P => k + 1 \in P
        BY <3>10
      <4>2. \A k \in 0 .. n : k \in P
        BY ONLY <3>9, <4>1, n \in Nat, Upto
      <4> QED
        BY <4>2
    <3>12. ArrayAt(turn[n], o, off, e, n)
      BY <3>8, <3>11
    <3>13. Failed(turn[n]) \/ turn[n] = Loop("none", o + 1 + Len(f), 0, e)
      <4>1. Upward(e, n) = e /\ Len(e) - n = 0
        BY <1>1, UpwardIs
      <4> QED
        BY <1>6, <3>12, <4>1 DEF ArrayAt
    <3>14. turn[L] = turn[n]
      <4>1. Failed(turn[n]) \/ turn[n].n = 0
        BY <3>13 DEF Loop
      <4>2. n \in 0 .. L
        BY <3>6
      <4> QED
        BY <3>6, <3>7, <4>1, <4>2, LoopSettles
    <3>15. r = ArrayItem(turn[n])
      BY <3>4, <3>5, <3>7, <3>14 DEF scan_array
    <3>16. CASE Failed(turn[n])
      <4>1. Failed(r)
        BY <3>15, <3>16 DEF ArrayItem, Closed, Failed, Err
      <4> QED
        BY <3>1, <4>1 DEF Reads
    <3>17. CASE ~Failed(turn[n])
      <4>1. turn[n].at = o + 1 + Len(f) /\ turn[n].acc = e
        BY <3>13, <3>17 DEF Loop
      <4>2. r = Ok(o + 1 + Len(f), Item(w))
        BY <1>9, <3>15, <3>17, <4>1 DEF ArrayItem, Closed
      <4>3. r.at = o + 1 + Len(f) /\ Words(r.item) = w
        <5>1. Ok(o + 1 + Len(f), Item(w)).at = o + 1 + Len(f) /\ Words(Item(w)) = w
          BY ItemIs DEF Ok
        <5>2. Ok(o + 1 + Len(f), Item(w)).item = Item(w)
          BY DEF Ok
        <5> QED
          BY <4>2, <5>1, <5>2
      <4>4. o + 1 + Len(f) = o + Len(w)
        BY <1>8, <3>6
      <4> QED
        BY <3>1, <4>3, <4>4 DEF Reads
    <3> QED
      BY <3>16, <3>17
  <2> QED
    BY <2>1, <2>2
<1>12. Solid(w)
  BY <1>8, <1>11 DEF Solid
<1> QED
  BY <1>9, <1>12

\* The members of a map: a key and solid words.
IsMember(x) == x = <<x[1], x[2]>> /\ Solid(x[2])
MemberWords(ms) == [n \in DOMAIN ms |-> Word("text", ms[n][1]) \o ms[n][2]]
Pairs(ms, k) == {ms[i] : i \in 1 .. k}
Apart(ms, k) == \A i, j \in 1 .. k : ms[i][1] = ms[j][1] => i = j

\* After k turns of the loop over a map of n members.
MapAt(r, o, off, ms, k) ==
  \/ Failed(r)
  \/ r = Loop("none", o + 1 + off[k], Len(ms) - k, Pairs(ms, k)) /\ Apart(ms, k)

\* A key that is one token.
LEMMA KeyIs ==
  ASSUME NEW s, NEW o \in 1 .. Len(s), NEW v, s[o] = Token("text", 0, v), Len(s) \in Nat
  PROVE  scan_text_key(s, o) = Ok(o + 1, Item(Word("text", v)))
<1>1. PICK c : c = s[o]
  OBVIOUS
<1>2. c.t = "text" /\ c.a # Indef /\ c.v = v
  BY <1>1 DEF Token, Indef
<1>3. take_byte(s, o) = c
  BY <1>1 DEF take_byte
<1>4. scan_text_key(s, o) = scan_string(s, o)
  BY <1>2, <1>3 DEF scan_text_key
<1>5. scan_string(s, o) = Ok(o + 1, Item(Word("text", v)))
  BY <1>1, <1>2, DefiniteString
<1> QED
  BY <1>4, <1>5

\* The two parts of a member.
LEMMA MemberHolds ==
  ASSUME NEW s, IsSeq(s), NEW o, NEW v, NEW w, IsSeq(w), Len(w) >= 1,
         Holds(s, o, Word("text", v) \o w)
  PROVE  /\ o \in 1 .. Len(s) /\ s[o] = Token("text", 0, v) /\ Holds(s, o + 1, w)
         /\ Len(Word("text", v) \o w) = 1 + Len(w) /\ Len(w) \in Nat
<1>1. PICK c, q, p : c = Token("text", 0, v) /\ q = <<c>> /\ p = q \o w
  OBVIOUS
<1>2. IsSeq(q) /\ Len(q) = 1 /\ q[1] = c
  BY <1>1, OneIs
<1>3. IsJoin(p, q, w)
  BY <1>1, <1>2, ConcatIs
<1>4. p = Word("text", v) \o w
  BY <1>1 DEF Word
<1>5. /\ Len(w) \in Nat /\ Len(p) = 1 + Len(w) /\ p[1] = c
      /\ \A n \in 1 .. Len(w) : p[1 + n] = w[n]
  BY <1>2, <1>3 DEF IsJoin
<1>6. PICK L \in Nat : /\ L = Len(s) /\ o \in 1 .. L + 1 /\ o + Len(p) <= L + 1
                       /\ \A i \in 1 .. Len(p) : s[o + i - 1] = p[i]
  BY <1>4, SeqIs DEF Holds
<1>7. o \in 1 .. L
  BY <1>5, <1>6
<1>8. s[o] = c
  <2>1. 1 \in 1 .. Len(p) /\ o + 1 - 1 = o
    BY <1>5, <1>6
  <2> QED
    BY <1>5, <1>6, <2>1
<1>9. ASSUME NEW i \in 1 .. Len(w) PROVE s[(o + 1) + i - 1] = w[i]
  <2>1. 1 + i \in 1 .. Len(p) /\ o + (1 + i) - 1 = (o + 1) + i - 1
    BY <1>5, <1>6
  <2>2. s[o + (1 + i) - 1] = p[1 + i] /\ p[1 + i] = w[i]
    BY <1>5, <1>6, <2>1
  <2> QED
    BY <2>1, <2>2
<1>10. Holds(s, o + 1, w)
  BY <1>5, <1>6, <1>9 DEF Holds
<1> QED
  BY <1>1, <1>4, <1>5, <1>6, <1>7, <1>8, <1>10

\* One turn over a map.
LEMMA MapTurn ==
  ASSUME NEW s, IsSeq(s), NEW o, NEW c, NEW off, NEW ms, IsSeq(ms),
         \A i \in 1 .. Len(ms) : IsMember(ms[i]),
         NEW f, Holds(s, o, <<c>> \o f), Laid(off, MemberWords(ms), f),
         NEW left \in 0 .. MaxDepth + 1,
         NEW k \in 0 .. Len(ms) - 1, NEW r, MapAt(r, o, off, ms, k)
  PROVE  MapAt(Turn(s, "map", r, scan_item(s)[left]), o, off, ms, k + 1)
<1>1. CASE Failed(r)
  BY <1>1, LoopRests DEF MapAt
<1>2. CASE ~Failed(r)
  <2>1. Len(ms) \in Nat /\ DOMAIN ms = 1 .. Len(ms)
    BY SeqIs
  <2>2. PICK a, q, below : a = o + 1 + off[k] /\ q = Pairs(ms, k) /\ below = scan_item(s)[left]
    OBVIOUS
  <2>22. PICK N \in Nat : N = Len(ms)
    BY <2>1
  <2>23. k \in 0 .. N - 1
    BY <2>22
  <2>3. PICK n \in Nat : n = Len(ms) - k /\ n > 0 /\ n - 1 = Len(ms) - (k + 1)
    <3>1. N - k \in Nat /\ N - k > 0 /\ (N - k) - 1 = N - (k + 1)
      BY <2>23
    <3> QED
      BY <2>22, <3>1
  <2>4. r = Loop("none", a, n, q) /\ Apart(ms, k)
    BY <1>2, <2>2, <2>3 DEF MapAt
  <2>5. r.err = "none" /\ r.at = a /\ r.n = n /\ r.acc = q
    BY <2>4 DEF Loop
  <2>6. k + 1 \in 1 .. Len(ms) /\ (k + 1) - 1 = k
    BY <2>1
  <2>7. PICK v, w : v = ms[k + 1][1] /\ w = ms[k + 1][2]
    OBVIOUS
  <2>8. ms[k + 1] = <<v, w>> /\ Solid(w) /\ IsSeq(w) /\ Len(w) >= 1
    BY <2>6, <2>7 DEF IsMember, Solid
  <2>9. PICK e : e = MemberWords(ms)
    OBVIOUS
  <2>10. /\ IsSeq(e) /\ Len(e) = Len(ms)
         /\ \A i \in 1 .. Len(ms) : e[i] = Word("text", ms[i][1]) \o ms[i][2]
    <3>1. \A i \in 1 .. Len(ms) : e[i] = Word("text", ms[i][1]) \o ms[i][2]
      BY <2>1, <2>9 DEF MemberWords
    <3>2. e = [i \in 1 .. Len(ms) |-> e[i]]
      BY <2>1, <2>9 DEF MemberWords
    <3>3. IsSeq(e) /\ Len(e) = Len(ms)
      BY <2>1, <3>2, FunIs
    <3> QED
      BY <3>1, <3>3
  <2>11. \A i \in 1 .. Len(e) : IsSeq(e[i])
    <3> SUFFICES ASSUME NEW i \in 1 .. Len(ms) PROVE IsSeq(e[i])
      BY <2>10
    <3>1. PICK y, z : y = Word("text", ms[i][1]) /\ z = ms[i][2]
      OBVIOUS
    <3>2. IsSeq(y) /\ IsSeq(z) /\ e[i] = y \o z
      BY <2>10, <3>1, OneIs DEF Word, IsMember, Solid
    <3> QED
      BY <3>2, ConcatIs DEF IsJoin
  <2>12. e[k + 1] = Word("text", v) \o w
    BY <2>6, <2>7, <2>10
  <2>13. Holds(s, a, Word("text", v) \o w)
    <3>1. Holds(s, o + 1 + off[(k + 1) - 1], e[k + 1])
      <4>1. k + 1 \in 1 .. Len(e) /\ Laid(off, e, f)
        BY <2>6, <2>9, <2>10
      <4> QED
        BY <2>10, <2>11, <4>1, PartHolds
    <3> QED
      BY <2>2, <2>6, <2>12, <3>1
  <2>14. /\ a \in 1 .. Len(s) /\ s[a] = Token("text", 0, v) /\ Holds(s, a + 1, w)
         /\ Len(e[k + 1]) = 1 + Len(w) /\ Len(w) \in Nat
    BY <2>8, <2>12, <2>13, MemberHolds
  <2>15. PICK key : key = scan_text_key(s, a)
    OBVIOUS
  <2>16. key = Ok(a + 1, Item(Word("text", v)))
    BY <2>14, <2>15, KeyIs, SeqIs
  <2>17. ~Failed(key) /\ key.at = a + 1 /\ key.item.w[1].v = v
    <3>1. ~Failed(key) /\ key.at = a + 1 /\ key.item = Item(Word("text", v))
      BY <2>16 DEF Ok, Failed
    <3>2. Item(Word("text", v)).w = Word("text", v)
      BY ItemIs
    <3>3. Word("text", v)[1].v = v
      BY DEF Word, Token
    <3> QED
      BY <3>1, <3>2, <3>3
  <2>18. Turn(s, "map", r, below) = Value(s, r, key, below)
    BY <1>2, <2>3, <2>5, <2>15 DEF Turn, AtBreak, Indef
  <2>19. PICK x : x = below[a + 1]
    OBVIOUS
  <2>20. CASE ~FreshKey(q, v)
    <3>1. Value(s, r, key, below) = Stopped("InvalidMap")
      BY <2>5, <2>17, <2>20 DEF Value
    <3>2. Failed(Stopped("InvalidMap"))
      BY DEF Failed, Stopped, Loop
    <3> QED
      BY <2>2, <2>18, <3>1, <3>2 DEF MapAt
  <2>21. CASE FreshKey(q, v)
    <3>1. ~AtBreak(s, [r EXCEPT !.at = key.at])
      <4>1. [r EXCEPT !.at = key.at].n = n
        BY <2>4 DEF Loop
      <4> QED
        BY <2>3, <4>1 DEF AtBreak, Indef
    <3>2. Value(s, r, key, below) = Pair(r, v, x)
      BY <2>5, <2>17, <2>19, <2>21, <3>1 DEF Value
    <3>3. Reads(x, a + 1, w)
      BY <2>2, <2>8, <2>14, <2>19 DEF Solid
    <3>4. CASE Failed(x)
      <4>1. Failed(Pair(r, v, x))
        BY <3>4, StoppedFails DEF Pair
      <4> QED
        BY <2>2, <2>18, <3>2, <4>1 DEF MapAt
    <3>5. CASE ~Failed(x)
      <4>1. x.at = (a + 1) + Len(w) /\ Words(x.item) = w
        BY <3>3, <3>5 DEF Reads
      <4>2. Pair(r, v, x) = Loop("none", x.at, Count(n), q \cup {<<v, w>>})
        BY <2>5, <3>5, <4>1 DEF Pair
      <4>3. Count(n) = Len(ms) - (k + 1)
        BY <2>3 DEF Count, Indef
      <4>4. q \cup {<<v, w>>} = Pairs(ms, k + 1)
        <5>1. 1 .. k + 1 = 1 .. k \cup {k + 1}
          OBVIOUS
        <5> QED
          BY <2>2, <2>8, <5>1 DEF Pairs
      <4>5. x.at = o + 1 + off[k + 1]
        <5>1. k + 1 \in 1 .. Len(e) /\ Laid(off, e, f)
          BY <2>6, <2>9, <2>10
        <5>2. off[k] \in Nat /\ off[k + 1] = off[k] + Len(e[k + 1])
          BY <2>6, <5>1 DEF Laid, LaidTo
        <5>3. o \in Nat
          BY SeqIs DEF Holds
        <5>4. PICK b \in Nat, d \in Nat, m \in Nat :
                b = off[k] /\ d = off[k + 1] /\ m = Len(w) /\ d = b + (1 + m)
          BY <2>14, <5>2
        <5>5. x.at = ((o + 1 + b) + 1) + m
          BY <2>2, <4>1, <5>4
        <5>6. ((o + 1 + b) + 1) + m = o + 1 + (b + (1 + m))
          BY <5>3
        <5> QED
          BY <5>4, <5>5, <5>6
      <4>6. Apart(ms, k + 1)
        <5>1. \A i \in 1 .. k : ms[i][1] # v
          BY <2>2, <2>21 DEF FreshKey, Pairs
        <5>2. \A i \in 1 .. k + 1 : i \in 1 .. k \/ i = k + 1
          OBVIOUS
        <5> QED
          BY <2>4, <2>7, <5>1, <5>2 DEF Apart
      <4>7. Pair(r, v, x) = Loop("none", o + 1 + off[k + 1], Len(ms) - (k + 1), Pairs(ms, k + 1))
        BY <4>2, <4>3, <4>4, <4>5
      <4> QED
        BY <2>2, <2>18, <3>2, <4>6, <4>7 DEF MapAt
    <3> QED
      BY <3>4, <3>5
  <2> QED
    BY <2>20, <2>21
<1> QED
  BY <1>1, <1>2

\* A map written member by member is read as the set of its members, if at all.
LEMMA MembersRead ==
  ASSUME NEW ms, IsSeq(ms), \A i \in 1 .. Len(ms) : IsMember(ms[i])
  PROVE  /\ IsSeq(MembersOf(ms)) /\ Len(MembersOf(ms)) >= 1
         /\ \A s, o, left :
              IsSeq(s) /\ Holds(s, o, MembersOf(ms)) /\ left \in 0 .. MaxDepth + 1 =>
                \/ Failed(scan_item(s)[left][o])
                \/ /\ scan_item(s)[left][o] = Ok(o + Len(MembersOf(ms)), Map(Pairs(ms, Len(ms))))
                   /\ Apart(ms, Len(ms))
<1>1. PICK n \in Nat : n = Len(ms) /\ DOMAIN ms = 1 .. n
  BY SeqIs
<1>2. PICK c, e, f : c = Token("map", n, <<>>) /\ e = MemberWords(ms) /\ f = FlattenSeq(e)
  OBVIOUS
<1>3. IsSeq(e) /\ Len(e) = n /\ \A i \in 1 .. n : e[i] = Word("text", ms[i][1]) \o ms[i][2]
  <2>1. \A i \in 1 .. n : e[i] = Word("text", ms[i][1]) \o ms[i][2]
    BY <1>1, <1>2 DEF MemberWords
  <2>2. e = [i \in 1 .. n |-> e[i]]
    BY <1>1, <1>2 DEF MemberWords
  <2>3. IsSeq(e) /\ Len(e) = n
    BY <2>2, FunIs
  <2> QED
    BY <2>1, <2>3
<1>4. ASSUME NEW i \in 1 .. n PROVE IsSeq(e[i]) /\ Len(e[i]) \in Nat /\ Len(e[i]) >= 1
  <2>1. PICK y, z : y = Word("text", ms[i][1]) /\ z = ms[i][2]
    OBVIOUS
  <2>2. IsSeq(y) /\ Len(y) = 1 /\ IsSeq(z) /\ e[i] = y \o z
    BY <1>1, <1>3, <2>1, OneIs DEF Word, IsMember, Solid
  <2>3. IsJoin(e[i], y, z)
    BY <2>2, ConcatIs
  <2> QED
    BY <2>2, <2>3 DEF IsJoin
<1>5. PICK off : Laid(off, e, f)
  BY <1>2, <1>3, <1>4, FlatLaid
<1>6. n <= Len(f) /\ off[0] = 0 /\ off[n] = Len(f) /\ IsSeq(f)
  <2>1. n <= Len(f)
    BY <1>3, <1>4, <1>5, LaidLong
  <2> QED
    BY <1>3, <1>5, <2>1 DEF Laid, LaidTo
<1>7. PICK w : w = <<c>> \o f
  OBVIOUS
<1>8. IsSeq(w) /\ Len(f) \in Nat /\ Len(w) = 1 + Len(f) /\ w[1] = c
  BY <1>6, <1>7, OneIs, ConcatIs DEF IsJoin
<1>9. w = MembersOf(ms)
  BY <1>1, <1>2, <1>7 DEF MembersOf, MemberWords
<1>10. c.t = "map" /\ c.a = n
  BY <1>2 DEF Token
<1>11. ASSUME NEW s, NEW o, NEW left \in 0 .. MaxDepth + 1, IsSeq(s), Holds(s, o, w)
       PROVE  \/ Failed(scan_item(s)[left][o])
              \/ /\ scan_item(s)[left][o] = Ok(o + Len(w), Map(Pairs(ms, n)))
                 /\ Apart(ms, n)
  <2>1. CASE left = 0
    BY <1>11, <2>1, TooDeep DEF Holds
  <2>2. CASE left # 0
    <3>1. PICK r, below : r = scan_item(s)[left][o] /\ below = scan_item(s)[left - 1]
      OBVIOUS
    <3>2. left \in 1 .. MaxDepth + 1 /\ left - 1 \in 0 .. MaxDepth + 1
      BY <2>2, LimitsAssumption
    <3>3. r = ScanHead(c, s, o, below)
      <4>1. IsSeq(w) /\ Len(w) >= 1
        BY <1>8
      <4>2. scan_item(s)[left][o] = ScanHead(w[1], s, o, scan_item(s)[left - 1])
        BY ONLY <1>11, <3>2, <4>1, HeadOf
      <4> QED
        BY <1>8, <3>1, <4>2
    <3>4. r = scan_map(s, o + 1, n, below)
      BY <1>10, <3>3 DEF ScanHead
    <3>5. PICK r0 : r0 = Loop("none", o + 1, n, {})
      OBVIOUS
    <3>6. PICK L \in Nat : L = Len(s) /\ o \in 1 .. L + 1 /\ n <= L
      BY <1>6, <1>8, <1>11, SeqIs DEF Holds
    <3>7. PICK turn : /\ IsRun(turn, s, "map", r0, below)
                      /\ Turns(s, "map", r0, below) = turn[L]
      BY <3>6, LoopRuns
    <3>8. turn[0] = r0 /\ \A k \in 1 .. L : turn[k] = Turn(s, "map", turn[k - 1], below)
      BY <3>6, <3>7 DEF IsRun
    <3>9. PICK P : P = {k \in 0 .. n : MapAt(turn[k], o, off, ms, k)}
      OBVIOUS
    <3>10. 0 \in P
      <4>1. Pairs(ms, 0) = {} /\ Apart(ms, 0)
        BY DEF Pairs, Apart
      <4>2. o + 1 + off[0] = o + 1 /\ Len(ms) - 0 = n
        BY <1>1, <1>6, <3>6
      <4>3. MapAt(r0, o, off, ms, 0)
        BY <3>5, <4>1, <4>2 DEF MapAt
      <4> QED
        BY <3>8, <3>9, <4>3
    <3>11. ASSUME NEW k \in 0 .. n - 1, k \in P PROVE k + 1 \in P
      <4>1. MapAt(turn[k], o, off, ms, k) /\ k \in 0 .. Len(ms) - 1
        BY <1>1, <3>9, <3>11
      <4>2. Holds(s, o, <<c>> \o f) /\ Laid(off, MemberWords(ms), f)
        BY <1>2, <1>5, <1>7, <1>11
      <4>3. MapAt(Turn(s, "map", turn[k], below), o, off, ms, k + 1)
        BY <1>11, <3>1, <3>2, <4>1, <4>2, MapTurn
      <4>4. k + 1 \in 1 .. L /\ (k + 1) - 1 = k /\ k + 1 \in 0 .. n
        BY <3>6
      <4>5. turn[k + 1] = Turn(s, "map", turn[k], below)
        BY <3>8, <4>4
      <4> QED
        BY <3>9, <4>3, <4>4, <4>5
    <3>12. n \in P
      <4>1. \A k \in 0 .. n - 1 : k \in P => k + 1 \in P
        BY <3>11
      <4>2. \A k \in 0 .. n : k \in P
        BY ONLY <3>10, <4>1, n \in Nat, Upto
      <4> QED
        BY <4>2
    <3>13. MapAt(turn[n], o, off, ms, n)
      BY <3>9, <3>12
    <3>14. \/ Failed(turn[n])
           \/ turn[n] = Loop("none", o + 1 + Len(f), 0, Pairs(ms, n)) /\ Apart(ms, n)
      <4>1. Len(ms) - n = 0
        BY <1>1
      <4> QED
        BY <1>6, <3>13, <4>1 DEF MapAt
    <3>15. turn[L] = turn[n]
      <4>1. Failed(turn[n]) \/ turn[n].n = 0
        BY <3>14 DEF Loop
      <4>2. n \in 0 .. L
        BY <3>6
      <4> QED
        BY <3>6, <3>7, <4>1, <4>2, LoopSettles
    <3>16. r = MapItem(turn[n])
      BY <3>4, <3>5, <3>7, <3>15 DEF scan_map
    <3>17. CASE Failed(turn[n])
      <4>1. Failed(r)
        BY <3>16, <3>17 DEF MapItem, Closed, Failed, Err
      <4> QED
        BY <3>1, <4>1
    <3>18. CASE ~Failed(turn[n])
      <4>1. turn[n].at = o + 1 + Len(f) /\ turn[n].acc = Pairs(ms, n)
        BY <3>14, <3>18 DEF Loop
      <4>2. r = Ok(o + 1 + Len(f), Map(Pairs(ms, n)))
        BY <3>16, <3>18, <4>1 DEF MapItem, Closed
      <4>3. o + 1 + Len(f) = o + Len(w)
        BY <1>8, <3>6
      <4> QED
        BY <3>1, <3>14, <3>18, <4>2, <4>3
    <3> QED
      BY <3>17, <3>18
  <2> QED
    BY <2>1, <2>2
<1> QED
  BY <1>1, <1>8, <1>9, <1>11

\* A finite set in some order.
LEMMA SetToSeqIs ==
  ASSUME NEW m, IsFiniteSet(m)
  PROVE  IsSeq(SetToSeq(m)) /\ Pairs(SetToSeq(m), Len(SetToSeq(m))) = m
<1>1. PICK n \in Nat : n = Cardinality(m) /\ ExistsBijection(1 .. n, m)
  BY FS_CardinalityType
<1>2. PICK b : b \in Bijection(1 .. n, m)
  BY <1>1 DEF ExistsBijection
<1>3. b \in [1 .. n -> m] /\ IsInjective(b)
  BY <1>2 DEF Bijection, Injection
<1>4. PICK q : q = SetToSeq(m)
  OBVIOUS
<1>5. q \in [1 .. n -> m] /\ IsInjective(q)
  BY <1>1, <1>3, <1>4 DEF SetToSeq
<1>6. q \in Injection(1 .. n, m)
  BY <1>5 DEF Injection
<1>7. Cardinality(1 .. n) = n
  <2>1. 1 \in Int /\ n \in Int /\ (1 > n => n = 0) /\ n - 1 + 1 = n
    OBVIOUS
  <2> QED
    BY <2>1, FS_Interval
<1>8. q \in Surjection(1 .. n, m)
  BY <1>1, <1>6, <1>7, FS_Injection
<1>9. \A x \in m : \E i \in 1 .. n : q[i] = x
  BY <1>8 DEF Surjection
<1>10. q = [i \in 1 .. n |-> q[i]] /\ \A i \in 1 .. n : q[i] \in m
  BY <1>5
<1>11. IsSeq(q) /\ Len(q) = n
  BY <1>10, FunIs
<1>12. Pairs(q, n) = m
  BY <1>9, <1>10 DEF Pairs
<1> QED
  BY <1>4, <1>11, <1>12

\* A map of solid words is solid.
LEMMA SolidMap ==
  ASSUME NEW m, IsFiniteSet(m), \A x \in m : IsMember(x)
  PROVE  Solid(MapOf(m))
<1>1. PICK q : q = SetToSeq(m)
  OBVIOUS
<1>2. IsSeq(q) /\ Pairs(q, Len(q)) = m
  BY <1>1, SetToSeqIs
<1>3. \A i \in 1 .. Len(q) : IsMember(q[i])
  BY <1>2 DEF Pairs
<1>4. PICK w : w = MembersOf(q)
  OBVIOUS
<1>5. w = MapOf(m)
  BY <1>1, <1>4 DEF MapOf
<1>6. /\ IsSeq(w) /\ Len(w) >= 1
      /\ \A s, o, left : IsSeq(s) /\ Holds(s, o, w) /\ left \in 0 .. MaxDepth + 1 =>
           \/ Failed(scan_item(s)[left][o])
           \/ scan_item(s)[left][o] = Ok(o + Len(w), Map(m))
  BY <1>2, <1>3, <1>4, MembersRead
<1>7. ASSUME NEW s, NEW o, NEW left, IsSeq(s), Holds(s, o, w), left \in 0 .. MaxDepth + 1
      PROVE  Reads(scan_item(s)[left][o], o, w)
  <2>1. PICK r : r = scan_item(s)[left][o]
    OBVIOUS
  <2>2. CASE Failed(r)
    BY <2>1, <2>2 DEF Reads
  <2>3. CASE ~Failed(r)
    <3>1. r = Ok(o + Len(w), Map(m))
      BY <1>6, <1>7, <2>1, <2>3
    <3>2. r.at = o + Len(w) /\ r.item = Map(m)
      BY <3>1 DEF Ok
    <3>3. Words(r.item) = w
      BY <1>5, <3>2, ItemIs
    <3> QED
      BY <2>1, <3>2, <3>3 DEF Reads
  <2> QED
    BY <2>2, <2>3
<1> QED
  BY <1>5, <1>6, <1>7 DEF Solid

\* What a scan may find: solid words, and of a map finitely many members.
GoodItem(i) == Solid(Words(i)) /\ (i.map => IsFiniteSet(i.m) /\ \A x \in i.m : IsMember(x))
GoodRead(r, s) == Failed(r) \/ (r.at \in 1 .. Len(s) + 1 /\ GoodItem(r.item))

IsLoopState(r) == r = Loop("none", r.at, r.n, r.acc)
ArrayGood(r, s) ==
  \/ Failed(r)
  \/ /\ IsLoopState(r) /\ r.at \in 1 .. Len(s) + 1
     /\ IsSeq(r.acc) /\ \A i \in 1 .. Len(r.acc) : Solid(r.acc[i])
MapGood(r, s) ==
  \/ Failed(r)
  \/ /\ IsLoopState(r) /\ r.at \in 1 .. Len(s) + 1
     /\ IsFiniteSet(r.acc) /\ \A x \in r.acc : IsMember(x)

\* A word is a good find.
LEMMA GoodWord ==
  ASSUME NEW k \in Scalars, NEW v
  PROVE  GoodItem(Item(Word(k, v)))
BY SolidWord, ItemIs DEF GoodItem

\* A break ends a loop inside the input.
LEMMA BreakIs ==
  ASSUME NEW s, IsSeq(s), NEW r, IsLoopState(r), r.at \in 1 .. Len(s) + 1, AtBreak(s, r)
  PROVE  \E q : /\ q = [r EXCEPT !.at = @ + 1, !.n = 0]
                /\ IsLoopState(q) /\ q.at \in 1 .. Len(s) + 1 /\ q.acc = r.acc
<1>1. PICK q : q = [r EXCEPT !.at = @ + 1, !.n = 0]
  OBVIOUS
<1>2. q = Loop("none", r.at + 1, 0, r.acc)
  <2>1. PICK a, n, acc : a = r.at /\ n = r.n /\ acc = r.acc
    OBVIOUS
  <2>2. r = [err |-> "none", at |-> a, n |-> n, acc |-> acc]
    BY <2>1 DEF IsLoopState, Loop
  <2>3. q = [err |-> "none", at |-> a + 1, n |-> 0, acc |-> acc]
    BY <1>1, <2>2
  <2> QED
    BY <2>1, <2>3 DEF Loop
<1>3. IsLoopState(q) /\ q.at = r.at + 1 /\ q.acc = r.acc
  BY <1>2 DEF IsLoopState, Loop
<1>4. r.at <= Len(s)
  BY DEF AtBreak, take_byte, Token
<1>5. r.at + 1 \in 1 .. Len(s) + 1
  BY <1>4, SeqIs
<1> QED
  BY <1>1, <1>3, <1>5

\* One turn over an array keeps its loop good.
LEMMA ArrayTurnGood ==
  ASSUME NEW s, IsSeq(s), NEW below, \A o \in 1 .. Len(s) + 1 : GoodRead(below[o], s),
         NEW r, ArrayGood(r, s)
  PROVE  ArrayGood(Turn(s, "array", r, below), s)
<1>1. PICK t : t = Turn(s, "array", r, below)
  OBVIOUS
<1>2. CASE Failed(r) \/ r.n = 0
  BY <1>2, LoopRests
<1>3. CASE ~(Failed(r) \/ r.n = 0) /\ AtBreak(s, r)
  <2>1. t = [r EXCEPT !.at = @ + 1, !.n = 0]
    BY <1>1, <1>3 DEF Turn
  <2>2. IsLoopState(t) /\ t.at \in 1 .. Len(s) + 1 /\ t.acc = r.acc
    BY <1>3, <2>1, BreakIs DEF ArrayGood
  <2> QED
    BY <1>1, <1>3, <2>2 DEF ArrayGood
<1>4. CASE ~(Failed(r) \/ r.n = 0) /\ ~AtBreak(s, r)
  <2>1. PICK x : x = below[r.at]
    OBVIOUS
  <2>2. t = Element(r, x)
    BY <1>1, <1>4, <2>1 DEF Turn
  <2>3. GoodRead(x, s)
    BY <1>4, <2>1 DEF ArrayGood
  <2>4. CASE Failed(x)
    <3>1. Failed(t)
      BY <2>2, <2>4, StoppedFails DEF Element
    <3> QED
      BY <1>1, <3>1 DEF ArrayGood
  <2>5. CASE ~Failed(x)
    <3>1. PICK w, q, p : w = Words(x.item) /\ q = r.acc /\ p = Append(q, w)
      OBVIOUS
    <3>2. t = Loop("none", x.at, Count(r.n), p)
      BY <2>2, <2>5, <3>1 DEF Element
    <3>3. IsLoopState(t) /\ t.at = x.at /\ t.acc = p
      BY <3>2 DEF IsLoopState, Loop
    <3>4. x.at \in 1 .. Len(s) + 1 /\ Solid(w)
      BY <2>3, <2>5, <3>1 DEF GoodRead, GoodItem
    <3>5. IsSeq(q) /\ \A i \in 1 .. Len(q) : Solid(q[i])
      BY <1>4, <3>1 DEF ArrayGood
    <3>6. /\ IsSeq(p) /\ Len(q) \in Nat /\ Len(p) = Len(q) + 1
          /\ \A i \in 1 .. Len(q) : p[i] = q[i]
          /\ p[Len(q) + 1] = w
      BY <3>1, <3>5, AppendIs
    <3>7. \A i \in 1 .. Len(p) : Solid(p[i])
      <4> SUFFICES ASSUME NEW i \in 1 .. Len(p) PROVE Solid(p[i])
        OBVIOUS
      <4>1. i \in 1 .. Len(q) \/ i = Len(q) + 1
        BY <3>6
      <4> QED
        BY <3>4, <3>5, <3>6, <4>1
    <3> QED
      BY <1>1, <3>3, <3>4, <3>6, <3>7 DEF ArrayGood
  <2> QED
    BY <2>4, <2>5
<1> QED
  BY <1>2, <1>3, <1>4

\* One turn over a map keeps its loop good.
LEMMA MapTurnGood ==
  ASSUME NEW s, IsSeq(s), NEW below, \A o \in 1 .. Len(s) + 1 : GoodRead(below[o], s),
         NEW r, MapGood(r, s)
  PROVE  MapGood(Turn(s, "map", r, below), s)
<1>1. PICK t : t = Turn(s, "map", r, below)
  OBVIOUS
<1>2. CASE Failed(r) \/ r.n = 0
  BY <1>2, LoopRests
<1>3. CASE ~(Failed(r) \/ r.n = 0) /\ AtBreak(s, r)
  <2>1. t = [r EXCEPT !.at = @ + 1, !.n = 0]
    BY <1>1, <1>3 DEF Turn
  <2>2. IsLoopState(t) /\ t.at \in 1 .. Len(s) + 1 /\ t.acc = r.acc
    BY <1>3, <2>1, BreakIs DEF MapGood
  <2> QED
    BY <1>1, <1>3, <2>2 DEF MapGood
<1>4. CASE ~(Failed(r) \/ r.n = 0) /\ ~AtBreak(s, r)
  <2>1. PICK key, v, x : key = scan_text_key(s, r.at) /\ v = key.item.w[1].v /\ x = below[key.at]
    OBVIOUS
  <2>2. t = Value(s, r, key, below)
    BY <1>1, <1>4, <2>1 DEF Turn
  <2>3. CASE Failed(key)
    <3>1. Failed(t)
      BY <2>2, <2>3, StoppedFails DEF Value
    <3> QED
      BY <1>1, <3>1 DEF MapGood
  <2>4. CASE ~Failed(key)
    <3>1. key.at \in 1 .. Len(s) + 1
      <4>1. PICK o : o = r.at /\ o \in 1 .. Len(s) + 1
        BY <1>4 DEF MapGood
      <4>2. Len(s) \in Nat
        BY SeqIs
      <4>3. take_byte(s, o).t = "text"
        BY <2>1, <2>4, <4>1 DEF scan_text_key, Err, Failed
      <4>4. o \in 1 .. Len(s) /\ s[o].t = "text"
        BY <4>1, <4>2, <4>3 DEF take_byte, Token
      <4>5. key = scan_string(s, o)
        BY <2>1, <4>1, <4>3 DEF scan_text_key
      <4>6. key.at \in o + 1 .. Len(s) + 1
        BY <2>4, <4>4, <4>5, StringIs
      <4> QED
        BY <4>2, <4>4, <4>6
    <3>2. Failed(t) \/ t = Pair(r, v, x)
      <4>1. Failed(Stopped("InvalidMap")) /\ Failed(Stopped("Cbor"))
        BY DEF Failed, Stopped, Loop
      <4> QED
        BY <2>1, <2>2, <2>4, <4>1 DEF Value
    <3>3. CASE Failed(t)
      BY <1>1, <3>3 DEF MapGood
    <3>4. CASE ~Failed(t)
      <4>1. t = Pair(r, v, x) /\ ~Failed(x)
        BY <3>2, <3>4, StoppedFails DEF Pair
      <4>2. PICK w, q, p : w = Words(x.item) /\ q = r.acc /\ p = q \cup {<<v, w>>}
        OBVIOUS
      <4>3. t = Loop("none", x.at, Count(r.n), p)
        BY <4>1, <4>2 DEF Pair
      <4>4. IsLoopState(t) /\ t.at = x.at /\ t.acc = p
        BY <4>3 DEF IsLoopState, Loop
      <4>5. x.at \in 1 .. Len(s) + 1 /\ Solid(w)
        BY <2>1, <3>1, <4>1, <4>2 DEF GoodRead, GoodItem
      <4>6. IsFiniteSet(q) /\ \A y \in q : IsMember(y)
        BY <1>4, <4>2 DEF MapGood
      <4>7. IsFiniteSet(p)
        BY <4>2, <4>6, FS_AddElement
      <4>8. IsMember(<<v, w>>)
        BY <4>5 DEF IsMember
      <4> QED
        BY <1>1, <4>2, <4>4, <4>5, <4>6, <4>7, <4>8 DEF MapGood
    <3> QED
      BY <3>3, <3>4
  <2> QED
    BY <2>3, <2>4
<1> QED
  BY <1>2, <1>3, <1>4

\* An array loop that starts well ends well.
LEMMA ArrayLoopGood ==
  ASSUME NEW s, IsSeq(s), NEW below, \A o \in 1 .. Len(s) + 1 : GoodRead(below[o], s),
         NEW r, ArrayGood(r, s)
  PROVE  ArrayGood(Turns(s, "array", r, below), s)
<1>1. PICK n \in Nat : n = Len(s)
  BY SeqIs
<1>2. PICK turn : IsRun(turn, s, "array", r, below) /\ Turns(s, "array", r, below) = turn[n]
  BY <1>1, LoopRuns
<1>3. PICK P : P = {k \in 0 .. n : ArrayGood(turn[k], s)}
  OBVIOUS
<1>4. 0 \in P
  BY <1>2, <1>3 DEF IsRun
<1>5. \A k \in 0 .. n - 1 : k \in P => k + 1 \in P
  <2> SUFFICES ASSUME NEW k \in 0 .. n - 1, k \in P PROVE k + 1 \in P
    OBVIOUS
  <2>1. k + 1 \in 1 .. n /\ k + 1 \in 0 .. n /\ (k + 1) - 1 = k
    OBVIOUS
  <2>2. turn[k + 1] = Turn(s, "array", turn[k], below)
    BY <1>1, <1>2, <2>1 DEF IsRun
  <2>3. ArrayGood(turn[k], s)
    BY <1>3
  <2>4. ArrayGood(turn[k + 1], s)
    BY <2>2, <2>3, ArrayTurnGood
  <2> QED
    BY <1>3, <2>1, <2>4
<1>6. n \in P
  BY ONLY <1>4, <1>5, n \in Nat, Upto
<1> QED
  BY <1>2, <1>3, <1>6

\* A map loop that starts well ends well.
LEMMA MapLoopGood ==
  ASSUME NEW s, IsSeq(s), NEW below, \A o \in 1 .. Len(s) + 1 : GoodRead(below[o], s),
         NEW r, MapGood(r, s)
  PROVE  MapGood(Turns(s, "map", r, below), s)
<1>1. PICK n \in Nat : n = Len(s)
  BY SeqIs
<1>2. PICK turn : IsRun(turn, s, "map", r, below) /\ Turns(s, "map", r, below) = turn[n]
  BY <1>1, LoopRuns
<1>3. PICK P : P = {k \in 0 .. n : MapGood(turn[k], s)}
  OBVIOUS
<1>4. 0 \in P
  BY <1>2, <1>3 DEF IsRun
<1>5. \A k \in 0 .. n - 1 : k \in P => k + 1 \in P
  <2> SUFFICES ASSUME NEW k \in 0 .. n - 1, k \in P PROVE k + 1 \in P
    OBVIOUS
  <2>1. k + 1 \in 1 .. n /\ k + 1 \in 0 .. n /\ (k + 1) - 1 = k
    OBVIOUS
  <2>2. turn[k + 1] = Turn(s, "map", turn[k], below)
    BY <1>1, <1>2, <2>1 DEF IsRun
  <2>3. MapGood(turn[k], s)
    BY <1>3
  <2>4. MapGood(turn[k + 1], s)
    BY <2>2, <2>3, MapTurnGood
  <2> QED
    BY <1>3, <2>1, <2>4
<1>6. n \in P
  BY ONLY <1>4, <1>5, n \in Nat, Upto
<1> QED
  BY <1>2, <1>3, <1>6

\* One head, with everything below it good.
LEMMA HeadGood ==
  ASSUME NEW s, IsSeq(s), NEW below, \A o \in 1 .. Len(s) + 1 : GoodRead(below[o], s),
         NEW o \in 1 .. Len(s) + 1
  PROVE  GoodRead(ScanHead(take_byte(s, o), s, o, below), s)
<1>1. Len(s) \in Nat
  BY SeqIs
<1>2. PICK c, r : c = take_byte(s, o) /\ r = ScanHead(c, s, o, below)
  OBVIOUS
<1>3. ASSUME c.t # "cut" PROVE o \in 1 .. Len(s) /\ c = s[o] /\ o + 1 \in 1 .. Len(s) + 1
  BY <1>1, <1>2, <1>3 DEF take_byte, Token
<1>4. CASE c.t \in {"int", "simple", "float"}
  <2>1. r = Ok(o + 1, Item(Word(c.t, c.v)))
    BY <1>2, <1>4 DEF ScanHead
  <2>2. GoodItem(Item(Word(c.t, c.v)))
    BY <1>4, GoodWord DEF Scalars
  <2>3. r.at = o + 1 /\ r.item = Item(Word(c.t, c.v))
    BY <2>1 DEF Ok
  <2> QED
    BY <1>2, <1>3, <1>4, <2>2, <2>3 DEF GoodRead
<1>5. CASE c.t \in {"text", "bytes"}
  <2>1. r = scan_string(s, o) /\ o \in 1 .. Len(s) /\ c = s[o]
    BY <1>2, <1>3, <1>5 DEF ScanHead
  <2>2. CASE Failed(r)
    BY <1>2, <2>2 DEF GoodRead
  <2>3. CASE ~Failed(r)
    <3>1. r.at \in o + 1 .. Len(s) + 1 /\ \E v : r = Ok(r.at, Item(Word(c.t, v)))
      BY <1>5, <2>1, <2>3, StringIs
    <3>2. PICK v : r = Ok(r.at, Item(Word(c.t, v)))
      BY <3>1
    <3>3. r.item = Item(Word(c.t, v))
      BY <3>2 DEF Ok
    <3>4. GoodItem(r.item)
      BY <1>5, <3>3, GoodWord DEF Scalars
    <3>5. r.at \in 1 .. Len(s) + 1
      BY <1>1, <3>1
    <3> QED
      BY <1>2, <3>4, <3>5 DEF GoodRead
  <2> QED
    BY <2>2, <2>3
<1>6. CASE c.t = "array"
  <2>1. PICK r0, t : r0 = Loop("none", o + 1, c.a, <<>>) /\ t = Turns(s, "array", r0, below)
    OBVIOUS
  <2>2. r = ArrayItem(t)
    BY <1>2, <1>6, <2>1 DEF ScanHead, scan_array
  <2>3. ArrayGood(r0, s)
    <3>1. IsLoopState(r0) /\ r0.at = o + 1 /\ r0.acc = <<>>
      BY <2>1 DEF IsLoopState, Loop
    <3>2. IsSeq(r0.acc) /\ Len(r0.acc) = 0
      BY <3>1, EmptyIs
    <3>3. o + 1 \in 1 .. Len(s) + 1
      BY <1>3, <1>6
    <3> QED
      BY <3>1, <3>2, <3>3 DEF ArrayGood
  <2>4. ArrayGood(t, s)
    BY <2>1, <2>3, ArrayLoopGood
  <2>5. CASE Failed(t)
    <3>1. Failed(r)
      BY <2>2, <2>5 DEF ArrayItem, Closed, Failed, Err
    <3> QED
      BY <1>2, <3>1 DEF GoodRead
  <2>6. CASE ~Failed(t)
    <3>1. PICK e : e = t.acc
      OBVIOUS
    <3>2. r = Ok(t.at, Item(ArrayOf(e)))
      BY <2>2, <2>6, <3>1 DEF ArrayItem, Closed
    <3>3. r.at = t.at /\ r.item = Item(ArrayOf(e))
      BY <3>2 DEF Ok
    <3>4. Solid(ArrayOf(e)) /\ t.at \in 1 .. Len(s) + 1
      BY <2>4, <2>6, <3>1, SolidArray DEF ArrayGood
    <3>5. GoodItem(r.item)
      BY <3>3, <3>4, ItemIs DEF GoodItem
    <3> QED
      BY <1>2, <3>3, <3>4, <3>5 DEF GoodRead
  <2> QED
    BY <2>5, <2>6
<1>7. CASE c.t = "map"
  <2>1. PICK r0, t : r0 = Loop("none", o + 1, c.a, {}) /\ t = Turns(s, "map", r0, below)
    OBVIOUS
  <2>2. r = MapItem(t)
    BY <1>2, <1>7, <2>1 DEF ScanHead, scan_map
  <2>3. MapGood(r0, s)
    <3>1. IsLoopState(r0) /\ r0.at = o + 1 /\ r0.acc = {}
      BY <2>1 DEF IsLoopState, Loop
    <3>2. IsFiniteSet(r0.acc)
      BY <3>1, FS_EmptySet
    <3>3. o + 1 \in 1 .. Len(s) + 1
      BY <1>3, <1>7
    <3> QED
      BY <3>1, <3>2, <3>3 DEF MapGood
  <2>4. MapGood(t, s)
    BY <2>1, <2>3, MapLoopGood
  <2>5. CASE Failed(t)
    <3>1. Failed(r)
      BY <2>2, <2>5 DEF MapItem, Closed, Failed, Err
    <3> QED
      BY <1>2, <3>1 DEF GoodRead
  <2>6. CASE ~Failed(t)
    <3>1. PICK m : m = t.acc
      OBVIOUS
    <3>2. r = Ok(t.at, Map(m))
      BY <2>2, <2>6, <3>1 DEF MapItem, Closed
    <3>3. r.at = t.at /\ r.item = Map(m)
      BY <3>2 DEF Ok
    <3>4. t.at \in 1 .. Len(s) + 1 /\ IsFiniteSet(m) /\ \A x \in m : IsMember(x)
      BY <2>4, <2>6, <3>1 DEF MapGood
    <3>5. Solid(MapOf(m))
      BY <3>4, SolidMap
    <3>6. GoodItem(r.item)
      BY <3>3, <3>4, <3>5, ItemIs DEF GoodItem
    <3> QED
      BY <1>2, <3>3, <3>4, <3>6 DEF GoodRead
  <2> QED
    BY <2>5, <2>6
<1>8. CASE c.t \notin {"int", "simple", "float", "text", "bytes", "array", "map"}
  <2>1. r = Err("Cbor")
    BY <1>2, <1>8 DEF ScanHead
  <2>2. Failed(r)
    BY <2>1, ResultIs
  <2> QED
    BY <1>2, <2>2 DEF GoodRead
<1> QED
  BY <1>4, <1>5, <1>6, <1>7, <1>8

\* Whatever the input, what a scan finds in it is good.
LEMMA ScanGood ==
  ASSUME NEW s, IsSeq(s)
  PROVE  \A left \in 0 .. MaxDepth + 1 : \A o \in 1 .. Len(s) + 1 :
           GoodRead(scan_item(s)[left][o], s)
<1>1. PICK n \in Nat : n = MaxDepth + 1
  BY LimitsAssumption
<1>2. PICK P : P = {k \in 0 .. n : \A o \in 1 .. Len(s) + 1 : GoodRead(scan_item(s)[k][o], s)}
  OBVIOUS
<1>3. 0 \in P
  BY <1>2, TooDeep DEF GoodRead
<1>4. \A k \in 0 .. n - 1 : k \in P => k + 1 \in P
  <2> SUFFICES ASSUME NEW k \in 0 .. n - 1, k \in P PROVE k + 1 \in P
    OBVIOUS
  <2>1. k + 1 \in 1 .. n /\ k + 1 \in 0 .. n /\ (k + 1) - 1 = k
    OBVIOUS
  <2>2. PICK below : below = scan_item(s)[k]
    OBVIOUS
  <2>3. \A o \in 1 .. Len(s) + 1 : GoodRead(below[o], s)
    BY <1>2, <2>2
  <2>4. ASSUME NEW o \in 1 .. Len(s) + 1 PROVE GoodRead(scan_item(s)[k + 1][o], s)
    <3>1. scan_item(s)[k + 1][o] = ScanHead(take_byte(s, o), s, o, below)
      BY <1>1, <2>1, <2>2, ScanLevels
    <3> QED
      BY <2>3, <3>1, HeadGood
  <2> QED
    BY <1>2, <2>1, <2>4
<1>5. \A k \in 0 .. n : k \in P
  BY ONLY <1>3, <1>4, n \in Nat, Upto
<1> QED
  BY <1>1, <1>2, <1>5

-----------------------------------------------------------------------------
(* Messages.                                                                *)

IsSelection(fs, q, d) == IsSeq(fs) /\ \A i \in 1 .. Len(fs) : fs[i] \in Range(q) \cap d

IsSelect(sel, q, d, n) ==
  sel = [i \in 0 .. n |-> IF i = 0 THEN <<>>
                          ELSE IF q[i] \in d THEN Append(sel[i - 1], q[i]) ELSE sel[i - 1]]

\* The prefixes of a selection exist.
LEMMA SelectExists ==
  ASSUME NEW q, NEW d, NEW n \in Nat
  PROVE  \E sel : IsSelect(sel, q, d, n)
<1>1. PICK P : P = {k \in Nat : \E sel : IsSelect(sel, q, d, k)}
  OBVIOUS
<1>2. 0 \in P
  <2>1. IsSelect([k \in 0 .. 0 |-> <<>>], q, d, 0)
    BY DEF IsSelect
  <2> QED
    BY <1>1, <2>1
<1>3. ASSUME NEW k \in 0 .. n - 1, k \in P PROVE k + 1 \in P
  <2>1. PICK g : IsSelect(g, q, d, k)
    BY <1>1, <1>3
  <2>2. PICK h : h = [i \in 0 .. k + 1 |->
                        IF i = k + 1 THEN IF q[i] \in d THEN Append(g[k], q[i]) ELSE g[k] ELSE g[i]]
    OBVIOUS
  <2>3. \A i \in 0 .. k : g[i] = IF i = 0 THEN <<>>
                                 ELSE IF q[i] \in d THEN Append(g[i - 1], q[i]) ELSE g[i - 1]
    BY <2>1 DEF IsSelect
  <2>4. \A i \in 0 .. k : h[i] = g[i]
    BY <2>2
  <2>5. \A i \in 0 .. k + 1 : h[i] = IF i = 0 THEN <<>>
                                     ELSE IF q[i] \in d THEN Append(h[i - 1], q[i]) ELSE h[i - 1]
    BY <2>2, <2>3, <2>4
  <2>6. IsSelect(h, q, d, k + 1)
    BY <2>2, <2>5 DEF IsSelect
  <2> QED
    BY <1>1, <2>6
<1>4. n \in P
  BY <1>2, <1>3, Upto
<1> QED
  BY <1>1, <1>4

\* The fields of a struct that are present.
LEMMA SelectIs ==
  ASSUME NEW q, IsSeq(q), NEW d
  PROVE  IsSelection(Present(q, d), q, d)
<1>1. PICK n \in Nat : n = Len(q) /\ DOMAIN q = 1 .. n
  BY SeqIs
<1>2. PICK g : g = CHOOSE sel : IsSelect(sel, q, d, n)
  OBVIOUS
<1>3. IsSelect(g, q, d, n)
  BY <1>2, SelectExists
<1>4. Present(q, d) = g[n]
  BY <1>1, <1>2 DEF Present, IsSelect
<1>5. PICK P : P = {k \in 0 .. n : IsSelection(g[k], q, d)}
  OBVIOUS
<1>6. /\ g[0] = <<>>
      /\ \A k \in 1 .. n : g[k] = IF q[k] \in d THEN Append(g[k - 1], q[k]) ELSE g[k - 1]
  <2>1. \A k \in 0 .. n : g[k] = IF k = 0 THEN <<>>
                                 ELSE IF q[k] \in d THEN Append(g[k - 1], q[k]) ELSE g[k - 1]
    BY <1>3 DEF IsSelect
  <2>2. 0 \in 0 .. n /\ \A k \in 1 .. n : k \in 0 .. n /\ k # 0
    OBVIOUS
  <2> QED
    BY <2>1, <2>2
<1>7. 0 \in P
  BY <1>5, <1>6, EmptyIs DEF IsSelection
<1>8. \A k \in 0 .. n - 1 : k \in P => k + 1 \in P
  <2> SUFFICES ASSUME NEW k \in 0 .. n - 1, k \in P PROVE k + 1 \in P
    OBVIOUS
  <2>1. k + 1 \in 1 .. n /\ k + 1 \in 0 .. n /\ (k + 1) - 1 = k
    OBVIOUS
  <2>2. PICK a, b, x : a = g[k] /\ b = g[k + 1] /\ x = q[k + 1]
    OBVIOUS
  <2>3. b = IF x \in d THEN Append(a, x) ELSE a
    BY <1>6, <2>1, <2>2
  <2>4. IsSelection(a, q, d)
    BY <1>5, <2>2
  <2>5. x \in Range(q)
    BY <1>1, <2>1, <2>2 DEF Range
  <2>6. CASE x \notin d
    BY <1>5, <2>1, <2>2, <2>3, <2>4, <2>6
  <2>7. CASE x \in d
    <3>1. /\ IsSeq(b) /\ Len(a) \in Nat /\ Len(b) = Len(a) + 1
          /\ \A i \in 1 .. Len(a) : b[i] = a[i]
          /\ b[Len(a) + 1] = x
      BY <2>3, <2>4, <2>7, AppendIs DEF IsSelection
    <3>2. ASSUME NEW i \in 1 .. Len(b) PROVE b[i] \in Range(q) \cap d
      <4>1. i \in 1 .. Len(a) \/ i = Len(a) + 1
        BY <3>1
      <4> QED
        BY <2>4, <2>5, <2>7, <3>1, <4>1 DEF IsSelection
    <3>3. IsSelection(b, q, d)
      BY <3>1, <3>2 DEF IsSelection
    <3> QED
      BY <1>5, <2>1, <2>2, <3>3
  <2> QED
    BY <2>6, <2>7
<1>9. \A k \in 0 .. n : k \in P
  BY ONLY <1>7, <1>8, n \in Nat, Upto
<1> QED
  BY <1>4, <1>5, <1>9

FieldNames ==
  {"req_id", "op_type", "service", "method", "endpoint", "params", "requested_by", "timestamp",
   "decision", "reason", "signature", "status", "http_status", "body", "executed_at", "services",
   "phone_id_pub", "phone_dh_pub", "nonce", "pc_id_pub"}

\* Each struct is a sequence of fields, and none of them is the tag.
LEMMA StructIs ==
  ASSUME NEW kind \in DOMAIN FieldsOf
  PROVE  IsSeq(FieldsOf[kind]) /\ "type" \notin Range(FieldsOf[kind])
<1>1. kind \in {"approval_request", "approval_response", "execute_request", "execute_response",
                "list_services_request", "list_services_response", "ping", "pong", "session_end",
                "pairing_confirm", "pairing_ack"}
  BY DEF FieldsOf
<1>2. PICK q : q = FieldsOf[kind]
  OBVIOUS
<1>3. q \in Seq(FieldNames)
  <2>1. CASE kind = "approval_request"
    BY <1>2, <2>1 DEF FieldsOf, RequestFields, FieldNames
  <2>2. CASE kind = "approval_response"
    BY <1>2, <2>2 DEF FieldsOf, RequestFields, FieldNames
  <2>3. CASE kind = "execute_request"
    BY <1>2, <2>3 DEF FieldsOf, RequestFields, FieldNames
  <2>4. CASE kind = "execute_response"
    BY <1>2, <2>4 DEF FieldsOf, RequestFields, FieldNames
  <2>5. CASE kind = "list_services_request"
    BY <1>2, <2>5 DEF FieldsOf, RequestFields, FieldNames
  <2>6. CASE kind = "list_services_response"
    BY <1>2, <2>6 DEF FieldsOf, RequestFields, FieldNames
  <2>7. CASE kind = "ping"
    BY <1>2, <2>7 DEF FieldsOf, RequestFields, FieldNames
  <2>8. CASE kind = "pong"
    BY <1>2, <2>8 DEF FieldsOf, RequestFields, FieldNames
  <2>9. CASE kind = "session_end"
    BY <1>2, <2>9 DEF FieldsOf, RequestFields, FieldNames
  <2>10. CASE kind = "pairing_confirm"
    BY <1>2, <2>10 DEF FieldsOf, RequestFields, FieldNames
  <2>11. CASE kind = "pairing_ack"
    BY <1>2, <2>11 DEF FieldsOf, RequestFields, FieldNames
  <2> QED
    BY <1>1, <2>1, <2>2, <2>3, <2>4, <2>5, <2>6, <2>7, <2>8, <2>9, <2>10, <2>11
<1> QED
  BY <1>2, <1>3 DEF IsSeq, Range, FieldNames

\* What a struct's members are.
IsStructOf(ms, m) ==
  /\ IsSeq(ms)
  /\ \A i \in 1 .. Len(ms) :
       /\ IsMember(ms[i])
       /\ \/ ms[i] = <<<<"type">>, Text(m.type)>>
          \/ \E f \in Range(FieldsOf[m.type]) \cap DOMAIN m.f : ms[i] = <<<<f>>, WriteField(m, f)>>

\* A message whose fields are solid.
SolidFields(m) ==
  m.type \in DOMAIN FieldsOf /\ \A f \in DOMAIN m.f \ HexFields : Solid(m.f[f])

\* A member is a key and a value.
LEMMA MemberOf ==
  ASSUME NEW k, NEW w, Solid(w)
  PROVE  IsMember(<<k, w>>)
BY DEF IsMember

\* A message is written as its tag and its fields.
LEMMA BytesAre ==
  ASSUME NEW m, SolidFields(m)
  PROVE  \E ms : IsStructOf(ms, m) /\ Bytes(m) = MembersOf(ms)
<1>1. PICK q, fs : q = FieldsOf[m.type] /\ fs = Present(q, DOMAIN m.f)
  OBVIOUS
<1>2. IsSelection(fs, q, DOMAIN m.f)
  BY <1>1, StructIs, SelectIs DEF SolidFields
<1>3. PICK n \in Nat : n = Len(fs) /\ DOMAIN fs = 1 .. n
  BY <1>2, SeqIs DEF IsSelection
<1>4. PICK tag, h, b : /\ tag = <<<<"type">>, Text(m.type)>> /\ h = <<tag>>
                       /\ b = [i \in DOMAIN fs |-> <<<<fs[i]>>, WriteField(m, fs[i])>>]
  OBVIOUS
<1>5. IsSeq(h) /\ Len(h) = 1 /\ h[1] = tag
  BY <1>4, OneIs
<1>6. IsSeq(b) /\ Len(b) = n /\ \A i \in 1 .. n : b[i] = <<<<fs[i]>>, WriteField(m, fs[i])>>
  <2>1. b = [i \in 1 .. n |-> b[i]] /\ \A i \in 1 .. n : b[i] = <<<<fs[i]>>, WriteField(m, fs[i])>>
    BY <1>3, <1>4
  <2> QED
    BY <2>1, FunIs
<1>7. PICK ms : ms = h \o b
  OBVIOUS
<1>8. IsJoin(ms, h, b)
  BY <1>5, <1>6, <1>7, ConcatIs
<1>9. /\ IsSeq(ms) /\ Len(ms) = 1 + n /\ ms[1] = tag
      /\ \A i \in 1 .. n : ms[1 + i] = b[i]
  <2>1. 1 \in 1 .. 1
    OBVIOUS
  <2> QED
    BY <1>5, <1>6, <1>8, <2>1 DEF IsJoin
<1>10. Bytes(m) = MembersOf(ms)
  BY <1>1, <1>4, <1>7 DEF Bytes, WriteStruct
<1>11. IsMember(tag)
  BY <1>4, MemberOf, SolidWord DEF Text, Scalars
<1>12. ASSUME NEW f \in DOMAIN m.f PROVE IsMember(<<<<f>>, WriteField(m, f)>>)
  <2>1. CASE f \in HexFields
    BY <2>1, MemberOf, SolidWord DEF WriteField, Scalars
  <2>2. CASE f \notin HexFields
    BY <2>2, MemberOf DEF WriteField, SolidFields
  <2> QED
    BY <2>1, <2>2
<1>13. ASSUME NEW i \in 1 .. Len(ms)
       PROVE  /\ IsMember(ms[i])
              /\ \/ ms[i] = tag
                 \/ \E f \in Range(q) \cap DOMAIN m.f : ms[i] = <<<<f>>, WriteField(m, f)>>
  <2>1. CASE i = 1
    BY <1>9, <1>11, <2>1
  <2>2. CASE i # 1
    <3>1. PICK k \in 1 .. n : i = 1 + k
      <4>1. i - 1 \in 1 .. n /\ i = 1 + (i - 1)
        BY <1>9, <2>2
      <4> QED
        BY <4>1
    <3>2. ms[i] = <<<<fs[k]>>, WriteField(m, fs[k])>>
      BY <1>6, <1>9, <3>1
    <3>3. fs[k] \in Range(q) \cap DOMAIN m.f
      BY <1>2, <1>3 DEF IsSelection
    <3> QED
      BY <1>12, <3>2, <3>3
  <2> QED
    BY <2>1, <2>2
<1>14. IsStructOf(ms, m)
  BY <1>1, <1>4, <1>9, <1>13 DEF IsStructOf
<1> QED
  BY <1>10, <1>14

\* The member under a key.
LEMMA AtIs ==
  ASSUME NEW p, NEW f, <<f>> \in Keys(p)
  PROVE  \E x \in p : x[1] = <<f>> /\ At(p, f) = x[2]
<1>1. \E x \in p : x[1] = <<f>>
  BY DEF Keys
<1>2. PICK x : x = CHOOSE y \in p : y[1] = <<f>>
  OBVIOUS
<1>3. x \in p /\ x[1] = <<f>>
  BY <1>1, <1>2
<1> QED
  BY <1>2, <1>3 DEF At

\* A message of a kind, from the members of a map.
IsMessage(g, p, kind) ==
  /\ DOMAIN g \subseteq Range(FieldsOf[kind])
  /\ \A f \in Range(FieldsOf[kind]) : ~IsOptional(kind, f) => f \in DOMAIN g
  /\ \A f \in DOMAIN g : <<f>> \in Keys(p) /\ g[f] = JsonOf(f, At(p, f))
  /\ g = [f \in DOMAIN g |-> g[f]]

\* serde's answer, when there is one.
LEMMA FromItemIs ==
  ASSUME NEW i, ~Failed(FromItem(i))
  PROVE  /\ i.map /\ <<"type">> \in Keys(i.m)
         /\ \E kind \in DOMAIN FieldsOf : \E g :
              /\ At(i.m, "type")[1].v = <<kind>>
              /\ FromItem(i).msg = [type |-> kind, f |-> g]
              /\ IsMessage(g, i.m, kind)
<1>0. \A x : x # "none" => Failed([err |-> x])
  BY DEF Failed
<1>1. i.map /\ <<"type">> \in Keys(i.m) /\ FromItem(i) = Variant(i.m, At(i.m, "type"))
  BY <1>0 DEF FromItem
<1>2. PICK p, tag : p = i.m /\ tag = At(i.m, "type")
  OBVIOUS
<1>3. /\ tag[1].v \in {<<k>> : k \in DOMAIN FieldsOf}
      /\ Variant(p, tag) = Fields(p, tag[1].v[1], Given(p, tag[1].v[1]))
  BY <1>0, <1>1, <1>2 DEF Variant
<1>4. PICK kind \in DOMAIN FieldsOf : tag[1].v = <<kind>>
  BY <1>3
<1>5. PICK given, g : given = Given(p, kind) /\ g = [f \in given |-> JsonOf(f, At(p, f))]
  OBVIOUS
<1>6. PICK d : d = FromItem(i)
  OBVIOUS
<1>7. d = Fields(p, kind, given) /\ ~Failed(d)
  <2>1. tag[1].v[1] = kind
    BY <1>4
  <2> QED
    BY <1>1, <1>2, <1>3, <1>5, <1>6, <2>1
<1>8. /\ \A f \in Range(FieldsOf[kind]) \ given : IsOptional(kind, f)
      /\ d = [err |-> "none", msg |-> [type |-> kind, f |-> g]]
  BY <1>0, <1>5, <1>7 DEF Fields
<1>9. d.msg = [type |-> kind, f |-> g]
  BY <1>8
<1>10. DOMAIN g = given /\ \A f \in given : g[f] = JsonOf(f, At(p, f))
  BY <1>5
<1>11. given \subseteq Range(FieldsOf[kind]) /\ \A f \in given : <<f>> \in Keys(p)
  BY <1>5 DEF Given
<1>12. IsMessage(g, p, kind)
  BY <1>5, <1>8, <1>10, <1>11 DEF IsMessage
<1> QED
  BY <1>1, <1>2, <1>4, <1>6, <1>9, <1>12

\* decode is the scan and then serde.
LEMMA DecodeIs ==
  ASSUME NEW s, ~Failed(decode(s))
  PROVE  ~Failed(First(s)) /\ decode(s) = FromItem(First(s).item)
<1>1. PICK r, w, x : r = First(s) /\ w = Whole(r, s) /\ x = Read(w)
  OBVIOUS
<1>2. \A y : y # "none" => Failed([err |-> y]) /\ Failed(Err(y))
  BY DEF Failed, Err
<1>3. decode(s) = Checked(x)
  BY <1>1, <1>2 DEF decode, scan_cbor
<1>4. decode(s) = x /\ ~Failed(x)
  BY <1>2, <1>3 DEF Checked
<1>5. ~Failed(w) /\ x = FromItem(w.item)
  <2>1. ASSUME Failed(w) PROVE FALSE
    <3>1. x = [err |-> w.err]
      BY <1>1, <2>1 DEF Read
    <3> QED
      BY <1>4, <2>1, <3>1 DEF Failed
  <2> QED
    BY <1>1, <2>1 DEF Read
<1>6. w = r
  BY <1>1, <1>2, <1>5 DEF Whole
<1> QED
  BY <1>1, <1>4, <1>5, <1>6

\* What is written is read as the kind it has and with the signature it has.
LEMMA DecodeWritten ==
  ASSUME NEW m, SolidFields(m), ~Failed(decode(Bytes(m)))
  PROVE  \E g : /\ decode(Bytes(m)).msg = [type |-> m.type, f |-> g]
                /\ g = [x \in DOMAIN g |-> g[x]]
                /\ \A f \in Range(FieldsOf[m.type]) : ~IsOptional(m.type, f) => f \in DOMAIN g
                /\ "signature" \in DOMAIN g =>
                     g["signature"] = Word("text", m.f["signature"][1].v)
<1>1. PICK ms : IsStructOf(ms, m) /\ Bytes(m) = MembersOf(ms)
  BY BytesAre
<1>2. PICK s, r, p : s = Bytes(m) /\ r = First(s) /\ p = Pairs(ms, Len(ms))
  OBVIOUS
<1>3. r = Ok(1 + Len(s), Map(p))
  <2>1. /\ IsSeq(s) /\ Len(s) >= 1
        /\ \A t, o, left :
             IsSeq(t) /\ Holds(t, o, s) /\ left \in 0 .. MaxDepth + 1 =>
               \/ Failed(scan_item(t)[left][o])
               \/ scan_item(t)[left][o] = Ok(o + Len(s), Map(p))
    BY <1>1, <1>2, MembersRead DEF IsStructOf
  <2>2. Holds(s, 1, s)
    <3>1. Len(s) \in Nat
      BY <2>1, SeqIs
    <3>2. \A i \in 1 .. Len(s) : 1 + i - 1 = i
      BY <3>1
    <3> QED
      BY <2>1, <3>1, <3>2 DEF Holds
  <2>3. MaxDepth + 1 \in 0 .. MaxDepth + 1
    BY LimitsAssumption
  <2>4. ~Failed(r) /\ r = scan_item(s)[MaxDepth + 1][1]
    BY <1>2, DecodeIs DEF First
  <2> QED
    BY <2>1, <2>2, <2>3, <2>4
<1>4. r.item = Map(p) /\ Map(p).m = p
  BY <1>3 DEF Ok, Map
<1>5. decode(s) = FromItem(Map(p))
  BY <1>2, <1>4, DecodeIs
<1>6. ~Failed(FromItem(Map(p)))
  BY <1>2, <1>5
<1>7. /\ <<"type">> \in Keys(p)
      /\ \E kind \in DOMAIN FieldsOf : \E g :
           /\ At(p, "type")[1].v = <<kind>>
           /\ FromItem(Map(p)).msg = [type |-> kind, f |-> g]
           /\ IsMessage(g, p, kind)
  <2>1. PICK i : i = Map(p) /\ i.m = p
    BY <1>4
  <2> QED
    BY <1>6, <2>1, FromItemIs
<1>8. PICK kind \in DOMAIN FieldsOf :
        \E g : /\ At(p, "type")[1].v = <<kind>>
               /\ FromItem(Map(p)).msg = [type |-> kind, f |-> g]
               /\ IsMessage(g, p, kind)
  BY <1>7
<1>9. PICK g : /\ At(p, "type")[1].v = <<kind>>
               /\ FromItem(Map(p)).msg = [type |-> kind, f |-> g]
               /\ IsMessage(g, p, kind)
  BY <1>8
<1>10. \A x \in p : \/ x = <<<<"type">>, Text(m.type)>>
                    \/ \E f \in Range(FieldsOf[m.type]) : x = <<<<f>>, WriteField(m, f)>>
  BY <1>1, <1>2 DEF IsStructOf, Pairs
<1>11. kind = m.type
  <2>1. PICK x \in p : x[1] = <<"type">> /\ At(p, "type") = x[2]
    BY <1>7, AtIs
  <2>2. x = <<<<"type">>, Text(m.type)>>
    <3>1. "type" \notin Range(FieldsOf[m.type])
      BY StructIs DEF SolidFields
    <3>2. ASSUME NEW f, x = <<<<f>>, WriteField(m, f)>> PROVE f = "type"
      BY <2>1, <3>2
    <3> QED
      BY <1>10, <3>1, <3>2
  <2>3. x[2] = Text(m.type)
    BY <2>2
  <2>4. x[2][1].v = <<m.type>>
    BY <2>3 DEF Text, Word, Token
  <2>5. <<kind>> = <<m.type>>
    BY <1>9, <2>1, <2>4
  <2> QED
    BY <2>5
<1>12. ASSUME "signature" \in DOMAIN g PROVE g["signature"] = Word("text", m.f["signature"][1].v)
  <2>1. <<"signature">> \in Keys(p) /\ g["signature"] = JsonOf("signature", At(p, "signature"))
    BY <1>9, <1>12 DEF IsMessage
  <2>2. PICK x \in p : x[1] = <<"signature">> /\ At(p, "signature") = x[2]
    BY <2>1, AtIs
  <2>3. x = <<<<"signature">>, WriteField(m, "signature")>>
    <3>1. ASSUME x = <<<<"type">>, Text(m.type)>> PROVE FALSE
      BY <2>2, <3>1
    <3>2. ASSUME NEW f, x = <<<<f>>, WriteField(m, f)>> PROVE f = "signature"
      BY <2>2, <3>2
    <3> QED
      BY <1>10, <3>1, <3>2
  <2>4. PICK v : v = m.f["signature"][1].v
    OBVIOUS
  <2>5. x[2] = Word("bytes", v)
    BY <2>3, <2>4 DEF WriteField, HexFields
  <2>6. x[2][1].v = v
    BY <2>5 DEF Word, Token
  <2> QED
    BY <2>1, <2>2, <2>4, <2>6 DEF JsonOf, HexFields
<1>13. /\ g = [x \in DOMAIN g |-> g[x]]
       /\ \A f \in Range(FieldsOf[m.type]) : ~IsOptional(m.type, f) => f \in DOMAIN g
  BY <1>9, <1>11 DEF IsMessage
<1>14. decode(Bytes(m)).msg = [type |-> m.type, f |-> g]
  BY <1>2, <1>5, <1>9, <1>11
<1> QED
  BY <1>12, <1>13, <1>14

\* What serde makes of a good item has solid fields.
LEMMA FromGood ==
  ASSUME NEW i, GoodItem(i), ~Failed(FromItem(i))
  PROVE  \E kind \in DOMAIN FieldsOf : \E g :
           /\ FromItem(i).msg = [type |-> kind, f |-> g]
           /\ DOMAIN g \subseteq Range(FieldsOf[kind])
           /\ \A f \in Range(FieldsOf[kind]) : ~IsOptional(kind, f) => f \in DOMAIN g
           /\ \A f \in DOMAIN g \ HexFields : Solid(g[f])
<1>1. /\ i.map
      /\ \E kind \in DOMAIN FieldsOf : \E g :
           FromItem(i).msg = [type |-> kind, f |-> g] /\ IsMessage(g, i.m, kind)
  BY FromItemIs
<1>2. PICK kind \in DOMAIN FieldsOf : \E g : /\ FromItem(i).msg = [type |-> kind, f |-> g]
                                             /\ IsMessage(g, i.m, kind)
  BY <1>1
<1>3. PICK g : FromItem(i).msg = [type |-> kind, f |-> g] /\ IsMessage(g, i.m, kind)
  BY <1>2
<1>4. \A x \in i.m : IsMember(x)
  BY <1>1 DEF GoodItem
<1>5. ASSUME NEW f \in DOMAIN g \ HexFields PROVE Solid(g[f])
  <2>1. <<f>> \in Keys(i.m) /\ g[f] = At(i.m, f)
    BY <1>3 DEF IsMessage, JsonOf
  <2>2. PICK x \in i.m : At(i.m, f) = x[2]
    BY <2>1, AtIs
  <2> QED
    BY <1>4, <2>1, <2>2 DEF IsMember
<1> QED
  BY <1>3, <1>5 DEF IsMessage

-----------------------------------------------------------------------------
(* The tracker against the history of the session.                          *)

\* The tombstones that stand for what was taken out and not for an expiry.
Tombstone(y, i, at) == y.id = i /\ y.how \in {"none", "PayloadDiffers"} /\ y.at = at

PendingIs(t, dec, sp) ==
  /\ \A i \in DOMAIN t.pending : \E d \in dec : d.id = i
  /\ \A d \in dec : (\E n \in DOMAIN sp : sp[n].id = d.id) => d.id \notin DOMAIN t.pending
  /\ \A d \in dec : (\A n \in DOMAIN sp : sp[n].id # d.id) =>
       /\ d.id \in DOMAIN t.pending
       /\ t.pending[d.id] = [json |-> d.json, at |-> d.at]

ConsumedIs(t, sp, now) ==
  /\ \A i \in DOMAIN t.consumed : \E n \in DOMAIN sp : Tombstone(sp[n], i, t.consumed[i])
  /\ \A n \in DOMAIN sp : sp[n].how # "ExpiredReqId" /\ now - sp[n].at <= 2 * Ttl =>
       sp[n].id \in DOMAIN t.consumed /\ t.consumed[sp[n].id] = sp[n].at

IsTracker(t) == t = [pending |-> t.pending, consumed |-> t.consumed]

DecidedIs(dec, term, now) ==
  /\ \A d \in dec : d.id \in term /\ d.at \in Nat /\ d.at <= now
  /\ \A d, e \in dec : d.id = e.id => d = e

Backed(y, dec) ==
  \E d \in dec : /\ d.id = y.id
                 /\ y.how = "none" => d.json = y.json /\ y.at - d.at \in 0 .. Ttl

SpentIs(dec, sp, now) ==
  /\ IsSeq(sp)
  /\ \A n \in DOMAIN sp : /\ sp[n].at \in Nat /\ sp[n].at <= now
                          /\ sp[n].how \in {"none", "PayloadDiffers", "ExpiredReqId"}
                          /\ Backed(sp[n], dec)
  /\ \A n, k \in DOMAIN sp : sp[n].id = sp[k].id => n = k

Tracked(t, dec, sp, term, now) ==
  /\ now \in Nat
  /\ IsTracker(t) /\ PendingIs(t, dec, sp) /\ ConsumedIs(t, sp, now)
  /\ DecidedIs(dec, term, now) /\ SpentIs(dec, sp, now)

\* prune drops tombstones that no longer count, and nothing else.
LEMMA PruneIs ==
  ASSUME NEW t, IsTracker(t)
  PROVE  /\ IsTracker(prune(t)) /\ prune(t).pending = t.pending
         /\ DOMAIN prune(t).consumed = {i \in DOMAIN t.consumed : Remembered(t.consumed[i])}
         /\ \A i \in DOMAIN prune(t).consumed : prune(t).consumed[i] = t.consumed[i]
BY DEF prune, IsTracker

\* prune forgets nothing the history still calls for.
LEMMA PruneTracks ==
  ASSUME NEW t, NEW dec, NEW sp, NEW term, Tracked(t, dec, sp, term, clock)
  PROVE  Tracked(prune(t), dec, sp, term, clock)
<1>1. IsTracker(t) /\ PendingIs(t, dec, sp) /\ ConsumedIs(t, sp, clock)
  BY DEF Tracked
<1>2. PICK c : c = prune(t).consumed
  OBVIOUS
<1>3. /\ DOMAIN c = {i \in DOMAIN t.consumed : Remembered(t.consumed[i])}
      /\ \A i \in DOMAIN c : c[i] = t.consumed[i]
      /\ IsTracker(prune(t)) /\ prune(t).pending = t.pending
  BY <1>1, <1>2, PruneIs
<1>4. PendingIs(prune(t), dec, sp)
  BY <1>1, <1>3 DEF PendingIs
<1>5. ASSUME NEW n \in DOMAIN sp, sp[n].how # "ExpiredReqId", clock - sp[n].at <= 2 * Ttl
      PROVE  sp[n].id \in DOMAIN c /\ c[sp[n].id] = sp[n].at
  <2>1. sp[n].id \in DOMAIN t.consumed /\ t.consumed[sp[n].id] = sp[n].at
    BY <1>1, <1>5 DEF ConsumedIs
  <2>2. Remembered(sp[n].at)
    BY <1>5 DEF Remembered
  <2> QED
    BY <1>3, <2>1, <2>2
<1>6. ConsumedIs(prune(t), sp, clock)
  BY <1>1, <1>2, <1>3, <1>5 DEF ConsumedIs
<1> QED
  BY <1>3, <1>4, <1>6 DEF Tracked

\* An approval of an id that is not terminal yet is recorded, and history and
\* tracker go on together.
LEMMA RecordTracks ==
  ASSUME NEW t, NEW dec, NEW sp, NEW term, Tracked(t, dec, sp, term, clock),
         NEW m, IdOf(m) \notin term
  PROVE  /\ record_approval(t, m).err = "none"
         /\ Tracked(record_approval(t, m).t,
                    dec \cup {[at |-> clock, id |-> IdOf(m), json |-> canonical_binding_json(m)]},
                    sp, term \cup {IdOf(m)}, clock)
<1>1. PICK p, i, j : p = prune(t) /\ i = IdOf(m) /\ j = canonical_binding_json(m)
  OBVIOUS
<1>2. Tracked(p, dec, sp, term, clock)
  BY <1>1, PruneTracks
<1>3. i \notin DOMAIN p.pending
  BY <1>1, <1>2 DEF Tracked, PendingIs, DecidedIs
<1>4. \A n \in DOMAIN sp : sp[n].id # i
  BY <1>1, <1>2 DEF Tracked, SpentIs, Backed, DecidedIs
<1>5. i \notin DOMAIN p.consumed
  BY <1>2, <1>4 DEF Tracked, ConsumedIs, Tombstone
<1>6. PICK e, q : e = [json |-> j, at |-> clock] /\ q = [p EXCEPT !.pending = With(@, i, e)]
  OBVIOUS
<1>7. record_approval(t, m) = [err |-> "none", t |-> q]
  BY <1>1, <1>3, <1>5, <1>6 DEF record_approval
<1>8. PICK d : d = [at |-> clock, id |-> i, json |-> j]
  OBVIOUS
<1>9. IsTracker(q) /\ q.pending = With(p.pending, i, e) /\ q.consumed = p.consumed
  BY <1>2, <1>6 DEF Tracked, IsTracker
<1>10. PICK f : f = With(p.pending, i, e)
  OBVIOUS
<1>11. /\ DOMAIN f = DOMAIN p.pending \cup {i} /\ f[i] = e
       /\ \A k \in DOMAIN p.pending : f[k] = p.pending[k]
  BY <1>3, <1>10 DEF With
<1>12. \A x \in dec : x.id # i
  BY <1>1, <1>2 DEF Tracked, DecidedIs
<1>13. PendingIs(q, dec \cup {d}, sp)
  <2>1. \A k \in DOMAIN f : \E x \in dec \cup {d} : x.id = k
    BY <1>2, <1>8, <1>11 DEF Tracked, PendingIs
  <2>2. ASSUME NEW x \in dec \cup {d}, NEW n \in DOMAIN sp, sp[n].id = x.id
        PROVE  x.id \notin DOMAIN f
    <3>1. x \in dec
      BY <1>4, <1>8, <2>2
    <3> QED
      BY <1>2, <1>11, <1>12, <2>2, <3>1 DEF Tracked, PendingIs
  <2>3. ASSUME NEW x \in dec \cup {d}, \A n \in DOMAIN sp : sp[n].id # x.id
        PROVE  x.id \in DOMAIN f /\ f[x.id] = [json |-> x.json, at |-> x.at]
    <3>1. CASE x = d
      BY <1>6, <1>8, <1>11, <3>1
    <3>2. CASE x \in dec
      BY <1>2, <1>11, <2>3, <3>2 DEF Tracked, PendingIs
    <3> QED
      BY <3>1, <3>2
  <2>4. q.pending = f
    BY <1>9, <1>10
  <2> QED
    BY <2>1, <2>2, <2>3, <2>4 DEF PendingIs
<1>14. ConsumedIs(q, sp, clock)
  BY <1>2, <1>9 DEF Tracked, ConsumedIs
<1>15. DecidedIs(dec \cup {d}, term \cup {i}, clock)
  BY <1>2, <1>8, <1>12 DEF Tracked, DecidedIs
<1>16. SpentIs(dec \cup {d}, sp, clock)
  BY <1>2 DEF Tracked, SpentIs, Backed
<1>17. Tracked(q, dec \cup {d}, sp, term \cup {i}, clock)
  BY <1>2, <1>9, <1>13, <1>14, <1>15, <1>16 DEF Tracked
<1> QED
  BY <1>1, <1>7, <1>8, <1>17

\* What an execute request takes out of the tracker.
Taking == {"none", "PayloadDiffers", "ExpiredReqId"}

Spend(sp, x, err) ==
  IF err \in Taking
  THEN Append(sp, [id |-> IdOf(x), at |-> clock, how |-> err, json |-> to_canonical_string(x)])
  ELSE sp

\* validate_execute keeps the tracker and the history in step, whatever it answers.
LEMMA ExecuteTracks ==
  ASSUME NEW t, NEW dec, NEW sp, NEW term, Tracked(t, dec, sp, term, clock), NEW x, Ttl \in Nat
  PROVE  Tracked(validate_execute(t, x).t, dec, Spend(sp, x, validate_execute(t, x).err), term,
                 clock)
<1>1. PICK p, i, j : p = prune(t) /\ i = IdOf(x) /\ j = to_canonical_string(x)
  OBVIOUS
<1>2. Tracked(p, dec, sp, term, clock)
  BY <1>1, PruneTracks
<1>3. PICK r : r = validate_execute(t, x)
  OBVIOUS
<1>4. CASE i \in DOMAIN p.consumed /\ Remembered(p.consumed[i])
  <2>1. r = [err |-> "ReplayedReqId", t |-> p]
    BY <1>1, <1>3, <1>4 DEF validate_execute
  <2>2. Spend(sp, x, r.err) = sp
    BY <2>1 DEF Spend, Taking
  <2> QED
    BY <1>2, <1>3, <2>1, <2>2
<1>5. CASE /\ ~(i \in DOMAIN p.consumed /\ Remembered(p.consumed[i]))
           /\ i \notin DOMAIN p.pending
  <2>1. r = [err |-> "UnknownReqId", t |-> p]
    BY <1>1, <1>3, <1>5 DEF validate_execute
  <2>2. Spend(sp, x, r.err) = sp
    BY <2>1 DEF Spend, Taking
  <2> QED
    BY <1>2, <1>3, <2>1, <2>2
<1>6. CASE /\ ~(i \in DOMAIN p.consumed /\ Remembered(p.consumed[i]))
           /\ i \in DOMAIN p.pending
  <2>1. PICK e, g : e = p.pending[i] /\ g = [p EXCEPT !.pending = Without(@, i)]
    OBVIOUS
  <2>2. PICK how : how = IF Stale(e.at) THEN "ExpiredReqId"
                         ELSE IF j = e.json THEN "none" ELSE "PayloadDiffers"
    OBVIOUS
  <2>3. PICK q : q = IF Stale(e.at) THEN g ELSE [g EXCEPT !.consumed = With(@, i, clock)]
    OBVIOUS
  <2>4. r = [err |-> how, t |-> q]
    BY <1>1, <1>3, <1>6, <2>1, <2>2, <2>3 DEF validate_execute
  <2>5. PICK y : y = [id |-> i, at |-> clock, how |-> how, json |-> j]
    OBVIOUS
  <2>6. PICK sq : sq = Append(sp, y)
    OBVIOUS
  <2>7. how \in Taking /\ Spend(sp, x, how) = sq
    BY <1>1, <2>2, <2>5, <2>6 DEF Spend, Taking
  <2>8. PICK d \in dec : d.id = i
    BY <1>2, <1>6 DEF Tracked, PendingIs
  <2>9. \A n \in DOMAIN sp : sp[n].id # i
    BY <1>2, <1>6, <2>8 DEF Tracked, PendingIs
  <2>10. e = [json |-> d.json, at |-> d.at] /\ d.at \in Nat /\ d.at <= clock /\ clock \in Nat
    BY <1>2, <2>1, <2>8, <2>9 DEF Tracked, PendingIs, DecidedIs
  <2>11. /\ IsSeq(sq) /\ Len(sp) \in Nat /\ DOMAIN sp = 1 .. Len(sp)
         /\ DOMAIN sq = 1 .. Len(sp) + 1
         /\ \A n \in DOMAIN sp : sq[n] = sp[n]
         /\ sq[Len(sp) + 1] = y
    BY <1>2, <2>6, AppendIs DEF Tracked, SpentIs
  <2>12. PICK last : last = Len(sp) + 1
    OBVIOUS
  <2>13. DOMAIN sq = DOMAIN sp \cup {last} /\ sq[last] = y /\ last \notin DOMAIN sp
    BY <2>11, <2>12
  <2>14. IsTracker(g) /\ g.pending = Without(p.pending, i) /\ g.consumed = p.consumed
    BY <1>2, <2>1 DEF Tracked, IsTracker
  <2>15. /\ IsTracker(q) /\ q.pending = Without(p.pending, i)
         /\ q.consumed = IF Stale(e.at) THEN p.consumed ELSE With(p.consumed, i, clock)
    BY <2>3, <2>14 DEF IsTracker
  <2>16. PendingIs(q, dec, sq)
    <3>1. PICK f : f = Without(p.pending, i)
      OBVIOUS
    <3>2. DOMAIN f = DOMAIN p.pending \ {i} /\ \A k \in DOMAIN f : f[k] = p.pending[k]
      BY <3>1 DEF Without
    <3>3. \A k \in DOMAIN f : \E z \in dec : z.id = k
      BY <1>2, <3>2 DEF Tracked, PendingIs
    <3>4. ASSUME NEW z \in dec, NEW n \in DOMAIN sq, sq[n].id = z.id PROVE z.id \notin DOMAIN f
      BY <1>2, <2>5, <2>11, <2>13, <3>2, <3>4 DEF Tracked, PendingIs
    <3>5. ASSUME NEW z \in dec, \A n \in DOMAIN sq : sq[n].id # z.id
          PROVE  z.id \in DOMAIN f /\ f[z.id] = [json |-> z.json, at |-> z.at]
      <4>1. z.id # i
        BY <2>5, <2>13, <3>5
      <4>2. \A n \in DOMAIN sp : sp[n].id # z.id
        BY <2>11, <2>13, <3>5
      <4>3. z.id \in DOMAIN p.pending /\ p.pending[z.id] = [json |-> z.json, at |-> z.at]
        BY <1>2, <4>2 DEF Tracked, PendingIs
      <4> QED
        BY <3>2, <4>1, <4>3
    <3>6. q.pending = f
      BY <2>15, <3>1
    <3> QED
      BY <3>3, <3>4, <3>5, <3>6 DEF PendingIs
  <2>17. ConsumedIs(q, sq, clock)
    <3>1. i \notin DOMAIN p.consumed
      BY <1>2, <2>9 DEF Tracked, ConsumedIs, Tombstone
    <3>2. ASSUME NEW k \in DOMAIN p.consumed
          PROVE  \E n \in DOMAIN sq : Tombstone(sq[n], k, p.consumed[k])
      <4>1. PICK n \in DOMAIN sp : Tombstone(sp[n], k, p.consumed[k])
        BY <1>2 DEF Tracked, ConsumedIs
      <4> QED
        BY <2>11, <2>13, <4>1
    <3>3. ASSUME NEW n \in DOMAIN sp, sq[n].how # "ExpiredReqId", clock - sq[n].at <= 2 * Ttl
          PROVE  sq[n].id \in DOMAIN p.consumed /\ p.consumed[sq[n].id] = sq[n].at /\ sq[n].id # i
      BY <1>2, <2>9, <2>11, <3>3 DEF Tracked, ConsumedIs
    <3>4. CASE Stale(e.at)
      <4>1. q.consumed = p.consumed /\ y.how = "ExpiredReqId"
        BY <2>2, <2>5, <2>15, <3>4
      <4>2. \A n \in DOMAIN sq : sq[n].how # "ExpiredReqId" => n \in DOMAIN sp
        BY <2>13, <4>1
      <4> QED
        BY <3>2, <3>3, <4>1, <4>2 DEF ConsumedIs
    <3>5. CASE ~Stale(e.at)
      <4>1. PICK c : c = With(p.consumed, i, clock)
        OBVIOUS
      <4>2. q.consumed = c /\ y.how \in {"none", "PayloadDiffers"}
        BY <2>2, <2>5, <2>15, <3>5, <4>1
      <4>3. /\ DOMAIN c = DOMAIN p.consumed \cup {i} /\ c[i] = clock
            /\ \A k \in DOMAIN p.consumed : c[k] = p.consumed[k]
        BY <3>1, <4>1 DEF With
      <4>4. ASSUME NEW k \in DOMAIN c PROVE \E n \in DOMAIN sq : Tombstone(sq[n], k, c[k])
        <5>1. CASE k = i
          <6>1. Tombstone(y, i, clock)
            BY <2>5, <4>2 DEF Tombstone
          <6> QED
            BY <2>13, <4>3, <5>1, <6>1
        <5>2. CASE k \in DOMAIN p.consumed
          BY <3>2, <4>3, <5>2
        <5> QED
          BY <4>3, <5>1, <5>2
      <4>5. ASSUME NEW n \in DOMAIN sq, sq[n].how # "ExpiredReqId", clock - sq[n].at <= 2 * Ttl
            PROVE  sq[n].id \in DOMAIN c /\ c[sq[n].id] = sq[n].at
        <5>1. CASE n \in DOMAIN sp
          BY <3>3, <4>3, <4>5, <5>1
        <5>2. CASE n = last
          BY <2>5, <2>13, <4>3, <5>2
        <5> QED
          BY <2>13, <5>1, <5>2
      <4> QED
        BY <4>2, <4>4, <4>5 DEF ConsumedIs
    <3> QED
      BY <3>4, <3>5
  <2>18. SpentIs(dec, sq, clock)
    <3>1. Backed(y, dec)
      <4>1. y.how = "none" => d.json = y.json /\ y.at - d.at \in 0 .. Ttl
        BY <2>2, <2>5, <2>10 DEF Stale
      <4> QED
        BY <2>5, <2>8, <4>1 DEF Backed
    <3>2. ASSUME NEW n \in DOMAIN sq
          PROVE  /\ sq[n].at \in Nat /\ sq[n].at <= clock
                 /\ sq[n].how \in {"none", "PayloadDiffers", "ExpiredReqId"}
                 /\ Backed(sq[n], dec)
      <4>1. CASE n \in DOMAIN sp
        BY <1>2, <2>11, <4>1 DEF Tracked, SpentIs
      <4>2. CASE n = last
        BY <2>5, <2>7, <2>10, <2>13, <3>1, <4>2 DEF Taking
      <4> QED
        BY <2>13, <4>1, <4>2
    <3>3. ASSUME NEW n \in DOMAIN sq, NEW k \in DOMAIN sq, sq[n].id = sq[k].id PROVE n = k
      BY <1>2, <2>5, <2>9, <2>11, <2>13, <3>3 DEF Tracked, SpentIs
    <3> QED
      BY <2>11, <3>2, <3>3 DEF SpentIs
  <2>19. Tracked(q, dec, sq, term, clock)
    BY <1>2, <2>15, <2>16, <2>17, <2>18 DEF Tracked
  <2> QED
    BY <1>3, <2>4, <2>7, <2>19
<1> QED
  BY <1>4, <1>5, <1>6

-----------------------------------------------------------------------------

IsProto(p) == p = [scope |-> p.scope, live |-> p.live, rules |-> p.rules, received |-> p.received,
                   terminal |-> p.terminal, tracker |-> p.tracker]

\* The inductive invariant of the binding.
Bound == IsProto(proto) /\ Tracked(proto.tracker, decided, spent, proto.terminal, clock)

\* A new session has an empty tracker and an empty history.
LEMMA FreshTracks ==
  ASSUME NEW now \in Nat
  PROVE  IsProto(NoProtocol) /\ Tracked(NoProtocol.tracker, {}, <<>>, NoProtocol.terminal, now)
<1>1. PICK t : t = NoProtocol.tracker
  OBVIOUS
<1>2. t = [pending |-> NoEntries, consumed |-> NoEntries] /\ NoProtocol.terminal = {}
  BY <1>1 DEF NoProtocol
<1>3. IsProto(NoProtocol)
  BY DEF IsProto, NoProtocol
<1>4. IsTracker(t) /\ DOMAIN t.pending = {} /\ DOMAIN t.consumed = {}
  BY <1>2 DEF IsTracker, NoEntries
<1>5. PendingIs(t, {}, <<>>)
  BY <1>4 DEF PendingIs
<1>6. ConsumedIs(t, <<>>, now)
  BY <1>4, EmptyIs DEF ConsumedIs
<1>7. DecidedIs({}, NoProtocol.terminal, now) /\ SpentIs({}, <<>>, now)
  BY EmptyIs DEF DecidedIs, SpentIs
<1> QED
  BY <1>1, <1>3, <1>4, <1>5, <1>6, <1>7 DEF Tracked

\* The tracker and the history agree at first.
LEMMA BoundInit == Init => Bound
<1> SUFFICES ASSUME Init PROVE Bound
  OBVIOUS
<1>1. proto = NoProtocol /\ decided = {} /\ spent = <<>> /\ clock = 0
  BY DEF Init
<1> QED
  BY <1>1, FreshTracks DEF Bound

\* Time passing.
LEMMA LaterTracks ==
  ASSUME NEW t, NEW dec, NEW sp, NEW term, NEW now, Tracked(t, dec, sp, term, now)
  PROVE  Tracked(t, dec, sp, term, now + 1)
<1>1. now \in Nat /\ now + 1 \in Nat
  BY DEF Tracked
<1>2. ConsumedIs(t, sp, now + 1)
  <2>1. ASSUME NEW n \in DOMAIN sp, (now + 1) - sp[n].at <= 2 * Ttl PROVE now - sp[n].at <= 2 * Ttl
    <3>1. PICK a \in Nat : a = sp[n].at
      BY DEF Tracked, SpentIs
    <3>2. 2 * Ttl \in Nat
      BY ProtocolAssumption
    <3> QED
      BY <1>1, <2>1, <3>1, <3>2
  <2> QED
    BY <2>1 DEF Tracked, ConsumedIs
<1>3. DecidedIs(dec, term, now + 1)
  BY <1>1 DEF Tracked, DecidedIs
<1>4. SpentIs(dec, sp, now + 1)
  BY <1>1 DEF Tracked, SpentIs
<1> QED
  BY <1>1, <1>2, <1>3, <1>4 DEF Tracked

\* Every step keeps the tracker and the history of the session in agreement.
LEMMA BoundNext == Bound /\ [Next]_vars => Bound'
<1> SUFFICES ASSUME Bound, [Next]_vars PROVE Bound'
  OBVIOUS
<1>1. IsProto(proto) /\ Tracked(proto.tracker, decided, spent, proto.terminal, clock)
  BY DEF Bound
<1>2. CASE UNCHANGED vars
  BY <1>1, <1>2 DEF vars, Bound
<1>3. CASE Tick
  BY <1>1, <1>3, LaterTracks DEF Tick, Bound, history
<1>4. ASSUME NEW rules \in Policies, NewProtocol(rules) PROVE Bound'
  <2>1. CASE validate(rules)
    <3>1. proto' = [NoProtocol EXCEPT !.scope = proto.scope + 1, !.live = TRUE, !.rules = rules]
      BY <1>4, <2>1 DEF NewProtocol
    <3>2. /\ proto'.tracker = NoProtocol.tracker /\ proto'.terminal = NoProtocol.terminal
          /\ IsProto(proto')
      BY <3>1 DEF NoProtocol, IsProto
    <3>3. decided' = {} /\ spent' = <<>> /\ clock' = clock /\ clock \in Nat
      BY <1>1, <1>4, <2>1 DEF NewProtocol, Tracked
    <3> QED
      BY <3>2, <3>3, FreshTracks DEF Bound
  <2>2. CASE ~validate(rules)
    BY <1>1, <1>4, <2>2 DEF NewProtocol, Bound
  <2> QED
    BY <2>1, <2>2
<1>5. ASSUME NEW d \in Inbound, NEW recent \in Histories, OnRequest(d, recent) PROVE Bound'
  <2>1. /\ proto' = [proto EXCEPT !.received = @ \cup {IdOf(d.msg)}]
        /\ UNCHANGED <<decided, spent, clock>>
    BY <1>5 DEF OnRequest, history
  <2>2. IsProto(proto') /\ proto'.tracker = proto.tracker /\ proto'.terminal = proto.terminal
    BY <1>1, <2>1 DEF IsProto
  <2> QED
    BY <1>1, <2>1, <2>2 DEF Bound
<1>6. ASSUME NEW d \in Inbound, OnPing(d) \/ OnListServices(d) PROVE Bound'
  BY <1>1, <1>6 DEF OnPing, OnListServices, history, Bound
<1>7. ASSUME NEW d \in Inbound, OnLastMessage(d) PROVE Bound'
  <2>1. proto' = [proto EXCEPT !.live = FALSE] /\ UNCHANGED <<decided, spent, clock>>
    BY <1>7 DEF OnLastMessage, history
  <2>2. IsProto(proto') /\ proto'.tracker = proto.tracker /\ proto'.terminal = proto.terminal
    BY <1>1, <2>1 DEF IsProto
  <2> QED
    BY <1>1, <2>1, <2>2 DEF Bound
<1>8. ASSUME NEW d \in Inbound, validate_execute_binding(d) PROVE Bound'
  <2>1. clock' = clock /\ decided' = decided
    BY <1>8 DEF validate_execute_binding
  <2>2. CASE Failed(d) \/ d.msg.type # "execute_request" \/ ~Routine(d.msg)
    BY <1>1, <1>8, <2>1, <2>2 DEF validate_execute_binding, Bound
  <2>3. CASE ~(Failed(d) \/ d.msg.type # "execute_request" \/ ~Routine(d.msg))
    <3>1. PICK r : r = validate_execute(proto.tracker, d.msg)
      OBVIOUS
    <3>2. /\ proto' = [proto EXCEPT !.tracker = r.t]
          /\ spent' = Spend(spent, d.msg, r.err)
      BY <1>8, <2>3, <3>1 DEF validate_execute_binding, Spend, Taking
    <3>3. IsProto(proto') /\ proto'.tracker = r.t /\ proto'.terminal = proto.terminal
      BY <1>1, <3>2 DEF IsProto
    <3>4. Tracked(r.t, decided, Spend(spent, d.msg, r.err), proto.terminal, clock)
      BY <1>1, <3>1, ExecuteTracks, ProtocolAssumption
    <3> QED
      BY <2>1, <3>2, <3>3, <3>4 DEF Bound
  <2> QED
    BY <2>2, <2>3
<1>9. ASSUME NEW b \in Wire, MockServes(b) PROVE Bound'
  BY <1>1, <1>9 DEF MockServes, Bound
<1>10. ASSUME NEW h \in handles, NEW decision \in Decisions, NEW ground \in Grounds,
              signed_response(h, decision, ground)
       PROVE  Bound'
  <2>1. clock' = clock /\ spent' = spent
    BY <1>10 DEF signed_response
  <2>2. CASE UNCHANGED <<proto, decided>>
    BY <1>1, <2>1, <2>2 DEF Bound
  <2>3. CASE ~UNCHANGED <<proto, decided>>
    <3>1. PICK i : i = IdOf(h.m)
      OBVIOUS
    <3>2. PICK rec : rec = IF decision = "approved" THEN record_approval(proto.tracker, h.m)
                           ELSE [err |-> "none", t |-> proto.tracker]
      OBVIOUS
    <3>3. PICK d : d = [at |-> clock, id |-> i, json |-> canonical_binding_json(h.m)]
      OBVIOUS
    <3>4. /\ i \notin proto.terminal
          /\ proto' = [proto EXCEPT !.terminal = @ \cup {i}, !.tracker = rec.t]
          /\ decided' = IF decision = "approved" /\ ~Failed(rec) THEN decided \cup {d} ELSE decided
      BY <1>10, <2>3, <3>1, <3>2, <3>3 DEF signed_response
    <3>5. IsProto(proto') /\ proto'.tracker = rec.t /\ proto'.terminal = proto.terminal \cup {i}
      BY <1>1, <3>4 DEF IsProto
    <3>6. CASE decision = "approved"
      <4>1. /\ rec.err = "none"
            /\ Tracked(rec.t, decided \cup {d}, spent, proto.terminal \cup {i}, clock)
        BY <1>1, <3>1, <3>2, <3>3, <3>4, <3>6, RecordTracks
      <4>2. decided' = decided \cup {d}
        BY <3>4, <3>6, <4>1 DEF Failed
      <4> QED
        BY <2>1, <3>5, <4>1, <4>2 DEF Bound
    <3>7. CASE decision # "approved"
      <4>1. rec.t = proto.tracker /\ decided' = decided
        BY <3>2, <3>4, <3>7
      <4>2. Tracked(proto.tracker, decided, spent, proto.terminal \cup {i}, clock)
        BY <1>1 DEF Tracked, DecidedIs
      <4> QED
        BY <2>1, <3>5, <4>1, <4>2 DEF Bound
    <3> QED
      BY <3>6, <3>7
  <2> QED
    BY <2>2, <2>3
<1>11. CASE Hear
  BY <1>1, <1>11 DEF Hear, Bound
<1> QED
  BY <1>2, <1>3, <1>4, <1>5, <1>6, <1>7, <1>8, <1>9, <1>10, <1>11 DEF Next

\* Nothing passes the phone's binding check that was not approved: for every set
\* of byte strings the peer may send, every time to live and every order of
\* messages, decisions and ticks, an execute request that validate_execute lets
\* through repeats, within the time to live, the canonical JSON of an approval of
\* the same session, and does so once.
THEOREM BindingHolds == Spec => []ExecutesOnlyWhatWasApproved
<1>1. Bound => ExecutesOnlyWhatWasApproved
  <2> SUFFICES ASSUME Bound PROVE ExecutesOnlyWhatWasApproved
    OBVIOUS
  <2>1. SpentIs(decided, spent, clock)
    BY DEF Bound, Tracked
  <2>2. ASSUME NEW n \in DOMAIN spent, spent[n].how = "none"
        PROVE  \E d \in decided : /\ d.id = spent[n].id /\ d.json = spent[n].json
                                  /\ spent[n].at - d.at \in 0 .. Ttl
    BY <2>1, <2>2 DEF SpentIs, Backed
  <2>3. \A n, k \in DOMAIN spent : spent[n].id = spent[k].id => n = k
    BY <2>1 DEF SpentIs
  <2> QED
    BY <2>2, <2>3 DEF ExecutesOnlyWhatWasApproved
<1> QED
  BY <1>1, BoundInit, BoundNext, PTL DEF Spec

\* The two windows of the tracker leave no gap: at every instant the cause that
\* validate_execute gives for an id that was approved is the one the history of
\* the session calls for.
THEOREM WindowsLeaveNoGap == Spec => []WindowsMeet
<1>1. Bound => WindowsMeet
  <2> SUFFICES ASSUME Bound, NEW d \in decided, NEW x \in Executes, d.id = IdOf(x)
               PROVE  validate_execute(proto.tracker, x).err = Verdict(d, x)
    BY DEF WindowsMeet
  <2>1. PICK p, i : p = prune(proto.tracker) /\ i = IdOf(x)
    OBVIOUS
  <2>2. Tracked(p, decided, spent, proto.terminal, clock) /\ IsTracker(proto.tracker)
    BY <2>1, PruneTracks DEF Bound, Tracked
  <2>3. PICK took : took = {y \in Range(spent) : y.id = d.id}
    OBVIOUS
  <2>4. Range(spent) = {spent[n] : n \in DOMAIN spent}
    BY DEF Range
  <2>5. PICK r : r = validate_execute(proto.tracker, x)
    OBVIOUS
  <2>6. \A k \in DOMAIN p.consumed : Remembered(p.consumed[k])
    BY <2>1, <2>2, PruneIs
  <2>7. CASE took = {}
    <3>1. \A n \in DOMAIN spent : spent[n].id # i
      BY <2>1, <2>3, <2>4, <2>7
    <3>2. i \in DOMAIN p.pending /\ p.pending[i] = [json |-> d.json, at |-> d.at]
      BY <2>1, <2>2, <3>1 DEF Tracked, PendingIs
    <3>3. i \notin DOMAIN p.consumed
      BY <2>2, <3>1 DEF Tracked, ConsumedIs, Tombstone
    <3>4. r.err = IF Stale(d.at) THEN "ExpiredReqId"
                  ELSE IF to_canonical_string(x) = d.json THEN "none" ELSE "PayloadDiffers"
      BY <2>1, <2>5, <3>2, <3>3 DEF validate_execute
    <3> QED
      BY <2>3, <2>5, <2>7, <3>4 DEF Verdict, Stale
  <2>8. CASE took # {}
    <3>1. PICK n \in DOMAIN spent : spent[n].id = i
      BY <2>1, <2>3, <2>4, <2>8
    <3>2. i \notin DOMAIN p.pending
      BY <2>1, <2>2, <3>1 DEF Tracked, PendingIs
    <3>3. PICK y : y = spent[n]
      OBVIOUS
    <3>4. took = {y}
      BY <2>1, <2>2, <2>3, <2>4, <3>1, <3>3 DEF Tracked, SpentIs
    <3>5. CASE y.how # "ExpiredReqId" /\ clock - y.at <= 2 * Ttl
      <4>1. i \in DOMAIN p.consumed
        BY <2>2, <3>1, <3>3, <3>5 DEF Tracked, ConsumedIs
      <4>2. r.err = "ReplayedReqId"
        BY <2>1, <2>5, <2>6, <4>1 DEF validate_execute
      <4> QED
        BY <2>3, <2>5, <3>4, <3>5, <4>2 DEF Verdict
    <3>6. CASE ~(y.how # "ExpiredReqId" /\ clock - y.at <= 2 * Ttl)
      <4>1. i \notin DOMAIN p.consumed
        <5> SUFFICES ASSUME i \in DOMAIN p.consumed PROVE FALSE
          OBVIOUS
        <5>1. PICK k \in DOMAIN spent : Tombstone(spent[k], i, p.consumed[i])
          BY <2>2 DEF Tracked, ConsumedIs
        <5>2. k = n
          BY <2>2, <3>1, <5>1 DEF Tracked, SpentIs, Tombstone
        <5>3. Remembered(p.consumed[i])
          BY <2>6
        <5> QED
          BY <3>3, <3>6, <5>1, <5>2, <5>3 DEF Tombstone, Remembered
      <4>2. r.err = "UnknownReqId"
        BY <2>1, <2>5, <3>2, <4>1 DEF validate_execute
      <4> QED
        BY <2>3, <2>5, <3>4, <3>6, <4>2 DEF Verdict
    <3> QED
      BY <3>5, <3>6
  <2> QED
    BY <2>7, <2>8
<1> QED
  BY <1>1, BoundInit, BoundNext, PTL DEF Spec

-----------------------------------------------------------------------------
(* What is on the link, and who signed it.                                  *)

\* A message before it is signed.
IsDraft(u) ==
  /\ u = [type |-> u.type, f |-> u.f] /\ u.f = [x \in DOMAIN u.f |-> u.f[x]]
  /\ "signature" \in DOMAIN u.f /\ u.f["signature"] = Unsigned

\* A message that may be sent: read whole, and signed if its kind is.
Written(m, S) ==
  /\ SolidFields(m)
  /\ m.type \in SignedKinds =>
       \E key, u : <<key, u>> \in S /\ IsDraft(u) /\ m = Signed(key, u)

OutFrom(o, S) == o.bytes = <<>> \/ \E m : Written(m, S) /\ o.bytes = Bytes(m)

\* The inductive invariant: HeardIsSigned, and where the bytes on the link are from.
Genuine == OutFrom(out, signed) /\ HeardIsSigned

\* Nothing is sent with an error or a quiet answer.
LEMMA NothingSent ==
  ASSUME NEW x, NEW S
  PROVE  OutFrom(Error(x), S) /\ OutFrom(Quiet, S)
BY DEF OutFrom, Error, Quiet, Sent

\* encode sends the bytes of the message or nothing.
LEMMA EncodeFrom ==
  ASSUME NEW m, NEW S, Written(m, S)
  PROVE  OutFrom(encode(m), S)
<1>1. PICK b : b = Bytes(m)
  OBVIOUS
<1>2. encode(m).bytes = <<>> \/ encode(m).bytes = b
  BY <1>1 DEF encode, Sized, Sent
<1> QED
  BY <1>1, <1>2 DEF OutFrom

\* More may be signed meanwhile.
LEMMA OutLater ==
  ASSUME NEW o, NEW S, NEW T, S \subseteq T, OutFrom(o, S)
  PROVE  OutFrom(o, T)
<1>1. \A m : Written(m, S) => Written(m, T)
  BY DEF Written
<1> QED
  BY <1>1 DEF OutFrom

\* Signing changes the signature alone.
LEMMA SignedOf ==
  ASSUME NEW key, NEW u, IsDraft(u)
  PROVE  /\ Signed(key, u).type = u.type
         /\ DOMAIN Signed(key, u).f = DOMAIN u.f
         /\ \A x \in DOMAIN u.f \ {"signature"} : Signed(key, u).f[x] = u.f[x]
         /\ Signed(key, u).f["signature"] = Sign(key, signing_payload(u))
<1>1. PICK kind, g, sig : kind = u.type /\ g = u.f /\ sig = Sign(key, signing_payload(u))
  OBVIOUS
<1>2. /\ u = [type |-> kind, f |-> g] /\ g = [x \in DOMAIN g |-> g[x]]
      /\ "signature" \in DOMAIN g
  BY <1>1 DEF IsDraft
<1>3. PICK h : h = [g EXCEPT !["signature"] = sig]
  OBVIOUS
<1>4. Signed(key, u) = [type |-> kind, f |-> h]
  <2>1. Signed(key, u) = [u EXCEPT !.f["signature"] = sig]
    BY <1>1 DEF Signed
  <2>2. u = [type |-> kind, f |-> g]
    BY <1>2
  <2> QED
    BY ONLY <1>3, <2>1, <2>2
<1>5. DOMAIN h = DOMAIN g /\ h["signature"] = sig /\ \A x \in DOMAIN g \ {"signature"} : h[x] = g[x]
  BY <1>2, <1>3
<1> QED
  BY <1>1, <1>4, <1>5

\* A signed draft may be sent.
LEMMA SignedWritten ==
  ASSUME NEW key, NEW u, NEW S, IsDraft(u), SolidFields(u), <<key, u>> \in S
  PROVE  Written(Signed(key, u), S)
<1>1. PICK m : m = Signed(key, u)
  OBVIOUS
<1>2. /\ m.type = u.type /\ DOMAIN m.f = DOMAIN u.f
      /\ \A x \in DOMAIN u.f \ {"signature"} : m.f[x] = u.f[x]
  BY <1>1, SignedOf
<1>3. SolidFields(m)
  BY <1>2 DEF SolidFields, HexFields
<1> QED
  BY <1>1, <1>3 DEF Written

\* A message of a kind that nobody signs may be sent as it is.
LEMMA PlainWritten ==
  ASSUME NEW m, NEW S, SolidFields(m), m.type \notin SignedKinds
  PROVE  Written(m, S)
BY DEF Written

\* The phone's own words.
LEMMA OwnWords ==
  /\ \A x : Solid(Text(x)) /\ Solid(Word("int", x))
  /\ Solid(Now) /\ Solid(Services(<<"github">>)) /\ Solid(Services(<<"github", "aws">>))
<1>1. \A x : Solid(Text(x)) /\ Solid(Word("int", x))
  BY SolidWord DEF Text, Scalars
<1>2. Solid(Now)
  BY <1>1 DEF Now
<1>3. ASSUME NEW names, NEW n \in Nat, DOMAIN names = 1 .. n PROVE Solid(Services(names))
  <2>1. PICK e : e = [k \in DOMAIN names |-> Text(names[k])]
    OBVIOUS
  <2>2. e = [k \in 1 .. n |-> e[k]] /\ \A k \in 1 .. n : Solid(e[k])
    BY <1>1, <1>3, <2>1
  <2>3. IsSeq(e) /\ Len(e) = n
    BY <2>2, FunIs
  <2>4. Solid(ArrayOf(e))
    BY <2>2, <2>3, SolidArray
  <2> QED
    BY <2>1, <2>4 DEF Services
<1>4. DOMAIN <<"github">> = 1 .. 1 /\ DOMAIN <<"github", "aws">> = 1 .. 2 /\ 1 \in Nat /\ 2 \in Nat
  OBVIOUS
<1> QED
  BY <1>1, <1>2, <1>3, <1>4

\* The control answers of the phone.
LEMMA ControlFrom ==
  ASSUME NEW m, NEW S
  PROVE  OutFrom(encode_pong(m), S) /\ OutFrom(encode_list_services_response(m), S)
<1>1. PICK p : p = [type |-> "pong", f |-> [req_id |-> m.f["req_id"], timestamp |-> Now]]
  OBVIOUS
<1>2. PICK l : l = [type |-> "list_services_response",
                    f |-> [req_id |-> m.f["req_id"], services |-> Services(<<"github">>)]]
  OBVIOUS
<1>3. SolidFields(p) /\ p.type \notin SignedKinds
  <2>1. p.type = "pong" /\ p.type \in DOMAIN FieldsOf
    BY <1>1 DEF FieldsOf
  <2>2. DOMAIN p.f = {"req_id", "timestamp"} /\ p.f["timestamp"] = Now
    BY <1>1
  <2> QED
    BY <2>1, <2>2, OwnWords DEF SolidFields, HexFields, SignedKinds
<1>4. SolidFields(l) /\ l.type \notin SignedKinds
  <2>1. l.type = "list_services_response" /\ l.type \in DOMAIN FieldsOf
    BY <1>2 DEF FieldsOf
  <2>2. DOMAIN l.f = {"req_id", "services"} /\ l.f["services"] = Services(<<"github">>)
    BY <1>2
  <2> QED
    BY <2>1, <2>2, OwnWords DEF SolidFields, HexFields, SignedKinds
<1>5. OutFrom(encode(p), S) /\ OutFrom(encode(l), S)
  BY <1>3, <1>4, PlainWritten, EncodeFrom
<1> QED
  BY <1>1, <1>2, <1>5 DEF encode_pong, encode_list_services_response

\* An answer of the scripted phone, before it is signed.
IsAnswer(a) ==
  /\ SolidFields(a) /\ ("signature" \in DOMAIN a.f <=> a.type \in SignedKinds)
  /\ a.type \in SignedKinds => IsDraft(a)

\* The answers of the scripted phone.
LEMMA MockAnswers ==
  ASSUME NEW kind \in {"approval_request", "execute_request", "ping", "list_services_request"},
         NEW g, DOMAIN g \subseteq Range(FieldsOf[kind]),
         \A f \in Range(FieldsOf[kind]) : ~IsOptional(kind, f) => f \in DOMAIN g,
         \A f \in DOMAIN g \ HexFields : Solid(g[f]),
         NEW m, m = [type |-> kind, f |-> g]
  PROVE  IsAnswer(MockAnswer(m))
<1>1. PICK a, i : a = MockAnswer(m) /\ i = g["req_id"]
  OBVIOUS
<1>2. m.type = kind /\ m.f = g
  OBVIOUS
<1>3. CASE kind = "approval_request"
  <2>1. PICK h : h = [req_id |-> i, decision |-> Text("approved"), signature |-> Unsigned]
    OBVIOUS
  <2>2. a = [type |-> "approval_response", f |-> h]
    BY <1>1, <1>2, <1>3, <2>1 DEF MockAnswer
  <2>3. a.type = "approval_response" /\ a.f = h
    BY <2>2
  <2>4. DOMAIN h = {"req_id", "decision", "signature"} /\ h["decision"] = Text("approved")
        /\ h["signature"] = Unsigned /\ h = [x \in DOMAIN h |-> h[x]]
    BY <2>1
  <2>5. SolidFields(a)
    BY <2>3, <2>4, OwnWords DEF SolidFields, FieldsOf, HexFields
  <2>6. IsDraft(a)
    BY <2>2, <2>3, <2>4 DEF IsDraft
  <2> QED
    BY <1>1, <2>3, <2>4, <2>5, <2>6 DEF IsAnswer, SignedKinds
<1>4. CASE kind = "execute_request"
  <2>0. PICK p, body : p = g["params"] /\ body = MapOf({<<<<"echo">>, p>>})
    OBVIOUS
  <2>1. PICK h : h = [req_id |-> i, status |-> Text("ok"), executed_at |-> Now,
                      http_status |-> Word("int", <<"200">>), body |-> body,
                      signature |-> Unsigned]
    OBVIOUS
  <2>2. a = [type |-> "execute_response", f |-> h]
    BY <1>1, <1>2, <1>4, <2>0, <2>1 DEF MockAnswer
  <2>3. a.type = "execute_response" /\ a.f = h
    BY <2>2
  <2>4. /\ DOMAIN h = {"req_id", "status", "executed_at", "http_status", "body", "signature"}
        /\ h["status"] = Text("ok") /\ h["executed_at"] = Now
        /\ h["http_status"] = Word("int", <<"200">>) /\ h["body"] = body
        /\ h["signature"] = Unsigned /\ h = [x \in DOMAIN h |-> h[x]]
    BY <2>1
  <2>5. Solid(p)
    <3>1. "params" \in Range(FieldsOf[kind])
      <4>1. FieldsOf[kind] = RequestFields
        BY <1>4 DEF FieldsOf
      <4>2. 6 \in DOMAIN RequestFields /\ RequestFields[6] = "params"
        BY DEF RequestFields
      <4> QED
        BY <4>1, <4>2 DEF Range
    <3>2. ~IsOptional(kind, "params")
      BY DEF IsOptional
    <3> QED
      BY <2>0, <3>1, <3>2 DEF HexFields
  <2>6. Solid(body)
    <3>1. PICK x : x = <<<<"echo">>, p>>
      OBVIOUS
    <3>2. IsMember(x)
      BY <2>5, <3>1, MemberOf
    <3>3. IsFiniteSet({x})
      BY FS_Singleton
    <3> QED
      BY <2>0, <3>1, <3>2, <3>3, SolidMap
  <2>7. SolidFields(a)
    BY <2>3, <2>4, <2>6, OwnWords DEF SolidFields, FieldsOf, HexFields
  <2>8. IsDraft(a)
    BY <2>2, <2>3, <2>4 DEF IsDraft
  <2> QED
    BY <1>1, <2>3, <2>4, <2>7, <2>8 DEF IsAnswer, SignedKinds
<1>5. CASE kind = "ping"
  <2>1. a = [type |-> "pong", f |-> g]
    BY <1>1, <1>2, <1>5 DEF MockAnswer
  <2>2. a.type = "pong" /\ a.f = g
    BY <2>1
  <2>3. "signature" \notin DOMAIN g
    <3>1. FieldsOf[kind] = <<"req_id", "timestamp">>
      BY <1>5 DEF FieldsOf
    <3>2. Range(FieldsOf[kind]) = {"req_id", "timestamp"}
      BY <3>1 DEF Range
    <3> QED
      BY <3>2
  <2>4. SolidFields(a)
    BY <2>2 DEF SolidFields, FieldsOf
  <2> QED
    BY <1>1, <2>2, <2>3, <2>4 DEF IsAnswer, SignedKinds
<1>6. CASE kind = "list_services_request"
  <2>1. PICK s, h : s = Services(<<"github", "aws">>) /\ h = [req_id |-> i, services |-> s]
    OBVIOUS
  <2>2. a = [type |-> "list_services_response", f |-> h]
    BY <1>1, <1>2, <1>6, <2>1 DEF MockAnswer
  <2>3. a.type = "list_services_response" /\ a.f = h
    BY <2>2
  <2>4. DOMAIN h = {"req_id", "services"} /\ h["services"] = s
    BY <2>1
  <2>5. SolidFields(a)
    BY <2>1, <2>3, <2>4, OwnWords DEF SolidFields, FieldsOf, HexFields
  <2> QED
    BY <1>1, <2>3, <2>4, <2>5 DEF IsAnswer, SignedKinds
<1> QED
  BY <1>3, <1>4, <1>5, <1>6

\* What the scripted phone reads has solid fields.
LEMMA MockReads ==
  ASSUME NEW b \in Wire, ~Failed(First(b)), ~Failed(FromItem(First(b).item))
  PROVE  \E kind \in DOMAIN FieldsOf : \E g :
           /\ FromItem(First(b).item).msg = [type |-> kind, f |-> g]
           /\ DOMAIN g \subseteq Range(FieldsOf[kind])
           /\ \A f \in Range(FieldsOf[kind]) : ~IsOptional(kind, f) => f \in DOMAIN g
           /\ \A f \in DOMAIN g \ HexFields : Solid(g[f])
<1>1. IsSeq(b)
  BY ProtocolAssumption DEF IsSeq
<1>2. 1 \in 1 .. Len(b) + 1 /\ MaxDepth + 1 \in 0 .. MaxDepth + 1
  BY <1>1, SeqIs, LimitsAssumption
<1>3. GoodRead(First(b), b)
  BY <1>1, <1>2, ScanGood DEF First
<1>4. GoodItem(First(b).item)
  BY <1>3 DEF GoodRead
<1> QED
  BY <1>4, FromGood

\* Whatever else is altered, the kind and the signature are not.
LEMMA AlteredKeeps ==
  ASSUME NEW kind, NEW g, g = [x \in DOMAIN g |-> g[x]], "signature" \in DOMAIN g,
         NEW n \in Altered([type |-> kind, f |-> g])
  PROVE  \E h : /\ n = [type |-> kind, f |-> h] /\ h = [x \in DOMAIN h |-> h[x]]
                /\ "signature" \in DOMAIN h /\ h["signature"] = g["signature"]
<1>1. PICK m : m = [type |-> kind, f |-> g] /\ m.f = g /\ m.type = kind
  OBVIOUS
<1>2. CASE n = m
  BY <1>1, <1>2
<1>3. CASE n # m
  <2>1. \E d \in Decisions, ground \in Grounds : n = WithFields(m, d, ground)
    BY <1>1, <1>3 DEF Altered
  <2>2. PICK d \in Decisions, ground \in Grounds : n = WithFields(m, d, ground)
    BY <2>1
  <2>3. PICK h : h = [x \in (DOMAIN g \ {"reason"}) \cup {"reason" : e \in ground} |->
                        CASE x = "decision" -> Text(d)
                          [] x = "reason" -> Text(CHOOSE e \in ground : TRUE)
                          [] OTHER -> g[x]]
    OBVIOUS
  <2>4. n = [m EXCEPT !.f = h]
    BY <1>1, <2>2, <2>3 DEF WithFields
  <2>5. n = [type |-> kind, f |-> h]
    BY <1>1, <2>4
  <2>6. "signature" \in DOMAIN h /\ h["signature"] = g["signature"] /\ h = [x \in DOMAIN h |-> h[x]]
    BY <2>3
  <2> QED
    BY <2>5, <2>6
<1> QED
  BY <1>2, <1>3

\* A signature stands for one key and one payload.
LEMMA SignIs ==
  ASSUME NEW k, NEW l, NEW p, NEW q, Sign(k, p) = Sign(l, q)
  PROVE  k = l /\ p = q
<1>1. Sign(k, p)[1].v = <<k, p>> /\ Sign(l, q)[1].v = <<l, q>>
  BY DEF Sign, Word, Token
<1>2. <<k, p>> = <<l, q>>
  BY <1>1
<1> QED
  BY <1>2

\* What verifies is what was signed.
LEMMA VerifiedIs ==
  ASSUME NEW key, NEW u, IsDraft(u), NEW by, NEW kind, NEW h, kind = u.type,
         h = [x \in DOMAIN h |-> h[x]], "signature" \in DOMAIN h,
         NEW n, n = [type |-> kind, f |-> h],
         h["signature"] = Sign(key, signing_payload(u)), verify_signature(by, n)
  PROVE  by = key /\ [n EXCEPT !.f["signature"] = Unsigned] = u
<1>1. n.f = h /\ n.type = kind
  OBVIOUS
<1>2. Sign(key, signing_payload(u)) = Sign(by, signing_payload(n))
  BY <1>1 DEF verify_signature
<1>3. by = key /\ signing_payload(u) = signing_payload(n)
  BY <1>2, SignIs
<1>4. PICK g, a, b : /\ g = u.f /\ a = [x \in DOMAIN g \ {"signature"} |-> g[x]]
                     /\ b = [x \in DOMAIN h \ {"signature"} |-> h[x]]
  OBVIOUS
<1>5. a = b
  <2>1. signing_payload(u)[2] = a /\ signing_payload(n)[2] = b
    BY <1>1, <1>4 DEF signing_payload, to_canonical_string
  <2> QED
    BY <1>3, <2>1
<1>6. /\ u = [type |-> kind, f |-> g] /\ g = [x \in DOMAIN g |-> g[x]]
      /\ "signature" \in DOMAIN g /\ g["signature"] = Unsigned
  BY <1>4 DEF IsDraft
<1>7. DOMAIN g = DOMAIN h
  <2>1. DOMAIN a = DOMAIN g \ {"signature"} /\ DOMAIN b = DOMAIN h \ {"signature"}
    BY <1>4
  <2> QED
    BY <1>5, <1>6, <2>1
<1>8. \A x \in DOMAIN g \ {"signature"} : g[x] = h[x]
  BY <1>4, <1>5, <1>7
<1>9. PICK e : e = [h EXCEPT !["signature"] = Unsigned]
  OBVIOUS
<1>10. e = g
  <2>1. DOMAIN e = DOMAIN h /\ e = [x \in DOMAIN e |-> e[x]]
    BY <1>9
  <2>2. e["signature"] = Unsigned /\ \A x \in DOMAIN h \ {"signature"} : e[x] = h[x]
    BY <1>9
  <2>3. \A x \in DOMAIN g : e[x] = g[x]
    BY <1>6, <1>7, <1>8, <2>2
  <2> QED
    BY <1>6, <1>7, <2>1, <2>3
<1>11. [n EXCEPT !.f["signature"] = Unsigned] = [type |-> kind, f |-> e]
  <2>1. n = [type |-> kind, f |-> h]
    OBVIOUS
  <2> QED
    BY ONLY <1>9, <2>1
<1> QED
  BY <1>3, <1>6, <1>10, <1>11

\* The two kinds that are signed carry a signature.
LEMMA SignedKindsAre ==
  ASSUME NEW kind \in SignedKinds
  PROVE  "signature" \in Range(FieldsOf[kind]) /\ ~IsOptional(kind, "signature")
<1>1. ~IsOptional(kind, "signature")
  BY DEF IsOptional
<1>2. CASE kind = "approval_response"
  <2>1. FieldsOf[kind] = <<"req_id", "decision", "reason", "signature">>
    BY <1>2 DEF FieldsOf
  <2> QED
    BY <1>1, <2>1 DEF Range
<1>3. CASE kind = "execute_response"
  <2>1. FieldsOf[kind] = <<"req_id", "status", "http_status", "body", "executed_at", "signature">>
    BY <1>3 DEF FieldsOf
  <2> QED
    BY <1>1, <2>1 DEF Range
<1> QED
  BY <1>2, <1>3 DEF SignedKinds

\* An answer the daemon accepts, off the bytes of a message that may be sent.
LEMMA AcceptedIs ==
  ASSUME NEW S, NEW m, Written(m, S), NEW d, d = decode(Bytes(m)), ~Failed(d),
         d.msg.type \in SignedKinds, NEW n \in Altered(d.msg), NEW by, verify_signature(by, n)
  PROVE  <<by, [n EXCEPT !.f["signature"] = Unsigned]>> \in S
<1>1. PICK g : /\ d.msg = [type |-> m.type, f |-> g]
               /\ g = [x \in DOMAIN g |-> g[x]]
               /\ \A f \in Range(FieldsOf[m.type]) : ~IsOptional(m.type, f) => f \in DOMAIN g
               /\ "signature" \in DOMAIN g => g["signature"] = Word("text", m.f["signature"][1].v)
  BY DecodeWritten DEF Written
<1>2. m.type \in SignedKinds
  BY <1>1
<1>3. PICK key : \E u : <<key, u>> \in S /\ IsDraft(u) /\ m = Signed(key, u)
  BY <1>2 DEF Written
<1>4. PICK u : <<key, u>> \in S /\ IsDraft(u) /\ m = Signed(key, u)
  BY <1>3
<1>5. PICK sig : sig = Sign(key, signing_payload(u))
  OBVIOUS
<1>6. m.type = u.type /\ m.f["signature"] = sig
  BY <1>4, <1>5, SignedOf
<1>7. "signature" \in DOMAIN g /\ g["signature"] = sig
  <2>1. "signature" \in DOMAIN g
    BY <1>1, <1>2, SignedKindsAre
  <2>2. PICK v : v = <<key, signing_payload(u)>> /\ sig = Word("text", v)
    BY <1>5 DEF Sign
  <2>3. sig[1].v = v
    BY <2>2 DEF Word, Token
  <2> QED
    BY <1>1, <1>6, <2>1, <2>2, <2>3
<1>8. PICK kind : kind = m.type
  OBVIOUS
<1>9. n \in Altered([type |-> kind, f |-> g])
  BY <1>1, <1>8
<1>10. PICK h : /\ n = [type |-> kind, f |-> h] /\ h = [x \in DOMAIN h |-> h[x]]
                /\ "signature" \in DOMAIN h /\ h["signature"] = g["signature"]
  BY <1>1, <1>7, <1>9, AlteredKeeps
<1>11. by = key /\ [n EXCEPT !.f["signature"] = Unsigned] = u
  <2>1. kind = u.type /\ h["signature"] = Sign(key, signing_payload(u))
    BY <1>5, <1>6, <1>7, <1>8, <1>10
  <2>2. verify_signature(by, n)
    OBVIOUS
  <2> QED
    BY ONLY <1>4, <1>10, <2>1, <2>2, VerifiedIs
<1> QED
  BY <1>4, <1>11

\* At first nothing is on the link and nothing was heard.
LEMMA GenuineInit == Init => Genuine
<1> SUFFICES ASSUME Init PROVE Genuine
  OBVIOUS
<1>1. out = Quiet /\ heard = {}
  BY DEF Init
<1> QED
  BY <1>1, NothingSent DEF Genuine, HeardIsSigned

\* HeardIsSigned when nothing new is heard.
LEMMA HeardLater ==
  ASSUME HeardIsSigned, heard' \subseteq heard, signed \subseteq signed', paired' = paired
  PROVE  HeardIsSigned'
BY DEF HeardIsSigned

\* Every step keeps what is on the link genuine.
LEMMA GenuineNext == Genuine /\ [Next]_vars => Genuine'
<1> SUFFICES ASSUME Genuine, [Next]_vars PROVE Genuine'
  OBVIOUS
<1>1. OutFrom(out, signed) /\ HeardIsSigned
  BY DEF Genuine
<1>2. ASSUME heard' \subseteq heard, signed \subseteq signed', paired' = paired,
             OutFrom(out', signed')
      PROVE  Genuine'
  BY <1>1, <1>2, HeardLater DEF Genuine
<1>3. ASSUME heard' = heard, signed' = signed, paired' = paired, out' = out PROVE Genuine'
  BY <1>1, <1>2, <1>3
<1>4. CASE UNCHANGED vars
  BY <1>3, <1>4 DEF vars
<1>5. CASE Tick
  BY <1>3, <1>5 DEF Tick, history
<1>6. ASSUME NEW rules \in Policies, NewProtocol(rules) PROVE Genuine'
  <2>1. heard' \subseteq heard /\ signed' = signed /\ paired' = paired
    BY <1>6 DEF NewProtocol
  <2>2. out' = Quiet \/ out' = Error("PolicyInvalid")
    BY <1>6 DEF NewProtocol
  <2> QED
    BY <1>2, <2>1, <2>2, NothingSent
<1>7. ASSUME NEW d \in Inbound, NEW recent \in Histories, OnRequest(d, recent) PROVE Genuine'
  <2>1. heard' = heard /\ signed' = signed /\ paired' = paired /\ out' = Quiet
    BY <1>7 DEF OnRequest, history
  <2> QED
    BY <1>2, <2>1, NothingSent
<1>8. ASSUME NEW d \in Inbound, OnPing(d) \/ OnListServices(d) PROVE Genuine'
  <2>1. /\ heard' = heard /\ signed' = signed /\ paired' = paired
        /\ out' = encode_pong(d.msg) \/ out' = encode_list_services_response(d.msg)
    BY <1>8 DEF OnPing, OnListServices, history
  <2> QED
    BY <1>2, <2>1, ControlFrom
<1>9. ASSUME NEW d \in Inbound, OnLastMessage(d) PROVE Genuine'
  <2>1. heard' = heard /\ signed' = signed /\ paired' = paired
    BY <1>9 DEF OnLastMessage, history
  <2>2. out' = Quiet \/ \E x : out' = Error(x)
    BY <1>9 DEF OnLastMessage
  <2> QED
    BY <1>2, <2>1, <2>2, NothingSent
<1>10. ASSUME NEW d \in Inbound, validate_execute_binding(d) PROVE Genuine'
  <2>1. heard' = heard /\ signed' = signed /\ paired' = paired
    BY <1>10 DEF validate_execute_binding
  <2>2. out' = Quiet \/ out' = Error("BindingRejected")
    BY <1>10 DEF validate_execute_binding
  <2> QED
    BY <1>2, <2>1, <2>2, NothingSent
<1>11. ASSUME NEW b \in Wire, MockServes(b) PROVE Genuine'
  <2>1. heard' = heard /\ paired' = paired
    BY <1>11 DEF MockServes
  <2>2. CASE out' = out /\ signed' = signed
    BY <1>3, <2>1, <2>2
  <2>3. CASE ~(out' = out /\ signed' = signed)
    <3>1. PICK r, d : r = First(b) /\ d = IF Failed(r) THEN r ELSE FromItem(r.item)
      OBVIOUS
    <3>2. PICK a, s : /\ a = MockAnswer(d.msg)
                      /\ s = IF "signature" \in DOMAIN a.f THEN Signed(MockKey, a) ELSE a
      OBVIOUS
    <3>3. /\ ~Failed(d)
          /\ d.msg.type \in {"approval_request", "execute_request", "ping", "list_services_request"}
          /\ signed' = IF "signature" \in DOMAIN a.f THEN signed \cup {<<MockKey, a>>} ELSE signed
          /\ out' = IF Failed(encode(s)) THEN out ELSE encode(s)
      BY <1>11, <2>3, <3>1, <3>2 DEF MockServes
    <3>4. ~Failed(r) /\ d = FromItem(r.item)
      BY <3>1, <3>3
    <3>5. PICK kind \in DOMAIN FieldsOf :
            \E g : /\ d.msg = [type |-> kind, f |-> g]
                   /\ DOMAIN g \subseteq Range(FieldsOf[kind])
                   /\ \A f \in Range(FieldsOf[kind]) : ~IsOptional(kind, f) => f \in DOMAIN g
                   /\ \A f \in DOMAIN g \ HexFields : Solid(g[f])
      BY <3>1, <3>3, <3>4, MockReads
    <3>6. PICK g : /\ d.msg = [type |-> kind, f |-> g]
                   /\ DOMAIN g \subseteq Range(FieldsOf[kind])
                   /\ \A f \in Range(FieldsOf[kind]) : ~IsOptional(kind, f) => f \in DOMAIN g
                   /\ \A f \in DOMAIN g \ HexFields : Solid(g[f])
      BY <3>5
    <3>7. IsAnswer(a)
      <4>1. kind \in {"approval_request", "execute_request", "ping", "list_services_request"}
        BY <3>3, <3>6
      <4> QED
        BY <3>2, <3>6, <4>1, MockAnswers
    <3>8. signed \subseteq signed'
      BY <3>3
    <3>9. Written(s, signed')
      <4>1. CASE a.type \in SignedKinds
        <5>1. IsDraft(a) /\ SolidFields(a) /\ s = Signed(MockKey, a) /\ <<MockKey, a>> \in signed'
          BY <3>2, <3>3, <3>7, <4>1 DEF IsAnswer
        <5> QED
          BY <5>1, SignedWritten
      <4>2. CASE a.type \notin SignedKinds
        <5>1. SolidFields(a) /\ s = a
          BY <3>2, <3>7, <4>2 DEF IsAnswer
        <5> QED
          BY <4>2, <5>1, PlainWritten
      <4> QED
        BY <4>1, <4>2
    <3>10. OutFrom(encode(s), signed') /\ OutFrom(out, signed')
      BY <1>1, <3>8, <3>9, EncodeFrom, OutLater
    <3>11. OutFrom(out', signed')
      BY <3>3, <3>10
    <3> QED
      BY <1>2, <2>1, <3>8, <3>11
  <2> QED
    BY <2>2, <2>3
<1>12. ASSUME NEW h \in handles, NEW decision \in Decisions, NEW ground \in Grounds,
              signed_response(h, decision, ground)
       PROVE  Genuine'
  <2>1. heard' = heard /\ paired' = paired
    BY <1>12 DEF signed_response
  <2>2. PICK g : g = [x \in {"req_id", "decision", "signature"} \cup {"reason" : e \in ground} |->
                        CASE x = "req_id" -> h.m.f["req_id"]
                          [] x = "decision" -> Text(decision)
                          [] x = "reason" -> Text(CHOOSE e \in ground : TRUE)
                          [] x = "signature" -> Unsigned]
    OBVIOUS
  <2>3. PICK m : m = [type |-> "approval_response", f |-> g]
    OBVIOUS
  <2>4. \/ signed' = signed /\ \E x : out' = Error(x)
        \/ /\ signed' = signed \cup {<<PhoneKey, m>>}
           /\ out' = encode(Signed(PhoneKey, m)) \/ \E x : out' = Error(x)
    BY <1>12, <2>2, <2>3 DEF signed_response
  <2>5. m.type = "approval_response" /\ m.f = g
    BY <2>3
  <2>6. /\ DOMAIN g \subseteq {"req_id", "decision", "signature", "reason"}
        /\ "signature" \in DOMAIN g /\ g["signature"] = Unsigned /\ g["decision"] = Text(decision)
        /\ "reason" \in DOMAIN g => g["reason"] = Text(CHOOSE e \in ground : TRUE)
        /\ g = [x \in DOMAIN g |-> g[x]]
    BY <2>2
  <2>7. SolidFields(m)
    BY <2>5, <2>6, OwnWords DEF SolidFields, FieldsOf, HexFields
  <2>8. IsDraft(m)
    BY <2>3, <2>5, <2>6 DEF IsDraft
  <2>9. CASE signed' = signed /\ \E x : out' = Error(x)
    BY <1>2, <2>1, <2>9, NothingSent
  <2>10. CASE /\ signed' = signed \cup {<<PhoneKey, m>>}
              /\ out' = encode(Signed(PhoneKey, m)) \/ \E x : out' = Error(x)
    <3>1. signed \subseteq signed' /\ <<PhoneKey, m>> \in signed'
      BY <2>10
    <3>2. Written(Signed(PhoneKey, m), signed')
      BY <2>7, <2>8, <3>1, SignedWritten
    <3>3. OutFrom(out', signed')
      BY <2>10, <3>2, EncodeFrom, NothingSent
    <3> QED
      BY <1>2, <2>1, <3>1, <3>3
  <2> QED
    BY <2>4, <2>9, <2>10
<1>13. CASE Hear
  <2>1. out' = out /\ signed' = signed /\ paired' = paired
    BY <1>13 DEF Hear
  <2>2. PICK d : /\ d = decode(out.bytes) /\ ~Failed(d) /\ d.msg.type \in SignedKinds
                 /\ \E n \in Altered(d.msg) : verify_signature(paired, n) /\ heard' = heard \cup {n}
    BY <1>13 DEF Hear
  <2>3. PICK n \in Altered(d.msg) : verify_signature(paired, n) /\ heard' = heard \cup {n}
    BY <2>2
  <2>4. PICK m : Written(m, signed) /\ out.bytes = Bytes(m)
    BY <1>1, <1>13 DEF Hear, OutFrom
  <2>5. d = decode(Bytes(m))
    BY <2>2, <2>4
  <2>6. <<paired, [n EXCEPT !.f["signature"] = Unsigned]>> \in signed
    BY <2>2, <2>3, <2>4, <2>5, AcceptedIs
  <2>7. HeardIsSigned'
    BY <1>1, <2>1, <2>3, <2>6 DEF HeardIsSigned
  <2> QED
    BY <1>1, <2>1, <2>7 DEF Genuine
<1> QED
  BY <1>4, <1>5, <1>6, <1>7, <1>8, <1>9, <1>10, <1>11, <1>12, <1>13 DEF Next

\* What the daemon accepts was signed by the key it paired with, field by field:
\* for all bytes a peer may send, all limits of the codec and all answers whose
\* fields are altered on the way, a message that decodes and verifies is a
\* message that was signed.
THEOREM AcceptedWasSigned == Spec => []HeardIsSigned
<1>1. Genuine => HeardIsSigned
  BY DEF Genuine
<1> QED
  BY <1>1, GenuineInit, GenuineNext, PTL DEF Spec
=============================================================================
