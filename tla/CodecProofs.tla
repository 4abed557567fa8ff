---------------------------- MODULE CodecProofs ----------------------------
(***************************************************************************)
(* The matcher of the policy rules computes what a pattern means, and the  *)
(* preflight takes exactly the well-formed inputs, for every set of        *)
(* characters and tokens, every bound and every nesting limit.             *)
(*                                                                         *)
(* The matcher: its meaning is first read as a relation between the places *)
(* of the pattern and the places of the value.  The loop's invariant is    *)
(* that the value matches exactly if it does so from the place the loop is *)
(* at or from a later retry of the last star: that one point to return to  *)
(* is enough is the lemma LaterMeets.                                      *)
(*                                                                         *)
(* The preflight: a stretch of the input is in the grammar with so many    *)
(* levels left exactly if a read from its first place ends behind its last *)
(* (Exact), by induction over the levels.  A loop that does not fail has   *)
(* found a body of the container (LoopFinds), and it follows every body    *)
(* the input has (LoopFollows).                                            *)
(***************************************************************************)
EXTENDS Codec, SequenceTheorems, WellFoundedInduction, TLAPS

-----------------------------------------------------------------------------
(* Counting.                                                                *)

\* A set of naturals has a least member.
LEMMA FirstOf ==
  ASSUME NEW P, P \subseteq Nat, P # {}
  PROVE  \E i \in P : \A j \in P : i <= j
<1>1. \E i \in P : \A j \in P : ~(<<j, i>> \in OpToRel(<, Nat))
  BY WFMin, NatLessThanWellFounded, Zenon
<1>2. PICK i \in P : \A j \in P : ~(<<j, i>> \in OpToRel(<, Nat))
  BY <1>1
<1>3. \A j \in P : ~(j < i)
  BY <1>2 DEF OpToRel
<1> QED
  BY <1>3

\* Induction up to n, for a set.
LEMMA Upto ==
  ASSUME NEW n \in Nat, NEW P, 0 \in P, \A i \in 0 .. n - 1 : i \in P => i + 1 \in P
  PROVE  \A i \in 0 .. n : i \in P
<1> SUFFICES ASSUME NEW k \in 0 .. n, k \notin P PROVE FALSE
  OBVIOUS
<1>1. PICK Q : Q = {i \in 0 .. n : i \notin P}
  OBVIOUS
<1>2. PICK i \in Q : \A j \in Q : i <= j
  BY <1>1, FirstOf
<1>3. i # 0 /\ i - 1 \in 0 .. n - 1 /\ i - 1 \notin Q
  BY <1>1, <1>2
<1>4. i - 1 \in P /\ (i - 1) + 1 = i
  BY <1>1, <1>3
<1> QED
  BY <1>1, <1>3, <1>4

-----------------------------------------------------------------------------
(* What a pattern stands for, read as a relation between the places of the  *)
(* pattern and those of the value.                                          *)

StandsRow(pat, val, below, n) ==
  [m \in 0 .. Len(val) |->
     IF n = 0 THEN m = 0
     ELSE IF pat[Len(pat) - n + 1] = "*" THEN \E k \in 0 .. m : below[k]
     ELSE m > 0 /\ val[Len(val) - m + 1] = pat[Len(pat) - n + 1] /\ below[m - 1]]

IsStands(st, pat, val, n) ==
  st = [i \in 0 .. n |-> StandsRow(pat, val, st[i - 1], i)]

\* The rows of Stands exist.
LEMMA StandsExists ==
  ASSUME NEW pat, NEW val, NEW n \in Nat
  PROVE  \E st : IsStands(st, pat, val, n)
<1>1. PICK P : P = {k \in Nat : \E st : IsStands(st, pat, val, k)}
  OBVIOUS
<1>2. 0 \in P
  <2>1. PICK st : st = [i \in 0 .. 0 |-> StandsRow(pat, val, {}, 0)]
    OBVIOUS
  <2>2. \A i \in 0 .. 0 : StandsRow(pat, val, {}, 0) = StandsRow(pat, val, st[i - 1], i)
    BY DEF StandsRow
  <2>3. IsStands(st, pat, val, 0)
    BY <2>1, <2>2 DEF IsStands
  <2> QED
    BY <1>1, <2>3
<1>3. ASSUME NEW k \in 0 .. n - 1, k \in P PROVE k + 1 \in P
  <2>1. PICK g : IsStands(g, pat, val, k)
    BY <1>1, <1>3
  <2>2. PICK h : h = [i \in 0 .. k + 1 |-> IF i = k + 1 THEN StandsRow(pat, val, g[k], k + 1)
                                           ELSE g[i]]
    OBVIOUS
  <2>3. \A i \in 0 .. k : g[i] = StandsRow(pat, val, g[i - 1], i)
    BY <2>1 DEF IsStands
  <2>4. \A i \in 0 .. k : h[i] = g[i]
    BY <2>2
  <2>5. StandsRow(pat, val, h[0 - 1], 0) = StandsRow(pat, val, g[0 - 1], 0)
    BY DEF StandsRow
  <2>6. \A i \in 0 .. k + 1 : h[i] = StandsRow(pat, val, h[i - 1], i)
    BY <2>2, <2>3, <2>4, <2>5
  <2>7. IsStands(h, pat, val, k + 1)
    BY <2>2, <2>6 DEF IsStands
  <2> QED
    BY <1>1, <2>7
<1>4. n \in P
  BY <1>2, <1>3, Upto
<1> QED
  BY <1>1, <1>4

\* Stands is its last row.
LEMMA StandsIs ==
  ASSUME NEW pat, NEW val, Len(pat) \in Nat
  PROVE  \E st : IsStands(st, pat, val, Len(pat)) /\ Stands(pat, val) = st[Len(pat)][Len(val)]
<1>1. PICK g : g = CHOOSE st : IsStands(st, pat, val, Len(pat))
  OBVIOUS
<1>2. IsStands(g, pat, val, Len(pat))
  BY <1>1, StandsExists
<1>3. Stands(pat, val) = g[Len(pat)][Len(val)]
  BY <1>1 DEF Stands, IsStands, StandsRow
<1> QED
  BY <1>2, <1>3

\* <<p, v>> is in mt when what is left of the pattern from p stands for what is
\* left of the value from v.
IsMeaning(mt, pat, val) ==
  /\ mt \subseteq (1 .. Len(pat) + 1) \X (1 .. Len(val) + 1)
  /\ \A v \in 1 .. Len(val) + 1 : <<Len(pat) + 1, v>> \in mt <=> v = Len(val) + 1
  /\ \A p \in 1 .. Len(pat), v \in 1 .. Len(val) + 1 :
       pat[p] = "*" => (<<p, v>> \in mt <=> \E r \in v .. Len(val) + 1 : <<p + 1, r>> \in mt)
  /\ \A p \in 1 .. Len(pat), v \in 1 .. Len(val) + 1 :
       pat[p] # "*" => (<<p, v>> \in mt <=>
                          v <= Len(val) /\ val[v] = pat[p] /\ <<p + 1, v + 1>> \in mt)

\* Stands, as such a relation.
LEMMA MeaningOf ==
  ASSUME NEW pat, NEW val, Len(pat) \in Nat, Len(val) \in Nat
  PROVE  \E mt : IsMeaning(mt, pat, val) /\ (Stands(pat, val) <=> <<1, 1>> \in mt)
<1>1. PICK st : IsStands(st, pat, val, Len(pat)) /\ Stands(pat, val) = st[Len(pat)][Len(val)]
  BY StandsIs
<1>2. PICK P \in Nat, V \in Nat : P = Len(pat) /\ V = Len(val)
  OBVIOUS
<1>3. \A n \in 0 .. P : st[n] = StandsRow(pat, val, st[n - 1], n)
  BY <1>1, <1>2 DEF IsStands
<1>4. \A m \in 0 .. V : st[0][m] <=> m = 0
  <2>1. st[0] = StandsRow(pat, val, st[0 - 1], 0)
    BY <1>3
  <2> QED
    BY <1>2, <2>1 DEF StandsRow
<1>5. ASSUME NEW n \in 1 .. P, NEW m \in 0 .. V
      PROVE  /\ pat[P - n + 1] = "*" => (st[n][m] <=> \E k \in 0 .. m : st[n - 1][k])
             /\ pat[P - n + 1] # "*" =>
                  (st[n][m] <=> m > 0 /\ val[V - m + 1] = pat[P - n + 1] /\ st[n - 1][m - 1])
  <2>1. st[n] = StandsRow(pat, val, st[n - 1], n) /\ n # 0
    BY <1>3
  <2> QED
    BY <1>2, <2>1 DEF StandsRow
<1>6. PICK sd : sd = {x \in (0 .. P) \X (0 .. V) : st[x[1]][x[2]]}
  OBVIOUS
<1>7. \A n \in 0 .. P, m \in 0 .. V : <<n, m>> \in sd <=> st[n][m]
  BY <1>6
<1>8. \A m \in 0 .. V : <<0, m>> \in sd <=> m = 0
  BY <1>4, <1>7
<1>9. ASSUME NEW n \in 1 .. P, NEW m \in 0 .. V
      PROVE  /\ pat[P - n + 1] = "*" => (<<n, m>> \in sd <=> \E k \in 0 .. m : <<n - 1, k>> \in sd)
             /\ pat[P - n + 1] # "*" =>
                  (<<n, m>> \in sd <=> /\ m > 0 /\ val[V - m + 1] = pat[P - n + 1]
                                     /\ <<n - 1, m - 1>> \in sd)
  <2>1. n \in 0 .. P /\ n - 1 \in 0 .. P
    OBVIOUS
  <2>2. <<n, m>> \in sd <=> st[n][m]
    BY <1>7, <2>1
  <2>3. \A k \in 0 .. m : <<n - 1, k>> \in sd <=> st[n - 1][k]
    BY <1>7, <2>1
  <2>4. m > 0 => (<<n - 1, m - 1>> \in sd <=> st[n - 1][m - 1])
    BY <2>3
  <2>5. (\E k \in 0 .. m : <<n - 1, k>> \in sd) <=> (\E k \in 0 .. m : st[n - 1][k])
    BY <2>3
  <2> QED
    BY <1>5, <2>2, <2>4, <2>5
<1>10. PICK mt : mt = {x \in (1 .. P + 1) \X (1 .. V + 1) : <<P + 1 - x[1], V + 1 - x[2]>> \in sd}
  OBVIOUS
<1>11. \A p \in 1 .. P + 1, v \in 1 .. V + 1 : <<p, v>> \in mt <=> <<P + 1 - p, V + 1 - v>> \in sd
  BY <1>10
<1>12. ASSUME NEW v \in 1 .. V + 1 PROVE <<P + 1, v>> \in mt <=> v = V + 1
  <2>1. P + 1 \in 1 .. P + 1 /\ P + 1 - (P + 1) = 0 /\ V + 1 - v \in 0 .. V
    OBVIOUS
  <2>2. <<P + 1, v>> \in mt <=> <<0, V + 1 - v>> \in sd
    BY <1>11, <2>1
  <2> QED
    BY <1>8, <2>1, <2>2
<1>13. ASSUME NEW p \in 1 .. P, NEW v \in 1 .. V + 1
       PROVE  /\ pat[p] = "*" => (<<p, v>> \in mt <=> \E r \in v .. V + 1 : <<p + 1, r>> \in mt)
              /\ pat[p] # "*" => (<<p, v>> \in mt <=>
                                   v <= V /\ val[v] = pat[p] /\ <<p + 1, v + 1>> \in mt)
  <2>1. PICK n \in 1 .. P : n = P + 1 - p
    OBVIOUS
  <2>2. PICK m \in 0 .. V : m = V + 1 - v
    OBVIOUS
  <2>3. P - n + 1 = p /\ P + 1 - (p + 1) = n - 1 /\ p + 1 \in 1 .. P + 1 /\ p \in 1 .. P + 1
    BY <2>1
  <2>4. <<p, v>> \in mt <=> <<n, m>> \in sd
    BY <1>11, <2>1, <2>2, <2>3
  <2>5. \A r \in 1 .. V + 1 : <<p + 1, r>> \in mt <=> <<n - 1, V + 1 - r>> \in sd
    BY <1>11, <2>3
  <2>6. CASE pat[p] = "*"
    <3>1. <<p, v>> \in mt <=> \E k \in 0 .. m : <<n - 1, k>> \in sd
      BY <1>9, <2>3, <2>4, <2>6
    <3>2. ASSUME NEW k \in 0 .. m, <<n - 1, k>> \in sd
          PROVE  \E r \in v .. V + 1 : <<p + 1, r>> \in mt
      <4>1. V + 1 - k \in v .. V + 1 /\ V + 1 - k \in 1 .. V + 1 /\ V + 1 - (V + 1 - k) = k
        BY <2>2
      <4> QED
        BY <2>5, <3>2, <4>1
    <3>3. ASSUME NEW r \in v .. V + 1, <<p + 1, r>> \in mt
          PROVE  \E k \in 0 .. m : <<n - 1, k>> \in sd
      <4>1. V + 1 - r \in 0 .. m /\ r \in 1 .. V + 1
        BY <2>2
      <4> QED
        BY <2>5, <3>3, <4>1
    <3> QED
      BY <2>6, <3>1, <3>2, <3>3
  <2>7. CASE pat[p] # "*"
    <3>1. <<p, v>> \in mt <=> m > 0 /\ val[V - m + 1] = pat[p] /\ <<n - 1, m - 1>> \in sd
      BY <1>9, <2>3, <2>4, <2>7
    <3>2. CASE v <= V
      <4>1. V - m + 1 = v /\ m > 0 /\ V + 1 - (v + 1) = m - 1 /\ v + 1 \in 1 .. V + 1
        BY <2>2, <3>2
      <4>2. <<p + 1, v + 1>> \in mt <=> <<n - 1, m - 1>> \in sd
        BY <2>5, <4>1
      <4> QED
        BY <2>7, <3>1, <3>2, <4>1, <4>2
    <3>3. CASE ~(v <= V)
      BY <2>2, <2>7, <3>1, <3>3
    <3> QED
      BY <3>2, <3>3
  <2> QED
    BY <2>6, <2>7
<1>14. mt \subseteq (1 .. P + 1) \X (1 .. V + 1)
  BY <1>10
<1>15. IsMeaning(mt, pat, val)
  BY <1>2, <1>12, <1>13, <1>14 DEF IsMeaning
<1>16. st[P][V] <=> <<1, 1>> \in mt
  <2>1. 1 \in 1 .. P + 1 /\ 1 \in 1 .. V + 1 /\ P + 1 - 1 = P /\ V + 1 - 1 = V
    OBVIOUS
  <2>2. <<1, 1>> \in mt <=> <<P, V>> \in sd
    BY <1>11, <2>1
  <2> QED
    BY <1>7, <2>2
<1> QED
  BY <1>1, <1>2, <1>15, <1>16

\* Characters that are no star stand for themselves, one by one.
LEMMA LiteralsWalk ==
  ASSUME NEW pat, NEW val, NEW mt, Len(pat) \in Nat, Len(val) \in Nat, IsMeaning(mt, pat, val),
         NEW a \in 1 .. Len(pat) + 1, NEW p \in a .. Len(pat) + 1,
         \A i \in a .. p - 1 : pat[i] # "*",
         NEW r \in 1 .. Len(val) + 1, <<a, r>> \in mt
  PROVE  <<p, r + (p - a)>> \in mt /\ r + (p - a) <= Len(val) + 1
<1>1. PICK P : P = {i \in 0 .. p - a : <<a + i, r + i>> \in mt /\ r + i \in 1 .. Len(val) + 1}
  OBVIOUS
<1>2. 0 \in P /\ p - a \in Nat
  BY <1>1
<1>3. ASSUME NEW i \in 0 .. (p - a) - 1, i \in P PROVE i + 1 \in P
  <2>0. a + i \in a .. p - 1
    OBVIOUS
  <2>1. PICK q \in a .. p - 1, v \in 1 .. Len(val) + 1 :
          q = a + i /\ v = r + i /\ <<q, v>> \in mt
    BY <1>1, <1>3, <2>0
  <2>2. q \in 1 .. Len(pat) /\ pat[q] # "*"
    BY <2>1
  <2>3. v <= Len(val) /\ <<q + 1, v + 1>> \in mt
    BY <2>1, <2>2 DEF IsMeaning
  <2>4. q + 1 = a + (i + 1) /\ v + 1 = r + (i + 1) /\ i + 1 \in 0 .. p - a
    BY <2>1
  <2>5. v + 1 \in 1 .. Len(val) + 1
    BY <2>1, <2>3
  <2> QED
    BY <1>1, <2>3, <2>4, <2>5
<1>4. p - a \in P
  <2>1. PICK n \in Nat : n = p - a
    BY <1>2
  <2>2. \A i \in 0 .. n - 1 : i \in P => i + 1 \in P
    BY <1>3, <2>1
  <2>3. \A i \in 0 .. n : i \in P
    BY <1>2, <2>2, Upto
  <2> QED
    BY <2>1, <2>3
<1> QED
  BY <1>1, <1>4

\* At the end of the value only stars may be left.
LEMMA StarsAtEnd ==
  ASSUME NEW pat, NEW val, NEW mt, Len(pat) \in Nat, Len(val) \in Nat, IsMeaning(mt, pat, val),
         NEW p \in 1 .. Len(pat) + 1
  PROVE  <<p, Len(val) + 1>> \in mt <=> TrailingStars(pat, p)
<1>1. PICK L \in Nat, V \in Nat : L = Len(pat) /\ V = Len(val)
  OBVIOUS
<1>2. PICK P : P = {i \in 0 .. L : <<L + 1 - i, V + 1>> \in mt <=> TrailingStars(pat, L + 1 - i)}
  OBVIOUS
<1>3. 0 \in P
  BY <1>1, <1>2 DEF IsMeaning, TrailingStars
<1>4. ASSUME NEW i \in 0 .. L - 1, i \in P PROVE i + 1 \in P
  <2>1. PICK q \in 1 .. L : q = L + 1 - (i + 1) /\ q + 1 = L + 1 - i
    OBVIOUS
  <2>2. <<q + 1, V + 1>> \in mt <=> TrailingStars(pat, q + 1)
    BY <1>2, <1>4, <2>1
  <2>3. TrailingStars(pat, q) <=> pat[q] = "*" /\ TrailingStars(pat, q + 1)
    <3>1. q .. L = {q} \cup (q + 1 .. L)
      OBVIOUS
    <3> QED
      BY <1>1, <3>1 DEF TrailingStars
  <2> PICK e \in 1 .. Len(val) + 1 : e = V + 1
    BY <1>1
  <2> q \in 1 .. Len(pat)
    BY <1>1
  <2>4. CASE pat[q] = "*"
    <3>1. <<q, e>> \in mt <=> \E r \in e .. Len(val) + 1 : <<q + 1, r>> \in mt
      BY <2>4 DEF IsMeaning
    <3>2. e .. Len(val) + 1 = {e}
      BY <1>1
    <3>3. <<q, V + 1>> \in mt <=> <<q + 1, V + 1>> \in mt
      BY <3>1, <3>2
    <3> QED
      BY <1>2, <2>1, <2>2, <2>3, <2>4, <3>3
  <2>5. CASE pat[q] # "*"
    <3>1. <<q, e>> \in mt => e <= Len(val)
      BY <2>5 DEF IsMeaning
    <3>2. <<q, V + 1>> \notin mt
      BY <1>1, <3>1
    <3> QED
      BY <1>2, <2>1, <2>3, <2>5, <3>2
  <2> QED
    BY <2>4, <2>5
<1>5. L + 1 - p \in P
  <2>1. L + 1 - p \in 0 .. L
    BY <1>1
  <2>2. \A i \in 0 .. L : i \in P
    BY <1>3, <1>4, Upto
  <2> QED
    BY <2>1, <2>2
<1> QED
  BY <1>1, <1>2, <1>5

-----------------------------------------------------------------------------
(* The loop of glob_matches.                                                *)

IsGlobRun(run, pat, val, n) ==
  run = [k \in 0 .. n |-> IF k = 0 THEN GlobStart ELSE GlobTurn(pat, val, run[k - 1])]

\* The turns of the matcher exist.
LEMMA GlobRunExists ==
  ASSUME NEW pat, NEW val, NEW n \in Nat
  PROVE  \E run : IsGlobRun(run, pat, val, n)
<1>1. PICK P : P = {k \in Nat : \E run : IsGlobRun(run, pat, val, k)}
  OBVIOUS
<1>2. 0 \in P
  <2>1. IsGlobRun([k \in 0 .. 0 |-> GlobStart], pat, val, 0)
    BY DEF IsGlobRun
  <2> QED
    BY <1>1, <2>1
<1>3. ASSUME NEW k \in 0 .. n - 1, k \in P PROVE k + 1 \in P
  <2>1. PICK g : IsGlobRun(g, pat, val, k)
    BY <1>1, <1>3
  <2>2. PICK h : h = [i \in 0 .. k + 1 |-> IF i = k + 1 THEN GlobTurn(pat, val, g[k]) ELSE g[i]]
    OBVIOUS
  <2>3. \A i \in 0 .. k : g[i] = IF i = 0 THEN GlobStart ELSE GlobTurn(pat, val, g[i - 1])
    BY <2>1 DEF IsGlobRun
  <2>4. \A i \in 0 .. k : h[i] = g[i]
    BY <2>2
  <2>5. \A i \in 0 .. k + 1 : h[i] = IF i = 0 THEN GlobStart ELSE GlobTurn(pat, val, h[i - 1])
    BY <2>2, <2>3, <2>4
  <2>6. IsGlobRun(h, pat, val, k + 1)
    BY <2>2, <2>5 DEF IsGlobRun
  <2> QED
    BY <1>1, <2>6
<1>4. n \in P
  BY <1>2, <1>3, Upto
<1> QED
  BY <1>1, <1>4

\* GlobEnd is where the turns end.
LEMMA GlobRuns ==
  ASSUME NEW pat, NEW val, GlobTurns(pat, val) \in Nat
  PROVE  \E run : /\ IsGlobRun(run, pat, val, GlobTurns(pat, val))
                  /\ GlobEnd(pat, val) = run[GlobTurns(pat, val)]
<1>1. PICK g : g = CHOOSE run : IsGlobRun(run, pat, val, GlobTurns(pat, val))
  OBVIOUS
<1>2. IsGlobRun(g, pat, val, GlobTurns(pat, val))
  BY <1>1, GlobRunExists
<1>3. GlobEnd(pat, val) = g[GlobTurns(pat, val)]
  BY <1>1 DEF GlobEnd, IsGlobRun
<1> QED
  BY <1>2, <1>3

\* The invariant of the loop.  The characters of the pattern after the last star
\* are no stars and have met as many of the value.  The pattern stands for the
\* value if the two rests do, or, with the last star, if they do once that star
\* has taken more: an earlier star never has to be gone back to.
IsPlace(g, pat, val) ==
  /\ g = [p |-> g.p, v |-> g.v, star |-> g.star, retry |-> g.retry, ok |-> g.ok]
  /\ g.p \in 1 .. Len(pat) + 1 /\ g.v \in 1 .. Len(val) + 1
  /\ g.star \in 0 .. g.p - 1 /\ g.retry \in 1 .. g.v
  /\ \A i \in g.star + 1 .. g.p - 1 : pat[i] # "*"
  /\ g.star # 0 => g.p - g.star - 1 = g.v - g.retry

Later(mt, g, val) == g.star # 0 /\ \E r \in g.retry + 1 .. Len(val) + 1 : <<g.star + 1, r>> \in mt

IsGlobState(g, mt, pat, val) ==
  /\ IsPlace(g, pat, val)
  /\ g.ok \in BOOLEAN
  /\ g.ok => (<<1, 1>> \in mt <=> <<g.p, g.v>> \in mt \/ Later(mt, g, val))
  /\ ~g.ok => <<1, 1>> \notin mt

\* How far it is: each star gets the value's characters one by one.
Measure(g, pat) == g.retry * (Len(pat) + 2) + g.p

Over(g, val) == g.v > Len(val) \/ ~g.ok

\* After so many turns.
After(k, g, mt, pat, val) ==
  IsGlobState(g, mt, pat, val) /\ (Over(g, val) \/ Measure(g, pat) > k)

\* Another try begins where a later one would.
LEMMA LaterMeets ==
  ASSUME NEW pat, NEW val, NEW mt, Len(pat) \in Nat, Len(val) \in Nat, IsMeaning(mt, pat, val),
         NEW g, IsPlace(g, pat, val), Later(mt, g, val)
  PROVE  \E v \in g.v + 1 .. Len(val) + 1 : <<g.p, v>> \in mt
<1>1. g.star # 0
  BY DEF Later
<1>2. PICK r \in g.retry + 1 .. Len(val) + 1 : <<g.star + 1, r>> \in mt
  BY DEF Later
<1>3. PICK p \in 1 .. Len(pat) + 1, v \in 1 .. Len(val) + 1 : p = g.p /\ v = g.v
  BY DEF IsPlace
<1>4. PICK star \in 1 .. p - 1, retry \in 1 .. v : star = g.star /\ retry = g.retry
  BY <1>1, <1>3 DEF IsPlace
<1>5. PICK a \in 1 .. Len(pat) + 1 : a = star + 1
  BY <1>4
<1>6. p \in a .. Len(pat) + 1 /\ \A i \in a .. p - 1 : pat[i] # "*"
  BY <1>3, <1>4, <1>5 DEF IsPlace
<1>7. r \in 1 .. Len(val) + 1 /\ <<a, r>> \in mt
  BY <1>2, <1>4, <1>5
<1>8. <<p, r + (p - a)>> \in mt /\ r + (p - a) <= Len(val) + 1
  BY <1>6, <1>7, LiteralsWalk
<1>9. p - star - 1 = v - retry
  BY <1>1, <1>3, <1>4 DEF IsPlace
<1>10. PICK w \in Int : w = r + (p - a)
  OBVIOUS
<1>11. r \in retry + 1 .. Len(val) + 1 /\ p - a = v - retry
  BY <1>2, <1>4, <1>5, <1>9
<1>12. w \in v + 1 .. Len(val) + 1
  BY <1>8, <1>10, <1>11
<1> QED
  BY <1>3, <1>8, <1>10, <1>12

\* One turn keeps the invariant of the loop: the value can still be matched from
\* here or from a later retry exactly if it could be matched at all.  Every turn
\* of a loop that is not over makes the measure larger.
LEMMA GlobTurnKeeps ==
  ASSUME NEW C, "*" \notin C, NEW pat \in Seq(C \cup {"*"}), NEW val \in Seq(C), NEW mt,
         IsMeaning(mt, pat, val), NEW g, IsGlobState(g, mt, pat, val)
  PROVE  /\ IsGlobState(GlobTurn(pat, val, g), mt, pat, val)
         /\ Over(g, val) => GlobTurn(pat, val, g) = g
         /\ ~Over(g, val) => \/ Over(GlobTurn(pat, val, g), val)
                             \/ Measure(GlobTurn(pat, val, g), pat) > Measure(g, pat)
<1> PICK P \in Nat, V \in Nat : P = Len(pat) /\ V = Len(val)
  OBVIOUS
<1>1. IsPlace(g, pat, val) /\ g.ok \in BOOLEAN
  BY DEF IsGlobState
<1>2. PICK p \in 1 .. P + 1, v \in 1 .. V + 1 : p = g.p /\ v = g.v
  BY <1>1 DEF IsPlace
<1>3. PICK star \in 0 .. p - 1, retry \in 1 .. v : star = g.star /\ retry = g.retry
  BY <1>1, <1>2 DEF IsPlace
<1>4. PICK h : h = GlobTurn(pat, val, g)
  OBVIOUS
<1>5. PICK no : no = FALSE
  OBVIOUS
<1>6. PICK ok : ok = g.ok
  OBVIOUS
<1>7. g = [p |-> p, v |-> v, star |-> star, retry |-> retry, ok |-> ok]
  BY <1>1, <1>2, <1>3, <1>6 DEF IsPlace
<1>8. CASE Over(g, val)
  BY <1>8 DEF Over, GlobTurn
<1>9. ASSUME ~Over(g, val) PROVE v \in 1 .. V /\ g.ok /\ val[v] \in C
  BY <1>2, <1>9 DEF Over
<1>10. CASE ~Over(g, val) /\ p <= P /\ pat[p] = val[v]
  <2>1. h = [g EXCEPT !.p = @ + 1, !.v = @ + 1]
    BY <1>2, <1>4, <1>9, <1>10 DEF GlobTurn
  <2>2. h = [p |-> p + 1, v |-> v + 1, star |-> star, retry |-> retry, ok |-> ok]
    BY <1>7, <2>1
  <2>3. pat[p] # "*" /\ v \in 1 .. V
    BY <1>9, <1>10
  <2>4. IsPlace(h, pat, val)
    <3>1. \A i \in star + 1 .. p - 1 : pat[i] # "*"
      BY <1>1, <1>2, <1>3 DEF IsPlace
    <3>2. \A i \in star + 1 .. (p + 1) - 1 : pat[i] # "*"
      BY <2>3, <3>1
    <3>3. star # 0 => (p + 1) - star - 1 = (v + 1) - retry
      <4>1. star # 0 => p - star - 1 = v - retry
        BY <1>1, <1>2, <1>3 DEF IsPlace
      <4> QED
        BY <4>1
    <3>4. p + 1 \in 1 .. P + 1 /\ v + 1 \in 1 .. V + 1
      BY <1>10, <2>3
    <3> QED
      BY <2>2, <3>2, <3>3, <3>4 DEF IsPlace
  <2>5. <<p, v>> \in mt <=> <<p + 1, v + 1>> \in mt
    BY <1>10, <2>3 DEF IsMeaning
  <2>6. Later(mt, h, val) <=> Later(mt, g, val)
    BY <1>7, <2>2 DEF Later
  <2>7. h.ok = g.ok /\ <<h.p, h.v>> = <<p + 1, v + 1>>
    BY <1>6, <2>2
  <2>8. <<1, 1>> \in mt <=> <<p, v>> \in mt \/ Later(mt, g, val)
    BY <1>2, <1>9, <1>10 DEF IsGlobState
  <2>9. IsGlobState(h, mt, pat, val)
    BY <1>1, <1>9, <1>10, <2>4, <2>5, <2>6, <2>7, <2>8 DEF IsGlobState
  <2>10. Measure(h, pat) > Measure(g, pat)
    <3>1. PICK x \in Nat : x = retry * (P + 2)
      OBVIOUS
    <3>2. Measure(h, pat) = x + (p + 1) /\ Measure(g, pat) = x + p
      BY <1>7, <2>2, <3>1 DEF Measure
    <3> QED
      BY <3>2
  <2> QED
    BY <1>4, <1>10, <2>9, <2>10
<1>11. CASE ~Over(g, val) /\ p <= P /\ pat[p] # val[v] /\ pat[p] = "*"
  <2>1. h = [g EXCEPT !.p = @ + 1, !.star = g.p, !.retry = g.v]
    BY <1>2, <1>4, <1>9, <1>11 DEF GlobTurn
  <2>2. h = [p |-> p + 1, v |-> v, star |-> p, retry |-> v, ok |-> ok]
    BY <1>7, <2>1
  <2>3. IsPlace(h, pat, val)
    BY <1>11, <2>2 DEF IsPlace
  <2>4. <<p, v>> \in mt <=> \E r \in v .. V + 1 : <<p + 1, r>> \in mt
    BY <1>11 DEF IsMeaning
  <2>5. Later(mt, g, val) => <<p, v>> \in mt
    <3> SUFFICES ASSUME Later(mt, g, val) PROVE <<p, v>> \in mt
      OBVIOUS
    <3>1. PICK w \in v + 1 .. V + 1 : <<p, w>> \in mt
      BY <1>1, <1>2, LaterMeets
    <3>2. w \in 1 .. V + 1 /\ p \in 1 .. P
      BY <1>11
    <3>3. PICK r \in w .. V + 1 : <<p + 1, r>> \in mt
      BY <1>11, <3>1, <3>2 DEF IsMeaning
    <3>4. r \in v .. V + 1
      OBVIOUS
    <3> QED
      BY <2>4, <3>3, <3>4
  <2>6. <<p, v>> \in mt <=> <<p + 1, v>> \in mt \/ Later(mt, h, val)
    <3>1. Later(mt, h, val) <=> \E r \in v + 1 .. V + 1 : <<p + 1, r>> \in mt
      BY <2>2 DEF Later
    <3>2. v .. V + 1 = {v} \cup (v + 1 .. V + 1)
      OBVIOUS
    <3> QED
      BY <2>4, <3>1, <3>2
  <2>7. h.ok = g.ok /\ <<h.p, h.v>> = <<p + 1, v>>
    BY <1>6, <2>2
  <2>8. <<1, 1>> \in mt <=> <<p, v>> \in mt \/ Later(mt, g, val)
    BY <1>2, <1>9, <1>11 DEF IsGlobState
  <2>9. IsGlobState(h, mt, pat, val)
    BY <1>1, <1>9, <1>11, <2>3, <2>5, <2>6, <2>7, <2>8 DEF IsGlobState
  <2>10. Measure(h, pat) > Measure(g, pat)
    <3>1. PICK x \in Nat, y \in Nat : x = retry * (P + 2) /\ y = v * (P + 2)
      OBVIOUS
    <3>2. PICK d \in Nat, z \in Nat : v = retry + d /\ z = d * (P + 2)
      <4>1. v - retry \in Nat /\ v = retry + (v - retry) /\ (v - retry) * (P + 2) \in Nat
        OBVIOUS
      <4> QED
        BY <4>1
    <3>3. y = x + z
      BY <3>1, <3>2
    <3>4. Measure(h, pat) = y + (p + 1) /\ Measure(g, pat) = x + p
      BY <1>7, <2>2, <3>1 DEF Measure
    <3> QED
      BY <3>3, <3>4
  <2> QED
    BY <1>4, <1>11, <2>9, <2>10
<1>12. ASSUME ~Over(g, val), ~(p <= P /\ (pat[p] = val[v] \/ pat[p] = "*"))
       PROVE  <<p, v>> \notin mt
  <2>1. CASE p = P + 1
    <3>1. <<Len(pat) + 1, v>> \in mt <=> v = Len(val) + 1
      BY DEF IsMeaning
    <3> QED
      BY <1>9, <1>12, <2>1, <3>1
  <2>2. CASE p \in 1 .. P
    <3>1. pat[p] # "*" /\ pat[p] # val[v]
      BY <1>12, <2>2
    <3>2. <<p, v>> \in mt => val[v] = pat[p]
      BY <2>2, <3>1 DEF IsMeaning
    <3> QED
      BY <3>1, <3>2
  <2> QED
    BY <2>1, <2>2
<1>13. CASE ~Over(g, val) /\ ~(p <= P /\ (pat[p] = val[v] \/ pat[p] = "*")) /\ star # 0
  <2>1. h = [g EXCEPT !.p = g.star + 1, !.v = g.retry + 1, !.retry = @ + 1]
    BY <1>2, <1>3, <1>4, <1>9, <1>13 DEF GlobTurn
  <2>2. h = [p |-> star + 1, v |-> retry + 1, star |-> star, retry |-> retry + 1, ok |-> ok]
    BY <1>7, <2>1
  <2>3. retry + 1 \in 1 .. V + 1 /\ star + 1 \in 1 .. P + 1
    BY <1>9, <1>13
  <2>4. IsPlace(h, pat, val)
    BY <2>2, <2>3 DEF IsPlace
  <2>5. Later(mt, g, val) <=> <<star + 1, retry + 1>> \in mt \/ Later(mt, h, val)
    <3>1. Later(mt, g, val) <=> \E r \in retry + 1 .. V + 1 : <<star + 1, r>> \in mt
      BY <1>7, <1>13 DEF Later
    <3>2. Later(mt, h, val) <=> \E r \in (retry + 1) + 1 .. V + 1 : <<star + 1, r>> \in mt
      BY <1>13, <2>2 DEF Later
    <3>3. retry + 1 .. V + 1 = {retry + 1} \cup ((retry + 1) + 1 .. V + 1)
      BY <2>3
    <3> QED
      BY <3>1, <3>2, <3>3
  <2>6. h.ok = g.ok /\ <<h.p, h.v>> = <<star + 1, retry + 1>>
    BY <1>6, <2>2
  <2>7. <<1, 1>> \in mt <=> <<p, v>> \in mt \/ Later(mt, g, val)
    BY <1>2, <1>9, <1>13 DEF IsGlobState
  <2>8. IsGlobState(h, mt, pat, val)
    BY <1>1, <1>9, <1>12, <1>13, <2>4, <2>5, <2>6, <2>7 DEF IsGlobState
  <2>9. Measure(h, pat) > Measure(g, pat)
    <3>1. PICK x \in Nat : x = retry * (P + 2)
      OBVIOUS
    <3>2. (retry + 1) * (P + 2) = x + (P + 2)
      BY <3>1
    <3>3. Measure(h, pat) = (x + (P + 2)) + (star + 1) /\ Measure(g, pat) = x + p
      BY <1>7, <2>2, <3>1, <3>2 DEF Measure
    <3> QED
      BY <3>3
  <2> QED
    BY <1>4, <1>13, <2>8, <2>9
<1>14. CASE ~Over(g, val) /\ ~(p <= P /\ (pat[p] = val[v] \/ pat[p] = "*")) /\ star = 0
  <2>1. h = [g EXCEPT !.ok = FALSE]
    BY <1>2, <1>3, <1>4, <1>9, <1>14 DEF GlobTurn
  <2>2. h = [p |-> p, v |-> v, star |-> star, retry |-> retry, ok |-> no]
    BY <1>5, <1>7, <2>1
  <2>3. IsPlace(h, pat, val) /\ h.ok = no
    BY <1>1, <1>7, <2>2 DEF IsPlace
  <2>4. ~Later(mt, g, val)
    BY <1>3, <1>14 DEF Later
  <2>5. <<1, 1>> \notin mt
    BY <1>2, <1>9, <1>12, <1>14, <2>4 DEF IsGlobState
  <2>6. IsGlobState(h, mt, pat, val) /\ Over(h, val)
    BY <1>5, <2>3, <2>5 DEF IsGlobState, Over
  <2> QED
    BY <1>4, <1>14, <2>6
<1> QED
  BY <1>8, <1>10, <1>11, <1>13, <1>14

\* The matcher accepts what the pattern stands for.
LEMMA GlobIsMeaning ==
  ASSUME NEW C, "*" \notin C, NEW pat \in Seq(C \cup {"*"}), NEW val \in Seq(C)
  PROVE  glob_matches(pat, val) <=> Stands(pat, val)
<1>1. PICK P \in Nat, V \in Nat : P = Len(pat) /\ V = Len(val)
  OBVIOUS
<1>2. PICK mt : IsMeaning(mt, pat, val) /\ (Stands(pat, val) <=> <<1, 1>> \in mt)
  BY <1>1, MeaningOf
<1>3. PICK K \in Nat : K = GlobTurns(pat, val) /\ K = (V + 1) * (P + 2)
  BY <1>1 DEF GlobTurns
<1>4. PICK run : IsGlobRun(run, pat, val, K) /\ GlobEnd(pat, val) = run[K]
  BY <1>3, GlobRuns
<1>5. \A k \in 0 .. K : run[k] = IF k = 0 THEN GlobStart ELSE GlobTurn(pat, val, run[k - 1])
  BY <1>4 DEF IsGlobRun
<1>6. PICK Q : Q = {k \in 0 .. K : After(k, run[k], mt, pat, val)}
  OBVIOUS
<1>7. 0 \in Q
  <2>1. PICK g : g = GlobStart
    OBVIOUS
  <2>2. PICK yes : yes = TRUE
    OBVIOUS
  <2>3. g = [p |-> 1, v |-> 1, star |-> 0, retry |-> 1, ok |-> yes]
    BY <2>1, <2>2 DEF GlobStart
  <2>4. IsPlace(g, pat, val) /\ g.ok = yes /\ g.p = 1 /\ g.v = 1 /\ ~Later(mt, g, val)
    BY <1>1, <2>3 DEF IsPlace, Later
  <2>5. IsGlobState(g, mt, pat, val)
    BY <2>2, <2>4 DEF IsGlobState
  <2>6. Measure(g, pat) > 0
    BY <1>1, <2>3 DEF Measure
  <2>7. run[0] = g
    BY <1>5, <2>1
  <2> QED
    BY <1>3, <1>6, <2>5, <2>6, <2>7 DEF After
<1>8. ASSUME NEW k \in 0 .. K - 1, k \in Q PROVE k + 1 \in Q
  <2>1. PICK g, h : g = run[k] /\ h = run[k + 1]
    OBVIOUS
  <2>2. h = GlobTurn(pat, val, g)
    BY <1>5, <2>1
  <2>3. IsGlobState(g, mt, pat, val) /\ (Over(g, val) \/ Measure(g, pat) > k)
    BY <1>6, <1>8, <2>1 DEF After
  <2>4. /\ IsGlobState(h, mt, pat, val)
        /\ Over(g, val) => h = g
        /\ ~Over(g, val) => Over(h, val) \/ Measure(h, pat) > Measure(g, pat)
    BY <1>2, <2>2, <2>3, GlobTurnKeeps
  <2>5. PICK a \in Nat, b \in Nat : a = Measure(g, pat) /\ b = Measure(h, pat)
    <3>1. PICK ra \in Nat, pa \in Nat : ra = g.retry /\ pa = g.p
      BY <2>3 DEF IsGlobState, IsPlace
    <3>2. PICK rb \in Nat, pb \in Nat : rb = h.retry /\ pb = h.p
      <4>1. IsPlace(h, pat, val)
        BY <2>4 DEF IsGlobState
      <4>2. h.p \in 1 .. P + 1 /\ h.v \in 1 .. V + 1 /\ h.retry \in 1 .. h.v
        BY <1>1, <4>1 DEF IsPlace
      <4>3. h.p \in Nat /\ h.retry \in Nat
        BY ONLY P \in Nat, V \in Nat, <4>2
      <4> QED
        BY <4>3
    <3>3. ra * (P + 2) + pa \in Nat /\ rb * (P + 2) + pb \in Nat
      OBVIOUS
    <3> QED
      BY <1>1, <3>1, <3>2, <3>3 DEF Measure
  <2>6. Over(h, val) \/ b > k + 1
    BY <2>3, <2>4, <2>5
  <2> QED
    <3>1. After(k + 1, h, mt, pat, val) /\ k + 1 \in 0 .. K
      BY <1>3, <2>4, <2>5, <2>6 DEF After
    <3> QED
      BY <1>6, <2>1, <3>1
<1>9. K \in Q
  <2>1. \A k \in 0 .. K - 1 : k \in Q => k + 1 \in Q
    BY <1>8
  <2>2. \A k \in 0 .. K : k \in Q
    BY ONLY <1>7, <2>1, K \in Nat, Upto
  <2> QED
    BY <1>3, <2>2
<1>10. PICK g : g = run[K]
  OBVIOUS
<1>11. IsGlobState(g, mt, pat, val) /\ (Over(g, val) \/ Measure(g, pat) > K)
  BY <1>6, <1>9, <1>10 DEF After
<1>12. PICK p \in 1 .. P + 1, v \in 1 .. V + 1 : p = g.p /\ v = g.v
  BY <1>1, <1>11 DEF IsGlobState, IsPlace
<1>13. Over(g, val)
  <2> SUFFICES ASSUME ~Over(g, val) PROVE FALSE
    OBVIOUS
  <2>1. PICK r \in 1 .. V : r = g.retry
    <3>1. g.retry \in 1 .. v /\ v \in 1 .. V
      BY <1>1, <1>11, <1>12 DEF IsGlobState, IsPlace, Over
    <3> QED
      BY <3>1
  <2>2. PICK d \in Nat : V = r + d
    <3>1. V - r \in Nat /\ V = r + (V - r)
      OBVIOUS
    <3> QED
      BY <3>1
  <2>3. PICK x \in Nat, y \in Nat : x = r * (P + 2) /\ y = d * (P + 2)
    OBVIOUS
  <2>4. K = x + y + (P + 2)
    BY <1>3, <2>2, <2>3
  <2>5. Measure(g, pat) = x + p
    BY <1>1, <1>12, <2>1, <2>3 DEF Measure
  <2> QED
    BY <1>11, <2>4, <2>5
<1>14. CASE g.ok
  <2>1. v = V + 1
    BY <1>1, <1>12, <1>13, <1>14 DEF Over
  <2>2. ~Later(mt, g, val)
    <3> SUFFICES ASSUME Later(mt, g, val) PROVE FALSE
      OBVIOUS
    <3>1. PICK w \in g.v + 1 .. Len(val) + 1 : <<g.p, w>> \in mt
      BY <1>1, <1>2, <1>11, LaterMeets DEF IsGlobState
    <3> QED
      BY <1>1, <1>12, <2>1, <3>1
  <2>3. <<1, 1>> \in mt <=> <<p, V + 1>> \in mt
    BY <1>11, <1>12, <1>14, <2>1, <2>2 DEF IsGlobState
  <2>4. <<p, V + 1>> \in mt <=> TrailingStars(pat, p)
    BY <1>1, <1>2, StarsAtEnd
  <2> QED
    BY <1>2, <1>4, <1>10, <1>12, <1>14, <2>3, <2>4 DEF glob_matches
<1>15. CASE ~g.ok
  BY <1>2, <1>4, <1>10, <1>11, <1>15 DEF IsGlobState, glob_matches
<1> QED
  BY <1>14, <1>15

-----------------------------------------------------------------------------
(* The same loop over a value that may itself hold a "*".  The matcher may  *)
(* then take a star of the pattern for a literal and miss a match, but it   *)
(* still accepts no value that the pattern does not stand for.              *)

IsStop(g, pat, val) ==
  /\ g = [p |-> g.p, v |-> g.v, star |-> g.star, retry |-> g.retry, ok |-> g.ok]
  /\ g.p \in 1 .. Len(pat) + 1 /\ g.v \in 1 .. Len(val) + 1
  /\ g.star \in 0 .. g.p - 1 /\ g.retry \in 1 .. g.v

\* A match from here, or from a retry, is a match of the whole.
IsSoundState(g, mt, pat, val) ==
  /\ IsStop(g, pat, val)
  /\ g.ok \in BOOLEAN
  /\ <<g.p, g.v>> \in mt => <<1, 1>> \in mt
  /\ g.star # 0 => \A r \in g.retry .. Len(val) + 1 : <<g.star + 1, r>> \in mt => <<1, 1>> \in mt

\* One turn, over any value: what it goes on to match is a match of the whole,
\* and every turn of a loop that is not over makes the measure larger.
LEMMA GlobTurnSound ==
  ASSUME NEW S, NEW pat \in Seq(S), NEW val \in Seq(S), NEW mt,
         IsMeaning(mt, pat, val), NEW g, IsSoundState(g, mt, pat, val)
  PROVE  /\ IsSoundState(GlobTurn(pat, val, g), mt, pat, val)
         /\ Over(g, val) => GlobTurn(pat, val, g) = g
         /\ ~Over(g, val) => \/ Over(GlobTurn(pat, val, g), val)
                             \/ Measure(GlobTurn(pat, val, g), pat) > Measure(g, pat)
<1> PICK P \in Nat, V \in Nat : P = Len(pat) /\ V = Len(val)
  OBVIOUS
<1>1. IsStop(g, pat, val) /\ g.ok \in BOOLEAN
  BY DEF IsSoundState
<1>2. PICK p \in 1 .. P + 1, v \in 1 .. V + 1 : p = g.p /\ v = g.v
  BY <1>1 DEF IsStop
<1>3. PICK star \in 0 .. p - 1, retry \in 1 .. v : star = g.star /\ retry = g.retry
  BY <1>1, <1>2 DEF IsStop
<1>4. PICK h : h = GlobTurn(pat, val, g)
  OBVIOUS
<1>5. PICK no : no = FALSE
  OBVIOUS
<1>6. PICK ok : ok = g.ok
  OBVIOUS
<1>7. g = [p |-> p, v |-> v, star |-> star, retry |-> retry, ok |-> ok]
  BY <1>1, <1>2, <1>3, <1>6 DEF IsStop
<1>8. /\ <<p, v>> \in mt => <<1, 1>> \in mt
      /\ star # 0 => \A r \in retry .. V + 1 : <<star + 1, r>> \in mt => <<1, 1>> \in mt
  BY <1>2, <1>3 DEF IsSoundState
<1>9. CASE Over(g, val)
  BY <1>9 DEF Over, GlobTurn
<1>10. ASSUME ~Over(g, val) PROVE v \in 1 .. V /\ g.ok
  BY <1>2, <1>10 DEF Over
<1>11. CASE ~Over(g, val) /\ p <= P /\ pat[p] = val[v]
  <2>1. h = [g EXCEPT !.p = @ + 1, !.v = @ + 1]
    BY <1>2, <1>4, <1>10, <1>11 DEF GlobTurn
  <2>2. h = [p |-> p + 1, v |-> v + 1, star |-> star, retry |-> retry, ok |-> ok]
    BY <1>7, <2>1
  <2>3. v \in 1 .. V /\ p \in 1 .. P
    BY <1>10, <1>11
  <2>4. IsStop(h, pat, val)
    <3>1. p + 1 \in 1 .. P + 1 /\ v + 1 \in 1 .. V + 1
      BY <2>3
    <3> QED
      BY <2>2, <3>1 DEF IsStop
  <2>5. <<p + 1, v + 1>> \in mt => <<p, v>> \in mt
    <3>1. CASE pat[p] = "*"
      <4>1. <<p, v>> \in mt <=> \E r \in v .. V + 1 : <<p + 1, r>> \in mt
        BY <2>3, <3>1 DEF IsMeaning
      <4>2. v + 1 \in v .. V + 1
        BY <2>3
      <4> QED
        BY <4>1, <4>2
    <3>2. CASE pat[p] # "*"
      BY <1>11, <2>3, <3>2 DEF IsMeaning
    <3> QED
      BY <3>1, <3>2
  <2>6. h.ok = g.ok /\ <<h.p, h.v>> = <<p + 1, v + 1>> /\ h.star = star /\ h.retry = retry
    BY <1>6, <2>2
  <2>7. IsSoundState(h, mt, pat, val)
    BY <1>1, <1>8, <2>4, <2>5, <2>6 DEF IsSoundState
  <2>8. Measure(h, pat) > Measure(g, pat)
    <3>1. PICK x \in Nat : x = retry * (P + 2)
      OBVIOUS
    <3>2. Measure(h, pat) = x + (p + 1) /\ Measure(g, pat) = x + p
      BY <1>7, <2>2, <3>1 DEF Measure
    <3> QED
      BY <3>2
  <2> QED
    BY <1>4, <1>11, <2>7, <2>8
<1>12. CASE ~Over(g, val) /\ p <= P /\ pat[p] # val[v] /\ pat[p] = "*"
  <2>1. h = [g EXCEPT !.p = @ + 1, !.star = g.p, !.retry = g.v]
    BY <1>2, <1>4, <1>10, <1>12 DEF GlobTurn
  <2>2. h = [p |-> p + 1, v |-> v, star |-> p, retry |-> v, ok |-> ok]
    BY <1>7, <2>1
  <2>3. IsStop(h, pat, val)
    BY <1>12, <2>2 DEF IsStop
  <2>4. \A r \in v .. V + 1 : <<p + 1, r>> \in mt => <<p, v>> \in mt
    <3>1. <<p, v>> \in mt <=> \E r \in v .. V + 1 : <<p + 1, r>> \in mt
      BY <1>12 DEF IsMeaning
    <3> QED
      BY <3>1
  <2>5. <<p + 1, v>> \in mt => <<p, v>> \in mt
    <3>1. v \in v .. V + 1
      OBVIOUS
    <3> QED
      BY <2>4, <3>1
  <2>6. h.ok = g.ok /\ <<h.p, h.v>> = <<p + 1, v>> /\ h.star = p /\ h.retry = v
    BY <1>6, <2>2
  <2>7. IsSoundState(h, mt, pat, val)
    BY <1>1, <1>8, <2>3, <2>4, <2>5, <2>6 DEF IsSoundState
  <2>8. Measure(h, pat) > Measure(g, pat)
    <3>1. PICK x \in Nat, y \in Nat : x = retry * (P + 2) /\ y = v * (P + 2)
      OBVIOUS
    <3>2. PICK d \in Nat, z \in Nat : v = retry + d /\ z = d * (P + 2)
      <4>1. v - retry \in Nat /\ v = retry + (v - retry) /\ (v - retry) * (P + 2) \in Nat
        OBVIOUS
      <4> QED
        BY <4>1
    <3>3. y = x + z
      BY <3>1, <3>2
    <3>4. Measure(h, pat) = y + (p + 1) /\ Measure(g, pat) = x + p
      BY <1>7, <2>2, <3>1 DEF Measure
    <3> QED
      BY <3>3, <3>4
  <2> QED
    BY <1>4, <1>12, <2>7, <2>8
<1>13. CASE ~Over(g, val) /\ ~(p <= P /\ (pat[p] = val[v] \/ pat[p] = "*")) /\ star # 0
  <2>1. h = [g EXCEPT !.p = g.star + 1, !.v = g.retry + 1, !.retry = @ + 1]
    BY <1>2, <1>3, <1>4, <1>10, <1>13 DEF GlobTurn
  <2>2. h = [p |-> star + 1, v |-> retry + 1, star |-> star, retry |-> retry + 1, ok |-> ok]
    BY <1>7, <2>1
  <2>3. retry + 1 \in 1 .. V + 1 /\ star + 1 \in 1 .. P + 1
    BY <1>10, <1>13
  <2>4. IsStop(h, pat, val)
    BY <2>2, <2>3 DEF IsStop
  <2>5. /\ <<star + 1, retry + 1>> \in mt => <<1, 1>> \in mt
        /\ \A r \in retry + 1 .. V + 1 : <<star + 1, r>> \in mt => <<1, 1>> \in mt
    <3>1. retry + 1 \in retry .. V + 1 /\ retry + 1 .. V + 1 \subseteq retry .. V + 1
      BY <2>3
    <3> QED
      BY <1>8, <1>13, <3>1
  <2>6. h.ok = g.ok /\ <<h.p, h.v>> = <<star + 1, retry + 1>> /\ h.star = star /\ h.retry = retry + 1
    BY <1>6, <2>2
  <2>7. IsSoundState(h, mt, pat, val)
    BY <1>1, <2>4, <2>5, <2>6 DEF IsSoundState
  <2>8. Measure(h, pat) > Measure(g, pat)
    <3>1. PICK x \in Nat : x = retry * (P + 2)
      OBVIOUS
    <3>2. (retry + 1) * (P + 2) = x + (P + 2)
      BY <3>1
    <3>3. Measure(h, pat) = (x + (P + 2)) + (star + 1) /\ Measure(g, pat) = x + p
      BY <1>7, <2>2, <3>1, <3>2 DEF Measure
    <3> QED
      BY <3>3
  <2> QED
    BY <1>4, <1>13, <2>7, <2>8
<1>14. CASE ~Over(g, val) /\ ~(p <= P /\ (pat[p] = val[v] \/ pat[p] = "*")) /\ star = 0
  <2>1. h = [g EXCEPT !.ok = FALSE]
    BY <1>2, <1>3, <1>4, <1>10, <1>14 DEF GlobTurn
  <2>2. h = [p |-> p, v |-> v, star |-> star, retry |-> retry, ok |-> no]
    BY <1>5, <1>7, <2>1
  <2>3. IsStop(h, pat, val) /\ h.ok = no
    BY <1>1, <1>7, <2>2 DEF IsStop
  <2>4. <<h.p, h.v>> = <<p, v>> /\ h.star = 0
    BY <1>14, <2>2
  <2>5. IsSoundState(h, mt, pat, val) /\ Over(h, val)
    BY <1>5, <1>8, <2>3, <2>4 DEF IsSoundState, Over
  <2> QED
    BY <1>4, <1>14, <2>5
<1> QED
  BY <1>9, <1>11, <1>12, <1>13, <1>14

\* The matcher accepts only what the pattern stands for, whatever the value.
LEMMA GlobAcceptsMeaning ==
  ASSUME NEW S, NEW pat \in Seq(S), NEW val \in Seq(S), glob_matches(pat, val)
  PROVE  Stands(pat, val)
<1>1. PICK P \in Nat, V \in Nat : P = Len(pat) /\ V = Len(val)
  OBVIOUS
<1>2. PICK mt : IsMeaning(mt, pat, val) /\ (Stands(pat, val) <=> <<1, 1>> \in mt)
  BY <1>1, MeaningOf
<1>3. PICK K \in Nat : K = GlobTurns(pat, val) /\ K = (V + 1) * (P + 2)
  BY <1>1 DEF GlobTurns
<1>4. PICK run : IsGlobRun(run, pat, val, K) /\ GlobEnd(pat, val) = run[K]
  BY <1>3, GlobRuns
<1>5. \A k \in 0 .. K : run[k] = IF k = 0 THEN GlobStart ELSE GlobTurn(pat, val, run[k - 1])
  BY <1>4 DEF IsGlobRun
<1>6. PICK Q : Q = {k \in 0 .. K : IsSoundState(run[k], mt, pat, val) /\ (Over(run[k], val) \/ Measure(run[k], pat) > k)}
  OBVIOUS
<1>7. 0 \in Q
  <2>1. PICK g : g = GlobStart
    OBVIOUS
  <2>2. PICK yes : yes = TRUE
    OBVIOUS
  <2>3. g = [p |-> 1, v |-> 1, star |-> 0, retry |-> 1, ok |-> yes]
    BY <2>1, <2>2 DEF GlobStart
  <2>4. IsStop(g, pat, val) /\ g.ok = yes /\ g.p = 1 /\ g.v = 1 /\ g.star = 0
    BY <1>1, <2>3 DEF IsStop
  <2>5. IsSoundState(g, mt, pat, val)
    BY <2>2, <2>4 DEF IsSoundState
  <2>6. Measure(g, pat) > 0
    BY <1>1, <2>3 DEF Measure
  <2>7. run[0] = g
    BY <1>5, <2>1
  <2> QED
    BY <1>3, <1>6, <2>5, <2>6, <2>7
<1>8. ASSUME NEW k \in 0 .. K - 1, k \in Q PROVE k + 1 \in Q
  <2>1. PICK g, h : g = run[k] /\ h = run[k + 1]
    OBVIOUS
  <2>2. h = GlobTurn(pat, val, g)
    BY <1>5, <2>1
  <2>3. IsSoundState(g, mt, pat, val) /\ (Over(g, val) \/ Measure(g, pat) > k)
    BY <1>6, <1>8, <2>1
  <2>4. /\ IsSoundState(h, mt, pat, val)
        /\ Over(g, val) => h = g
        /\ ~Over(g, val) => Over(h, val) \/ Measure(h, pat) > Measure(g, pat)
    BY <1>2, <2>2, <2>3, GlobTurnSound
  <2>5. PICK a \in Nat, b \in Nat : a = Measure(g, pat) /\ b = Measure(h, pat)
    <3>1. PICK ra \in Nat, pa \in Nat : ra = g.retry /\ pa = g.p
      BY <2>3 DEF IsSoundState, IsStop
    <3>2. PICK rb \in Nat, pb \in Nat : rb = h.retry /\ pb = h.p
      <4>1. IsStop(h, pat, val)
        BY <2>4 DEF IsSoundState
      <4>2. h.p \in 1 .. P + 1 /\ h.v \in 1 .. V + 1 /\ h.retry \in 1 .. h.v
        BY <1>1, <4>1 DEF IsStop
      <4>3. h.p \in Nat /\ h.retry \in Nat
        BY ONLY P \in Nat, V \in Nat, <4>2
      <4> QED
        BY <4>3
    <3>3. ra * (P + 2) + pa \in Nat /\ rb * (P + 2) + pb \in Nat
      OBVIOUS
    <3> QED
      BY <1>1, <3>1, <3>2, <3>3 DEF Measure
  <2>6. Over(h, val) \/ b > k + 1
    BY <2>3, <2>4, <2>5
  <2> QED
    <3>1. (Over(h, val) \/ Measure(h, pat) > k + 1) /\ k + 1 \in 0 .. K
      BY <1>3, <2>5, <2>6
    <3> QED
      BY <1>6, <2>1, <2>4, <3>1
<1>9. K \in Q
  <2>1. \A k \in 0 .. K - 1 : k \in Q => k + 1 \in Q
    BY <1>8
  <2>2. \A k \in 0 .. K : k \in Q
    BY ONLY <1>7, <2>1, K \in Nat, Upto
  <2> QED
    BY <1>3, <2>2
<1>10. PICK g : g = run[K]
  OBVIOUS
<1>11. IsSoundState(g, mt, pat, val) /\ (Over(g, val) \/ Measure(g, pat) > K)
  BY <1>6, <1>9, <1>10
<1>12. PICK p \in 1 .. P + 1, v \in 1 .. V + 1 : p = g.p /\ v = g.v
  BY <1>1, <1>11 DEF IsSoundState, IsStop
<1>13. Over(g, val)
  <2> SUFFICES ASSUME ~Over(g, val) PROVE FALSE
    OBVIOUS
  <2>1. PICK r \in 1 .. V : r = g.retry
    <3>1. g.retry \in 1 .. v /\ v \in 1 .. V
      BY <1>1, <1>11, <1>12 DEF IsSoundState, IsStop, Over
    <3> QED
      BY <3>1
  <2>2. PICK d \in Nat : V = r + d
    <3>1. V - r \in Nat /\ V = r + (V - r)
      OBVIOUS
    <3> QED
      BY <3>1
  <2>3. PICK x \in Nat, y \in Nat : x = r * (P + 2) /\ y = d * (P + 2)
    OBVIOUS
  <2>4. K = x + y + (P + 2)
    BY <1>3, <2>2, <2>3
  <2>5. Measure(g, pat) = x + p
    BY <1>1, <1>12, <2>1, <2>3 DEF Measure
  <2> QED
    BY <1>11, <2>4, <2>5
<1>14. g.ok /\ TrailingStars(pat, p)
  BY <1>4, <1>10, <1>12 DEF glob_matches
<1>15. v = V + 1
  BY <1>1, <1>12, <1>13, <1>14 DEF Over
<1>16. <<p, V + 1>> \in mt
  BY <1>1, <1>2, <1>14, StarsAtEnd
<1> QED
  BY <1>2, <1>11, <1>12, <1>15, <1>16 DEF IsSoundState

-----------------------------------------------------------------------------

\* The inputs that are built up.
IsInput ==
  /\ input \in Seq(Tokens) /\ Len(input) <= MaxTokens
  /\ pattern \in Seq(Characters \cup {"*"}) /\ value \in Seq(Characters)

\* Inputs are made of the tokens and characters of the model, within its bounds.
LEMMA InputInv == Spec => []IsInput
<1>1. Init => IsInput
  BY CodecAssumption DEF Init, IsInput
<1>2. IsInput /\ [Next]_vars => IsInput'
  <2> SUFFICES ASSUME IsInput, [Next]_vars PROVE IsInput'
    OBVIOUS
  <2>1. CASE UNCHANGED vars
    BY <2>1 DEF IsInput, vars
  <2>2. ASSUME NEW c \in Tokens, Feed(c) PROVE IsInput'
    <3>1. Len(Append(input, c)) = Len(input) + 1 /\ Len(input) \in Nat
      BY DEF IsInput
    <3> QED
      BY <2>2, <3>1, CodecAssumption DEF IsInput, Feed
  <2>3. ASSUME NEW c \in Characters \cup {"*"}, Spell(c) PROVE IsInput'
    <3>1. CASE pattern' = Append(pattern, c) /\ UNCHANGED <<value, input>>
      BY <3>1 DEF IsInput
    <3>2. CASE c \in Characters /\ value' = Append(value, c) /\ UNCHANGED <<pattern, input>>
      BY <3>2 DEF IsInput
    <3> QED
      BY <2>3, <3>1, <3>2 DEF Spell
  <2> QED
    BY <2>1, <2>2, <2>3 DEF Next
<1> QED
  BY <1>1, <1>2, PTL DEF Spec

\* The matcher of policy rules, a loop with a single point to return to, accepts
\* only what the meaning of "*" accepts, for every pattern and every value over
\* every set of characters, and all of it when the value has no "*".
THEOREM GlobMatchesItsMeaning == Spec => []GlobIsSound
<1>1. IsInput => GlobIsSound
  <2> SUFFICES ASSUME IsInput PROVE GlobIsSound
    OBVIOUS
  <2>1. ASSUME glob_matches(pattern, value) PROVE Stands(pattern, value)
    <3>1. PICK S : S = Characters \cup {"*"}
      OBVIOUS
    <3>2. pattern \in Seq(S) /\ value \in Seq(S)
      BY <3>1 DEF IsInput
    <3> QED
      BY <2>1, <3>2, GlobAcceptsMeaning
  <2>2. ASSUME "*" \notin Range(value) PROVE glob_matches(pattern, value) <=> Stands(pattern, value)
    <3>1. PICK C : C = Characters \ {"*"}
      OBVIOUS
    <3>2. \A i \in 1 .. Len(value) : value[i] # "*"
      BY <2>2 DEF IsInput, Range
    <3>3. "*" \notin C /\ pattern \in Seq(C \cup {"*"}) /\ value \in Seq(C)
      BY <3>1, <3>2 DEF IsInput
    <3> QED
      BY <3>3, GlobIsMeaning
  <2> QED
    BY <2>1, <2>2 DEF GlobIsSound
<1> QED
  BY <1>1, InputInv, PTL
-----------------------------------------------------------------------------
(* Sequences, and the recursive functions of the scanner.                   *)

IsSeq(q) == \E S : q \in Seq(S)

\* The empty sequence.
LEMMA EmptyIs == IsSeq(<<>>) /\ DOMAIN <<>> = {} /\ Len(<<>>) = 0
<1>1. <<>> \in Seq({})
  OBVIOUS
<1> QED
  BY <1>1 DEF IsSeq

\* A sequence of one.
LEMMA OneIs ==
  ASSUME NEW x
  PROVE  IsSeq(<<x>>) /\ Len(<<x>>) = 1 /\ <<x>>[1] = x
<1>1. <<x>> \in Seq({x})
  OBVIOUS
<1> QED
  BY <1>1 DEF IsSeq

\* h is q and then r.
IsJoin(h, q, r) ==
  /\ IsSeq(h) /\ Len(q) \in Nat /\ Len(r) \in Nat /\ Len(h) = Len(q) + Len(r)
  /\ \A n \in 1 .. Len(q) : h[n] = q[n]
  /\ \A n \in 1 .. Len(r) : h[Len(q) + n] = r[n]

\* A sequence and another after it.
LEMMA ConcatIs ==
  ASSUME NEW q, NEW r, IsSeq(q), IsSeq(r)
  PROVE  IsJoin(q \o r, q, r)
<1>1. PICK S : q \in Seq(S)
  BY DEF IsSeq
<1>2. PICK T : r \in Seq(T)
  BY DEF IsSeq
<1>3. q \in Seq(S \cup T) /\ r \in Seq(S \cup T) /\ q \o r \in Seq(S \cup T)
  BY <1>1, <1>2
<1>4. IsSeq(q \o r)
  BY <1>3 DEF IsSeq
<1>5. \A n \in 1 .. Len(r) : (q \o r)[Len(q) + n] = r[n]
  BY <1>3
<1> QED
  BY <1>3, <1>4, <1>5 DEF IsJoin

\* A function on 1 .. n is a sequence.
LEMMA FunIs ==
  ASSUME NEW n \in Nat, NEW f, f = [i \in 1 .. n |-> f[i]]
  PROVE  IsSeq(f) /\ Len(f) = n
<1>1. PICK S : S = {f[i] : i \in 1 .. n}
  OBVIOUS
<1>2. f \in [1 .. n -> S]
  BY <1>1
<1>3. f \in Seq(S) /\ Len(f) = n
  BY ONLY <1>2, n \in Nat
<1> QED
  BY <1>3 DEF IsSeq

ScanRow(s, left, below) ==
  [o \in 1 .. Len(s) + 1 |-> IF left = 0 THEN Err("NestingTooDeep")
                             ELSE ScanHead(take_byte(s, o), s, o, below)]

IsScan(item, s, n) == item = [left \in 0 .. n |-> ScanRow(s, left, item[left - 1])]

\* The levels of a scan exist.
LEMMA ScanExists ==
  ASSUME NEW s, NEW n \in Nat
  PROVE  \E item : IsScan(item, s, n)
<1>1. PICK P : P = {k \in Nat : \E item : IsScan(item, s, k)}
  OBVIOUS
<1>2. 0 \in P
  <2>1. PICK item : item = [i \in 0 .. 0 |-> ScanRow(s, 0, {})]
    OBVIOUS
  <2>2. \A i \in 0 .. 0 : ScanRow(s, 0, {}) = ScanRow(s, i, item[i - 1])
    BY DEF ScanRow
  <2>3. IsScan(item, s, 0)
    BY <2>1, <2>2 DEF IsScan
  <2> QED
    BY <1>1, <2>3
<1>3. ASSUME NEW k \in 0 .. n - 1, k \in P PROVE k + 1 \in P
  <2>1. PICK g : IsScan(g, s, k)
    BY <1>1, <1>3
  <2>2. PICK h : h = [i \in 0 .. k + 1 |-> IF i = k + 1 THEN ScanRow(s, k + 1, g[k]) ELSE g[i]]
    OBVIOUS
  <2>3. \A i \in 0 .. k : g[i] = ScanRow(s, i, g[i - 1])
    BY <2>1 DEF IsScan
  <2>4. \A i \in 0 .. k : h[i] = g[i]
    BY <2>2
  <2>5. ScanRow(s, 0, h[0 - 1]) = ScanRow(s, 0, g[0 - 1])
    BY DEF ScanRow
  <2>6. \A i \in 0 .. k + 1 : h[i] = ScanRow(s, i, h[i - 1])
    BY <2>2, <2>3, <2>4, <2>5
  <2>7. IsScan(h, s, k + 1)
    BY <2>2, <2>6 DEF IsScan
  <2> QED
    BY <1>1, <2>7
<1>4. n \in P
  BY <1>2, <1>3, Upto
<1> QED
  BY <1>1, <1>4

\* scan_item, one level at a time.
LEMMA ScanLevels ==
  ASSUME NEW s
  PROVE  /\ \A o \in 1 .. Len(s) + 1 : scan_item(s)[0][o] = Err("NestingTooDeep")
         /\ \A left \in 1 .. MaxDepth + 1, o \in 1 .. Len(s) + 1 :
              scan_item(s)[left][o] = ScanHead(take_byte(s, o), s, o, scan_item(s)[left - 1])
<1>1. PICK g : g = CHOOSE item : IsScan(item, s, MaxDepth + 1)
  OBVIOUS
<1>2. MaxDepth + 1 \in Nat
  BY LimitsAssumption
<1>3. IsScan(g, s, MaxDepth + 1)
  BY <1>1, <1>2, ScanExists
<1>4. scan_item(s) = g
  BY <1>1 DEF scan_item, IsScan, ScanRow
<1>5. \A left \in 0 .. MaxDepth + 1 : g[left] = ScanRow(s, left, g[left - 1])
  BY <1>3 DEF IsScan
<1>6. \A o \in 1 .. Len(s) + 1 : g[0][o] = Err("NestingTooDeep")
  <2>1. g[0] = ScanRow(s, 0, g[0 - 1])
    BY <1>2, <1>5
  <2> QED
    BY <2>1 DEF ScanRow
<1>7. ASSUME NEW left \in 1 .. MaxDepth + 1, NEW o \in 1 .. Len(s) + 1
      PROVE  g[left][o] = ScanHead(take_byte(s, o), s, o, g[left - 1])
  <2>1. g[left] = ScanRow(s, left, g[left - 1]) /\ left # 0
    BY <1>5
  <2> QED
    BY <2>1 DEF ScanRow
<1> QED
  BY <1>4, <1>6, <1>7

IsLoop(turn, s, kind, r0, below, n) ==
  turn = [k \in 0 .. n |-> IF k = 0 THEN r0 ELSE Turn(s, kind, turn[k - 1], below)]

\* The turns of a loop exist.
LEMMA LoopExists ==
  ASSUME NEW s, NEW kind, NEW r0, NEW below, NEW n \in Nat
  PROVE  \E turn : IsLoop(turn, s, kind, r0, below, n)
<1>1. PICK P : P = {k \in Nat : \E turn : IsLoop(turn, s, kind, r0, below, k)}
  OBVIOUS
<1>2. 0 \in P
  <2>1. IsLoop([k \in 0 .. 0 |-> r0], s, kind, r0, below, 0)
    BY DEF IsLoop
  <2> QED
    BY <1>1, <2>1
<1>3. ASSUME NEW k \in 0 .. n - 1, k \in P PROVE k + 1 \in P
  <2>1. PICK g : IsLoop(g, s, kind, r0, below, k)
    BY <1>1, <1>3
  <2>2. PICK h : h = [i \in 0 .. k + 1 |-> IF i = k + 1 THEN Turn(s, kind, g[k], below) ELSE g[i]]
    OBVIOUS
  <2>3. \A i \in 0 .. k : g[i] = IF i = 0 THEN r0 ELSE Turn(s, kind, g[i - 1], below)
    BY <2>1 DEF IsLoop
  <2>4. \A i \in 0 .. k : h[i] = g[i]
    BY <2>2
  <2>5. \A i \in 0 .. k + 1 : h[i] = IF i = 0 THEN r0 ELSE Turn(s, kind, h[i - 1], below)
    BY <2>2, <2>3, <2>4
  <2>6. IsLoop(h, s, kind, r0, below, k + 1)
    BY <2>2, <2>5 DEF IsLoop
  <2> QED
    BY <1>1, <2>6
<1>4. n \in P
  BY <1>2, <1>3, Upto
<1> QED
  BY <1>1, <1>4

IsRun(turn, s, kind, r0, below) ==
  turn[0] = r0 /\ \A k \in 1 .. Len(s) : turn[k] = Turn(s, kind, turn[k - 1], below)

\* Turns, one turn at a time.
LEMMA LoopRuns ==
  ASSUME NEW s, Len(s) \in Nat, NEW kind, NEW r0, NEW below
  PROVE  \E turn : /\ IsRun(turn, s, kind, r0, below)
                   /\ Turns(s, kind, r0, below) = turn[Len(s)]
<1>1. PICK g : g = CHOOSE turn : IsLoop(turn, s, kind, r0, below, Len(s))
  OBVIOUS
<1>2. IsLoop(g, s, kind, r0, below, Len(s))
  BY <1>1, LoopExists
<1>3. Turns(s, kind, r0, below) = g[Len(s)]
  BY <1>1 DEF Turns, IsLoop
<1>4. \A k \in 0 .. Len(s) : g[k] = IF k = 0 THEN r0 ELSE Turn(s, kind, g[k - 1], below)
  BY <1>2 DEF IsLoop
<1> QED
  BY <1>3, <1>4 DEF IsRun

\* A loop that has failed, or has no more to do, stays as it is.
LEMMA LoopRests ==
  ASSUME NEW s, NEW kind, NEW r, NEW below, Failed(r) \/ r.n = 0
  PROVE  Turn(s, kind, r, below) = r
BY DEF Turn

\* A loop stops with the error it met.
LEMMA StoppedFails ==
  ASSUME NEW x, Failed(x)
  PROVE  Failed(Stopped(x.err))
BY DEF Failed, Stopped, Loop

\* A loop that has come to rest ends as it is.
LEMMA LoopSettles ==
  ASSUME NEW s, NEW kind, NEW r0, NEW below, NEW turn, IsRun(turn, s, kind, r0, below),
         Len(s) \in Nat, NEW n \in 0 .. Len(s), Failed(turn[n]) \/ turn[n].n = 0
  PROVE  turn[Len(s)] = turn[n]
<1>0. PICK L \in Nat : L = Len(s) /\ \A k \in 1 .. L : turn[k] = Turn(s, kind, turn[k - 1], below)
  BY DEF IsRun
<1>1. PICK d \in Nat : d = L - n
  <2>1. L - n \in Nat
    BY <1>0
  <2> QED
    BY <2>1
<1>2. PICK P : P = {i \in 0 .. d : turn[n + i] = turn[n]}
  OBVIOUS
<1>3. 0 \in P
  BY <1>1, <1>2
<1>4. ASSUME NEW i \in 0 .. d - 1, i \in P PROVE i + 1 \in P
  <2>1. PICK j \in 1 .. L : j = n + (i + 1) /\ j - 1 = n + i
    <3>1. n + (i + 1) \in 1 .. L /\ (n + (i + 1)) - 1 = n + i
      BY <1>0, <1>1
    <3> QED
      BY <3>1
  <2>2. turn[j] = Turn(s, kind, turn[n + i], below) /\ turn[n + i] = turn[n]
    BY <1>0, <1>2, <1>4, <2>1
  <2>3. turn[j] = turn[n]
    BY <2>2, LoopRests
  <2>4. i + 1 \in 0 .. d
    BY <1>1
  <2> QED
    BY <1>2, <2>1, <2>3, <2>4
<1>5. \A i \in 0 .. d : i \in P
  <2>1. \A i \in 0 .. d - 1 : i \in P => i + 1 \in P
    BY <1>4
  <2> QED
    BY ONLY <1>3, <2>1, d \in Nat, Upto
<1>6. d \in P /\ n + d = L
  BY <1>0, <1>1, <1>5
<1> QED
  BY <1>0, <1>2, <1>6

-----------------------------------------------------------------------------
(* Stretches of an input.                                                   *)

\* From o up to the place before e.
Cut(s, o, e) == [i \in 1 .. e - o |-> s[o + i - 1]]

IsCut(w, s, o, e) == IsSeq(w) /\ Len(w) = e - o /\ \A i \in 1 .. e - o : w[i] = s[o + i - 1]

\* A stretch is a sequence.
LEMMA CutIs ==
  ASSUME NEW s, NEW o \in Nat, NEW e \in Nat, o <= e
  PROVE  IsCut(Cut(s, o, e), s, o, e)
<1>1. PICK f : f = Cut(s, o, e)
  OBVIOUS
<1>2. PICK n \in Nat : n = e - o
  <2>1. e - o \in Nat
    OBVIOUS
  <2> QED
    BY <2>1
<1>3. f = [i \in 1 .. n |-> s[o + i - 1]]
  BY <1>1, <1>2 DEF Cut
<1>4. f = [i \in 1 .. n |-> f[i]]
  BY <1>3
<1>5. IsSeq(f) /\ Len(f) = n
  BY ONLY <1>4, n \in Nat, FunIs
<1> QED
  BY <1>1, <1>2, <1>3, <1>5 DEF IsCut

\* Sequences with the same members are the same.
LEMMA SameSeq ==
  ASSUME NEW q, NEW r, IsSeq(q), IsSeq(r), Len(q) = Len(r), \A i \in 1 .. Len(q) : q[i] = r[i]
  PROVE  q = r
<1>1. PICK S : q \in Seq(S)
  BY DEF IsSeq
<1>2. PICK T : r \in Seq(T)
  BY DEF IsSeq
<1>3. q \in Seq(S \cup T) /\ r \in Seq(S \cup T)
  BY <1>1, <1>2
<1>4. q = [i \in 1 .. Len(q) |-> q[i]] /\ r = [i \in 1 .. Len(r) |-> r[i]]
  BY <1>3
<1> QED
  BY <1>4

\* A stretch is known by its places.
LEMMA CutOf ==
  ASSUME NEW s, NEW o \in Nat, NEW e \in Nat, o <= e, NEW w, IsCut(w, s, o, e)
  PROVE  w = Cut(s, o, e)
<1>1. PICK f : f = Cut(s, o, e)
  OBVIOUS
<1>3. IsCut(f, s, o, e)
  BY <1>1, CutIs
<1>2. IsSeq(f) /\ Len(w) = Len(f) /\ IsSeq(w) /\ \A i \in 1 .. Len(w) : w[i] = f[i]
  BY <1>3 DEF IsCut
<1> QED
  BY <1>1, <1>2, SameSeq

Parted(s, o, m, e, q, r) ==
  o <= m /\ m <= e /\ m = o + Len(q) /\ q = Cut(s, o, m) /\ r = Cut(s, m, e)

\* A stretch in two parts.
LEMMA CutSplit ==
  ASSUME NEW s, NEW o \in Nat, NEW e \in Nat, o <= e, NEW q, NEW r, IsSeq(q), IsSeq(r),
         Cut(s, o, e) = q \o r
  PROVE  \E m \in Nat : Parted(s, o, m, e, q, r)
<1>1. PICK f : f = Cut(s, o, e)
  OBVIOUS
<1>2. Len(f) = e - o /\ \A i \in 1 .. e - o : f[i] = s[o + i - 1]
  BY <1>1, CutIs DEF IsCut
<1>3. IsJoin(f, q, r)
  BY <1>1, ConcatIs
<1>4. PICK a \in Nat, b \in Nat : a = Len(q) /\ b = Len(r) /\ e - o = a + b
  BY <1>2, <1>3 DEF IsJoin
<1>5. PICK m \in Nat : m = o + a
  OBVIOUS
<1>6. m \in o .. e /\ m - o = a /\ e - m = b /\ o <= m /\ m <= e
  BY <1>4, <1>5
<1>7. ASSUME NEW i \in 1 .. m - o PROVE q[i] = s[o + i - 1]
  <2>1. i \in 1 .. a /\ i \in 1 .. e - o
    BY <1>4, <1>6
  <2>2. f[i] = q[i]
    BY <1>3, <1>4, <2>1 DEF IsJoin
  <2> QED
    BY <1>2, <2>1, <2>2
<1>8. ASSUME NEW i \in 1 .. e - m PROVE r[i] = s[m + i - 1]
  <2>1. i \in 1 .. b /\ a + i \in 1 .. e - o /\ o + (a + i) - 1 = m + i - 1
    BY <1>4, <1>5, <1>6
  <2>2. f[a + i] = r[i]
    BY <1>3, <1>4, <2>1 DEF IsJoin
  <2> QED
    BY <1>2, <2>1, <2>2
<1>9. q = Cut(s, o, m)
  <2>1. IsCut(q, s, o, m)
    BY <1>4, <1>6, <1>7 DEF IsCut
  <2> QED
    BY <1>6, <2>1, CutOf
<1>10. r = Cut(s, m, e)
  <2>1. IsCut(r, s, m, e)
    BY <1>4, <1>6, <1>8 DEF IsCut
  <2> QED
    BY <1>6, <2>1, CutOf
<1> QED
  BY <1>4, <1>5, <1>6, <1>9, <1>10 DEF Parted

\* Two parts that meet.
LEMMA CutJoin ==
  ASSUME NEW s, NEW o \in Nat, NEW m \in Nat, NEW e \in Nat, o <= m, m <= e
  PROVE  Cut(s, o, m) \o Cut(s, m, e) = Cut(s, o, e)
<1>1. PICK q, r : q = Cut(s, o, m) /\ r = Cut(s, m, e)
  OBVIOUS
<1>2. PICK f : f = q \o r
  OBVIOUS
<1>3. PICK a \in Nat, b \in Nat : a = m - o /\ b = e - m
  <2>1. m - o \in Nat /\ e - m \in Nat
    OBVIOUS
  <2> QED
    BY <2>1
<1>4. IsSeq(q) /\ Len(q) = a /\ \A i \in 1 .. a : q[i] = s[o + i - 1]
  <2>1. IsCut(q, s, o, m)
    BY <1>1, CutIs
  <2> QED
    BY <1>3, <2>1 DEF IsCut
<1>5. IsSeq(r) /\ Len(r) = b /\ \A i \in 1 .. b : r[i] = s[m + i - 1]
  <2>1. IsCut(r, s, m, e)
    BY <1>1, CutIs
  <2> QED
    BY <1>3, <2>1 DEF IsCut
<1>10. IsJoin(f, q, r)
  BY <1>2, <1>4, <1>5, ConcatIs
<1>6. /\ IsSeq(f) /\ Len(f) = a + b
      /\ \A i \in 1 .. a : f[i] = q[i]
      /\ \A i \in 1 .. b : f[a + i] = r[i]
  BY <1>4, <1>5, <1>10 DEF IsJoin
<1>7. o <= e /\ a + b = e - o
  BY <1>3
<1>8. ASSUME NEW i \in 1 .. e - o PROVE f[i] = s[o + i - 1]
  <2>1. CASE i <= a
    BY <1>4, <1>6, <2>1
  <2>2. CASE i > a
    <3>1. PICK j \in 1 .. b : i = a + j
      <4>1. i - a \in 1 .. b /\ i = a + (i - a)
        BY <1>7, <2>2
      <4> QED
        BY <4>1
    <3>2. m + j - 1 = o + i - 1
      BY <1>3, <3>1
    <3> QED
      BY <1>5, <1>6, <3>1, <3>2
  <2> QED
    BY <2>1, <2>2
<1>9. f = Cut(s, o, e)
  <2>1. IsCut(f, s, o, e)
    BY <1>6, <1>7, <1>8 DEF IsCut
  <2> QED
    BY <1>7, <2>1, CutOf
<1> QED
  BY <1>1, <1>2, <1>9

\* A single place.
LEMMA CutOne ==
  ASSUME NEW s, NEW o \in Nat
  PROVE  Cut(s, o, o + 1) = <<s[o]>>
<1>1. PICK x : x = s[o]
  OBVIOUS
<1>2. IsSeq(<<x>>) /\ Len(<<x>>) = (o + 1) - o
  BY OneIs
<1>3. ASSUME NEW i \in 1 .. (o + 1) - o PROVE <<x>>[i] = s[o + i - 1]
  <2>1. i = 1 /\ o + i - 1 = o
    OBVIOUS
  <2> QED
    BY <1>1, <2>1, OneIs
<1>4. PICK e \in Nat : e = o + 1
  OBVIOUS
<1>7. PICK w : w = <<x>>
  OBVIOUS
<1>5. IsCut(w, s, o, e) /\ o <= e
  BY <1>2, <1>3, <1>4, <1>7 DEF IsCut
<1>6. w = Cut(s, o, e)
  BY <1>5, CutOf
<1> QED
  BY <1>1, <1>4, <1>6, <1>7

\* One place alone.
LEMMA CutUnit ==
  ASSUME NEW s, NEW o \in Nat, NEW e \in Nat, o <= e, NEW c, Cut(s, o, e) = <<c>>
  PROVE  e = o + 1 /\ s[o] = c
<1>1. PICK w : w = <<c>>
  OBVIOUS
<1>2. IsCut(w, s, o, e) /\ Len(w) = 1 /\ w[1] = c
  BY <1>1, CutIs, OneIs
<1>5. e - o = 1
  BY <1>2 DEF IsCut
<1>3. e = o + 1 /\ 1 \in 1 .. e - o
  BY <1>5
<1>4. w[1] = s[o + 1 - 1] /\ o + 1 - 1 = o
  BY <1>2, <1>3 DEF IsCut
<1> QED
  BY <1>2, <1>3, <1>4

HeadAt(s, o, e, c, w) == o < e /\ s[o] = c /\ w = Cut(s, o + 1, e)
LastAt(s, o, e, c, w) == o < e /\ s[e - 1] = c /\ w = Cut(s, o, e - 1)

\* A head and what follows it.
LEMMA CutHead ==
  ASSUME NEW s, NEW o \in Nat, NEW e \in Nat, o <= e, NEW c, NEW w, IsSeq(w)
  PROVE  Cut(s, o, e) = <<c>> \o w <=> HeadAt(s, o, e, c, w)
<1>1. ASSUME Cut(s, o, e) = <<c>> \o w PROVE o < e /\ s[o] = c /\ w = Cut(s, o + 1, e)
  <2>4. PICK q : q = <<c>>
    OBVIOUS
  <2>5. IsSeq(q) /\ Len(q) = 1 /\ Cut(s, o, e) = q \o w
    BY <1>1, <2>4, OneIs
  <2>6. PICK m \in Nat : Parted(s, o, m, e, q, w)
    BY <2>5, CutSplit
  <2>1. m <= e /\ <<c>> = Cut(s, o, m) /\ w = Cut(s, m, e)
    BY <2>4, <2>6 DEF Parted
  <2>2. m = o + 1 /\ m \in Nat /\ o <= m
    BY <2>5, <2>6 DEF Parted
  <2>3. s[o] = c
    BY ONLY o \in Nat, <2>1, <2>2, CutUnit
  <2> QED
    BY <2>1, <2>2, <2>3
<1>2. ASSUME o < e, s[o] = c, w = Cut(s, o + 1, e) PROVE Cut(s, o, e) = <<c>> \o w
  <2>1. o + 1 \in Nat /\ o <= o + 1 /\ o + 1 <= e
    BY <1>2
  <2>2. Cut(s, o, o + 1) \o Cut(s, o + 1, e) = Cut(s, o, e)
    BY <2>1, CutJoin
  <2> QED
    BY <1>2, <2>2, CutOne
<1> QED
  BY <1>1, <1>2 DEF HeadAt

\* What follows, and a last place.
LEMMA CutLast ==
  ASSUME NEW s, NEW o \in Nat, NEW e \in Nat, o <= e, NEW c, NEW w, IsSeq(w)
  PROVE  Cut(s, o, e) = w \o <<c>> <=> LastAt(s, o, e, c, w)
<1>1. ASSUME Cut(s, o, e) = w \o <<c>> PROVE o < e /\ s[e - 1] = c /\ w = Cut(s, o, e - 1)
  <2>5. PICK q : q = <<c>>
    OBVIOUS
  <2>6. IsSeq(q) /\ Cut(s, o, e) = w \o q
    BY <1>1, <2>5, OneIs
  <2>7. PICK m \in Nat : Parted(s, o, m, e, w, q)
    BY <2>6, CutSplit
  <2>1. w = Cut(s, o, m) /\ q = Cut(s, m, e) /\ o <= m
    BY <2>7 DEF Parted
  <2>2. m \in Nat /\ m <= e
    BY <2>7 DEF Parted
  <2>8. Cut(s, m, e) = <<c>>
    BY <2>1, <2>5
  <2>3. e = m + 1 /\ s[m] = c
    BY <2>2, <2>8, CutUnit
  <2>4. m = e - 1 /\ o < e
    BY <2>1, <2>3
  <2> QED
    BY <2>1, <2>3, <2>4
<1>2. ASSUME o < e, s[e - 1] = c, w = Cut(s, o, e - 1) PROVE Cut(s, o, e) = w \o <<c>>
  <2>1. PICK m \in Nat : m = e - 1 /\ m + 1 = e /\ o <= m /\ m <= e
    <3>1. e - 1 \in Nat /\ (e - 1) + 1 = e /\ o <= e - 1 /\ e - 1 <= e
      BY <1>2
    <3> QED
      BY <3>1
  <2>2. Cut(s, o, m) \o Cut(s, m, e) = Cut(s, o, e)
    BY <2>1, CutJoin
  <2>3. Cut(s, m, e) = <<c>>
    BY <1>2, <2>1, CutOne
  <2> QED
    BY <1>2, <2>1, <2>2, <2>3
<1> QED
  BY <1>1, <1>2 DEF LastAt

-----------------------------------------------------------------------------
(* Strings.                                                                 *)

\* An input of the model.
IsIn(s) == s \in Seq(Tokens) /\ Len(s) <= MaxTokens

\* What an input is.
LEMMA InIs ==
  ASSUME NEW s, IsIn(s)
  PROVE  /\ IsSeq(s) /\ Len(s) \in Nat /\ Len(s) <= MaxTokens /\ MaxTokens \in Nat
         /\ \A o \in 1 .. Len(s) : s[o] \in Tokens /\ s[o].a \in Nat \cup {Indef}
<1>1. \A o \in 1 .. Len(s) : s[o] \in Tokens
  BY DEF IsIn
<1>2. IsSeq(s)
  BY DEF IsIn, IsSeq
<1> QED
  BY <1>1, <1>2, CodecAssumption DEF IsIn

\* A place of an input, and one not before it.
Places(s, o, e) == o \in 1 .. Len(s) + 1 /\ e \in o .. Len(s) + 1

\* Places are numbers.
LEMMA PlacesAre ==
  ASSUME NEW s, IsIn(s), NEW o, NEW e, Places(s, o, e)
  PROVE  /\ o \in Nat /\ e \in Nat /\ o <= e /\ 1 <= o /\ e <= Len(s) + 1
         /\ o < e => o \in 1 .. Len(s)
<1>1. Len(s) \in Nat
  BY InIs
<1> QED
  BY <1>1 DEF Places

\* A frame around w, from o to e.
FrameAt(s, o, e, w) ==
  /\ o < e
  /\ s[o].a # Indef => w = Cut(s, o + 1, e)
  /\ s[o].a = Indef => o + 1 < e /\ w = Cut(s, o + 1, e - 1) /\ s[e - 1].t = "break"

\* What Framed means for a stretch.
LEMMA FramedIs ==
  ASSUME NEW s, IsIn(s), NEW o, NEW e, Places(s, o, e), NEW c, NEW w, IsSeq(w)
  PROVE  Cut(s, o, e) \in Framed(c, w) <=> s[o] = c /\ FrameAt(s, o, e, w)
<1>1. o \in Nat /\ e \in Nat /\ o <= e /\ 1 <= o /\ e <= Len(s) + 1
  BY PlacesAre
<1>2. PICK f : f = Cut(s, o, e)
  OBVIOUS
<1>3. CASE c.a # Indef
  <2>1. f \in Framed(c, w) <=> f = <<c>> \o w
    BY <1>3 DEF Framed
  <2>2. Cut(s, o, e) = <<c>> \o w <=> HeadAt(s, o, e, c, w)
    BY <1>1, CutHead
  <2> QED
    BY <1>2, <1>3, <2>1, <2>2 DEF FrameAt, HeadAt
<1>4. CASE c.a = Indef
  <2>0. PICK h : h = <<c>> \o w
    OBVIOUS
  <2>1. f \in Framed(c, w) <=> \E b \in Of({"break"}) : f = h \o <<b>>
    BY <1>4, <2>0 DEF Framed
  <2>2. IsSeq(h)
    BY <2>0, OneIs, ConcatIs DEF IsJoin
  <2>3. ASSUME NEW b PROVE f = h \o <<b>> <=> o < e /\ s[e - 1] = b /\ h = Cut(s, o, e - 1)
    <3>1. Cut(s, o, e) = h \o <<b>> <=> LastAt(s, o, e, b, h)
      BY <1>1, <2>2, CutLast
    <3> QED
      BY <1>2, <3>1 DEF LastAt
  <2>4. ASSUME o < e
        PROVE  Cut(s, o, e - 1) = h <=> o < e - 1 /\ s[o] = c /\ w = Cut(s, o + 1, e - 1)
    <3>1. PICK m \in Nat : m = e - 1 /\ o <= m
      <4>1. e - 1 \in Nat /\ o <= e - 1
        BY <1>1, <2>4
      <4> QED
        BY <4>1
    <3>3. o \in Nat /\ m \in Nat /\ o <= m
      BY <1>1, <3>1
    <3>2. Cut(s, o, m) = <<c>> \o w <=> HeadAt(s, o, m, c, w)
      BY ONLY <3>3, IsSeq(w), CutHead
    <3> QED
      BY <2>0, <3>1, <3>2 DEF HeadAt
  <2>5. ASSUME o < e PROVE s[e - 1] \in Tokens
    <3>1. e - 1 \in 1 .. Len(s)
      BY <1>1, <2>5, InIs
    <3> QED
      BY <3>1, InIs
  <2>6. f \in Framed(c, w) <=> o < e /\ s[e - 1] \in Of({"break"}) /\ h = Cut(s, o, e - 1)
    BY <2>1, <2>3
  <2>7. o < e => (s[e - 1] \in Of({"break"}) <=> s[e - 1].t = "break")
    BY <2>5 DEF Of
  <2>8. o < e - 1 <=> o + 1 < e
    BY <1>1
  <2> QED
    BY <1>2, <1>4, <2>4, <2>6, <2>7, <2>8 DEF FrameAt
<1> QED
  BY <1>3, <1>4

\* The first place that is no chunk.
EndsAt(s, o, t, e) ==
  e \in o .. Len(s) + 1 /\ ~IsChunk(s, e, t) /\ \A i \in o .. e - 1 : IsChunk(s, i, t)

\* Chunks end inside the input, at one place.
LEMMA ChunksEndIs ==
  ASSUME NEW s, IsIn(s), NEW o \in 1 .. Len(s) + 1, NEW t \in {"text", "bytes"}
  PROVE  EndsAt(s, o, t, ChunksEnd(s, o, t)) /\ \A e : EndsAt(s, o, t, e) => e = ChunksEnd(s, o, t)
<1>1. Len(s) \in Nat
  BY InIs
<1>2. PICK Q : Q = {e \in o .. Len(s) + 1 : ~IsChunk(s, e, t)}
  OBVIOUS
<1>3. Len(s) + 1 \in Q
  BY <1>1, <1>2 DEF IsChunk, take_byte, Token
<1>4. Q \subseteq Nat
  BY <1>1, <1>2
<1>5. PICK e \in Q : \A j \in Q : e <= j
  BY <1>3, <1>4, FirstOf
<1>6. e \in o .. Len(s) + 1 /\ ~IsChunk(s, e, t)
  BY <1>2, <1>5
<1>7. ASSUME NEW i \in o .. e - 1 PROVE IsChunk(s, i, t)
  <2>1. i \in o .. Len(s) + 1 /\ ~(e <= i)
    BY <1>1, <1>6
  <2> QED
    BY <1>2, <1>5, <2>1
<1>8. EndsAt(s, o, t, e)
  BY <1>6, <1>7 DEF EndsAt
<1>9. PICK g : g = ChunksEnd(s, o, t)
  OBVIOUS
<1>10. EndsAt(s, o, t, g)
  BY <1>8, <1>9 DEF ChunksEnd, EndsAt
<1>11. ASSUME NEW h, EndsAt(s, o, t, h) PROVE h = g
  <2>1. h \in Nat /\ g \in Nat
    BY <1>1, <1>10, <1>11 DEF EndsAt
  <2>2. ~(h \in o .. g - 1) /\ ~(g \in o .. h - 1)
    BY <1>10, <1>11 DEF EndsAt
  <2>3. h >= o /\ g >= o
    BY <1>10, <1>11 DEF EndsAt
  <2> QED
    BY <2>1, <2>2, <2>3
<1> QED
  BY <1>9, <1>10, <1>11

\* A string that ends before e, and the text it stands for.
StringAt(s, o, e, t) ==
  /\ o <= Len(s) /\ s[o].t = t /\ ~Failed(scan_string(s, o)) /\ scan_string(s, o).at = e

\* The same, chunk by chunk.
Spelled(s, o, e, t) ==
  /\ o < e /\ s[o].t = t
  /\ s[o].a # Indef => e = o + 1
  /\ s[o].a = Indef => /\ o + 1 < e /\ s[e - 1].t = "break"
                       /\ \A i \in o + 1 .. e - 2 : s[i] \in Chunks(t)

\* scan_string reads one chunk, or all of them up to the break.
LEMMA StringSpelled ==
  ASSUME NEW s, IsIn(s), NEW o, NEW e, Places(s, o, e), NEW t \in {"text", "bytes"}
  PROVE  /\ StringAt(s, o, e, t) <=> Spelled(s, o, e, t)
         /\ StringAt(s, o, e, t) =>
              /\ s[o].a # Indef => scan_string(s, o).item.w[1].v = s[o].v
              /\ s[o].a = Indef => scan_string(s, o).item.w[1].v = Joined(s, o + 1, e - 1)
<1>1. /\ o \in Nat /\ e \in Nat /\ o <= e /\ 1 <= o /\ e <= Len(s) + 1
      /\ o < e => o \in 1 .. Len(s)
  BY PlacesAre
<1>2. PICK L \in Nat : L = Len(s)
  BY InIs
<1>3. ASSUME NEW k, NEW v PROVE Item(Word(k, v)).w[1].v = v
  BY DEF Item, Word, Token
<1>4. CASE ~(o <= L /\ s[o].t = t)
  BY <1>1, <1>2, <1>4 DEF StringAt, Spelled
<1>5. CASE o <= L /\ s[o].t = t /\ s[o].a # Indef
  <2>1. scan_string(s, o) = Ok(o + 1, Item(Word(t, s[o].v)))
    BY <1>5 DEF scan_string
  <2>2. /\ ~Failed(scan_string(s, o)) /\ scan_string(s, o).at = o + 1
        /\ scan_string(s, o).item = Item(Word(t, s[o].v))
    BY <2>1 DEF Ok, Failed
  <2>3. scan_string(s, o).item.w[1].v = s[o].v
    BY <1>3, <2>2
  <2> QED
    BY <1>1, <1>2, <1>5, <2>2, <2>3 DEF StringAt, Spelled
<1>6. CASE o <= L /\ s[o].t = t /\ s[o].a = Indef
  <2>1. scan_string(s, o) = ScanChunks(s, o + 1, t)
    BY <1>6 DEF scan_string
  <2>2. PICK p \in Nat : p = o + 1 /\ p \in 1 .. L + 1
    BY <1>1, <1>2, <1>6
  <2>3. PICK g : g = ChunksEnd(s, p, t)
    OBVIOUS
  <2>4. EndsAt(s, p, t, g) /\ \A h : EndsAt(s, p, t, h) => h = g
    BY <1>2, <2>2, <2>3, ChunksEndIs
  <2>5. g \in p .. L + 1
    BY <1>2, <2>4 DEF EndsAt
  <2>6. \A i \in p .. L + 1 : IsChunk(s, i, t) <=> i \in 1 .. L /\ s[i] \in Chunks(t)
    <3> SUFFICES ASSUME NEW i \in p .. L + 1
                 PROVE  IsChunk(s, i, t) <=> i \in 1 .. L /\ s[i] \in Chunks(t)
      OBVIOUS
    <3>1. CASE i <= L
      <4>1. i \in 1 .. L /\ s[i] \in Tokens /\ take_byte(s, i) = s[i]
        BY <1>2, <2>2, <3>1, InIs DEF take_byte
      <4> QED
        BY <4>1 DEF IsChunk, Chunks, Of
    <3>2. CASE i > L
      BY <1>2, <3>2 DEF IsChunk, take_byte, Token
    <3> QED
      BY <3>1, <3>2, <1>1, <2>2
  <2>7. ASSUME take_byte(s, g).t = "break"
        PROVE  /\ g <= L /\ s[g].t = "break" /\ ~Failed(scan_string(s, o))
               /\ scan_string(s, o).at = g + 1
               /\ scan_string(s, o).item.w[1].v = Joined(s, p, g)
    <3>1. g <= L /\ s[g].t = "break"
      BY <1>2, <2>5, <2>7 DEF take_byte, Token
    <3>2. scan_string(s, o) = Ok(g + 1, Item(Word(t, Joined(s, p, g))))
      BY <2>1, <2>2, <2>3, <2>7 DEF ScanChunks
    <3>3. /\ ~Failed(scan_string(s, o)) /\ scan_string(s, o).at = g + 1
          /\ scan_string(s, o).item = Item(Word(t, Joined(s, p, g)))
      BY <3>2 DEF Ok, Failed
    <3> QED
      BY <1>3, <3>1, <3>3
  <2>8. ASSUME take_byte(s, g).t # "break" PROVE Failed(scan_string(s, o))
    BY <2>1, <2>2, <2>3, <2>8 DEF ScanChunks, Err, Failed
  <2>9. ASSUME StringAt(s, o, e, t)
        PROVE  /\ Spelled(s, o, e, t)
               /\ scan_string(s, o).item.w[1].v = Joined(s, o + 1, e - 1)
    <3>1. take_byte(s, g).t = "break"
      BY <2>8, <2>9 DEF StringAt
    <3>2. e = g + 1 /\ g = e - 1 /\ o + 1 < e
      BY <1>1, <2>2, <2>5, <2>7, <2>9, <3>1 DEF StringAt
    <3>3. ASSUME NEW i \in o + 1 .. e - 2 PROVE s[i] \in Chunks(t)
      <4>1. i \in p .. g - 1 /\ i \in p .. L + 1
        BY <2>2, <2>5, <3>2
      <4>2. IsChunk(s, i, t)
        BY <2>4, <4>1 DEF EndsAt
      <4> QED
        BY <2>6, <4>1, <4>2
    <3> QED
      BY <1>1, <1>6, <2>2, <2>7, <3>1, <3>2, <3>3 DEF Spelled
  <2>10. ASSUME Spelled(s, o, e, t) PROVE StringAt(s, o, e, t)
    <3>1. o + 1 < e /\ s[e - 1].t = "break" /\ \A i \in o + 1 .. e - 2 : s[i] \in Chunks(t)
      BY <1>6, <2>10 DEF Spelled
    <3>2. PICK h \in p .. L : h = e - 1 /\ e = h + 1 /\ h - 1 = e - 2
      <4>1. e - 1 \in p .. L /\ e = (e - 1) + 1 /\ (e - 1) - 1 = e - 2
        BY <1>1, <1>2, <2>2, <3>1
      <4> QED
        BY <4>1
    <3>3. take_byte(s, h) = s[h] /\ h \in p .. L + 1 /\ h \in 1 .. L
      BY <1>2, <2>2, <3>2 DEF take_byte
    <3>4. ~IsChunk(s, h, t)
      BY <3>1, <3>2, <3>3 DEF IsChunk
    <3>5. ASSUME NEW i \in p .. h - 1 PROVE IsChunk(s, i, t)
      <4>1. i \in o + 1 .. e - 2 /\ i \in p .. L + 1 /\ i \in 1 .. L
        BY <2>2, <3>2, <1>1
      <4> QED
        BY <2>6, <3>1, <4>1
    <3>6. EndsAt(s, p, t, h)
      BY <1>2, <3>3, <3>4, <3>5 DEF EndsAt
    <3>7. h = g
      BY <2>4, <3>6
    <3> QED
      BY <1>2, <1>6, <2>7, <3>1, <3>2, <3>3, <3>7 DEF StringAt
  <2> QED
    BY <1>6, <2>9, <2>10
<1> QED
  BY <1>4, <1>5, <1>6

\* A row of chunks is a sequence.
LEMMA ChunkedIs ==
  ASSUME NEW t, NEW w \in Chunked(t)
  PROVE  IsSeq(w) /\ \A i \in 1 .. Len(w) : w[i] \in Chunks(t)
<1>1. PICK k \in 0 .. MaxTokens : w \in [1 .. k -> Chunks(t)]
  BY DEF Chunked
<1>2. k \in Nat
  BY <1>1, CodecAssumption
<1>3. w \in Seq(Chunks(t))
  BY <1>1, <1>2
<1> QED
  BY <1>3 DEF IsSeq

\* The members of Strings.
LEMMA StringsAre ==
  ASSUME NEW t, NEW w
  PROVE  w \in Strings(t) <=>
           /\ Len(w) <= MaxTokens
           /\ \E c \in Of({t}) : \/ c.a = Indef /\ \E x \in Chunked(t) : w \in Framed(c, x)
                                 \/ c.a # Indef /\ w = <<c>>
<1>1. PICK U : U = UNION {IF c.a = Indef THEN UNION {Framed(c, x) : x \in Chunked(t)}
                          ELSE {<<c>>} : c \in Of({t})}
  OBVIOUS
<1>2. w \in U <=>
        \E c \in Of({t}) : w \in IF c.a = Indef THEN UNION {Framed(c, x) : x \in Chunked(t)}
                                 ELSE {<<c>>}
  BY <1>1
<1>3. ASSUME NEW c
      PROVE  (w \in IF c.a = Indef THEN UNION {Framed(c, x) : x \in Chunked(t)} ELSE {<<c>>}) <=>
               \/ c.a = Indef /\ \E x \in Chunked(t) : w \in Framed(c, x)
               \/ c.a # Indef /\ w = <<c>>
  <2>1. CASE c.a = Indef
    BY <2>1
  <2>2. CASE c.a # Indef
    BY <2>2
  <2> QED
    BY <2>1, <2>2
<1>4. w \in Strings(t) <=> w \in U /\ Len(w) <= MaxTokens
  BY <1>1 DEF Strings, Fit
<1> QED
  BY <1>2, <1>3, <1>4

\* A frame around a sequence is one.
LEMMA FramedSeq ==
  ASSUME NEW c, NEW w, IsSeq(w), NEW f \in Framed(c, w)
  PROVE  IsSeq(f)
<1>1. IsSeq(<<c>> \o w)
  BY OneIs, ConcatIs DEF IsJoin
<1>2. CASE c.a = Indef
  <2>1. PICK b : f = (<<c>> \o w) \o <<b>>
    BY <1>2 DEF Framed
  <2> QED
    BY <1>1, <2>1, OneIs, ConcatIs DEF IsJoin
<1>3. CASE c.a # Indef
  BY <1>1, <1>3 DEF Framed
<1> QED
  BY <1>2, <1>3

\* Strings are sequences.
LEMMA StringsSeqs ==
  ASSUME NEW t, NEW w \in Strings(t)
  PROVE  IsSeq(w)
<1>1. PICK c \in Of({t}) : \/ c.a = Indef /\ \E z \in Chunked(t) : w \in Framed(c, z)
                           \/ c.a # Indef /\ w = <<c>>
  BY StringsAre
<1>2. CASE c.a # Indef
  BY <1>1, <1>2, OneIs
<1>3. CASE c.a = Indef
  <2>1. PICK z \in Chunked(t) : w \in Framed(c, z)
    BY <1>1, <1>3
  <2> QED
    BY <2>1, ChunkedIs, FramedSeq
<1> QED
  BY <1>2, <1>3

\* A stretch of the input is within its bound.
LEMMA CutFits ==
  ASSUME NEW s, IsIn(s), NEW o, NEW e, Places(s, o, e)
  PROVE  Len(Cut(s, o, e)) = e - o /\ e - o <= MaxTokens
<1>1. /\ o \in Nat /\ e \in Nat /\ o <= e /\ 1 <= o /\ e <= Len(s) + 1
  BY PlacesAre
<1>2. IsCut(Cut(s, o, e), s, o, e)
  BY <1>1, CutIs
<1>3. Len(Cut(s, o, e)) = e - o
  BY <1>2 DEF IsCut
<1>4. PICK L \in Nat, M \in Nat : L = Len(s) /\ M = MaxTokens /\ L <= M
  BY InIs
<1> QED
  BY <1>1, <1>3, <1>4

\* scan_string takes exactly the strings.
LEMMA StringExact ==
  ASSUME NEW s, IsIn(s), NEW o, NEW e, Places(s, o, e), NEW t \in {"text", "bytes"}
  PROVE  Cut(s, o, e) \in Strings(t) <=> StringAt(s, o, e, t)
<1>1. /\ o \in Nat /\ e \in Nat /\ o <= e /\ 1 <= o /\ e <= Len(s) + 1
      /\ o < e => o \in 1 .. Len(s)
  BY PlacesAre
<1>2. PICK f : f = Cut(s, o, e)
  OBVIOUS
<1>3. Len(f) <= MaxTokens
  BY <1>2, CutFits
<1>4. StringAt(s, o, e, t) <=> Spelled(s, o, e, t)
  BY StringSpelled
<1>5. ASSUME f \in Strings(t) PROVE Spelled(s, o, e, t)
  <2>1. PICK c \in Of({t}) : \/ c.a = Indef /\ \E x \in Chunked(t) : f \in Framed(c, x)
                             \/ c.a # Indef /\ f = <<c>>
    BY <1>5, StringsAre
  <2>2. c.t = t
    BY <2>1 DEF Of
  <2>3. CASE c.a # Indef
    <3>1. Cut(s, o, e) = <<c>>
      BY <1>2, <2>1, <2>3
    <3>2. e = o + 1 /\ s[o] = c
      BY ONLY <1>1, <3>1, CutUnit
    <3> QED
      BY <1>1, <2>2, <2>3, <3>2 DEF Spelled
  <2>4. CASE c.a = Indef
    <3>1. PICK x \in Chunked(t) : Cut(s, o, e) \in Framed(c, x)
      BY <1>2, <2>1, <2>4
    <3>2. IsSeq(x) /\ \A i \in 1 .. Len(x) : x[i] \in Chunks(t)
      BY <3>1, ChunkedIs
    <3>3. s[o] = c /\ FrameAt(s, o, e, x)
      BY <3>1, <3>2, FramedIs
    <3>4. o + 1 < e /\ x = Cut(s, o + 1, e - 1) /\ s[e - 1].t = "break"
      BY <2>4, <3>3 DEF FrameAt
    <3>5. PICK p \in Nat, m \in Nat : p = o + 1 /\ m = e - 1 /\ p <= m
      <4>1. o + 1 \in Nat /\ e - 1 \in Nat /\ o + 1 <= e - 1
        BY <1>1, <3>4
      <4> QED
        BY <4>1
    <3>6. IsCut(x, s, p, m)
      BY <3>4, <3>5, CutIs
    <3>7. ASSUME NEW i \in o + 1 .. e - 2 PROVE s[i] \in Chunks(t)
      <4>1. PICK j \in 1 .. m - p : i = p + j - 1
        <5>1. i - o \in 1 .. m - p /\ i = p + (i - o) - 1
          BY <1>1, <3>5
        <5> QED
          BY <5>1
      <4>2. x[j] = s[i] /\ j \in 1 .. Len(x)
        BY <3>6, <4>1 DEF IsCut
      <4> QED
        BY <3>2, <4>2
    <3> QED
      BY <1>1, <2>2, <2>4, <3>3, <3>4, <3>7 DEF Spelled
  <2> QED
    BY <2>3, <2>4
<1>6. ASSUME Spelled(s, o, e, t) PROVE f \in Strings(t)
  <2>1. o < e /\ s[o].t = t
    BY <1>6 DEF Spelled
  <2>2. s[o] \in Of({t})
    BY <1>1, <2>1, InIs DEF Of
  <2>3. CASE s[o].a # Indef
    <3>1. f = <<s[o]>>
      BY <1>1, <1>2, <1>6, <2>3, CutOne DEF Spelled
    <3> QED
      BY <1>3, <2>2, <2>3, <3>1, StringsAre
  <2>4. CASE s[o].a = Indef
    <3>1. /\ o + 1 < e /\ s[e - 1].t = "break"
          /\ \A i \in o + 1 .. e - 2 : s[i] \in Chunks(t)
      BY <1>6, <2>4 DEF Spelled
    <3>2. PICK k \in Nat : k = (e - 1) - (o + 1) /\ k <= MaxTokens
      <4>1. (e - 1) - (o + 1) \in Nat /\ (e - 1) - (o + 1) <= e - o
        BY <1>1, <3>1
      <4>2. e - o <= MaxTokens
        BY CutFits
      <4>3. (e - 1) - (o + 1) <= MaxTokens
        BY <1>1, <4>1, <4>2, CodecAssumption
      <4> QED
        BY <4>1, <4>3
    <3>3. PICK x : x = Cut(s, o + 1, e - 1)
      OBVIOUS
    <3>4. x = [i \in 1 .. k |-> s[(o + 1) + i - 1]]
      BY <3>2, <3>3 DEF Cut
    <3>5. ASSUME NEW i \in 1 .. k PROVE s[(o + 1) + i - 1] \in Chunks(t)
      <4>1. (o + 1) + i - 1 \in o + 1 .. e - 2
        BY <1>1, <3>2
      <4> QED
        BY <3>1, <4>1
    <3>6. x \in [1 .. k -> Chunks(t)]
      BY <3>4, <3>5
    <3>7. k \in 0 .. MaxTokens
      BY <3>2, CodecAssumption
    <3>8. x \in Chunked(t)
      BY <3>6, <3>7 DEF Chunked
    <3>9. IsSeq(x)
      BY <3>8, ChunkedIs
    <3>10. FrameAt(s, o, e, x)
      BY <2>1, <2>4, <3>1, <3>3 DEF FrameAt
    <3>11. Cut(s, o, e) \in Framed(s[o], x)
      BY <3>9, <3>10, FramedIs
    <3> QED
      BY <1>2, <1>3, <2>2, <2>4, <3>8, <3>11, StringsAre
  <2> QED
    BY <2>3, <2>4
<1> QED
  BY <1>2, <1>4, <1>5, <1>6

\* The text of a string is the one that is read.
LEMMA TextRead ==
  ASSUME NEW s, IsIn(s), NEW o, NEW e, Places(s, o, e), StringAt(s, o, e, "text")
  PROVE  TextOf(Cut(s, o, e)) = scan_string(s, o).item.w[1].v
<1>1. /\ o \in Nat /\ e \in Nat /\ o <= e /\ 1 <= o /\ e <= Len(s) + 1
  BY PlacesAre
<1>2. PICK t \in {"text", "bytes"} : t = "text"
  OBVIOUS
<1>3. /\ Spelled(s, o, e, t)
      /\ s[o].a # Indef => scan_string(s, o).item.w[1].v = s[o].v
      /\ s[o].a = Indef => scan_string(s, o).item.w[1].v = Joined(s, o + 1, e - 1)
  BY <1>2, StringSpelled
<1>4. PICK f : f = Cut(s, o, e)
  OBVIOUS
<1>5. IsCut(f, s, o, e) /\ o < e
  BY <1>1, <1>3, <1>4, CutIs DEF Spelled
<1>6. 1 \in 1 .. e - o /\ o + 1 - 1 = o
  BY <1>1, <1>5
<1>7. f[1] = s[o]
  BY <1>5, <1>6 DEF IsCut
<1>8. CASE s[o].a # Indef
  BY <1>3, <1>4, <1>7, <1>8 DEF TextOf
<1>9. CASE s[o].a = Indef
  <2>1. o + 1 < e
    BY <1>3, <1>9 DEF Spelled
  <2>2. PICK n \in Nat : n = e - o - 2
    <3>1. e - o - 2 \in Nat
      BY <1>1, <2>1
    <3> QED
      BY <3>1
  <2>3. Len(f) - 2 = n /\ (e - 1) - (o + 1) = n
    BY <1>1, <1>5, <2>2 DEF IsCut
  <2>4. PICK g : g = [i \in 1 .. n |-> f[i + 1].v]
    OBVIOUS
  <2>5. TextOf(f) = FlattenSeq(g)
    BY <1>7, <1>9, <2>3, <2>4 DEF TextOf
  <2>6. ASSUME NEW i \in 1 .. n PROVE f[i + 1].v = s[(o + 1) + i - 1].v
    <3>1. i + 1 \in 1 .. e - o /\ o + (i + 1) - 1 = (o + 1) + i - 1
      BY <1>1, <2>2
    <3>2. f[i + 1] = s[o + (i + 1) - 1]
      BY <1>5, <3>1 DEF IsCut
    <3> QED
      BY <3>1, <3>2
  <2>7. g = [i \in 1 .. n |-> s[(o + 1) + i - 1].v]
    BY <2>4, <2>6
  <2>8. Joined(s, o + 1, e - 1) = FlattenSeq(g)
    BY <2>3, <2>7 DEF Joined
  <2> QED
    BY <1>3, <1>4, <1>9, <2>5, <2>8
<1> QED
  BY <1>8, <1>9

\* A string that is read is one word, further on.
LEMMA StringReads ==
  ASSUME NEW s, IsIn(s), NEW o \in 1 .. Len(s), s[o].t \in {"text", "bytes"},
         ~Failed(scan_string(s, o))
  PROVE  scan_string(s, o).at \in o + 1 .. Len(s) + 1
<1>1. PICK L \in Nat : L = Len(s)
  BY InIs
<1>2. PICK t \in {"text", "bytes"} : t = s[o].t
  OBVIOUS
<1>3. CASE s[o].a # Indef
  BY <1>1, <1>3 DEF scan_string, Ok
<1>4. CASE s[o].a = Indef
  <2>1. scan_string(s, o) = ScanChunks(s, o + 1, t)
    BY <1>2, <1>4 DEF scan_string
  <2>2. PICK p \in 1 .. L + 1 : p = o + 1
    BY <1>1
  <2>3. PICK e : e = ChunksEnd(s, p, t)
    OBVIOUS
  <2>4. e \in p .. L + 1
    BY <1>1, <2>2, <2>3, ChunksEndIs DEF EndsAt
  <2>5. take_byte(s, e).t = "break"
    BY <2>1, <2>2, <2>3 DEF ScanChunks, Err, Failed
  <2>6. e <= L
    BY <1>1, <2>4, <2>5 DEF take_byte, Token
  <2>7. scan_string(s, o).at = e + 1
    BY <2>1, <2>2, <2>3, <2>5 DEF ScanChunks, Ok
  <2> QED
    BY <1>1, <2>2, <2>4, <2>6, <2>7
<1> QED
  BY <1>3, <1>4

-----------------------------------------------------------------------------
(* One turn over a container.                                               *)

\* What a row of the scanner finds is what E has, and never starts at a break.
RowAt(s, x, o, E) ==
  /\ ~Failed(x) => x.at \in o + 1 .. Len(s) + 1 /\ o <= Len(s) /\ s[o].t # "break"
  /\ \A e \in o .. Len(s) + 1 : Cut(s, o, e) \in E <=> ~Failed(x) /\ x.at = e
Exact(s, row, E) == \A o \in 1 .. Len(s) + 1 : RowAt(s, row[o], o, E)

AreSeqs(E) == \A w \in E : IsSeq(w)

IsLoopState(r) == r = Loop("none", r.at, r.n, r.acc)

\* The keys a loop has had.
Had(kind, acc) == IF kind = "map" THEN Keys(acc) ELSE {}

\* The loop takes a thing, from the state r to the state q.
Takes(s, kind, r, q, x) ==
  /\ x.w = Cut(s, r.at, q.at) /\ Had(kind, r.acc) \cap x.keys = {}
  /\ Had(kind, q.acc) = Had(kind, r.acc) \cup x.keys

\* A turn that goes on takes one of the things, and takes the one that is there.
GoesOn(s, r, q) == IsLoopState(q) /\ q.n = Count(r.n) /\ q.at \in r.at + 1 .. Len(s) + 1
StepIs(s, kind, r, q, things) ==
  /\ ~Failed(q) => GoesOn(s, r, q) /\ \E x \in things : Takes(s, kind, r, q, x)
  /\ \A x \in things, e \in r.at .. Len(s) + 1 :
       x.w = Cut(s, r.at, e) /\ Had(kind, r.acc) \cap x.keys = {} =>
         ~Failed(q) /\ q.at = e /\ Had(kind, q.acc) = Had(kind, r.acc) \cup x.keys

\* A state in which the loop takes the next thing.
Ready(s, r) == IsLoopState(r) /\ r.at \in 1 .. Len(s) + 1 /\ r.n # 0 /\ ~AtBreak(s, r)

\* No thing starts with a break.
Starts(s, things) ==
  \A x \in things, o \in 1 .. Len(s) + 1 : \A e \in o .. Len(s) + 1 :
    x.w = Cut(s, o, e) => o < e /\ s[o].t # "break"

\* A state is made of its parts.
LEMMA StateIs ==
  ASSUME NEW o, NEW n, NEW acc
  PROVE  /\ IsLoopState(Loop("none", o, n, acc)) /\ ~Failed(Loop("none", o, n, acc))
         /\ Loop("none", o, n, acc).at = o /\ Loop("none", o, n, acc).n = n
         /\ Loop("none", o, n, acc).acc = acc
BY DEF IsLoopState, Loop, Failed

\* A turn over an array.
LEMMA ArrayStep ==
  ASSUME NEW s, IsIn(s), NEW below, NEW E, Exact(s, below, E), NEW r, Ready(s, r)
  PROVE  StepIs(s, "array", r, Turn(s, "array", r, below), Elements(E))
<1>1. PICK q : q = Turn(s, "array", r, below)
  OBVIOUS
<1>2. PICK x : x = below[r.at]
  OBVIOUS
<1>3. PICK o \in 1 .. Len(s) + 1 : o = r.at
  BY DEF Ready
<1>4. RowAt(s, x, o, E)
  BY <1>2, <1>3 DEF Exact
<1>5. ~Failed(r) /\ r.n # 0 /\ ~AtBreak(s, r)
  BY DEF Ready, IsLoopState, Failed, Loop
<1>6. q = Element(r, x)
  BY <1>1, <1>2, <1>5 DEF Turn
<1>7. CASE Failed(x)
  <2>1. Failed(q)
    BY <1>6, <1>7, StoppedFails DEF Element
  <2>2. ASSUME NEW y \in Elements(E), NEW e \in o .. Len(s) + 1, y.w = Cut(s, o, e) PROVE FALSE
    <3>1. y.w \in E
      BY DEF Elements
    <3> QED
      BY <1>4, <1>7, <2>2, <3>1 DEF RowAt
  <2> QED
    BY <1>1, <1>3, <2>1, <2>2 DEF StepIs
<1>8. CASE ~Failed(x)
  <2>1. PICK acc : q = Loop("none", x.at, Count(r.n), acc)
    BY <1>6, <1>8 DEF Element
  <2>2. IsLoopState(q) /\ ~Failed(q) /\ q.at = x.at /\ q.n = Count(r.n)
    BY <2>1, StateIs
  <2>3. GoesOn(s, r, q)
    BY <1>3, <1>4, <1>8, <2>2 DEF GoesOn, RowAt
  <2>4. x.at \in o .. Len(s) + 1
    BY <1>3, <1>4, <1>8, InIs DEF RowAt
  <2>5. Cut(s, o, x.at) \in E
    BY <1>4, <1>8, <2>4 DEF RowAt
  <2>6. PICK y : y = [keys |-> {}, w |-> Cut(s, o, x.at)]
    OBVIOUS
  <2>7. y \in Elements(E) /\ Takes(s, "array", r, q, y)
    BY <1>3, <2>2, <2>5, <2>6 DEF Elements, Takes, Had
  <2>8. ASSUME NEW z \in Elements(E), NEW e \in o .. Len(s) + 1, z.w = Cut(s, o, e)
        PROVE  q.at = e /\ Had("array", q.acc) = Had("array", r.acc) \cup z.keys
    <3>1. z.w \in E /\ z.keys = {}
      BY DEF Elements
    <3>2. x.at = e
      BY <1>4, <1>8, <2>8, <3>1 DEF RowAt
    <3> QED
      BY <2>2, <3>1, <3>2 DEF Had
  <2> QED
    BY <1>1, <1>3, <2>2, <2>3, <2>7, <2>8 DEF StepIs
<1> QED
  BY <1>7, <1>8

\* The elements of an array start with no break.
LEMMA ArrayStarts ==
  ASSUME NEW s, IsIn(s), NEW below, NEW E, Exact(s, below, E)
  PROVE  Starts(s, Elements(E))
<1> SUFFICES ASSUME NEW x \in Elements(E), NEW o \in 1 .. Len(s) + 1, NEW e \in o .. Len(s) + 1,
                    x.w = Cut(s, o, e)
             PROVE  o < e /\ s[o].t # "break"
  BY DEF Starts
<1>1. Cut(s, o, e) \in E
  BY DEF Elements
<1>2. RowAt(s, below[o], o, E)
  BY DEF Exact
<1>3. ~Failed(below[o]) /\ below[o].at = e
  BY <1>1, <1>2 DEF RowAt
<1>4. e \in o + 1 .. Len(s) + 1 /\ s[o].t # "break"
  BY <1>2, <1>3 DEF RowAt
<1> QED
  BY <1>4, InIs

\* A pair of a map: a key up to m, and a value after it.
LEMMA MembersAre ==
  ASSUME NEW s, IsIn(s), NEW o, NEW e, Places(s, o, e), NEW E, AreSeqs(E),
         NEW x \in Members(E), x.w = Cut(s, o, e)
  PROVE  \E m \in o .. e : /\ StringAt(s, o, m, "text") /\ Cut(s, m, e) \in E
                           /\ x.keys = {scan_string(s, o).item.w[1].v}
<1>1. /\ o \in Nat /\ e \in Nat /\ o <= e /\ 1 <= o /\ e <= Len(s) + 1
  BY PlacesAre
<1>2. PICK y \in Strings("text") \X E : x = [keys |-> {TextOf(y[1])}, w |-> y[1] \o y[2]]
  BY DEF Members
<1>3. PICK k, v : k = y[1] /\ v = y[2] /\ k \in Strings("text") /\ v \in E
  BY <1>2
<1>4. x.keys = {TextOf(k)} /\ x.w = k \o v
  BY <1>2, <1>3
<1>5. IsSeq(k)
  BY <1>3, StringsSeqs
<1>6. IsSeq(v)
  BY <1>3 DEF AreSeqs
<1>7. PICK m \in Nat : Parted(s, o, m, e, k, v)
  BY <1>1, <1>4, <1>5, <1>6, CutSplit
<1>12. k = Cut(s, o, m) /\ v = Cut(s, m, e) /\ o <= m /\ m <= e
  BY <1>7 DEF Parted
<1>8. k = Cut(s, o, m) /\ v = Cut(s, m, e) /\ m \in o .. e
  BY <1>1, <1>7, <1>12
<1>9. Places(s, o, m)
  BY <1>1, <1>8 DEF Places
<1>10. StringAt(s, o, m, "text")
  BY <1>3, <1>8, <1>9, StringExact
<1>11. TextOf(k) = scan_string(s, o).item.w[1].v
  BY <1>8, <1>9, <1>10, TextRead
<1> QED
  BY <1>3, <1>4, <1>8, <1>10, <1>11

\* Such a pair is a member.
LEMMA MemberOf ==
  ASSUME NEW s, IsIn(s), NEW o, NEW m, NEW e, Places(s, o, m), Places(s, m, e), NEW E,
         StringAt(s, o, m, "text"), Cut(s, m, e) \in E
  PROVE  \E x \in Members(E) : /\ x.w = Cut(s, o, e)
                               /\ x.keys = {scan_string(s, o).item.w[1].v}
<1>1. o \in Nat /\ m \in Nat /\ e \in Nat /\ o <= m /\ m <= e
  BY PlacesAre
<1>2. PICK k, v : k = Cut(s, o, m) /\ v = Cut(s, m, e)
  OBVIOUS
<1>3. k \in Strings("text")
  BY <1>2, StringExact
<1>4. TextOf(k) = scan_string(s, o).item.w[1].v
  BY <1>2, TextRead
<1>5. k \o v = Cut(s, o, e)
  BY <1>1, <1>2, CutJoin
<1>6. PICK y : y = <<k, v>>
  OBVIOUS
<1>7. y \in Strings("text") \X E /\ y[1] = k /\ y[2] = v
  BY <1>2, <1>3, <1>6
<1>8. PICK x : x = [keys |-> {TextOf(y[1])}, w |-> y[1] \o y[2]]
  OBVIOUS
<1>9. x \in Members(E)
  BY <1>7, <1>8 DEF Members
<1>10. x.w = Cut(s, o, e) /\ x.keys = {scan_string(s, o).item.w[1].v}
  BY <1>4, <1>5, <1>7, <1>8
<1> QED
  BY <1>9, <1>10

\* A key is a string of text, or it is refused.
LEMMA KeyAt ==
  ASSUME NEW s, IsIn(s), NEW o \in 1 .. Len(s) + 1
  PROVE  /\ Failed(scan_text_key(s, o)) \/ (o \in 1 .. Len(s) /\ s[o].t = "text")
         /\ o \in 1 .. Len(s) /\ s[o].t = "text" => scan_text_key(s, o) = scan_string(s, o)
<1>1. PICK L \in Nat : L = Len(s)
  BY InIs
<1>2. CASE o > L
  <2>1. take_byte(s, o).t = "cut"
    BY <1>1, <1>2 DEF take_byte, Token
  <2> QED
    BY <1>1, <1>2, <2>1 DEF scan_text_key, Err, Failed
<1>3. CASE o <= L
  <2>1. take_byte(s, o) = s[o] /\ o \in 1 .. L
    BY <1>1, <1>3 DEF take_byte
  <2>2. CASE s[o].t = "text"
    BY <1>1, <2>1, <2>2 DEF scan_text_key
  <2>3. CASE s[o].t # "text"
    BY <2>1, <2>3 DEF scan_text_key, Err, Failed
  <2> QED
    BY <1>1, <2>1, <2>2, <2>3
<1> QED
  BY <1>1, <1>2, <1>3

\* A turn over a map.
LEMMA MapStep ==
  ASSUME NEW s, IsIn(s), NEW below, NEW E, Exact(s, below, E), AreSeqs(E), NEW r, Ready(s, r)
  PROVE  StepIs(s, "map", r, Turn(s, "map", r, below), Members(E))
<1>1. PICK q : q = Turn(s, "map", r, below)
  OBVIOUS
<1>2. PICK L \in Nat : L = Len(s)
  BY InIs
<1>3. PICK o \in 1 .. L + 1 : o = r.at
  BY <1>2 DEF Ready
<1>4. PICK key : key = scan_text_key(s, o)
  OBVIOUS
<1>5. ~Failed(r) /\ r.n # 0 /\ ~AtBreak(s, r)
  BY DEF Ready, IsLoopState, Failed, Loop
<1>6. q = Value(s, r, key, below)
  BY <1>1, <1>3, <1>4, <1>5 DEF Turn
<1>7. ASSUME NEW x \in Members(E), NEW e \in o .. L + 1, x.w = Cut(s, o, e)
      PROVE  /\ key = scan_string(s, o) /\ ~Failed(key) /\ o \in 1 .. L
             /\ x.keys = {key.item.w[1].v} /\ key.at \in o .. e /\ Cut(s, key.at, e) \in E
  <2>1. Places(s, o, e)
    BY <1>2, <1>3, <1>7 DEF Places
  <2>2. PICK m \in o .. e : /\ StringAt(s, o, m, "text") /\ Cut(s, m, e) \in E
                            /\ x.keys = {scan_string(s, o).item.w[1].v}
    BY <1>7, <2>1, MembersAre
  <2>3. /\ o \in 1 .. L /\ s[o].t = "text" /\ ~Failed(scan_string(s, o))
        /\ scan_string(s, o).at = m
    BY <1>2, <1>3, <2>2 DEF StringAt
  <2>4. key = scan_string(s, o)
    BY <1>2, <1>4, <2>3, KeyAt
  <2> QED
    BY <2>2, <2>3, <2>4
<1>8. CASE Failed(key)
  <2>1. Failed(q)
    BY <1>6, <1>8, StoppedFails DEF Value
  <2> QED
    BY <1>1, <1>2, <1>3, <1>7, <1>8, <2>1 DEF StepIs
<1>9. CASE ~Failed(key)
  <2>1. o \in 1 .. L /\ s[o].t = "text" /\ key = scan_string(s, o)
    BY <1>2, <1>4, <1>9, KeyAt
  <2>2. PICK m : m = key.at
    OBVIOUS
  <2>3. m \in o + 1 .. L + 1
    BY <1>2, <1>9, <2>1, <2>2, StringReads
  <2>4. m \in 1 .. L + 1 /\ m \in o .. L + 1
    BY <1>3, <2>3
  <2>5. PICK kv : kv = key.item.w[1].v
    OBVIOUS
  <2>6. PICK y : y = below[m]
    OBVIOUS
  <2>7. RowAt(s, y, m, E)
    BY <1>2, <2>4, <2>6 DEF Exact
  <2>8. ASSUME NEW x \in Members(E), NEW e \in o .. L + 1, x.w = Cut(s, o, e)
        PROVE  x.keys = {kv} /\ ~Failed(y) /\ y.at = e
    <3>1. x.keys = {kv} /\ e \in m .. L + 1 /\ Cut(s, m, e) \in E
      BY <1>2, <1>7, <2>2, <2>4, <2>5, <2>8
    <3> QED
      BY <1>2, <2>7, <3>1 DEF RowAt
  <2>9. CASE ~FreshKey(r.acc, kv)
    <3>1. Failed(q)
      BY <1>6, <1>9, <2>5, <2>9 DEF Value, Stopped, Loop, Failed
    <3>2. kv \in Had("map", r.acc)
      BY <2>9 DEF FreshKey, Had, Keys
    <3>3. ASSUME NEW x \in Members(E), NEW e \in o .. L + 1, x.w = Cut(s, o, e),
                 Had("map", r.acc) \cap x.keys = {}
          PROVE  FALSE
      <4>1. x.keys = {kv}
        BY <2>8, <3>3
      <4> QED
        BY <3>2, <3>3, <4>1
    <3> QED
      BY <1>1, <1>2, <1>3, <3>1, <3>3 DEF StepIs
  <2>10. PICK z : z = [r EXCEPT !.at = m]
    OBVIOUS
  <2>11. z.at = m
    <3>1. PICK a, n, acc : r = [err |-> "none", at |-> a, n |-> n, acc |-> acc]
      BY DEF Ready, IsLoopState, Loop
    <3> QED
      BY <2>10, <3>1
  <2>12. CASE FreshKey(r.acc, kv) /\ AtBreak(s, z)
    <3>1. Failed(q)
      BY <1>6, <1>9, <2>2, <2>5, <2>10, <2>12 DEF Value, Stopped, Loop, Failed
    <3>2. take_byte(s, m).t = "break"
      BY <2>11, <2>12 DEF AtBreak
    <3>3. Failed(y)
      <4>1. CASE m <= L
        <5>1. s[m].t = "break"
          BY <1>2, <3>2, <4>1 DEF take_byte
        <5> QED
          BY <2>7, <5>1 DEF RowAt
      <4>2. CASE m > L
        BY <1>2, <2>4, <3>2, <4>2 DEF take_byte, Token
      <4> QED
        BY <1>2, <2>4, <4>1, <4>2
    <3> QED
      BY <1>1, <1>2, <1>3, <2>8, <3>1, <3>3 DEF StepIs
  <2>13. CASE FreshKey(r.acc, kv) /\ ~AtBreak(s, z)
    <3>1. q = Pair(r, kv, y)
      BY <1>6, <1>9, <2>2, <2>5, <2>6, <2>10, <2>13 DEF Value
    <3>2. CASE Failed(y)
      <4>1. Failed(q)
        BY <3>1, <3>2, StoppedFails DEF Pair
      <4> QED
        BY <1>1, <1>2, <1>3, <2>8, <3>2, <4>1 DEF StepIs
    <3>3. CASE ~Failed(y)
      <4>1. PICK acc, w : acc = r.acc \cup {<<kv, w>>} /\ q = Loop("none", y.at, Count(r.n), acc)
        BY <3>1, <3>3 DEF Pair
      <4>2. IsLoopState(q) /\ ~Failed(q) /\ q.at = y.at /\ q.n = Count(r.n) /\ q.acc = acc
        BY <4>1, StateIs
      <4>3. Had("map", q.acc) = Had("map", r.acc) \cup {kv}
        <5>1. <<kv, w>>[1] = kv
          OBVIOUS
        <5> QED
          BY <4>1, <4>2, <5>1 DEF Had, Keys
      <4>4. y.at \in m + 1 .. L + 1
        BY <1>2, <2>7, <3>3 DEF RowAt
      <4>5. y.at \in o + 1 .. L + 1 /\ y.at \in m .. L + 1
        BY <1>3, <2>4, <4>4
      <4>6. GoesOn(s, r, q)
        BY <1>2, <1>3, <4>2, <4>5 DEF GoesOn
      <4>7. Cut(s, m, y.at) \in E
        BY <1>2, <2>7, <3>3, <4>5 DEF RowAt
      <4>8. Places(s, o, m) /\ Places(s, m, y.at)
        BY <1>2, <1>3, <2>4, <4>5 DEF Places
      <4>9. StringAt(s, o, m, "text")
        BY <1>2, <1>9, <2>1, <2>2 DEF StringAt
      <4>10. PICK x \in Members(E) : x.w = Cut(s, o, y.at) /\ x.keys = {kv}
        <5>1. \E x \in Members(E) : /\ x.w = Cut(s, o, y.at)
                                    /\ x.keys = {scan_string(s, o).item.w[1].v}
          BY <4>7, <4>8, <4>9, MemberOf
        <5> QED
          BY <2>1, <2>5, <5>1
      <4>11. Had("map", r.acc) \cap {kv} = {}
        BY <2>13 DEF FreshKey, Had, Keys
      <4>12. Takes(s, "map", r, q, x)
        BY <1>3, <4>2, <4>3, <4>10, <4>11 DEF Takes
      <4>13. ASSUME NEW v \in Members(E), NEW e \in o .. L + 1, v.w = Cut(s, o, e)
             PROVE  q.at = e /\ Had("map", q.acc) = Had("map", r.acc) \cup v.keys
        BY <2>8, <4>2, <4>3, <4>13
      <4> QED
        BY <1>1, <1>2, <1>3, <4>2, <4>6, <4>10, <4>12, <4>13 DEF StepIs
    <3> QED
      BY <3>2, <3>3
  <2> QED
    BY <2>9, <2>12, <2>13
<1> QED
  BY <1>8, <1>9

\* The members of a map start with no break.
LEMMA MapStarts ==
  ASSUME NEW s, IsIn(s), NEW below, NEW E, Exact(s, below, E), AreSeqs(E)
  PROVE  Starts(s, Members(E))
<1> SUFFICES ASSUME NEW x \in Members(E), NEW o \in 1 .. Len(s) + 1, NEW e \in o .. Len(s) + 1,
                    x.w = Cut(s, o, e)
             PROVE  o < e /\ s[o].t # "break"
  BY DEF Starts
<1>1. Places(s, o, e)
  BY DEF Places
<1>2. PICK m \in o .. e : StringAt(s, o, m, "text")
  BY <1>1, MembersAre
<1>3. Places(s, o, m) /\ m <= e /\ m \in Nat /\ e \in Nat /\ o \in Nat
  BY <1>1, <1>2, PlacesAre DEF Places
<1>4. Spelled(s, o, m, "text")
  BY <1>2, <1>3, StringSpelled
<1> QED
  BY <1>3, <1>4 DEF Spelled

-----------------------------------------------------------------------------
(* The loop over a container and the bodies a container may have.           *)

IsGrowth(bs, things, n) ==
  bs = [k \in 0 .. n |-> IF k = 0 THEN {NoBody} ELSE Longer(bs[k - 1], things)]

\* The stages of Bodies exist.
LEMMA GrowthExists ==
  ASSUME NEW things, NEW n \in Nat
  PROVE  \E bs : IsGrowth(bs, things, n)
<1>1. PICK P : P = {k \in Nat : \E bs : IsGrowth(bs, things, k)}
  OBVIOUS
<1>2. 0 \in P
  <2>1. IsGrowth([k \in 0 .. 0 |-> {NoBody}], things, 0)
    BY DEF IsGrowth
  <2> QED
    BY <1>1, <2>1
<1>3. ASSUME NEW k \in 0 .. n - 1, k \in P PROVE k + 1 \in P
  <2>1. PICK g : IsGrowth(g, things, k)
    BY <1>1, <1>3
  <2>2. PICK h : h = [i \in 0 .. k + 1 |-> IF i = k + 1 THEN Longer(g[k], things) ELSE g[i]]
    OBVIOUS
  <2>3. \A i \in 0 .. k : g[i] = IF i = 0 THEN {NoBody} ELSE Longer(g[i - 1], things)
    BY <2>1 DEF IsGrowth
  <2>4. \A i \in 0 .. k : h[i] = g[i]
    BY <2>2
  <2>5. ASSUME NEW i \in 0 .. k + 1
        PROVE  h[i] = IF i = 0 THEN {NoBody} ELSE Longer(h[i - 1], things)
    <3>1. CASE i = 0
      <4>1. 0 \in 0 .. k
        OBVIOUS
      <4> QED
        BY <2>3, <2>4, <3>1, <4>1
    <3>2. CASE i \in 1 .. k
      <4>1. i \in 0 .. k /\ i - 1 \in 0 .. k /\ i # 0
        BY <3>2
      <4>2. g[i] = Longer(g[i - 1], things)
        BY <2>3, <4>1
      <4> QED
        BY <2>4, <4>1, <4>2
    <3>3. CASE i = k + 1
      <4>1. i - 1 = k /\ k \in 0 .. k /\ i # 0
        BY <3>3
      <4> QED
        BY <2>2, <2>4, <3>3, <4>1
    <3> QED
      BY <3>1, <3>2, <3>3
  <2>6. IsGrowth(h, things, k + 1)
    BY <2>2, <2>5 DEF IsGrowth
  <2> QED
    BY <1>1, <2>6
<1>4. n \in P
  BY <1>2, <1>3, Upto
<1> QED
  BY <1>1, <1>4

Grows(bs, things) ==
  bs[0] = {NoBody} /\ \A k \in 1 .. MaxTokens : bs[k] = Longer(bs[k - 1], things)

\* Bodies, one thing at a time.
LEMMA BodiesGrow ==
  ASSUME NEW things
  PROVE  \E bs : Grows(bs, things) /\ Bodies(things) = bs[MaxTokens]
<1>1. PICK g : g = CHOOSE bs : IsGrowth(bs, things, MaxTokens)
  OBVIOUS
<1>2. MaxTokens \in Nat
  BY CodecAssumption
<1>3. IsGrowth(g, things, MaxTokens)
  BY <1>1, <1>2, GrowthExists
<1>4. Bodies(things) = g[MaxTokens]
  BY <1>1 DEF Bodies, IsGrowth
<1>5. \A k \in 0 .. MaxTokens : g[k] = IF k = 0 THEN {NoBody} ELSE Longer(g[k - 1], things)
  BY <1>3 DEF IsGrowth
<1> QED
  BY <1>2, <1>4, <1>5 DEF Grows

\* One thing more.
LEMMA LongerIs ==
  ASSUME NEW B, NEW things, NEW b
  PROVE  b \in Longer(B, things) <=>
           b \in B \/ \E a \in B, x \in things : Joins(a, x) /\ b = Join(a, x)
BY DEF Longer

\* Later stages have what earlier ones have.
LEMMA StagesGrow ==
  ASSUME NEW bs, NEW things, Grows(bs, things), NEW k \in 0 .. MaxTokens
  PROVE  bs[k] \subseteq bs[MaxTokens]
<1>0. PICK M \in Nat : M = MaxTokens
  BY CodecAssumption
<1>1. PICK d \in Nat : d = M - k
  <2>1. M - k \in Nat
    BY <1>0
  <2> QED
    BY <2>1
<1>2. PICK P : P = {i \in 0 .. d : bs[k] \subseteq bs[k + i]}
  OBVIOUS
<1>3. 0 \in P
  <2>1. k + 0 = k
    BY <1>0
  <2> QED
    BY <1>1, <1>2, <2>1
<1>4. ASSUME NEW i \in 0 .. d - 1, i \in P PROVE i + 1 \in P
  <2>1. PICK j \in 1 .. M : j = k + (i + 1) /\ j - 1 = k + i
    <3>1. k + (i + 1) \in 1 .. M /\ (k + (i + 1)) - 1 = k + i
      BY <1>0, <1>1
    <3> QED
      BY <3>1
  <2>2. bs[j] = Longer(bs[k + i], things)
    BY <1>0, <2>1 DEF Grows
  <2>3. bs[k + i] \subseteq bs[j]
    BY <2>2, LongerIs
  <2>4. i + 1 \in 0 .. d
    BY <1>1
  <2> QED
    BY <1>2, <1>4, <2>1, <2>3, <2>4
<1>5. \A i \in 0 .. d : i \in P
  <2>1. \A i \in 0 .. d - 1 : i \in P => i + 1 \in P
    BY <1>4
  <2> QED
    BY ONLY <1>3, <2>1, d \in Nat, Upto
<1>6. d \in P /\ k + d = M
  BY <1>0, <1>1, <1>5
<1> QED
  BY <1>0, <1>2, <1>6

IsBody(b) == b = [n |-> b.n, keys |-> b.keys, w |-> b.w] /\ b.n \in Nat /\ IsSeq(b.w)

\* Bodies are made of numbers, keys and words.
LEMMA BodiesAre ==
  ASSUME NEW bs, NEW things, Grows(bs, things), \A x \in things : IsSeq(x.w)
  PROVE  \A k \in 0 .. MaxTokens : \A b \in bs[k] : IsBody(b)
<1>0. PICK M \in Nat : M = MaxTokens
  BY CodecAssumption
<1>1. PICK P : P = {k \in 0 .. M : \A b \in bs[k] : IsBody(b)}
  OBVIOUS
<1>2. 0 \in P
  <2>1. IsBody(NoBody)
    BY EmptyIs DEF IsBody, NoBody
  <2> QED
    BY <1>0, <1>1, <2>1 DEF Grows
<1>3. ASSUME NEW k \in 0 .. M - 1, k \in P PROVE k + 1 \in P
  <2>1. k + 1 \in 1 .. M /\ (k + 1) - 1 = k /\ k + 1 \in 0 .. M
    BY <1>0
  <2>2. bs[k + 1] = Longer(bs[k], things)
    BY <1>0, <2>1 DEF Grows
  <2>3. ASSUME NEW a \in bs[k], NEW x \in things PROVE IsBody(Join(a, x))
    <3>1. IsBody(a)
      BY <1>1, <1>3
    <3>2. IsSeq(a.w \o x.w) /\ a.n + 1 \in Nat
      BY <3>1, ConcatIs DEF IsBody, IsJoin
    <3> QED
      BY <3>2 DEF IsBody, Join
  <2>4. \A b \in bs[k + 1] : IsBody(b)
    BY <1>1, <1>3, <2>2, <2>3, LongerIs
  <2> QED
    BY <1>1, <2>1, <2>4
<1>4. \A k \in 0 .. M : k \in P
  <2>1. \A k \in 0 .. M - 1 : k \in P => k + 1 \in P
    BY <1>3
  <2> QED
    BY ONLY <1>2, <2>1, M \in Nat, Upto
<1> QED
  BY <1>0, <1>1, <1>4

\* What a turn does with the things a container is made of.
Served(s, kind, below, things) ==
  /\ \A r : Ready(s, r) => StepIs(s, kind, r, Turn(s, kind, r, below), things)
  /\ Starts(s, things) /\ \A x \in things : IsSeq(x.w)

\* How many are to come after k of them.
Toward(n0, n, k) == IF n0 = Indef THEN n = Indef ELSE n = n0 - k /\ n \in Nat

\* A loop from o is at the end of the body b, or behind the break after it.
Going(s, kind, o, n0, r, b) ==
  /\ IsLoopState(r) /\ r.at \in o .. Len(s) + 1 /\ b.w = Cut(s, o, r.at)
  /\ Had(kind, r.acc) = b.keys /\ Toward(n0, r.n, b.n)
Ended(s, o, n0, r, b) ==
  /\ ~Failed(r) /\ n0 = Indef /\ r.n = 0 /\ r.at \in o + 1 .. Len(s) + 1
  /\ s[r.at - 1].t = "break" /\ b.w = Cut(s, o, r.at - 1)

\* A loop at a break stops behind it.
LEMMA BreakStep ==
  ASSUME NEW s, IsIn(s), NEW kind, NEW below, NEW r, IsLoopState(r), r.n # 0, AtBreak(s, r),
         r.at \in 1 .. Len(s) + 1
  PROVE  /\ ~Failed(Turn(s, kind, r, below)) /\ Turn(s, kind, r, below).n = 0
         /\ Turn(s, kind, r, below).at = r.at + 1
         /\ r.at \in 1 .. Len(s) /\ s[r.at].t = "break" /\ r.n = Indef
<1>1. PICK a, n, acc : a = r.at /\ n = r.n /\ acc = r.acc
  OBVIOUS
<1>2. r = [err |-> "none", at |-> a, n |-> n, acc |-> acc]
  BY <1>1 DEF IsLoopState, Loop
<1>3. ~(Failed(r) \/ r.n = 0)
  BY <1>2 DEF Failed
<1>4. PICK q : q = Turn(s, kind, r, below)
  OBVIOUS
<1>5. q = [r EXCEPT !.at = @ + 1, !.n = 0]
  BY <1>3, <1>4 DEF Turn
<1>6. q = [err |-> "none", at |-> a + 1, n |-> 0, acc |-> acc]
  BY <1>2, <1>5
<1>7. ~Failed(q) /\ q.n = 0 /\ q.at = r.at + 1
  BY <1>1, <1>6 DEF Failed
<1>8. r.at \in 1 .. Len(s) /\ s[r.at].t = "break" /\ r.n = Indef
  BY InIs DEF AtBreak, take_byte, Token
<1> QED
  BY <1>4, <1>7, <1>8

\* A turn that does not fail ends at a break or makes the body longer.
LEMMA TurnFinds ==
  ASSUME NEW s, IsIn(s), NEW kind, NEW below, NEW things, Served(s, kind, below, things),
         NEW o \in 2 .. Len(s) + 1, NEW n0 \in Nat \cup {Indef}, NEW B, NEW b \in B, IsBody(b),
         NEW r, Going(s, kind, o, n0, r, b), r.n # 0, ~Failed(Turn(s, kind, r, below))
  PROVE  \/ Ended(s, o, n0, Turn(s, kind, r, below), b)
         \/ /\ \E c \in Longer(B, things) : Going(s, kind, o, n0, Turn(s, kind, r, below), c)
            /\ Turn(s, kind, r, below).at \in r.at + 1 .. Len(s) + 1
<1>1. PICK q : q = Turn(s, kind, r, below)
  OBVIOUS
<1>2. PICK L \in Nat, M \in Nat : L = Len(s) /\ M = MaxTokens /\ L <= M
  BY InIs
<1>3. PICK p \in o .. L + 1 : p = r.at
  BY <1>2 DEF Going
<1>4. IsLoopState(r) /\ p \in 1 .. L + 1 /\ p \in Nat /\ o \in Nat /\ o <= p
  BY <1>2, <1>3 DEF Going
<1>5. CASE AtBreak(s, r)
  <2>1. /\ ~Failed(q) /\ q.n = 0 /\ q.at = p + 1 /\ p \in 1 .. L /\ s[p].t = "break"
        /\ r.n = Indef
    BY <1>1, <1>2, <1>3, <1>4, <1>5, BreakStep
  <2>2. n0 = Indef
    BY <2>1 DEF Going, Toward, Indef
  <2>3. q.at \in o + 1 .. L + 1 /\ q.at - 1 = p
    BY <1>2, <1>3, <1>4, <2>1
  <2>4. Ended(s, o, n0, q, b)
    BY <1>2, <1>3, <2>1, <2>2, <2>3 DEF Ended, Going
  <2> QED
    BY <1>1, <2>4
<1>6. CASE ~AtBreak(s, r)
  <2>1. Ready(s, r)
    BY <1>2, <1>3, <1>4, <1>6 DEF Ready
  <2>2. StepIs(s, kind, r, q, things)
    BY <1>1, <2>1 DEF Served
  <2>3. PICK x \in things : GoesOn(s, r, q) /\ Takes(s, kind, r, q, x)
    BY <1>1, <2>2 DEF StepIs
  <2>4. PICK e \in p + 1 .. L + 1 : e = q.at
    BY <1>2, <1>3, <2>3 DEF GoesOn
  <2>5. e \in Nat /\ p <= e /\ o <= e /\ e <= L + 1 /\ 2 <= o
    BY <1>2, <1>4, <2>4
  <2>6. b.w = Cut(s, o, p) /\ x.w = Cut(s, p, e)
    BY <1>3, <2>3, <2>4 DEF Going, Takes
  <2>18. p \in Nat /\ o \in Nat /\ e \in Nat /\ o <= p /\ p <= e
    BY <1>4, <2>5
  <2>19. IsCut(Cut(s, o, p), s, o, p) /\ IsCut(Cut(s, p, e), s, p, e)
    BY ONLY <2>18, CutIs
  <2>7. Len(b.w) = p - o /\ Len(x.w) = e - p
    BY <2>6, <2>19 DEF IsCut
  <2>8. Len(b.w) + Len(x.w) < MaxTokens
    BY <1>2, <1>4, <2>5, <2>7
  <2>9. b.keys \cap x.keys = {}
    BY <2>3 DEF Going, Takes
  <2>10. PICK c : c = Join(b, x)
    OBVIOUS
  <2>11. c \in Longer(B, things)
    BY <2>3, <2>8, <2>9, <2>10, LongerIs DEF Joins
  <2>12. c.w = Cut(s, o, e)
    <3>1. Cut(s, o, p) \o Cut(s, p, e) = Cut(s, o, e)
      BY ONLY <2>18, CutJoin
    <3> QED
      BY <2>6, <2>10, <3>1 DEF Join
  <2>13. Had(kind, q.acc) = c.keys
    BY <2>3, <2>10 DEF Going, Takes, Join
  <2>14. Toward(n0, q.n, c.n)
    <3>1. q.n = Count(r.n) /\ c.n = b.n + 1 /\ b.n \in Nat
      BY <2>3, <2>10 DEF GoesOn, Join, IsBody
    <3>2. CASE n0 = Indef
      BY <3>1, <3>2 DEF Going, Toward, Count
    <3>3. CASE n0 # Indef
      <4>1. n0 \in Nat /\ r.n = n0 - b.n /\ r.n \in Nat /\ r.n # Indef
        BY <3>3 DEF Going, Toward, Indef
      <4>2. q.n = r.n - 1
        BY <3>1, <4>1 DEF Count
      <4>3. q.n = n0 - c.n /\ q.n \in Nat
        BY <3>1, <4>1, <4>2
      <4> QED
        BY <3>3, <4>3 DEF Toward
    <3> QED
      BY <3>2, <3>3
  <2>15. IsLoopState(q)
    BY <2>3 DEF GoesOn
  <2>16. q.at \in o .. L + 1
    BY <1>4, <2>4, <2>5
  <2>17. Going(s, kind, o, n0, q, c)
    BY <1>2, <2>4, <2>12, <2>13, <2>14, <2>15, <2>16 DEF Going
  <2> QED
    BY <1>1, <1>2, <1>3, <2>4, <2>11, <2>17
<1> QED
  BY <1>5, <1>6

\* A turn takes the thing that is there.
LEMMA TurnFollows ==
  ASSUME NEW s, IsIn(s), NEW kind, NEW below, NEW things, Served(s, kind, below, things),
         NEW o \in 2 .. Len(s) + 1, NEW n0 \in Nat \cup {Indef}, NEW a, IsBody(a),
         NEW x \in things, Joins(a, x), NEW r, Going(s, kind, o, n0, r, a),
         NEW e \in o .. Len(s) + 1, Join(a, x).w = Cut(s, o, e), n0 = Indef \/ a.n + 1 <= n0,
         x.w = Cut(s, r.at, e), r.at <= e
  PROVE  /\ Going(s, kind, o, n0, Turn(s, kind, r, below), Join(a, x))
         /\ ~Failed(Turn(s, kind, r, below))
         /\ Turn(s, kind, r, below).at = e /\ r.at < e
<1>1. PICK q : q = Turn(s, kind, r, below)
  OBVIOUS
<1>2. PICK L \in Nat : L = Len(s)
  BY InIs
<1>3. PICK p \in o .. L + 1 : p = r.at
  BY <1>2 DEF Going
<1>4. IsLoopState(r) /\ p \in 1 .. L + 1 /\ e \in p .. L + 1
  BY <1>2, <1>3 DEF Going
<1>5. p < e /\ s[p].t # "break"
  BY <1>2, <1>3, <1>4 DEF Served, Starts
<1>6. p <= L
  BY <1>2, <1>4, <1>5
<1>7. ~AtBreak(s, r)
  BY <1>2, <1>3, <1>5, <1>6 DEF AtBreak, take_byte
<1>8. r.n # 0
  <2>1. CASE n0 = Indef
    BY <2>1 DEF Going, Toward, Indef
  <2>2. CASE n0 # Indef
    <3>1. n0 \in Nat /\ r.n = n0 - a.n /\ a.n \in Nat
      BY <2>2 DEF Going, Toward, IsBody
    <3> QED
      BY <2>2, <3>1
  <2> QED
    BY <2>1, <2>2
<1>9. StepIs(s, kind, r, q, things)
  BY <1>1, <1>2, <1>3, <1>4, <1>7, <1>8 DEF Ready, Served
<1>10. Had(kind, r.acc) \cap x.keys = {}
  BY DEF Joins, Going
<1>11. ~Failed(q) /\ q.at = e /\ Had(kind, q.acc) = Had(kind, r.acc) \cup x.keys
  BY <1>2, <1>3, <1>4, <1>9, <1>10 DEF StepIs
<1>12. GoesOn(s, r, q)
  BY <1>9, <1>11 DEF StepIs
<1>13. PICK c : c = Join(a, x)
  OBVIOUS
<1>14. c.w = Cut(s, o, q.at) /\ Had(kind, q.acc) = c.keys
  BY <1>11, <1>13 DEF Join, Going
<1>15. Toward(n0, q.n, c.n)
  <2>1. q.n = Count(r.n) /\ c.n = a.n + 1 /\ a.n \in Nat
    BY <1>12, <1>13 DEF GoesOn, Join, IsBody
  <2>2. CASE n0 = Indef
    BY <2>1, <2>2 DEF Going, Toward, Count
  <2>3. CASE n0 # Indef
    <3>1. n0 \in Nat /\ r.n = n0 - a.n /\ r.n \in Nat /\ r.n # Indef
      BY <2>3 DEF Going, Toward, Indef
    <3>2. q.n = r.n - 1
      BY <2>1, <3>1 DEF Count
    <3>3. q.n = n0 - c.n /\ q.n \in Nat
      BY <1>8, <2>1, <3>1, <3>2
    <3> QED
      BY <2>3, <3>3 DEF Toward
  <2> QED
    BY <2>2, <2>3
<1>16. IsLoopState(q)
  BY <1>12 DEF GoesOn
<1>17. Going(s, kind, o, n0, q, c)
  BY <1>2, <1>11, <1>14, <1>15, <1>16 DEF Going
<1> QED
  BY <1>1, <1>3, <1>5, <1>11, <1>13, <1>17

\* After k turns a loop has failed, stands behind its break, or is at the end of a
\* body, and while it goes on every turn has taken a token.
Found(s, kind, o, n0, r, B, k) ==
  \/ Failed(r)
  \/ \E b \in B : Ended(s, o, n0, r, b)
  \/ \E b \in B : Going(s, kind, o, n0, r, b) /\ (r.n = 0 \/ r.at >= o + k)

\* One turn keeps it so.
LEMMA FindsNext ==
  ASSUME NEW s, IsIn(s), NEW kind, NEW below, NEW things, Served(s, kind, below, things),
         NEW o \in 2 .. Len(s) + 1, NEW n0 \in Nat \cup {Indef}, NEW B,
         \A b \in B : IsBody(b), NEW r, NEW k \in Nat, Found(s, kind, o, n0, r, B, k)
  PROVE  Found(s, kind, o, n0, Turn(s, kind, r, below), Longer(B, things), k + 1)
<1>1. PICK q : q = Turn(s, kind, r, below)
  OBVIOUS
<1>2. B \subseteq Longer(B, things)
  BY LongerIs
<1>3. CASE Failed(r)
  BY <1>3, LoopRests DEF Found
<1>4. ASSUME NEW b \in B, Ended(s, o, n0, r, b)
      PROVE  Found(s, kind, o, n0, q, Longer(B, things), k + 1)
  <2>1. q = r
    BY <1>1, <1>4, LoopRests DEF Ended
  <2> QED
    BY <1>2, <1>4, <2>1 DEF Found
<1>5. ASSUME NEW b \in B, Going(s, kind, o, n0, r, b), r.n = 0
      PROVE  Found(s, kind, o, n0, q, Longer(B, things), k + 1)
  <2>1. q = r
    BY <1>1, <1>5, LoopRests
  <2> QED
    BY <1>2, <1>5, <2>1 DEF Found
<1>6. ASSUME NEW b \in B, Going(s, kind, o, n0, r, b), r.n # 0, r.at >= o + k, ~Failed(q)
      PROVE  Found(s, kind, o, n0, q, Longer(B, things), k + 1)
  <2>1. IsBody(b)
    OBVIOUS
  <2>2. \/ Ended(s, o, n0, q, b)
        \/ /\ \E c \in Longer(B, things) : Going(s, kind, o, n0, q, c)
           /\ q.at \in r.at + 1 .. Len(s) + 1
    BY <1>1, <1>6, <2>1, TurnFinds
  <2>3. CASE Ended(s, o, n0, q, b)
    BY <1>2, <2>3 DEF Found
  <2>4. CASE /\ \E c \in Longer(B, things) : Going(s, kind, o, n0, q, c)
             /\ q.at \in r.at + 1 .. Len(s) + 1
    <3>1. PICK c \in Longer(B, things) : Going(s, kind, o, n0, q, c)
      BY <2>4
    <3>2. PICK L \in Nat : L = Len(s)
      BY InIs
    <3>3. PICK p \in Nat : p = r.at /\ p >= o + k
      BY <1>6, <3>2 DEF Going
    <3>4. q.at \in p + 1 .. L + 1
      BY <2>4, <3>2, <3>3
    <3>5. q.at >= o + (k + 1)
      BY <3>2, <3>3, <3>4
    <3> QED
      BY <3>1, <3>5 DEF Found
  <2> QED
    BY <2>2, <2>3, <2>4
<1>7. CASE Failed(q)
  BY <1>1, <1>7 DEF Found
<1> QED
  BY <1>1, <1>3, <1>4, <1>5, <1>6, <1>7 DEF Found

\* A loop that does not fail ends behind a body.
BodyAt(s, o, e, n0, b) ==
  /\ n0 # Indef => b.n = n0 /\ b.w = Cut(s, o, e)
  /\ n0 = Indef => o < e /\ b.w = Cut(s, o, e - 1) /\ s[e - 1].t = "break"

LoopFrom(kind, o, n0, r0) == r0 = Loop("none", o, n0, r0.acc) /\ Had(kind, r0.acc) = {}

\* A loop begins at the end of the empty body.
LEMMA LoopBegins ==
  ASSUME NEW s, IsIn(s), NEW kind, NEW o \in 2 .. Len(s) + 1, NEW n0 \in Nat \cup {Indef},
         NEW r0, LoopFrom(kind, o, n0, r0)
  PROVE  Going(s, kind, o, n0, r0, NoBody) /\ r0.at = o
<1>1. PICK acc : acc = r0.acc /\ r0 = Loop("none", o, n0, acc) /\ Had(kind, acc) = {}
  BY DEF LoopFrom
<1>2. IsLoopState(r0) /\ r0.at = o /\ r0.n = n0 /\ r0.acc = acc
  BY <1>1, StateIs
<1>3. NoBody.n = 0 /\ NoBody.keys = {} /\ NoBody.w = <<>>
  BY DEF NoBody
<1>4. o \in Nat /\ o <= o /\ o \in o .. Len(s) + 1 /\ o - o = 0
  BY InIs
<1>5. <<>> = Cut(s, o, o)
  <2>1. PICK w : w = <<>>
    OBVIOUS
  <2>2. IsSeq(w) /\ Len(w) = 0
    BY <2>1, EmptyIs
  <2>3. IsCut(w, s, o, o)
    BY <1>4, <2>2 DEF IsCut
  <2>4. w = Cut(s, o, o)
    BY ONLY <1>4, <2>3, CutOf
  <2> QED
    BY <2>1, <2>4
<1>6. Toward(n0, n0, 0)
  BY DEF Toward
<1> QED
  BY <1>1, <1>2, <1>3, <1>4, <1>5, <1>6 DEF Going

\* Every loop that does not fail has found a body.
LEMMA LoopFinds ==
  ASSUME NEW s, IsIn(s), NEW kind, NEW below, NEW things, Served(s, kind, below, things),
         NEW o \in 2 .. Len(s) + 1, NEW n0 \in Nat \cup {Indef}, NEW r0,
         LoopFrom(kind, o, n0, r0), NEW r, r = Turns(s, kind, r0, below), ~Failed(r)
  PROVE  r.at \in o .. Len(s) + 1 /\ \E b \in Bodies(things) : BodyAt(s, o, r.at, n0, b)
<1>1. PICK L \in Nat, M \in Nat : L = Len(s) /\ M = MaxTokens /\ L <= M
  BY InIs
<1>2. PICK turn : IsRun(turn, s, kind, r0, below) /\ r = turn[L]
  BY <1>1, LoopRuns
<1>3. PICK bs : Grows(bs, things) /\ Bodies(things) = bs[MaxTokens]
  BY BodiesGrow
<1>4. \A k \in 0 .. M : \A b \in bs[k] : IsBody(b)
  BY <1>1, <1>3, BodiesAre DEF Served
<1>5. PICK P : P = {k \in 0 .. L : Found(s, kind, o, n0, turn[k], bs[k], k)}
  OBVIOUS
<1>6. 0 \in P
  <2>1. Going(s, kind, o, n0, r0, NoBody) /\ r0.at = o /\ o >= o + 0
    BY LoopBegins
  <2>2. NoBody \in bs[0] /\ turn[0] = r0
    BY <1>2, <1>3 DEF Grows, IsRun
  <2>3. Found(s, kind, o, n0, turn[0], bs[0], 0)
    BY <2>1, <2>2 DEF Found
  <2> QED
    BY <1>1, <1>5, <2>3
<1>7. ASSUME NEW k \in 0 .. L - 1, k \in P PROVE k + 1 \in P
  <2>1. /\ k + 1 \in 1 .. L /\ (k + 1) - 1 = k /\ k + 1 \in 0 .. L /\ k \in Nat
        /\ k + 1 \in 1 .. M /\ k \in 0 .. M
    BY <1>1
  <2>2. turn[k + 1] = Turn(s, kind, turn[k], below)
    BY <1>1, <1>2, <2>1 DEF IsRun
  <2>3. bs[k + 1] = Longer(bs[k], things)
    BY <1>1, <1>3, <2>1 DEF Grows
  <2>4. PICK t, B : t = turn[k] /\ B = bs[k]
    OBVIOUS
  <2>5. Found(s, kind, o, n0, t, B, k) /\ \A b \in B : IsBody(b)
    BY <1>4, <1>5, <1>7, <2>1, <2>4
  <2>6. Found(s, kind, o, n0, Turn(s, kind, t, below), Longer(B, things), k + 1)
    BY <2>1, <2>5, FindsNext
  <2> QED
    BY <1>5, <2>1, <2>2, <2>3, <2>4, <2>6
<1>8. \A k \in 0 .. L : k \in P
  <2>1. \A k \in 0 .. L - 1 : k \in P => k + 1 \in P
    BY <1>7
  <2> QED
    BY ONLY <1>6, <2>1, L \in Nat, Upto
<1>9. Found(s, kind, o, n0, r, bs[L], L)
  BY <1>1, <1>2, <1>5, <1>8
<1>10. bs[L] \subseteq Bodies(things)
  <2>1. L \in 0 .. MaxTokens
    BY <1>1
  <2> QED
    BY <1>3, <2>1, StagesGrow
<1>11. ASSUME NEW b \in bs[L], Ended(s, o, n0, r, b)
       PROVE  r.at \in o .. L + 1 /\ BodyAt(s, o, r.at, n0, b)
  <2>1. r.at \in o + 1 .. L + 1
    BY <1>1, <1>11 DEF Ended
  <2>2. r.at \in o .. L + 1 /\ o < r.at
    BY <1>1, <2>1
  <2> QED
    BY <1>11, <2>2 DEF Ended, BodyAt
<1>12. ASSUME NEW b \in bs[L], Going(s, kind, o, n0, r, b), r.n = 0 \/ r.at >= o + L
       PROVE  r.at \in o .. L + 1 /\ BodyAt(s, o, r.at, n0, b)
  <2>1. r.at \in o .. L + 1
    BY <1>1, <1>12 DEF Going
  <2>2. r.n = 0
    BY <1>1, <1>12, <2>1
  <2>3. n0 # Indef
    BY <1>12, <2>2 DEF Going, Toward, Indef
  <2>4. n0 \in Nat /\ r.n = n0 - b.n /\ b.w = Cut(s, o, r.at)
    BY <1>12, <2>3 DEF Going, Toward
  <2>5. b.n \in Nat
    <3>1. L \in 0 .. M
      BY <1>1
    <3> QED
      BY <1>4, <1>12, <3>1 DEF IsBody
  <2>6. b.n = n0
    BY <2>2, <2>4, <2>5
  <2> QED
    BY <2>1, <2>3, <2>4, <2>6 DEF BodyAt
<1> QED
  BY <1>1, <1>9, <1>10, <1>11, <1>12 DEF Found

\* After as many turns as the body b has things, the loop is at its end.
Follows(s, kind, o, n0, turn, b, e) ==
  /\ b.n \in 0 .. e - o /\ ~Failed(turn[b.n]) /\ turn[b.n].at = e
  /\ Going(s, kind, o, n0, turn[b.n], b)

\* One thing more.
LEMMA FollowsNext ==
  ASSUME NEW s, IsIn(s), NEW kind, NEW below, NEW things, Served(s, kind, below, things),
         NEW o \in 2 .. Len(s) + 1, NEW n0 \in Nat \cup {Indef}, NEW r0, NEW turn,
         IsRun(turn, s, kind, r0, below), NEW a, IsBody(a), NEW x \in things, Joins(a, x),
         NEW e \in o .. Len(s) + 1, Join(a, x).w = Cut(s, o, e), n0 = Indef \/ a.n + 1 <= n0,
         \A m \in o .. Len(s) + 1 :
           a.w = Cut(s, o, m) => Follows(s, kind, o, n0, turn, a, m)
  PROVE  Follows(s, kind, o, n0, turn, Join(a, x), e)
<1>1. PICK L \in Nat : L = Len(s)
  BY InIs
<1>2. PICK u, v : u = a.w /\ v = x.w
  OBVIOUS
<1>3. IsSeq(u) /\ IsSeq(v)
  BY <1>2 DEF IsBody, Served
<1>4. Cut(s, o, e) = u \o v
  BY <1>2 DEF Join
<1>5. o \in Nat /\ e \in Nat /\ o <= e /\ e <= L + 1 /\ 2 <= o
  BY <1>1
<1>6. PICK m \in Nat : Parted(s, o, m, e, u, v)
  BY ONLY <1>3, <1>4, <1>5, CutSplit
<1>7. o <= m /\ m <= e /\ u = Cut(s, o, m) /\ v = Cut(s, m, e)
  BY <1>6 DEF Parted
<1>8. m \in o .. L + 1
  BY <1>1, <1>5, <1>6, <1>7
<1>9. Follows(s, kind, o, n0, turn, a, m)
  BY <1>1, <1>2, <1>7, <1>8
<1>10. PICK k \in Nat : k = a.n /\ k <= m - o
  BY <1>9, <1>8 DEF Follows, IsBody
<1>11. PICK r : r = turn[k]
  OBVIOUS
<1>12. Going(s, kind, o, n0, r, a) /\ r.at = m
  BY <1>9, <1>10, <1>11 DEF Follows
<1>13. x.w = Cut(s, r.at, e) /\ r.at <= e
  BY <1>2, <1>7, <1>12
<1>14. PICK q, c : q = Turn(s, kind, r, below) /\ c = Join(a, x)
  OBVIOUS
<1>15. Going(s, kind, o, n0, q, c) /\ ~Failed(q) /\ q.at = e /\ m < e
  BY <1>12, <1>13, <1>14, TurnFollows
<1>16. k + 1 \in 1 .. L /\ (k + 1) - 1 = k /\ k + 1 \in 0 .. e - o
  BY <1>1, <1>5, <1>6, <1>10, <1>15
<1>17. turn[k + 1] = q
  BY <1>1, <1>11, <1>14, <1>16 DEF IsRun
<1>18. c.n = k + 1
  BY <1>10, <1>14 DEF Join
<1> QED
  BY <1>14, <1>15, <1>16, <1>17, <1>18 DEF Follows

\* A loop follows every body the input has.
LEMMA LoopFollows ==
  ASSUME NEW s, IsIn(s), NEW kind, NEW below, NEW things, Served(s, kind, below, things),
         NEW o \in 2 .. Len(s) + 1, NEW n0 \in Nat \cup {Indef}, NEW r0,
         LoopFrom(kind, o, n0, r0), NEW turn, IsRun(turn, s, kind, r0, below),
         NEW b \in Bodies(things), n0 = Indef \/ b.n <= n0, NEW e \in o .. Len(s) + 1,
         b.w = Cut(s, o, e)
  PROVE  Follows(s, kind, o, n0, turn, b, e) /\ IsBody(b)
<1>1. PICK L \in Nat, M \in Nat : L = Len(s) /\ M = MaxTokens /\ L <= M
  BY InIs
<1>2. PICK bs : Grows(bs, things) /\ Bodies(things) = bs[MaxTokens]
  BY BodiesGrow
<1>3. \A k \in 0 .. M : \A c \in bs[k] : IsBody(c)
  BY <1>1, <1>2, BodiesAre DEF Served
<1>4. PICK P : P = {k \in 0 .. M : \A c \in bs[k] : \A m \in o .. L + 1 :
                      (n0 = Indef \/ c.n <= n0) /\ c.w = Cut(s, o, m) =>
                        Follows(s, kind, o, n0, turn, c, m)}
  OBVIOUS
<1>5. 0 \in P
  <2>1. Going(s, kind, o, n0, r0, NoBody) /\ r0.at = o
    BY LoopBegins
  <2>2. turn[0] = r0 /\ bs[0] = {NoBody}
    BY <1>2 DEF IsRun, Grows
  <2>3. NoBody.n = 0 /\ NoBody.w = <<>>
    BY DEF NoBody
  <2>4. ASSUME NEW m \in o .. L + 1, NoBody.w = Cut(s, o, m)
        PROVE  Follows(s, kind, o, n0, turn, NoBody, m)
    <3>1. o \in Nat /\ m \in Nat /\ o <= m
      BY <1>1
    <3>2. PICK w : w = <<>>
      OBVIOUS
    <3>3. IsCut(w, s, o, m) /\ Len(w) = 0
      BY <2>3, <2>4, <3>1, <3>2, CutIs, EmptyIs
    <3>4. m - o = 0
      BY <3>3 DEF IsCut
    <3>5. m = o
      BY <3>1, <3>4
    <3>6. ~Failed(r0)
      BY <2>1 DEF Going, IsLoopState, Loop, Failed
    <3> QED
      BY <2>1, <2>2, <2>3, <3>1, <3>5, <3>6 DEF Follows
  <2> QED
    BY <1>1, <1>4, <2>2, <2>4
<1>6. ASSUME NEW k \in 0 .. M - 1, k \in P PROVE k + 1 \in P
  <2>1. k + 1 \in 1 .. M /\ (k + 1) - 1 = k /\ k + 1 \in 0 .. M /\ k \in 0 .. M
    BY <1>1
  <2>2. bs[k + 1] = Longer(bs[k], things)
    BY <1>1, <1>2, <2>1 DEF Grows
  <2>3. ASSUME NEW c \in bs[k + 1], NEW m \in o .. L + 1, n0 = Indef \/ c.n <= n0,
               c.w = Cut(s, o, m)
        PROVE  Follows(s, kind, o, n0, turn, c, m)
    <3>1. CASE c \in bs[k]
      BY <1>4, <1>6, <2>3, <3>1
    <3>2. CASE c \notin bs[k]
      <4>1. PICK a \in bs[k], x \in things : Joins(a, x) /\ c = Join(a, x)
        BY <2>2, <2>3, <3>2, LongerIs
      <4>2. IsBody(a)
        BY <1>3, <2>1, <4>1
      <4>3. c.n = a.n + 1 /\ a.n \in Nat
        BY <4>1, <4>2 DEF Join, IsBody
      <4>4. (n0 = Indef \/ a.n + 1 <= n0) /\ (n0 = Indef \/ a.n <= n0)
        BY <2>3, <4>3 DEF Indef
      <4>5. \A i \in o .. L + 1 : a.w = Cut(s, o, i) => Follows(s, kind, o, n0, turn, a, i)
        BY <1>4, <1>6, <4>1, <4>4
      <4>6. Follows(s, kind, o, n0, turn, Join(a, x), m)
        BY <1>1, <2>3, <4>1, <4>2, <4>4, <4>5, FollowsNext
      <4> QED
        BY <4>1, <4>6
    <3> QED
      BY <3>1, <3>2
  <2> QED
    BY <1>4, <2>1, <2>3
<1>7. \A k \in 0 .. M : k \in P
  <2>1. \A k \in 0 .. M - 1 : k \in P => k + 1 \in P
    BY <1>6
  <2> QED
    BY ONLY <1>5, <2>1, M \in Nat, Upto
<1>8. M \in P /\ b \in bs[M] /\ M \in 0 .. M
  BY <1>1, <1>2, <1>7
<1> QED
  BY <1>1, <1>3, <1>4, <1>8

\* The loop over a container ends exactly where one of its bodies ends.
LEMMA LoopExact ==
  ASSUME NEW s, IsIn(s), NEW kind, NEW below, NEW things, Served(s, kind, below, things),
         NEW o \in 2 .. Len(s) + 1, NEW n0 \in Nat \cup {Indef}, NEW r0,
         LoopFrom(kind, o, n0, r0), NEW r, r = Turns(s, kind, r0, below)
  PROVE  /\ ~Failed(r) => r.at \in o .. Len(s) + 1
         /\ \A e \in o .. Len(s) + 1 :
              ~Failed(r) /\ r.at = e <=> \E b \in Bodies(things) : BodyAt(s, o, e, n0, b)
<1>1. PICK L \in Nat : L = Len(s)
  BY InIs
<1>2. PICK turn : IsRun(turn, s, kind, r0, below) /\ r = turn[L]
  BY <1>1, LoopRuns
<1>3. ASSUME ~Failed(r)
      PROVE  r.at \in o .. L + 1 /\ \E b \in Bodies(things) : BodyAt(s, o, r.at, n0, b)
  BY <1>1, <1>3, LoopFinds
<1>4. ASSUME NEW e \in o .. L + 1, NEW b \in Bodies(things), BodyAt(s, o, e, n0, b)
      PROVE  ~Failed(r) /\ r.at = e
  <2>1. o \in Nat /\ e \in Nat /\ 2 <= o /\ e <= L + 1 /\ o <= e
    BY <1>1
  <2>2. CASE n0 # Indef
    <3>1. b.n = n0 /\ b.w = Cut(s, o, e) /\ n0 \in Nat
      BY <1>4, <2>2 DEF BodyAt
    <3>2. Follows(s, kind, o, n0, turn, b, e)
      BY <1>1, <1>2, <1>4, <3>1, LoopFollows
    <3>3. PICK k : k = b.n
      OBVIOUS
    <3>4. k \in 0 .. L
      BY <1>1, <2>1, <3>2, <3>3 DEF Follows
    <3>5. ~Failed(turn[k]) /\ turn[k].at = e /\ turn[k].n = n0 - b.n
      BY <2>2, <3>2, <3>3 DEF Follows, Going, Toward
    <3>6. turn[k].n = 0
      BY <3>1, <3>5
    <3>7. turn[L] = turn[k]
      BY <1>1, <1>2, <3>4, <3>6, LoopSettles
    <3> QED
      BY <1>2, <3>5, <3>7
  <2>3. CASE n0 = Indef
    <3>1. o < e /\ b.w = Cut(s, o, e - 1) /\ s[e - 1].t = "break"
      BY <1>4, <2>3 DEF BodyAt
    <3>2. PICK m \in o .. L : m = e - 1 /\ m \in o .. L + 1 /\ m + 1 = e /\ m \in 1 .. L
      <4>1. e - 1 \in o .. L /\ e - 1 \in o .. L + 1 /\ (e - 1) + 1 = e /\ e - 1 \in 1 .. L
        BY <1>1, <2>1, <3>1
      <4> QED
        BY <4>1
    <3>3. Follows(s, kind, o, n0, turn, b, m)
      BY <1>1, <1>2, <1>4, <2>3, <3>1, <3>2, LoopFollows
    <3>4. PICK k, t : k = b.n /\ t = turn[k]
      OBVIOUS
    <3>5. k \in 0 .. m - o /\ t.at = m /\ IsLoopState(t) /\ t.n = Indef
      BY <2>3, <3>3, <3>4 DEF Follows, Going, Toward
    <3>6. k + 1 \in 1 .. L /\ (k + 1) - 1 = k /\ k + 1 \in 0 .. L
      BY <1>1, <2>1, <3>2, <3>5
    <3>7. AtBreak(s, t)
      BY <1>1, <3>1, <3>2, <3>5 DEF AtBreak, take_byte
    <3>8. t.n # 0 /\ t.at \in 1 .. L + 1
      BY <1>1, <2>1, <3>2, <3>5 DEF Indef
    <3>9. PICK q : q = Turn(s, kind, t, below)
      OBVIOUS
    <3>10. ~Failed(q) /\ q.n = 0 /\ q.at = m + 1
      BY <1>1, <3>5, <3>7, <3>8, <3>9, BreakStep
    <3>11. turn[k + 1] = q
      BY <1>1, <1>2, <3>4, <3>6, <3>9 DEF IsRun
    <3>12. PICK j \in 0 .. L : j = k + 1
      BY <3>6
    <3>13. turn[L] = turn[j]
      BY <1>1, <1>2, <3>10, <3>11, <3>12, LoopSettles
    <3> QED
      BY <1>2, <3>2, <3>10, <3>11, <3>12, <3>13
  <2> QED
    BY <2>2, <2>3
<1> QED
  BY <1>1, <1>3, <1>4

-----------------------------------------------------------------------------
(* A level of the grammar and a row of the scanner.                         *)

\* A container of one kind, from o to e, is read by the loop r.
ContainerAt(s, o, e, kind, r) == o <= Len(s) /\ s[o].t = kind /\ ~Failed(r) /\ r.at = e

\* The members of Containers.
LEMMA ContainersAre ==
  ASSUME NEW f, NEW heads, NEW bodies
  PROVE  f \in Containers(heads, bodies) <=>
           \E c \in heads, b \in bodies : c.a \in {b.n, Indef} /\ f \in Framed(c, b.w)
<1>1. ASSUME NEW c
      PROVE  f \in UNION {Framed(c, b.w) : b \in {x \in bodies : c.a \in {x.n, Indef}}} <=>
               \E b \in bodies : c.a \in {b.n, Indef} /\ f \in Framed(c, b.w)
  OBVIOUS
<1>2. f \in Containers(heads, bodies) <=>
        \E c \in heads : f \in UNION {Framed(c, b.w) : b \in {x \in bodies : c.a \in {x.n, Indef}}}
  BY DEF Containers
<1> QED
  BY <1>1, <1>2

\* The loop over a container reads exactly the containers.
LEMMA ContainerExact ==
  ASSUME NEW s, IsIn(s), NEW kind, NEW below, NEW things, Served(s, kind, below, things),
         NEW o \in 1 .. Len(s), NEW acc, Had(kind, acc) = {}, NEW r,
         r = Turns(s, kind, Loop("none", o + 1, s[o].a, acc), below)
  PROVE  /\ ~Failed(r) => r.at \in o + 1 .. Len(s) + 1
         /\ \A e \in o .. Len(s) + 1 :
              Cut(s, o, e) \in Containers(Of({kind}), Bodies(things)) <=>
                ContainerAt(s, o, e, kind, r)
<1>1. PICK L \in Nat : L = Len(s)
  BY InIs
<1>2. PICK p \in 2 .. L + 1 : p = o + 1
  BY <1>1
<1>3. PICK n0 \in Nat \cup {Indef} : n0 = s[o].a
  BY <1>1, InIs
<1>4. PICK r0 : r0 = Loop("none", p, n0, acc)
  OBVIOUS
<1>5. LoopFrom(kind, p, n0, r0)
  BY <1>4, StateIs DEF LoopFrom
<1>6. /\ ~Failed(r) => r.at \in p .. L + 1
      /\ \A e \in p .. L + 1 :
           ~Failed(r) /\ r.at = e <=> \E b \in Bodies(things) : BodyAt(s, p, e, n0, b)
  <2>1. r = Turns(s, kind, r0, below)
    BY <1>2, <1>3, <1>4
  <2> QED
    BY <1>1, <1>5, <2>1, LoopExact
<1>7. \A b \in Bodies(things) : IsBody(b)
  <2>1. PICK bs : Grows(bs, things) /\ Bodies(things) = bs[MaxTokens]
    BY BodiesGrow
  <2>2. MaxTokens \in 0 .. MaxTokens
    BY CodecAssumption
  <2> QED
    BY <2>1, <2>2, BodiesAre DEF Served
<1>8. ASSUME NEW e \in o .. L + 1
      PROVE  Cut(s, o, e) \in Containers(Of({kind}), Bodies(things)) <=>
               ContainerAt(s, o, e, kind, r)
  <2>1. Places(s, o, e) /\ o \in Nat /\ e \in Nat
    BY <1>1 DEF Places
  <2>2. PICK f : f = Cut(s, o, e)
    OBVIOUS
  <2>3. ASSUME NEW b \in Bodies(things), NEW c
        PROVE  f \in Framed(c, b.w) <=> s[o] = c /\ FrameAt(s, o, e, b.w)
    BY <1>7, <2>1, <2>2, FramedIs DEF IsBody
  <2>4. s[o] \in Of({kind}) <=> s[o].t = kind
    BY <1>1, InIs DEF Of
  <2>5. f \in Containers(Of({kind}), Bodies(things)) <=>
          /\ s[o].t = kind
          /\ \E b \in Bodies(things) : n0 \in {b.n, Indef} /\ FrameAt(s, o, e, b.w)
    <3>1. f \in Containers(Of({kind}), Bodies(things)) <=>
            \E c \in Of({kind}), b \in Bodies(things) :
              c.a \in {b.n, Indef} /\ f \in Framed(c, b.w)
      BY ContainersAre
    <3> QED
      BY <1>3, <2>3, <2>4, <3>1
  <2>6. ASSUME NEW b
        PROVE  n0 \in {b.n, Indef} /\ FrameAt(s, o, e, b.w) <=> o < e /\ BodyAt(s, p, e, n0, b)
    <3>1. CASE n0 = Indef
      BY <1>2, <1>3, <2>1, <3>1 DEF FrameAt, BodyAt
    <3>2. CASE n0 # Indef
      BY <1>2, <1>3, <3>2 DEF FrameAt, BodyAt
    <3> QED
      BY <3>1, <3>2
  <2>7. f \in Containers(Of({kind}), Bodies(things)) <=>
          s[o].t = kind /\ o < e /\ \E b \in Bodies(things) : BodyAt(s, p, e, n0, b)
    BY <2>5, <2>6
  <2>8. o < e <=> e \in p .. L + 1
    BY <1>1, <1>2, <2>1
  <2>9. ~Failed(r) /\ r.at = e => e \in p .. L + 1
    BY <1>6
  <2>10. o <= Len(s)
    BY <1>1
  <2> QED
    BY <1>6, <2>2, <2>7, <2>8, <2>9, <2>10 DEF ContainerAt
<1> QED
  BY <1>1, <1>2, <1>6, <1>8

\* Nothing but a head of its kind begins a container.
LEMMA ContainerHead ==
  ASSUME NEW s, IsIn(s), NEW o, NEW e, Places(s, o, e), NEW kind, NEW bodies,
         \A b \in bodies : IsSeq(b.w), Cut(s, o, e) \in Containers(Of({kind}), bodies)
  PROVE  o \in 1 .. Len(s) /\ s[o].t = kind
<1>1. PICK c \in Of({kind}), b \in bodies : Cut(s, o, e) \in Framed(c, b.w)
  BY ContainersAre
<1>2. IsSeq(b.w)
  BY <1>1
<1>3. s[o] = c /\ FrameAt(s, o, e, b.w)
  BY <1>1, <1>2, FramedIs
<1>4. o < e
  BY <1>3 DEF FrameAt
<1> QED
  BY <1>1, <1>3, <1>4, PlacesAre DEF Of

\* The elements of an array and the members of a map serve the loop.
LEMMA ThingsServe ==
  ASSUME NEW s, IsIn(s), NEW below, NEW E, Exact(s, below, E), AreSeqs(E)
  PROVE  Served(s, "array", below, Elements(E)) /\ Served(s, "map", below, Members(E))
<1>1. ASSUME NEW x \in Elements(E) PROVE IsSeq(x.w)
  BY DEF Elements, AreSeqs
<1>2. ASSUME NEW x \in Members(E) PROVE IsSeq(x.w)
  <2>1. PICK y \in Strings("text") \X E : x = [keys |-> {TextOf(y[1])}, w |-> y[1] \o y[2]]
    BY DEF Members
  <2>2. PICK k, v : k = y[1] /\ v = y[2] /\ k \in Strings("text") /\ v \in E
    BY <2>1
  <2>3. IsSeq(k) /\ IsSeq(v) /\ x.w = k \o v
    BY <2>1, <2>2, StringsSeqs DEF AreSeqs
  <2> QED
    BY <2>3, ConcatIs DEF IsJoin
<1>3. Served(s, "array", below, Elements(E))
  BY <1>1, ArrayStep, ArrayStarts DEF Served
<1>4. Served(s, "map", below, Members(E))
  BY <1>2, MapStep, MapStarts DEF Served
<1> QED
  BY <1>3, <1>4

Plain == {"int", "simple", "float"}
Arrays(E) == Containers(Of({"array"}), Bodies(Elements(E)))
Maps(E) == Containers(Of({"map"}), Bodies(Members(E)))

\* The members of a level.
LEMMA LevelIs ==
  ASSUME NEW E, NEW f, Len(f) <= MaxTokens
  PROVE  f \in Level(E) <=> \/ \E c \in Of(Plain) : f = <<c>>
                            \/ f \in Strings("text") \/ f \in Strings("bytes")
                            \/ f \in Arrays(E) \/ f \in Maps(E)
BY DEF Level, Fit, Plain, Arrays, Maps

\* The members of a level are sequences.
LEMMA LevelSeqs ==
  ASSUME NEW s, IsIn(s), NEW below, NEW E, Exact(s, below, E), AreSeqs(E)
  PROVE  /\ AreSeqs(Level(E))
         /\ \A b \in Bodies(Elements(E)) \cup Bodies(Members(E)) : IsSeq(b.w)
<1>1. ASSUME NEW things, \A x \in things : IsSeq(x.w), NEW b \in Bodies(things) PROVE IsSeq(b.w)
  <2>1. PICK bs : Grows(bs, things) /\ Bodies(things) = bs[MaxTokens]
    BY BodiesGrow
  <2>2. MaxTokens \in 0 .. MaxTokens
    BY CodecAssumption
  <2> QED
    BY <1>1, <2>1, <2>2, BodiesAre DEF IsBody
<1>2. \A b \in Bodies(Elements(E)) \cup Bodies(Members(E)) : IsSeq(b.w)
  BY <1>1, ThingsServe DEF Served
<1>3. ASSUME NEW f, NEW kind, NEW bodies, \A b \in bodies : IsSeq(b.w),
             f \in Containers(Of({kind}), bodies)
      PROVE  IsSeq(f)
  <2>1. PICK c \in Of({kind}), b \in bodies : f \in Framed(c, b.w)
    BY <1>3, ContainersAre
  <2> QED
    BY <1>3, <2>1, FramedSeq
<1>4. ASSUME NEW f \in Level(E) PROVE IsSeq(f)
  <2>1. Len(f) <= MaxTokens
    BY DEF Level, Fit
  <2>2. CASE \E c \in Of(Plain) : f = <<c>>
    BY <2>2, OneIs
  <2>3. CASE f \in Strings("text") \/ f \in Strings("bytes")
    BY <2>3, StringsSeqs
  <2>4. CASE f \in Arrays(E)
    BY <1>2, <1>3, <2>4 DEF Arrays
  <2>5. CASE f \in Maps(E)
    BY <1>2, <1>3, <2>5 DEF Maps
  <2> QED
    BY <2>1, <2>2, <2>3, <2>4, <2>5, LevelIs
<1> QED
  BY <1>2, <1>4 DEF AreSeqs

\* What is at o, by its head.
HeadIs(s, o, e, ra, rm) ==
  \/ o <= Len(s) /\ s[o].t \in Plain /\ e = o + 1
  \/ StringAt(s, o, e, "text") \/ StringAt(s, o, e, "bytes")
  \/ ContainerAt(s, o, e, "array", ra) \/ ContainerAt(s, o, e, "map", rm)

ArrayLoop(s, o, below) == Turns(s, "array", Loop("none", o + 1, s[o].a, <<>>), below)
MapLoop(s, o, below) == Turns(s, "map", Loop("none", o + 1, s[o].a, {}), below)

\* A stretch is in a level if it is what its head says.
LEMMA LevelAt ==
  ASSUME NEW s, IsIn(s), NEW below, NEW E, Exact(s, below, E), AreSeqs(E),
         NEW o, NEW e, Places(s, o, e)
  PROVE  Cut(s, o, e) \in Level(E) <=>
           HeadIs(s, o, e, ArrayLoop(s, o, below), MapLoop(s, o, below))
<1>1. PICK L \in Nat : L = Len(s)
  BY InIs
<1>2. /\ o \in Nat /\ e \in Nat /\ o <= e /\ 1 <= o /\ e <= L + 1
      /\ o < e => o \in 1 .. L
  BY <1>1, PlacesAre
<1>3. PICK f, ra, rm : /\ f = Cut(s, o, e) /\ ra = ArrayLoop(s, o, below)
                       /\ rm = MapLoop(s, o, below)
  OBVIOUS
<1>4. Len(f) <= MaxTokens
  BY <1>3, CutFits
<1>5. f \in Level(E) <=> \/ \E c \in Of(Plain) : f = <<c>>
                         \/ f \in Strings("text") \/ f \in Strings("bytes")
                         \/ f \in Arrays(E) \/ f \in Maps(E)
  BY <1>4, LevelIs
<1>6. (\E c \in Of(Plain) : f = <<c>>) <=> o <= L /\ s[o].t \in Plain /\ e = o + 1
  <2>1. ASSUME NEW c \in Of(Plain), f = <<c>> PROVE o <= L /\ s[o].t \in Plain /\ e = o + 1
    <3>1. Cut(s, o, e) = <<c>>
      BY <1>3, <2>1
    <3>2. e = o + 1 /\ s[o] = c
      BY ONLY <1>2, <3>1, CutUnit
    <3> QED
      BY <1>1, <1>2, <3>2 DEF Of
  <2>2. ASSUME o <= L, s[o].t \in Plain, e = o + 1 PROVE \E c \in Of(Plain) : f = <<c>>
    <3>1. s[o] \in Of(Plain)
      BY <1>1, <1>2, <2>2, InIs DEF Of
    <3>2. f = <<s[o]>>
      BY <1>2, <1>3, <2>2, CutOne
    <3> QED
      BY <3>1, <3>2
  <2> QED
    BY <2>1, <2>2
<1>7. /\ f \in Strings("text") <=> StringAt(s, o, e, "text")
      /\ f \in Strings("bytes") <=> StringAt(s, o, e, "bytes")
  BY <1>3, StringExact
<1>8. f \in Arrays(E) <=> ContainerAt(s, o, e, "array", ra)
  <2>1. CASE o \in 1 .. L
    <3>1. Had("array", <<>>) = {} /\ Served(s, "array", below, Elements(E))
      BY ThingsServe DEF Had
    <3>2. ra = Turns(s, "array", Loop("none", o + 1, s[o].a, <<>>), below)
      BY <1>3 DEF ArrayLoop
    <3>3. e \in o .. L + 1
      BY <1>1, <1>2
    <3> QED
      BY <1>1, <1>3, <2>1, <3>1, <3>2, <3>3, ContainerExact DEF Arrays
  <2>2. CASE o \notin 1 .. L
    <3>1. f \notin Arrays(E)
      BY <1>1, <1>3, <2>2, LevelSeqs, ContainerHead DEF Arrays
    <3> QED
      BY <1>1, <1>2, <2>2, <3>1 DEF ContainerAt
  <2> QED
    BY <2>1, <2>2
<1>9. f \in Maps(E) <=> ContainerAt(s, o, e, "map", rm)
  <2>1. CASE o \in 1 .. L
    <3>1. Had("map", {}) = {} /\ Served(s, "map", below, Members(E))
      BY ThingsServe DEF Had, Keys
    <3>2. rm = Turns(s, "map", Loop("none", o + 1, s[o].a, {}), below)
      BY <1>3 DEF MapLoop
    <3>3. e \in o .. L + 1
      BY <1>1, <1>2
    <3> QED
      BY <1>1, <1>3, <2>1, <3>1, <3>2, <3>3, ContainerExact DEF Maps
  <2>2. CASE o \notin 1 .. L
    <3>1. f \notin Maps(E)
      BY <1>1, <1>3, <2>2, LevelSeqs, ContainerHead DEF Maps
    <3> QED
      BY <1>1, <1>2, <2>2, <3>1 DEF ContainerAt
  <2> QED
    BY <2>1, <2>2
<1> QED
  BY <1>1, <1>3, <1>5, <1>6, <1>7, <1>8, <1>9 DEF HeadIs

\* What the end of a loop becomes.
LEMMA ClosedIs ==
  ASSUME NEW r, NEW i
  PROVE  /\ Failed(Closed(r, i)) <=> Failed(r)
         /\ ~Failed(r) => Closed(r, i).at = r.at
BY DEF Closed, Failed, Err, Ok

\* ScanHead reads what is at o, and nothing at a break.
LEMMA HeadExact ==
  ASSUME NEW s, IsIn(s), NEW below, NEW E, Exact(s, below, E), AreSeqs(E),
         NEW o \in 1 .. Len(s) + 1, NEW x, x = ScanHead(take_byte(s, o), s, o, below)
  PROVE  RowAt(s, x, o, Level(E))
<1>1. PICK L \in Nat : L = Len(s)
  BY InIs
<1>2. PICK ra, rm : ra = ArrayLoop(s, o, below) /\ rm = MapLoop(s, o, below)
  OBVIOUS
<1>3. ASSUME NEW e \in o .. L + 1 PROVE Cut(s, o, e) \in Level(E) <=> HeadIs(s, o, e, ra, rm)
  <2>1. Places(s, o, e)
    BY <1>1 DEF Places
  <2> QED
    BY <1>2, <2>1, LevelAt
<1>4. SUFFICES /\ ~Failed(x) => x.at \in o + 1 .. L + 1 /\ o <= L /\ s[o].t # "break"
               /\ \A e \in o .. L + 1 : HeadIs(s, o, e, ra, rm) <=> ~Failed(x) /\ x.at = e
  BY <1>1, <1>3 DEF RowAt
<1>5. CASE o > L
  <2>1. take_byte(s, o).t = "cut"
    BY <1>1, <1>5 DEF take_byte, Token
  <2>2. Failed(x)
    BY <2>1 DEF ScanHead, Err, Failed
  <2> QED
    BY <1>1, <1>5, <2>2 DEF HeadIs, StringAt, ContainerAt
<1>6. ASSUME o <= L
      PROVE  /\ o \in 1 .. L /\ take_byte(s, o) = s[o] /\ x = ScanHead(s[o], s, o, below)
             /\ \A e : /\ StringAt(s, o, e, s[o].t) <=>
                            ~Failed(scan_string(s, o)) /\ scan_string(s, o).at = e
                       /\ \A r : ContainerAt(s, o, e, s[o].t, r) <=> ~Failed(r) /\ r.at = e
  <2>1. o \in 1 .. L /\ take_byte(s, o) = s[o] /\ x = ScanHead(s[o], s, o, below)
    BY <1>1, <1>6 DEF take_byte
  <2> QED
    BY <1>1, <1>6, <2>1 DEF StringAt, ContainerAt
<1>7. CASE o <= L /\ s[o].t \in Plain
  <2>1. x = Ok(o + 1, Item(Word(s[o].t, s[o].v)))
    BY <1>6, <1>7 DEF ScanHead, Plain
  <2>2. ~Failed(x) /\ x.at = o + 1
    BY <2>1 DEF Ok, Failed
  <2>3. s[o].t # "break" /\ s[o].t \notin {"text", "bytes", "array", "map"}
    BY <1>7 DEF Plain
  <2>4. \A e : HeadIs(s, o, e, ra, rm) <=> e = o + 1
    BY <1>1, <1>7, <2>3 DEF HeadIs, StringAt, ContainerAt
  <2>5. o + 1 \in o + 1 .. L + 1
    BY <1>1, <1>7
  <2> QED
    BY <1>7, <2>2, <2>3, <2>4, <2>5
<1>8. CASE o <= L /\ s[o].t \in {"text", "bytes"}
  <2>1. x = scan_string(s, o)
    BY <1>6, <1>8 DEF ScanHead
  <2>2. s[o].t # "break" /\ s[o].t \notin Plain \cup {"array", "map"}
    BY <1>8 DEF Plain
  <2>3. \A e : HeadIs(s, o, e, ra, rm) <=> ~Failed(x) /\ x.at = e
    BY <1>1, <1>8, <2>1, <2>2 DEF HeadIs, StringAt, ContainerAt
  <2>4. ~Failed(x) => x.at \in o + 1 .. L + 1
    BY <1>1, <1>6, <1>8, <2>1, StringReads
  <2> QED
    BY <1>8, <2>2, <2>3, <2>4
<1>9. CASE o <= L /\ s[o].t = "array"
  <2>1. x = ArrayItem(ra)
    BY <1>2, <1>6, <1>9 DEF ScanHead, scan_array, ArrayLoop
  <2>2. (Failed(x) <=> Failed(ra)) /\ (~Failed(ra) => x.at = ra.at)
    BY <2>1, ClosedIs DEF ArrayItem
  <2>3. s[o].t # "break" /\ s[o].t \notin Plain \cup {"text", "bytes", "map"}
    BY <1>9 DEF Plain
  <2>4. \A e : HeadIs(s, o, e, ra, rm) <=> ~Failed(ra) /\ ra.at = e
    BY <1>1, <1>9, <2>3 DEF HeadIs, StringAt, ContainerAt
  <2>5. ~Failed(ra) => ra.at \in o + 1 .. L + 1
    <3>1. Had("array", <<>>) = {} /\ Served(s, "array", below, Elements(E))
      BY ThingsServe DEF Had
    <3>2. ra = Turns(s, "array", Loop("none", o + 1, s[o].a, <<>>), below) /\ o \in 1 .. Len(s)
      BY <1>1, <1>2, <1>6, <1>9 DEF ArrayLoop
    <3> QED
      BY <1>1, <3>1, <3>2, ContainerExact
  <2> QED
    BY <1>9, <2>2, <2>3, <2>4, <2>5
<1>10. CASE o <= L /\ s[o].t = "map"
  <2>1. x = MapItem(rm)
    BY <1>2, <1>6, <1>10 DEF ScanHead, scan_map, MapLoop
  <2>2. (Failed(x) <=> Failed(rm)) /\ (~Failed(rm) => x.at = rm.at)
    BY <2>1, ClosedIs DEF MapItem
  <2>3. s[o].t # "break" /\ s[o].t \notin Plain \cup {"text", "bytes", "array"}
    BY <1>10 DEF Plain
  <2>4. \A e : HeadIs(s, o, e, ra, rm) <=> ~Failed(rm) /\ rm.at = e
    BY <1>1, <1>10, <2>3 DEF HeadIs, StringAt, ContainerAt
  <2>5. ~Failed(rm) => rm.at \in o + 1 .. L + 1
    <3>1. Had("map", {}) = {} /\ Served(s, "map", below, Members(E))
      BY ThingsServe DEF Had, Keys
    <3>2. rm = Turns(s, "map", Loop("none", o + 1, s[o].a, {}), below) /\ o \in 1 .. Len(s)
      BY <1>1, <1>2, <1>6, <1>10 DEF MapLoop
    <3> QED
      BY <1>1, <3>1, <3>2, ContainerExact
  <2> QED
    BY <1>10, <2>2, <2>3, <2>4, <2>5
<1>11. CASE o <= L /\ s[o].t \notin Plain \cup {"text", "bytes", "array", "map"}
  <2>1. x = Err("Cbor")
    BY <1>6, <1>11 DEF ScanHead, Plain
  <2>2. Failed(x)
    BY <2>1 DEF Err, Failed
  <2>3. \A e : ~HeadIs(s, o, e, ra, rm)
    BY <1>1, <1>11 DEF HeadIs, StringAt, ContainerAt
  <2> QED
    BY <2>2, <2>3
<1> QED
  BY <1>1, <1>5, <1>7, <1>8, <1>9, <1>10, <1>11

IsGrammar(en, n) == en = [left \in 0 .. n |-> IF left = 0 THEN {} ELSE Level(en[left - 1])]

\* The levels of the grammar exist.
LEMMA GrammarExists ==
  ASSUME NEW n \in Nat
  PROVE  \E en : IsGrammar(en, n)
<1>1. PICK P : P = {k \in Nat : \E en : IsGrammar(en, k)}
  OBVIOUS
<1>2. 0 \in P
  <2>1. IsGrammar([k \in 0 .. 0 |-> {}], 0)
    BY DEF IsGrammar
  <2> QED
    BY <1>1, <2>1
<1>3. ASSUME NEW k \in 0 .. n - 1, k \in P PROVE k + 1 \in P
  <2>1. PICK g : IsGrammar(g, k)
    BY <1>1, <1>3
  <2>2. PICK h : h = [i \in 0 .. k + 1 |-> IF i = k + 1 THEN Level(g[k]) ELSE g[i]]
    OBVIOUS
  <2>3. \A i \in 0 .. k : g[i] = IF i = 0 THEN {} ELSE Level(g[i - 1])
    BY <2>1 DEF IsGrammar
  <2>4. \A i \in 0 .. k : h[i] = g[i]
    BY <2>2
  <2>5. ASSUME NEW i \in 0 .. k + 1
        PROVE  h[i] = IF i = 0 THEN {} ELSE Level(h[i - 1])
    <3>1. CASE i = 0
      <4>1. 0 \in 0 .. k
        OBVIOUS
      <4> QED
        BY <2>3, <2>4, <3>1, <4>1
    <3>2. CASE i \in 1 .. k
      <4>1. i \in 0 .. k /\ i - 1 \in 0 .. k /\ i # 0
        BY <3>2
      <4>2. g[i] = Level(g[i - 1])
        BY <2>3, <4>1
      <4> QED
        BY <2>4, <4>1, <4>2
    <3>3. CASE i = k + 1
      <4>1. i - 1 = k /\ k \in 0 .. k /\ i # 0
        BY <3>3
      <4> QED
        BY <2>2, <2>4, <3>3, <4>1
    <3> QED
      BY <3>1, <3>2, <3>3
  <2>6. IsGrammar(h, k + 1)
    BY <2>2, <2>5 DEF IsGrammar
  <2> QED
    BY <1>1, <2>6
<1>4. n \in P
  BY <1>2, <1>3, Upto
<1> QED
  BY <1>1, <1>4

\* Encodings, one level at a time.
LEMMA EncodingsAre ==
  /\ Encodings[0] = {}
  /\ \A left \in 1 .. MaxDepth + 1 : Encodings[left] = Level(Encodings[left - 1])
<1>1. PICK g : g = CHOOSE en : IsGrammar(en, MaxDepth + 1)
  OBVIOUS
<1>2. MaxDepth + 1 \in Nat
  BY LimitsAssumption
<1>3. IsGrammar(g, MaxDepth + 1)
  BY <1>1, <1>2, GrammarExists
<1>4. Encodings = g
  BY <1>1 DEF Encodings, IsGrammar
<1>5. \A k \in 0 .. MaxDepth + 1 : g[k] = IF k = 0 THEN {} ELSE Level(g[k - 1])
  BY <1>3 DEF IsGrammar
<1> QED
  BY <1>2, <1>4, <1>5

\* Level by level, the scanner finds what the grammar has.
LEMMA RowsExact ==
  ASSUME NEW s, IsIn(s)
  PROVE  Exact(s, scan_item(s)[MaxDepth + 1], Encodings[MaxDepth + 1])
<1>1. PICK n \in Nat : n = MaxDepth + 1
  BY LimitsAssumption
<1>2. PICK L \in Nat : L = Len(s)
  BY InIs
<1>3. PICK P : P = {k \in 0 .. n : Exact(s, scan_item(s)[k], Encodings[k]) /\ AreSeqs(Encodings[k])}
  OBVIOUS
<1>4. 0 \in P
  <2>1. Encodings[0] = {}
    BY EncodingsAre
  <2>2. ASSUME NEW o \in 1 .. L + 1 PROVE RowAt(s, scan_item(s)[0][o], o, {})
    <3>1. scan_item(s)[0][o] = Err("NestingTooDeep")
      BY <1>2, ScanLevels
    <3>2. Failed(scan_item(s)[0][o])
      BY <3>1 DEF Err, Failed
    <3> QED
      BY <3>2 DEF RowAt
  <2>3. Exact(s, scan_item(s)[0], Encodings[0]) /\ AreSeqs(Encodings[0])
    BY <1>2, <2>1, <2>2 DEF Exact, AreSeqs
  <2> QED
    BY <1>3, <2>3
<1>5. ASSUME NEW k \in 0 .. n - 1, k \in P PROVE k + 1 \in P
  <2>1. k + 1 \in 1 .. MaxDepth + 1 /\ (k + 1) - 1 = k /\ k + 1 \in 0 .. n
    BY <1>1
  <2>2. PICK below, E, row : /\ below = scan_item(s)[k] /\ E = Encodings[k]
                             /\ row = scan_item(s)[k + 1]
    OBVIOUS
  <2>3. Exact(s, below, E) /\ AreSeqs(E)
    BY <1>3, <1>5, <2>2
  <2>4. Encodings[k + 1] = Level(E)
    BY <2>1, <2>2, EncodingsAre
  <2>5. AreSeqs(Level(E))
    BY <2>3, LevelSeqs
  <2>6. ASSUME NEW o \in 1 .. L + 1 PROVE RowAt(s, row[o], o, Level(E))
    <3>1. row[o] = ScanHead(take_byte(s, o), s, o, below)
      BY <1>2, <2>1, <2>2, ScanLevels
    <3> QED
      BY <1>2, <2>3, <3>1, HeadExact
  <2>7. Exact(s, row, Level(E))
    BY <1>2, <2>6 DEF Exact
  <2> QED
    BY <1>3, <2>1, <2>2, <2>4, <2>5, <2>7
<1>6. \A k \in 0 .. n : k \in P
  <2>1. \A k \in 0 .. n - 1 : k \in P => k + 1 \in P
    BY <1>5
  <2> QED
    BY ONLY <1>4, <2>1, n \in Nat, Upto
<1>7. n \in P
  BY <1>6
<1> QED
  BY <1>1, <1>3, <1>7

\* scan_cbor takes exactly the well-formed inputs.
LEMMA ScanExact ==
  ASSUME NEW s, IsIn(s)
  PROVE  ~Failed(scan_cbor(s)) <=> s \in Wellformed
<1>1. PICK L \in Nat : L = Len(s)
  BY InIs
<1>2. PICK x : x = First(s)
  OBVIOUS
<1>3. RowAt(s, x, 1, Wellformed)
  <2>1. 1 \in 1 .. L + 1
    BY <1>1
  <2> QED
    BY <1>1, <1>2, <2>1, RowsExact DEF Exact, First, Wellformed
<1>4. Cut(s, 1, L + 1) = s
  <2>1. \A i \in 1 .. (L + 1) - 1 : s[i] = s[1 + i - 1]
    OBVIOUS
  <2>2. IsCut(s, s, 1, L + 1)
    BY <1>1, <2>1, InIs DEF IsCut
  <2>3. 1 \in Nat /\ L + 1 \in Nat /\ 1 <= L + 1
    BY <1>1
  <2> QED
    BY <2>2, <2>3, CutOf
<1>5. L + 1 \in 1 .. L + 1
  BY <1>1
<1>6. s \in Wellformed <=> ~Failed(x) /\ x.at = L + 1
  BY <1>1, <1>3, <1>4, <1>5 DEF RowAt
<1>7. Failed(scan_cbor(s)) <=> Failed(x) \/ x.at # L + 1
  <2>1. scan_cbor(s) = Whole(x, s)
    BY <1>2 DEF scan_cbor
  <2> QED
    BY <1>1, <2>1 DEF Whole, Err, Failed
<1> QED
  BY <1>6, <1>7

\* The preflight of every decoded message lets through exactly the encodings of one
\* well-formed item, with distinct text keys and no deeper than the limit, for every
\* set of tokens, every bound and every nesting limit.
THEOREM PreflightIsExact == Spec => []ScanIsExact
<1>1. IsInput => ScanIsExact
  BY ScanExact DEF IsInput, IsIn, ScanIsExact
<1> QED
  BY <1>1, InputInv, PTL
=============================================================================
