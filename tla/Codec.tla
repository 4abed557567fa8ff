------------------------------- MODULE Codec -------------------------------
(***************************************************************************)
(* Two hand-written algorithms of conveyance-protocol against what they    *)
(* are meant to compute: the preflight of every decoded message            *)
(* (message.rs, scan_cbor) and the matcher of the phone's policy rules     *)
(* (policy.rs, glob_matches).  An input is built up one token, or one      *)
(* character, at a time, so that every input up to the bounds occurs.      *)
(***************************************************************************)
EXTENDS WireCodec, TierPolicy

CONSTANTS
  Tokens,      \* the CBOR heads an input is made of
  MaxTokens,   \* bound: its length
  Characters,  \* the characters of a value, any text the PC sends; a pattern also has "*"
  MaxChars     \* bound: the length of a pattern and of a value

ASSUME CodecAssumption ==
  /\ MaxTokens \in Nat /\ MaxChars \in Nat
  /\ \A c \in Tokens : c.a \in Nat \cup {Indef}

VARIABLES
  input,     \* bytes under the preflight
  pattern,   \* a policy rule's pattern
  value      \* the text it is matched against

vars == <<input, pattern, value>>

-----------------------------------------------------------------------------
(* The byte strings of up to MaxTokens tokens that encode one item, no      *)
(* deeper than the limit, with no tag, and every map's keys texts and       *)
(* distinct.                                                                *)

Of(kinds) == {c \in Tokens : c.t \in kinds}
Fit(S) == {w \in S : Len(w) <= MaxTokens}

\* A head, what follows it, and a break if the head announced no length.
Framed(c, w) == IF c.a = Indef THEN {<<c>> \o w \o <<b>> : b \in Of({"break"})} ELSE {<<c>> \o w}

\* A string: one chunk, or chunks in a row, and the text it stands for.
Chunks(t) == {c \in Of({t}) : c.a # Indef}
Chunked(t) == UNION {[1 .. k -> Chunks(t)] : k \in 0 .. MaxTokens}
Strings(t) ==
  Fit(UNION {IF c.a = Indef THEN UNION {Framed(c, w) : w \in Chunked(t)} ELSE {<<c>>} : c \in Of({t})})
TextOf(w) == IF w[1].a = Indef THEN FlattenSeq([i \in 1 .. Len(w) - 2 |-> w[i + 1].v]) ELSE w[1].v

\* What a container is made of: items of E, or pairs of a key and an item.
Elements(E) == {[keys |-> {}, w |-> x] : x \in E}
Members(E) == {[keys |-> {TextOf(y[1])}, w |-> y[1] \o y[2]] : y \in Strings("text") \X E}

\* So many of them in a row, no key twice.
NoBody == [n |-> 0, keys |-> {}, w |-> <<>>]
Join(b, x) == [n |-> b.n + 1, keys |-> b.keys \cup x.keys, w |-> b.w \o x.w]
Joins(b, x) == b.keys \cap x.keys = {} /\ Len(b.w) + Len(x.w) < MaxTokens
Longer(B, things) == B \cup UNION {{Join(b, x) : x \in {y \in things : Joins(b, y)}} : b \in B}
Bodies(things) ==
  LET bodies[k \in 0 .. MaxTokens] == IF k = 0 THEN {NoBody} ELSE Longer(bodies[k - 1], things)
  IN  bodies[MaxTokens]

Containers(heads, bodies) ==
  UNION {UNION {Framed(c, b.w) : b \in {x \in bodies : c.a \in {x.n, Indef}}} : c \in heads}

\* The encodings of an item at a level, given those of the level below, and
\* with so many levels of nesting left.
Level(E) ==
  Fit({<<c>> : c \in Of({"int", "simple", "float"})} \cup Strings("text") \cup Strings("bytes")
      \cup Containers(Of({"array"}), Bodies(Elements(E)))
      \cup Containers(Of({"map"}), Bodies(Members(E))))
Encodings ==
  LET encodings[left \in 0 .. MaxDepth + 1] ==
        IF left = 0 THEN {} ELSE Level(encodings[left - 1])
  IN  encodings

Wellformed == Encodings[MaxDepth + 1]

\* What the comment on glob_matches says: "*" stands for any sequence, the
\* empty one included, every other character for itself.  Whether the last n
\* characters of a pattern stand for the last m of a value.
Stands(pat, val) ==
  LET stands[n \in 0 .. Len(pat)] ==
        [m \in 0 .. Len(val) |->
           IF n = 0 THEN m = 0
           ELSE IF pat[Len(pat) - n + 1] = "*" THEN \E k \in 0 .. m : stands[n - 1][k]
           ELSE m > 0 /\ val[Len(val) - m + 1] = pat[Len(pat) - n + 1] /\ stands[n - 1][m - 1]]
  IN  stands[Len(pat)][Len(val)]

-----------------------------------------------------------------------------

Init == input = <<>> /\ pattern = <<>> /\ value = <<>>

Feed(c) ==
  /\ Len(input) < MaxTokens /\ pattern = <<>> /\ value = <<>>
  /\ input' = Append(input, c)
  /\ UNCHANGED <<pattern, value>>

Spell(c) ==
  /\ input = <<>>
  /\ \/ /\ Len(pattern) < MaxChars /\ value = <<>>
        /\ pattern' = Append(pattern, c) /\ UNCHANGED value
     \/ /\ Len(value) < MaxChars /\ c \in Characters
        /\ value' = Append(value, c) /\ UNCHANGED pattern
  /\ UNCHANGED input

Next == (\E c \in Tokens : Feed(c)) \/ (\E c \in Characters \cup {"*"} : Spell(c))

Spec == Init /\ [][Next]_vars

-----------------------------------------------------------------------------
(* Properties.                                                              *)

\* The preflight lets through exactly the encodings of one well-formed item: a
\* duplicate key, a missing value, a surplus byte or a level too many is
\* refused wherever it hides (in a chunked key, in an indefinite map, below an
\* array), and nothing else is.  decode relies on it before it lets serde
\* recurse and before two readers of the same bytes could disagree.
ScanIsExact == ~Failed(scan_cbor(input)) <=> input \in Wellformed

\* The linear matcher with one point to return to (policy.rs, glob_matches)
\* accepts nothing that the meaning of the pattern does not, whatever the
\* value, and misses nothing when the value has no "*" of its own.
GlobIsSound ==
  /\ glob_matches(pattern, value) => Stands(pattern, value)
  /\ "*" \notin Range(value) => (Stands(pattern, value) => glob_matches(pattern, value))

\* What the comment at policy.rs:137 promises of every value: "*" matches any
\* sequence.  The code tries the literal first, so a "*" of the value uses up
\* the pattern's and is not remembered as a point to return to.
GlobIsAnySequence == glob_matches(pattern, value) <=> Stands(pattern, value)
=============================================================================
