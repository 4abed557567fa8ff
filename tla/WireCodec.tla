----------------------------- MODULE WireCodec -----------------------------
(***************************************************************************)
(* The application codec (conveyance-protocol/src/message.rs) and the      *)
(* canonical JSON its signatures and bindings are computed over            *)
(* (conveyance-crypto/src/canonical_json.rs, signing.rs).                  *)
(*                                                                         *)
(* Bytes are a sequence of tokens, one per CBOR data-item head: a head     *)
(* with its argument and, for a string, its payload is one token, so the   *)
(* length of a byte string is counted in tokens.  Texts are sequences of   *)
(* atoms; a chunked string is the concatenation of its chunks.             *)
(***************************************************************************)
EXTENDS Integers, Sequences, FiniteSets, SequencesExt

CONSTANTS
  MaxDepth,   \* MAX_CBOR_NESTING_DEPTH
  MaxBytes    \* MAX_WIRE_MESSAGE_BYTES, in tokens

ASSUME LimitsAssumption == MaxDepth \in Nat /\ MaxBytes \in Nat

Indef == -1                       \* the argument 31: indefinite length
Token(t, a, v) == [t |-> t, a |-> a, v |-> v]

\* The head at an offset; past the end it is a cut one.
take_byte(s, o) == IF o <= Len(s) THEN s[o] ELSE Token("cut", 0, <<>>)

\* A value is the words of its encoding with definite lengths: chunks joined,
\* the members of a map in one fixed order whatever order they came in.
Word(k, v) == <<Token(k, 0, v)>>
Text(a) == Word("text", <<a>>)
ArrayOf(e) == <<Token("array", Len(e), <<>>)>> \o FlattenSeq(e)
MembersOf(ms) ==
  <<Token("map", Len(ms), <<>>)>>
  \o FlattenSeq([n \in DOMAIN ms |-> Word("text", ms[n][1]) \o ms[n][2]])
MapOf(m) == MembersOf(SetToSeq(m))

\* What a read gives: a value, or of a map its members, <<key, value>>.
Item(w) == [map |-> FALSE, w |-> w, m |-> {}]
Map(m) == [map |-> TRUE, w |-> <<>>, m |-> m]
Words(i) == IF i.map THEN MapOf(i.m) ELSE i.w

Ok(o, i) == [err |-> "none", at |-> o, item |-> i]
Err(x) == [err |-> x, at |-> 0, item |-> Item(<<>>)]
Failed(r) == r.err # "none"

-----------------------------------------------------------------------------
(* The structural preflight.                                                *)

\* The chunks of a string of indefinite length, up to its break.
IsChunk(s, o, t) == take_byte(s, o).t = t /\ s[o].a # Indef
ChunksEnd(s, o, t) == CHOOSE e \in o .. Len(s) + 1 : /\ ~IsChunk(s, e, t)
                                                     /\ \A i \in o .. e - 1 : IsChunk(s, i, t)
Joined(s, o, e) == FlattenSeq([i \in 1 .. e - o |-> s[o + i - 1].v])
ScanChunks(s, o, t) ==
  LET e == ChunksEnd(s, o, t) IN
  IF take_byte(s, e).t = "break" THEN Ok(e + 1, Item(Word(t, Joined(s, o, e)))) ELSE Err("Cbor")

scan_string(s, o) ==
  IF s[o].a = Indef THEN ScanChunks(s, o + 1, s[o].t) ELSE Ok(o + 1, Item(Word(s[o].t, s[o].v)))

scan_text_key(s, o) ==
  LET c == take_byte(s, o) IN
  CASE c.t = "cut" -> Err("Cbor")
    [] c.t = "text" -> scan_string(s, o)
    [] OTHER -> Err("InvalidMap")

\* Seeded fault: the keys of a map are not compared.
AnyKey(m, key) == TRUE

\* A key the map has not had yet.
FreshKey(m, key) == \A x \in m : x[1] # key

\* The loop over a container: what it has so far and how many are to come, or
\* that it goes on to a break.  A loop that is over or has failed stays so.
Loop(err, o, n, acc) == [err |-> err, at |-> o, n |-> n, acc |-> acc]
Stopped(err) == Loop(err, 0, 0, <<>>)
Count(n) == IF n = Indef THEN Indef ELSE n - 1
AtBreak(s, r) == r.n = Indef /\ take_byte(s, r.at).t = "break"

\* One turn over an array, and over a map.  below is what scan_item finds at
\* each offset one level further down.
Element(r, x) ==
  IF Failed(x) THEN Stopped(x.err)
  ELSE Loop("none", x.at, Count(r.n), Append(r.acc, Words(x.item)))
Pair(r, key, x) ==
  IF Failed(x) THEN Stopped(x.err)
  ELSE Loop("none", x.at, Count(r.n), r.acc \cup {<<key, Words(x.item)>>})
Value(s, r, key, below) ==
  IF Failed(key) THEN Stopped(key.err)
  ELSE IF ~FreshKey(r.acc, key.item.w[1].v) THEN Stopped("InvalidMap")
  ELSE IF AtBreak(s, [r EXCEPT !.at = key.at]) THEN Stopped("Cbor")
  ELSE Pair(r, key.item.w[1].v, below[key.at])
Turn(s, kind, r, below) ==
  IF Failed(r) \/ r.n = 0 THEN r
  ELSE IF AtBreak(s, r) THEN [r EXCEPT !.at = @ + 1, !.n = 0]
  ELSE IF kind = "array" THEN Element(r, below[r.at])
  ELSE Value(s, r, scan_text_key(s, r.at), below)

\* Every turn takes a token, so that many turns as there are tokens end it.
Turns(s, kind, r0, below) ==
  LET turn[k \in 0 .. Len(s)] == IF k = 0 THEN r0 ELSE Turn(s, kind, turn[k - 1], below)
  IN  turn[Len(s)]

Closed(r, item) == IF Failed(r) THEN Err(r.err) ELSE Ok(r.at, item)
ArrayItem(r) == Closed(r, Item(ArrayOf(r.acc)))
MapItem(r) == Closed(r, Map(r.acc))
scan_array(s, o, n, below) == ArrayItem(Turns(s, "array", Loop("none", o, n, <<>>), below))
scan_map(s, o, n, below) == MapItem(Turns(s, "map", Loop("none", o, n, {}), below))

ScanHead(c, s, o, below) ==
  CASE c.t \in {"int", "simple", "float"} -> Ok(o + 1, Item(Word(c.t, c.v)))
    [] c.t \in {"text", "bytes"} -> scan_string(s, o)
    [] c.t = "array" -> scan_array(s, o + 1, c.a, below)
    [] c.t = "map" -> scan_map(s, o + 1, c.a, below)
    [] OTHER -> Err("Cbor")          \* a tag, a stray break, the end

\* What is found at each offset, with so many levels of nesting left.
scan_item(s) ==
  LET item[left \in 0 .. MaxDepth + 1] ==
        [o \in 1 .. Len(s) + 1 |-> IF left = 0 THEN Err("NestingTooDeep")
                                   ELSE ScanHead(take_byte(s, o), s, o, item[left - 1])]
  IN  item
First(s) == scan_item(s)[MaxDepth + 1][1]

\* The whole input is one item.  The item is what ciborium then reads.
Whole(r, s) == IF ~Failed(r) /\ r.at # Len(s) + 1 THEN Err("TrailingData") ELSE r
scan_cbor(s) == Whole(First(s), s)

-----------------------------------------------------------------------------
(* Messages.  A decoded message is its kind and its present fields, each a  *)
(* value.  Both forms of a request id and of a signature (raw bytes on the  *)
(* wire, hex in JSON) become the same text.                                 *)

RequestFields == <<"req_id", "op_type", "service", "method", "endpoint", "params",
                   "requested_by", "timestamp">>

FieldsOf ==
  [approval_request |-> RequestFields,
   approval_response |-> <<"req_id", "decision", "reason", "signature">>,
   execute_request |-> RequestFields,
   execute_response |-> <<"req_id", "status", "http_status", "body", "executed_at", "signature">>,
   list_services_request |-> <<"req_id">>,
   list_services_response |-> <<"req_id", "services">>,
   ping |-> <<"req_id", "timestamp">>,
   pong |-> <<"req_id", "timestamp">>,
   session_end |-> <<"req_id", "reason">>,
   pairing_confirm |-> <<"phone_id_pub", "phone_dh_pub", "signature">>,
   pairing_ack |-> <<"nonce", "pc_id_pub", "phone_id_pub", "phone_dh_pub", "signature">>]

HexFields == {"req_id", "signature"}                               \* bytes or hex
KeyFields == {"nonce", "pc_id_pub", "phone_id_pub", "phone_dh_pub"}   \* [u8; 32]

\* Fields that are Option in Rust: absent or null is None, and None is never
\* written.
IsOptional(kind, f) ==
  f \in {"requested_by", "http_status"} \/ (kind = "approval_response" /\ f = "reason")

\* The closed sets: an unknown value fails the decode.
EnumOf == [op_type |-> {"authenticated_request", "list_services", "session_end"},
           decision |-> {"approved", "denied", "expired"},
           status |-> {"ok", "error", "denied"}]

\* No raw bytes, and no float, anywhere in the value.
IsJson(w) == \A n \in DOMAIN w : w[n].t # "bytes"
ensure_canonical_domain(w) == \A n \in DOMAIN w : w[n].t # "float"

\* Request ids and signatures are strings of bytes or hex; the opaque values
\* are JSON of any shape.
AllWords(w, t) == \A n \in 2 .. Len(w) : w[n].t = t
FieldFits(f, w) ==
  CASE f \in HexFields -> w[1].t \in {"bytes", "text"} /\ (f = "req_id" => Len(w[1].v) = 1)
    [] f \in {"params", "body"} -> IsJson(w)
    [] f \in {"timestamp", "executed_at", "http_status"} -> w[1].t = "int"
    [] f \in KeyFields -> w[1].t = "array" /\ AllWords(w, "int")
    [] f = "services" -> w[1].t = "array" /\ AllWords(w, "text")
    [] OTHER -> w[1].t = "text"
JsonOf(f, w) == IF f \in HexFields THEN Word("text", w[1].v) ELSE w

EnumKnown(f, w) == f \in DOMAIN EnumOf => w[1].v \in {<<x>> : x \in EnumOf[f]}

IsNone(kind, f, w) == IsOptional(kind, f) /\ w = Word("simple", <<"null">>)

\* serde over the members: the tag, then exactly the fields of its struct.
Keys(m) == {x[1] : x \in m}
At(m, f) == (CHOOSE x \in m : x[1] = <<f>>)[2]
Given(m, kind) == {f \in Range(FieldsOf[kind]) : <<f>> \in Keys(m) /\ ~IsNone(kind, f, At(m, f))}

Fields(m, kind, given) ==
  IF \/ \E k \in Keys(m) : k \notin {<<"type">>} \cup {<<f>> : f \in Range(FieldsOf[kind])}
     \/ \E f \in Range(FieldsOf[kind]) \ given : ~IsOptional(kind, f)
     \/ \E f \in given : ~FieldFits(f, At(m, f)) THEN [err |-> "Cbor"]
  ELSE IF \E f \in given : ~EnumKnown(f, At(m, f)) THEN [err |-> "UnknownEnumValue"]
  ELSE [err |-> "none", msg |-> [type |-> kind, f |-> [f \in given |-> JsonOf(f, At(m, f))]]]

Variant(m, tag) ==
  IF tag[1].t # "text" THEN [err |-> "Cbor"]
  ELSE IF tag[1].v \notin {<<k>> : k \in DOMAIN FieldsOf} THEN [err |-> "UnknownEnumValue"]
  ELSE Fields(m, tag[1].v[1], Given(m, tag[1].v[1]))

FromItem(i) ==
  IF ~i.map \/ <<"type">> \notin Keys(i.m) THEN [err |-> "Cbor"] ELSE Variant(i.m, At(i.m, "type"))

validate_semantics(m) ==
  /\ "params" \in DOMAIN m.f => ensure_canonical_domain(m.f["params"])
  /\ "body" \in DOMAIN m.f => ensure_canonical_domain(m.f["body"])

Checked(d) ==
  IF Failed(d) \/ validate_semantics(d.msg) THEN d ELSE [err |-> "UnsupportedValueType"]
Read(r) == IF Failed(r) THEN [err |-> r.err] ELSE FromItem(r.item)

decode(s) ==
  IF Len(s) > MaxBytes THEN [err |-> "MessageTooLarge"] ELSE Checked(Read(scan_cbor(s)))

WriteField(m, f) == IF f \in HexFields THEN Word("bytes", m.f[f][1].v) ELSE m.f[f]
WriteStruct(m, fs) ==
  MembersOf(<<<<<<"type">>, Text(m.type)>>>>
            \o [n \in DOMAIN fs |-> <<<<fs[n]>>, WriteField(m, fs[n])>>])

\* The fields that are present, in the order of the struct.
Present(q, d) ==
  LET sel[n \in 0 .. Len(q)] == IF n = 0 THEN <<>>
                                ELSE IF q[n] \in d THEN Append(sel[n - 1], q[n]) ELSE sel[n - 1]
  IN  sel[Len(q)]
Bytes(m) == WriteStruct(m, Present(FieldsOf[m.type], DOMAIN m.f))

Sent(err, b) == [err |-> err, bytes |-> b]
Sized(b) == IF Len(b) > MaxBytes THEN Sent("MessageTooLarge", <<>>) ELSE Sent("none", b)
encode(m) ==
  IF ~validate_semantics(m) THEN Sent("UnsupportedValueType", <<>>) ELSE Sized(Bytes(m))

-----------------------------------------------------------------------------
(* Canonical JSON and what is signed over it.                               *)

\* The canonical form of a struct: its present fields, members in one order
\* whatever order the wire had, no tag.  Defined where no float occurs.
to_canonical_string(m) == m.f
canonical_binding_json(m) == to_canonical_string(m)

APPROVE_CONTEXT == "conveyance-approve-v1"
EXECUTE_CONTEXT == "conveyance-execute-v1"
ContextOf == [approval_response |-> APPROVE_CONTEXT, execute_response |-> EXECUTE_CONTEXT]

\* Seeded fault: optional fields are left out of what is signed.
PayloadOfRequired(m) ==
  <<ContextOf[m.type], [f \in {g \in DOMAIN m.f \ {"signature"} : ~IsOptional(m.type, g)} |->
                          to_canonical_string(m)[f]]>>

\* context || canonical JSON of the message without its signature.
signing_payload(m) ==
  <<ContextOf[m.type], [f \in DOMAIN m.f \ {"signature"} |-> to_canonical_string(m)[f]]>>

\* Ed25519: a signature is the key and exactly what was signed.
Sign(key, payload) == Word("text", <<key, payload>>)
Unsigned == Text("zero")

Signed(key, m) == [m EXCEPT !.f["signature"] = Sign(key, signing_payload(m))]

verify_signature(key, m) == m.f["signature"] = Sign(key, signing_payload(m))
=============================================================================
