------------------------------ MODULE CanaryCodec ------------------------------
(***************************************************************************)
(* The wire format of the canary module's messages: the hand-written        *)
(* Marshal, Size and Unmarshal methods of x/simcanary/types/msgs.go.        *)
(*                                                                         *)
(* The methods of the eight message types differ only in their fields.  A   *)
(* type is therefore the sequence of the kinds of its fields, which are     *)
(* numbered from 1 (Schema), a message is the sequence of the values, and   *)
(* the methods are written once.  Marshal fills a buffer of Size() bytes    *)
(* from its end, one field per step; Unmarshal reads one field per step.    *)
(* Between the two, the bytes may be cut short or carry fields of a later   *)
(* version of the message.                                                  *)
(*                                                                         *)
(* A string is a sequence of bytes.  The longest varint of a uint64 or      *)
(* int64 has MaxVarintLen bytes of seven bits, the last of which holds one: *)
(* they are integers of 7 * (MaxVarintLen - 1) + 1 bits, like 64.           *)
(***************************************************************************)
EXTENDS Integers, Sequences, FiniteSets, FiniteSetsExt, SequencesExt

CONSTANTS
  MaxVarintLen,  \* binary.MaxVarintLen64
  Strings,       \* values of string fields
  Ints,          \* values of int64 fields
  Unknown        \* encoded fields with numbers that no message has

\* 128^k
Pow128[k \in 0 .. MaxVarintLen] == IF k = 0 THEN 1 ELSE 128 * Pow128[k - 1]

MaxInt64 == Pow128[MaxVarintLen - 1] - 1
MaxUint64 == 2 * MaxInt64 + 1

\* The field of b at p ends at a position of P: a tag of one byte with a number above 3, then a
\* varint, 8 bytes, a short string, or 4 bytes.
FieldAt(b, p, P) ==
  /\ b[p + 1] \in 32 .. 127
  /\ \/ b[p + 1] % 8 = 0 /\ \E q \in P : p + 1 < q /\ b[q] < 128 /\ \A k \in p + 2 .. q - 1 : b[k] >= 128
     \/ b[p + 1] % 8 = 1 /\ p + 9 \in P
     \/ b[p + 1] % 8 = 2 /\ p + 2 <= Len(b) /\ b[p + 2] < 128 /\ p + 2 + b[p + 2] \in P
     \/ b[p + 1] % 8 = 5 /\ p + 5 \in P

\* Fields of b start at every position of P but the last, which is the end of b.
FieldBounds(b, P) ==
  /\ 0 \in P /\ Len(b) \in P /\ P \subseteq 0 .. Len(b)
  /\ \A p \in P \ {Len(b)} : FieldAt(b, p, P)

ASSUME CodecAssumption ==
  /\ MaxVarintLen \in Nat \ {0, 1}
  /\ Strings \subseteq Seq(0 .. 255) /\ <<>> \in Strings /\ \A x \in Strings : Len(x) <= MaxInt64
  /\ Ints \subseteq -MaxInt64 - 1 .. MaxInt64 /\ 0 \in Ints
  /\ Unknown \subseteq Seq(0 .. 255) /\ \A b \in Unknown : \E P \in SUBSET (0 .. Len(b)) : FieldBounds(b, P)

-------------------------------------------------------------------------------
(* The messages.                                                             *)

MsgCanaryMapSet                   == <<"string", "string", "int64">>
MsgCanaryMapSetResponse           == <<>>
MsgCanaryMapReadAndWrite          == <<"string", "string">>
MsgCanaryMapReadAndWriteResponse  == <<"int64">>
MsgCanaryBlockContextSet          == <<"string", "string", "string">>
MsgCanaryBlockContextSetResponse  == <<>>
MsgCanaryBlockContextRead         == <<"string", "string">>
MsgCanaryBlockContextReadResponse == <<"string">>

\* proto.RegisterType
Schema ==
  [MapSet               |-> MsgCanaryMapSet,
   MapSetResponse       |-> MsgCanaryMapSetResponse,
   MapReadAndWrite      |-> MsgCanaryMapReadAndWrite,
   MapReadAndWriteResp  |-> MsgCanaryMapReadAndWriteResponse,
   BlockContextSet      |-> MsgCanaryBlockContextSet,
   BlockContextSetResp  |-> MsgCanaryBlockContextSetResponse,
   BlockContextRead     |-> MsgCanaryBlockContextRead,
   BlockContextReadResp |-> MsgCanaryBlockContextReadResponse]

Types == DOMAIN Schema

fieldString(name) == [name |-> name, type |-> "string"]
fieldInt64(name) == [name |-> name, type |-> "int64"]

\* The descriptor other decoders use for the same types; fields are numbered from 1.
buildFileDescriptor ==
  [MapSet               |-> <<fieldString("sender"), fieldString("key"), fieldInt64("value")>>,
   MapSetResponse       |-> <<>>,
   MapReadAndWrite      |-> <<fieldString("sender"), fieldString("key")>>,
   MapReadAndWriteResp  |-> <<fieldInt64("observed_value")>>,
   BlockContextSet      |-> <<fieldString("sender"), fieldString("field"), fieldString("value")>>,
   BlockContextSetResp  |-> <<>>,
   BlockContextRead     |-> <<fieldString("sender"), fieldString("field")>>,
   BlockContextReadResp |-> <<fieldString("value")>>]

ZeroOf(kind) == IF kind = "string" THEN <<>> ELSE 0
WireType(kind) == IF kind = "string" THEN 2 ELSE 0

\* No message has more than three fields.
ValuesOf(t, f) ==
  IF f \notin DOMAIN Schema[t] THEN {0} ELSE IF Schema[t][f] = "string" THEN Strings ELSE Ints

Messages(t) ==
  {[f \in DOMAIN Schema[t] |-> <<x, y, z>>[f]] : x \in ValuesOf(t, 1), y \in ValuesOf(t, 2), z \in ValuesOf(t, 3)}
Zero(t) == [f \in DOMAIN Schema[t] |-> ZeroOf(Schema[t][f])]

-------------------------------------------------------------------------------
(* Numbers.                                                                  *)

AsUint(v) == IF v < 0 THEN v + MaxUint64 + 1 ELSE v
AsInt(v) == IF v > MaxInt64 THEN v - (MaxUint64 + 1) ELSE v

\* The sum of two ints.
Plus(a, b) == AsInt((a + b) % (MaxUint64 + 1))

Group(v, k) == (v \div Pow128[k]) % 128     \* the k-th seven bits of v

\* Mutant: eight bits to a byte.
sovLen_Bytes(x) == Min({n \in 1 .. MaxVarintLen : x \div 256^n = 0})

\* Bytes of the varint of x.
sovLen(x) == Min({n \in 1 .. MaxVarintLen : x \div Pow128[n] = 0})

\* What encodeVarint writes below the offset: the bytes go in from the end, and the lowest
\* group goes in first.
encodeVarint(v) ==
  LET n == 1 + Cardinality({k \in 1 .. MaxVarintLen - 1 : v >= Pow128[k]})
  IN  [k \in 1 .. n |-> Group(v, n - k) + (IF k > 1 THEN 128 ELSE 0)]

\* binary.Uvarint: the value and the bytes read; n is 0 for every n <= 0 (all callers treat
\* an incomplete and an overlong number alike).
Uvarint(b) ==
  LET ends == {k \in 1 .. Len(b) : b[k] < 128}
      n == Min(ends)
      low[k \in 0 .. n] == IF k = 0 THEN 0 ELSE low[k - 1] + (b[k] % 128) * Pow128[k - 1]
  IN  IF ends = {} \/ n > MaxVarintLen \/ (n = MaxVarintLen /\ b[n] > 1)
        THEN [v |-> 0, n |-> 0]
        ELSE [v |-> low[n], n |-> n]

-------------------------------------------------------------------------------
VARIABLES
  pc,      \* "idle", "marshal", "sent", "unmarshal", then "done", "error" or "panic"
  typ,     \* the message's type
  msg,     \* the message that is marshalled
  dAtA,    \* Marshal's buffer
  i,       \* bytes of the buffer not written yet
  todo,    \* number of the field to write next
  input,   \* Unmarshal's bytes
  whole,   \* ghost: nothing of what was sent is missing from input
  prior,   \* ghost: the receiving message before Unmarshal
  iNdEx,   \* bytes consumed
  turns,   \* ghost: turns of Unmarshal's loop
  out      \* the receiving message

enc == <<typ, msg, dAtA, i, todo>>
dec == <<input, whole, prior>>
loop == <<iNdEx, turns, out>>
vars == <<pc, enc, dec, loop>>

Init ==
  /\ pc = "idle" /\ typ = "MapSetResponse" /\ msg = <<>> /\ dAtA = <<>> /\ i = 0 /\ todo = 0
  /\ input = <<>> /\ whole = TRUE /\ prior = <<>> /\ iNdEx = 0 /\ turns = 0 /\ out = <<>>

-------------------------------------------------------------------------------
(* Marshal.                                                                  *)

\* Size(): zero fields take no space.
FieldSize(kind, x) ==
  IF x = ZeroOf(kind) THEN 0
  ELSE IF kind = "string" THEN 1 + sovLen(Len(x)) + Len(x)
  ELSE 1 + sovLen(AsUint(x))

SizeOf(t, m, f) == IF f \in DOMAIN m THEN FieldSize(Schema[t][f], m[f]) ELSE 0

Size(t, m) == SizeOf(t, m, 1) + SizeOf(t, m, 2) + SizeOf(t, m, 3)

Marshal(t, m) ==
  /\ pc = "idle" /\ Size(t, m) <= MaxInt64     \* the length of a slice is an int
  /\ typ' = t /\ msg' = m
  /\ dAtA' = [k \in 1 .. Size(t, m) |-> 0] /\ i' = Size(t, m)
  /\ todo' = Len(m)
  /\ pc' = "marshal"
  /\ UNCHANGED <<dec, loop>>

\* The bytes MarshalToSizedBuffer writes for a field: nothing for a zero field.
FieldBytes(f, kind, x) ==
  IF x = ZeroOf(kind) THEN <<>>
  ELSE IF kind = "string" THEN <<8 * f + 2>> \o encodeVarint(Len(x)) \o x
  ELSE <<8 * f>> \o encodeVarint(AsUint(x))

\* One field, below the ones written before; dAtA[-1] panics.
MarshalField ==
  LET b == FieldBytes(todo, Schema[typ][todo], msg[todo])
  IN  /\ pc = "marshal" /\ todo > 0
      /\ i' = i - Len(b)
      /\ dAtA' = [k \in DOMAIN dAtA |-> IF k \in i - Len(b) + 1 .. i THEN b[k - i + Len(b)] ELSE dAtA[k]]
      /\ todo' = todo - 1
      /\ pc' = IF i < Len(b) THEN "panic" ELSE pc
      /\ UNCHANGED <<typ, msg, dec, loop>>

\* Marshal returns the first len(dAtA) - i bytes.
MarshalReturns ==
  /\ pc = "marshal" /\ todo = 0
  /\ dAtA' = SubSeq(dAtA, 1, Len(dAtA) - i)
  /\ pc' = "sent"
  /\ UNCHANGED <<typ, msg, i, todo, dec, loop>>

-------------------------------------------------------------------------------
(* Unmarshal.                                                                *)

\* proto.Unmarshal(bytes, m): Reset is empty, so what m held stays in it.
Unmarshal(p, extra, cut) ==
  /\ pc = "sent" /\ Len(dAtA) + Len(extra) <= MaxInt64
  /\ input' = SubSeq(dAtA \o extra, 1, cut)
  /\ whole' = (cut >= Len(dAtA))
  /\ prior' = p /\ out' = p /\ iNdEx' = 0 /\ turns' = 0
  /\ pc' = "unmarshal"
  /\ UNCHANGED enc

From(b, k) == SubSeq(b, k + 1, Len(b))

decodeTag(b) ==
  LET u == Uvarint(b) IN [fieldNum |-> u.v \div 8, wireType |-> u.v % 8, n |-> u.n]

\* The response types without fields ignore their input.
InLoop == pc = "unmarshal" /\ Schema[typ] # <<>> /\ iNdEx < Len(input)

\* Mutant: a string that is too long is cut.
StringEnd_Cut(content, v) == Min({Plus(content, AsInt(v)), Len(input)})

\* iNdEx+int(sLen): a huge length is negative, and the sum of two large ints is negative again.
StringEnd(content, v) == Plus(content, AsInt(v))

\* What the loop sees at iNdEx: the tag, the number after it (a value or a length), and where
\* the tag, the number and a string of that length end.
Field ==
  LET tag == decodeTag(From(input, iNdEx))
      num == Uvarint(From(input, iNdEx + tag.n))
      kinds == Schema[typ]
  IN  [n |-> tag.n, fieldNum |-> tag.fieldNum, wireType |-> tag.wireType,
       kind |-> IF tag.fieldNum \in DOMAIN kinds THEN kinds[tag.fieldNum] ELSE "unknown",
       number |-> num, body |-> iNdEx + tag.n, content |-> iNdEx + tag.n + num.n,
       end |-> StringEnd(iNdEx + tag.n + num.n, num.v)]

\* Mutant: a string may not end the message.
TooLong_Last(fd) == fd.end >= Len(input)

\* iNdEx+int(sLen) > l
TooLong(fd) == fd.end > Len(input)

\* The tag, the wire type, the number or the length is refused.
Malformed(fd) ==
  /\ iNdEx >= 0
  /\ \/ fd.n = 0
     \/ /\ fd.kind # "unknown"
        /\ \/ fd.wireType # WireType(fd.kind)
           \/ fd.number.n = 0
           \/ fd.kind = "string" /\ TooLong(fd)

\* dAtA[iNdEx:] or dAtA[iNdEx:iNdEx+int(sLen)] panics.
NegativeBounds(fd) == iNdEx >= 0 => ~Malformed(fd) /\ fd.kind = "string" /\ fd.end < fd.content

\* A field of the message: the last one with a number counts.
DecodeField ==
  LET fd == Field
  IN  /\ InLoop /\ ~NegativeBounds(fd) /\ fd.kind # "unknown" /\ ~Malformed(fd)
      /\ IF fd.kind = "string"
           THEN /\ out' = [out EXCEPT ![fd.fieldNum] = SubSeq(input, fd.content + 1, fd.end)]
                /\ iNdEx' = fd.end
           ELSE /\ out' = [out EXCEPT ![fd.fieldNum] = AsInt(fd.number.v)]
                /\ iNdEx' = fd.content
      /\ turns' = turns + 1
      /\ UNCHANGED <<pc, enc, dec>>

\* Mutant: an unknown field is skipped from its tag on.
skipField_Tag(fd) == iNdEx

\* Where the next field starts; the error is dropped by the caller.
skipField(fd) ==
  LET ends == {k \in fd.body + 1 .. Len(input) : input[k] < 128}
  IN  CASE fd.wireType = 0 -> IF ends = {} THEN Len(input) ELSE Min(ends)
        [] fd.wireType = 1 -> Plus(fd.body, 8)
        [] fd.wireType = 2 -> IF fd.number.n > 0 THEN fd.end ELSE fd.body
        [] fd.wireType = 5 -> Plus(fd.body, 4)
        [] OTHER           -> fd.body

SkipUnknown ==
  LET fd == Field
  IN  /\ InLoop /\ ~NegativeBounds(fd) /\ fd.kind = "unknown" /\ ~Malformed(fd)
      /\ iNdEx' = skipField(fd)
      /\ turns' = turns + 1
      /\ UNCHANGED <<pc, enc, dec, out>>

UnmarshalFails ==
  LET fd == Field
  IN  /\ InLoop /\ (NegativeBounds(fd) \/ Malformed(fd))
      /\ pc' = IF NegativeBounds(fd) THEN "panic" ELSE "error"
      /\ UNCHANGED <<enc, dec, loop>>

UnmarshalReturns ==
  /\ pc = "unmarshal" /\ ~InLoop
  /\ pc' = "done"
  /\ UNCHANGED <<enc, dec, loop>>

Done == pc \in {"done", "error", "panic"} /\ UNCHANGED vars

\* A message that was decoded into before: every field has a value.
Used(t) == [f \in DOMAIN Schema[t] |-> IF Schema[t][f] = "string" THEN <<97>> ELSE 1]

Next ==
  \/ \E t \in Types : \E m \in Messages(t) : Marshal(t, m)
  \/ MarshalField \/ MarshalReturns
  \/ \E p \in {Zero(typ), Used(typ)}, extra \in Unknown \cup {<<>>} :
       \E cut \in 0 .. Len(dAtA) + Len(extra) : Unmarshal(p, extra, cut)
  \/ DecodeField \/ SkipUnknown \/ UnmarshalFails \/ UnmarshalReturns \/ Done

Spec == Init /\ [][Next]_vars

-------------------------------------------------------------------------------
\* Every number of the message fits one varint byte.
OneGroup == \A f \in DOMAIN msg :
  IF Schema[typ][f] = "string" THEN Len(msg[f]) < 128 ELSE msg[f] \in 0 .. 127

\* The protobuf encoding of msg by the published descriptor: what a generated encoder writes
\* and what the SDK's descriptor-driven decoder expects.
GogoVarint(v) ==
  [k \in 1 .. sovLen(v) |-> Group(v, k - 1) + (IF k < sovLen(v) THEN 128 ELSE 0)]

GogoField(f) ==
  LET d == buildFileDescriptor[typ][f]
      x == msg[f]
  IN  IF x = ZeroOf(d.type) THEN <<>>
      ELSE IF d.type = "string" THEN <<8 * f + 2>> \o GogoVarint(Len(x)) \o x
      ELSE <<8 * f>> \o GogoVarint(AsUint(x))

GogoBytes == FlattenSeq([f \in DOMAIN buildFileDescriptor[typ] |-> GogoField(f)])

\* Size, computed before the fields are written, is exactly what they take (a byte less and
\* Marshal indexes below the buffer, a byte more and it returns the wrong end of it), and the
\* bytes are those the descriptor calls for, as long as every number fits one byte.
BufferExact ==
  /\ i >= 0
  /\ pc = "sent" => i = 0 /\ (OneGroup => dAtA = GogoBytes)

\* A message survives Marshal and Unmarshal, followed by fields of a later version or not,
\* complete or cut inside such a field; a receiver that was used before keeps its value of a
\* field that is zero in the message, because Reset does nothing.
RoundTrip ==
  OneGroup /\ whole =>
    /\ pc \notin {"error", "panic"}
    /\ pc = "done" => \A f \in DOMAIN msg :
         out[f] = IF msg[f] = ZeroOf(Schema[typ][f]) THEN prior[f] ELSE msg[f]

\* Whatever is missing at the end of the bytes, no field of the receiver takes a value that
\* was not sent: a string is never cut short.
NothingInvented ==
  OneGroup /\ pc \in {"unmarshal", "done", "error"} =>
    \A f \in DOMAIN out : out[f] \in {prior[f], msg[f]}

\* Unmarshal returns on a message whose numbers fit one varint byte, cut or followed by fields of a
\* later version: its loop takes at most one turn per byte, an unknown field whose skipping failed
\* included.  A longer number gives no such promise: of 130, written 18 01 82, the last byte and the
\* tag of the field after it are read as the tag of field 512 with wire type 2, and a length that
\* is negative as an int moves iNdEx back, below 0 or to bytes that were read before.
UnmarshalEnds == OneGroup => turns <= Len(input)

\* "Protobuf wire-format helpers (matching gogo codegen output)"
MatchesGogoOutput == pc = "sent" => dAtA = GogoBytes
================================================================================
