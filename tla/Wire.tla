-------------------------------- MODULE Wire --------------------------------
(***************************************************************************)
(* The primitives of src/runtime/src/wire.rs: varints, tags, fixed-width   *)
(* values, zigzag and packed fields.  A buffer is a sequence of bytes; an  *)
(* answer is Ok(value, bytes consumed) or Fail(the DecodeError).           *)
(*                                                                         *)
(* The widths are constants so that TLC can exhaust them: the program has  *)
(* GroupBits = 7, Width = 64, NumberWidth = 32, Fixed32Len = 4 and         *)
(* Fixed64Len = 8.  An instance keeps the shape of these numbers: the last *)
(* byte of the longest varint carries one bit, and a tag has more room for *)
(* a field number than the number's own type.                              *)
(***************************************************************************)
EXTENDS Integers, Sequences, FiniteSets, FiniteSetsExt, SequencesExt, TLC

CONSTANTS
    GroupBits,      \* payload bits of a varint byte (7)
    Width,          \* bits of u64 and usize (64)
    NumberWidth,    \* bits of u32 and i32 (32)
    Fixed32Len,     \* bytes of a fixed32 (4)
    Fixed64Len      \* bytes of a fixed64 (8)

ASSUME WidthsAssumption ==
    /\ GroupBits \in Nat \ {0}
    /\ NumberWidth \in Nat \ 0 .. 2
    /\ Width \in Nat /\ NumberWidth < Width
    /\ Fixed32Len \in Nat \ {0} /\ Fixed64Len \in Nat \ {0}

(* Powers of two, by recursion: shifts, masks and widths are made of them. *)
Pow2[n \in Nat] == IF n = 0 THEN 1 ELSE 2 * Pow2[n - 1]

Cont == Pow2[GroupBits]                 \* the continuation bit, 0x80
Byte == 0 .. 2 * Cont - 1
VarintMax == (Width + GroupBits - 1) \div GroupBits     \* 10 bytes

Ok(value, used) == [ok |-> TRUE, val |-> value, used |-> used]
Fail(error) == [ok |-> FALSE, err |-> error]

From(buf, pos) == SubSeq(buf, pos + 1, Len(buf))        \* &buf[pos..]

(* The ? operator: a failure is the answer, a value goes on to Use.        *)
Then(answer, Use(_, _)) == IF answer.ok THEN Use(answer.val, answer.used) ELSE answer
Mapped(answer, F(_)) == Then(answer, LAMBDA val, used : Ok(F(val), used))

(* The sum of a sequence.                                                  *)
Total(s) ==
    LET Sum[i \in 0 .. Len(s)] == IF i = 0 THEN 0 ELSE Sum[i - 1] + s[i]
    IN  Sum[Len(s)]

(* Machine integers: (x as uN), (x as iN).                                 *)
Unsigned(x, w) == x % Pow2[w]
Signed(x, w) == ((x + Pow2[w - 1]) % Pow2[w]) - Pow2[w - 1]

----------------------------------------------------------------------------
(* Varints.                                                                *)

EncodeVarint[value \in Nat] ==
    IF value < Cont THEN <<value>>
    ELSE <<(value % Cont) + Cont>> \o EncodeVarint[value \div Cont]

(* Mutation: the size of a varint counts one bit too few.                  *)
VarintLenShort(value) ==
    LET bits == Cardinality({k \in 1 .. Width - 1 : Pow2[k] <= value})
    IN  IF value = 0 THEN 1 ELSE (bits + GroupBits - 1) \div GroupBits

VarintLen(value) ==
    LET bits == Cardinality({k \in 0 .. Width - 1 : Pow2[k] <= value})
    IN  IF value = 0 THEN 1 ELSE (bits + GroupBits - 1) \div GroupBits

(* ((byte & 0x7F) as u64) << shift: bits past the width are lost.          *)
Shifted(byte, shift) == ((byte % Cont) % Pow2[Width - shift]) * Pow2[shift]

(* Mutation: the end of the buffer ends a varint.                          *)
DecodeVarintEager(buf) ==
    LET n == Min({i \in DOMAIN buf : buf[i] < Cont} \cup {Len(buf)})
    IN  IF buf = <<>> THEN Fail("UnexpectedEof")
        ELSE IF n > VarintMax THEN Fail("VarintTooLong")
        ELSE Ok(Total([i \in 1 .. n |-> Shifted(buf[i], GroupBits * (i - 1))]), n)

(* The bytes are read until one has no continuation bit; the test          *)
(* shift >= 64 refuses a byte too many before it is looked at.             *)
DecodeVarint(buf) ==
    LET n == Min({i \in DOMAIN buf : buf[i] < Cont} \cup {Len(buf) + 1})
    IN  IF n > VarintMax /\ Len(buf) > VarintMax
        THEN Fail("VarintTooLong")
        ELSE IF n > Len(buf) THEN Fail("UnexpectedEof")
        ELSE Ok(Total([i \in 1 .. n |-> Shifted(buf[i], GroupBits * (i - 1))]), n)

----------------------------------------------------------------------------
(* Tags.                                                                   *)

WireTypeOf ==
    [c \in 0 .. 5 |-> <<"Varint", "Fixed64", "LengthDelimited",
                        "StartGroup", "EndGroup", "Fixed32">>[c + 1]]
WireTypes == {WireTypeOf[c] : c \in DOMAIN WireTypeOf}
WireCode == [w \in WireTypes |-> CHOOSE c \in DOMAIN WireTypeOf : WireTypeOf[c] = w]

Tag(number, wire) == [number |-> number, wire |-> wire]

(* Tag::encode_value computes in u32, encode_tag in u64.                   *)
TagEncodeValue(tag) ==
    Unsigned(tag.number * 8, NumberWidth) + WireCode[tag.wire]

EncodeTag(number, wire) == EncodeVarint[number * 8 + WireCode[wire]]

(* Mutation: zero is looked for in the uncut number.                       *)
DecodeTagWide(buf) == Then(DecodeVarint(buf), LAMBDA raw, used :
    IF raw \div 8 = 0 THEN Fail("InvalidFieldNumber")
    ELSE IF raw % 8 \notin DOMAIN WireTypeOf THEN Fail("UnknownWireType")
    ELSE Ok(Tag(Unsigned(raw \div 8, NumberWidth), WireTypeOf[raw % 8]), used))

DecodeTag(buf) == Then(DecodeVarint(buf), LAMBDA raw, used :
    LET number == Unsigned(raw \div 8, NumberWidth)
    IN  IF number = 0 THEN Fail("InvalidFieldNumber")
        ELSE IF raw % 8 \notin DOMAIN WireTypeOf THEN Fail("UnknownWireType")
        ELSE Ok(Tag(number, WireTypeOf[raw % 8]), used))

(* A tag at pos, and the position after it.                                *)
AfterTag(buf, pos, Use(_, _)) ==
    Then(DecodeTag(From(buf, pos)), LAMBDA tag, used : Use(tag, pos + used))

----------------------------------------------------------------------------
(* Fixed-width values: the value is its little-endian bytes.               *)

DecodeFixed(buf, len) ==
    IF Len(buf) < len THEN Fail("UnexpectedEof") ELSE Ok(SubSeq(buf, 1, len), len)
DecodeFixed32(buf) == DecodeFixed(buf, Fixed32Len)
DecodeFixed64(buf) == DecodeFixed(buf, Fixed64Len)

(* Zigzag, at either width: (v << 1) ^ (v >> 31), (v >> 1) ^ -(v & 1);     *)
(* x ^ -1 is -x - 1.                                                       *)
Not(x) == -x - 1

ZigzagEncode(v, w) ==
    LET doubled == Signed(2 * v, w)
    IN  Unsigned(IF v < 0 THEN Not(doubled) ELSE doubled, w)
ZigzagDecode(v, w) == IF v % 2 = 1 THEN Not(v \div 2) ELSE v \div 2

----------------------------------------------------------------------------
(* Mutation: the length counts its own prefix.                             *)
EncodePackedLong(number, encoded) ==
    IF encoded = <<>> THEN <<>>
    ELSE EncodeTag(number, "LengthDelimited")
         \o EncodeVarint[Len(FlattenSeq(encoded)) + 1] \o FlattenSeq(encoded)

(* Length-delimited values: header + len as usize wraps in a release       *)
(* build, and only the sum is compared with the buffer.                    *)
Delimited(buf) == Then(DecodeVarint(buf), LAMBDA len, header :
    LET end == Unsigned(header + len, Width)
    IN  IF end > Len(buf) THEN Fail("UnexpectedEof")
        ELSE Ok(header, end))           \* where the content starts and ends

(* &buf[header..end] panics when the sum has wrapped below the header.     *)
Content(buf) == Then(Delimited(buf), LAMBDA start, end :
    IF end < start THEN Fail("panic") ELSE Ok(SubSeq(buf, start + 1, end), end))

(* Packed fields: tag, length, elements.  Encoders write nothing for an    *)
(* empty list.                                                             *)
EncodePacked(number, encoded) ==
    IF encoded = <<>> THEN <<>>
    ELSE EncodeTag(number, "LengthDelimited")
         \o EncodeVarint[Len(FlattenSeq(encoded))] \o FlattenSeq(encoded)

PackedSize(number, lens) ==
    LET content == Total(lens)
    IN  IF lens = <<>> THEN 0
        ELSE VarintLen(number * 8 + 2) + VarintLen(content) + content

(* decode_packed_varints reads elements from the whole buffer while        *)
(* pos < end; the bytes it reports are those up to end, even if its last   *)
(* element is made of bytes beyond.                                        *)
VarintsFrom(buf, end) ==
    LET Read[pos \in Nat] ==
            IF pos >= end THEN Ok(<<>>, end)
            ELSE Then(DecodeVarint(From(buf, pos)), LAMBDA v, used :
                    Mapped(Read[pos + used], LAMBDA rest : <<v>> \o rest))
    IN  Read

DecodePackedVarints(buf) == Then(Delimited(buf), LAMBDA start, end : VarintsFrom(buf, end)[start])

(* decode_packed_fixed32 and _fixed64 slice the content first.             *)
DecodePackedFixed(buf, len) == Then(Content(buf), LAMBDA content, end :
    IF Len(content) % len # 0 THEN Fail("Custom")
    ELSE Ok([i \in 1 .. Len(content) \div len |->
                SubSeq(content, len * (i - 1) + 1, len * i)], end))
=============================================================================
