----------------------------- MODULE WireReader -----------------------------
(***************************************************************************)
(* A buffer that grows by a byte at a time, read by the primitives of      *)
(* Wire: what is accepted is encoded again.  Short buffers hold every      *)
(* byte, longer ones bytes that make tags, groups, lengths and long        *)
(* varints.                                                                *)
(***************************************************************************)
EXTENDS Wire

CONSTANTS
    ShortLen,       \* buffers of every byte are at most so long
    MaxLen,         \* buffers of Bytes are
    Bytes

(* A slice has at most isize::MAX bytes.                                   *)
ASSUME LengthsAssumption == {ShortLen, MaxLen} \subseteq 0 .. Pow2[Width - 1] - 1

VARIABLE buf

Init == buf = <<>>

(* One more byte arrives.                                                  *)
Feed == \E b \in Byte :
    /\ \/ Len(buf) < ShortLen
       \/ Len(buf) < MaxLen /\ b \in Bytes /\ Range(buf) \subseteq Bytes
    /\ buf' = Append(buf, b)

Next == Feed
Spec == Init /\ [][Next]_buf

----------------------------------------------------------------------------
(* The verdict of an answer that more input may not change.                *)
Final(answer) == answer.ok \/ answer.err # "UnexpectedEof"

(* A step that leaves the answers about a varint and a tag alone.          *)
ReadsFinal ==
    /\ Final(DecodeVarint(buf)) => DecodeVarint(buf') = DecodeVarint(buf)
    /\ Final(DecodeTag(buf)) => DecodeTag(buf') = DecodeTag(buf)

(* Whatever varint a buffer holds, minimal or padded, its value is encoded *)
(* in varint_len bytes, never more than were read, and reads back as       *)
(* itself: the pre-computed size of every field rests on it.               *)
VarintRoundTrip ==
    LET read == DecodeVarint(buf)
        again == EncodeVarint[read.val]
    IN  read.ok =>
            /\ read.val \in 0 .. Pow2[Width] - 1
            /\ Len(again) = VarintLen(read.val)
            /\ Len(again) <= read.used
            /\ DecodeVarint(again) = Ok(read.val, Len(again))

(* An accepted tag encodes and decodes to itself, and the u32 form of it   *)
(* is the varint that encode_tag writes as long as the number leaves three *)
(* bits free (field numbers end at 2^29 - 1).                              *)
TagRoundTrip ==
    LET read == DecodeTag(buf)
        again == EncodeTag(read.val.number, read.val.wire)
    IN  read.ok =>
            /\ DecodeTag(again) = Ok(read.val, Len(again))
            /\ Len(again) <= read.used
            /\ read.val.number < Pow2[NumberWidth - 3]
                   => EncodeVarint[TagEncodeValue(read.val)] = again

Repacked(elements, encoded, Reread(_)) ==
    LET again == EncodePacked(1, encoded)
        body == From(again, DecodeTag(again).used)
    IN  /\ Len(again) = PackedSize(1, [i \in DOMAIN encoded |-> Len(encoded[i])])
        /\ elements # <<>> =>
              /\ Reread(body).ok
              /\ Reread(body).val = elements
              /\ Reread(body).used = Len(body)

(* The elements found in a packed field, written packed again, take        *)
(* exactly the size computed for them and come back as the same elements;  *)
(* so do those of a packed fixed32 field.                                  *)
PackedRoundTrip ==
    LET varints == DecodePackedVarints(buf)
        fixed == DecodePackedFixed(buf, Fixed32Len)
        Fixed(bytes) == DecodePackedFixed(bytes, Fixed32Len)
    IN  /\ varints.ok =>
              Repacked(varints.val,
                       [i \in DOMAIN varints.val |-> EncodeVarint[varints.val[i]]],
                       DecodePackedVarints)
        /\ fixed.ok => Repacked(fixed.val, fixed.val, Fixed)
=============================================================================
