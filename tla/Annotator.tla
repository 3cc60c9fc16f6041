----------------------------- MODULE Annotator -----------------------------
(***************************************************************************)
(* The annotator (src/annotator/src/walker.rs with its own wire.rs): it    *)
(* walks the bytes of a message with a descriptor set at hand and gives    *)
(* every piece a region, for a viewer to show.                             *)
(*                                                                         *)
(* Regions are a flat list; a region names its children by their indices,  *)
(* and a message gets its own only after they have been walked.  Unlike    *)
(* the generated decoders the walker never cuts the buffer to a message:   *)
(* every read is compared with the end of the whole buffer.                *)
(*                                                                         *)
(* A region is [from, to, kind, value, children]; its label and path are   *)
(* left out.  "payload" is a string or bytes, and how a float looks is not *)
(* modelled: a fixed-width value is its bytes.                             *)
(***************************************************************************)
EXTENDS MessageCodec

CONSTANTS
    MaxDepth,       \* MAX_DEPTH (64)
    NestedIn,       \* message -> the messages declared in it
    ShortName       \* message -> the last part of its name

Region(from, to, kind, value) ==
    [from |-> from, to |-> to, kind |-> kind, value |-> value, children |-> <<>>]

(* Regions so far, indices of those just made, and the byte to go on from. *)
Answer(regions, made, end) == Ok([regions |-> regions, made |-> made], end)
Pushed(regions, made, region, end) ==
    Answer(Append(regions, region), Append(made, Len(regions) + 1), end)

----------------------------------------------------------------------------
(* wire.rs of the annotator.                                               *)

(* A varint is too long once its tenth byte goes on.                       *)
VarintAt(data, pos) ==
    LET read == DecodeVarint(From(data, pos))
    IN  IF ~read.ok /\ Len(data) - pos >= VarintMax THEN Fail("VarintTooLong") ELSE read

(* The number 0 is let through.                                            *)
TagAt(data, pos) == Then(VarintAt(data, pos), LAMBDA raw, used :
    IF raw % 8 \notin DOMAIN WireTypeOf THEN Fail("UnknownWireType")
    ELSE Ok(Tag(Unsigned(raw \div 8, NumberWidth), WireTypeOf[raw % 8]), pos + used))

FixedAt(data, pos, len) ==
    IF pos + len > Len(data) THEN Fail("UnexpectedEof")
    ELSE Ok(SubSeq(data, pos + 1, pos + len), pos + len)

(* A length and where its content starts and ends.  A sum past usize is a  *)
(* failure here: a debug build panics, a release build panics at the slice *)
(* or goes on from a byte it has seen.                                     *)
LengthAt(data, pos) == Then(VarintAt(data, pos), LAMBDA len, used :
    LET start == pos + used
    IN  IF start + len >= Pow2[Width] THEN Fail("overflow")
        ELSE IF start + len > Len(data) THEN Fail("UnexpectedEof")
        ELSE Ok(start, start + len))

(* skip_field: any EndGroup tag ends a group, at any nesting.              *)
RECURSIVE SkipAt(_, _, _), SkipGroupAt(_, _)
SkipGroupAt(data, pos) == Then(TagAt(data, pos), LAMBDA tag, at :
    IF tag.wire = "EndGroup" THEN Ok("skipped", at)
    ELSE Then(SkipAt(data, at, tag.wire), LAMBDA skipped, next : SkipGroupAt(data, next)))

SkipAt(data, pos, wire) ==
    CASE wire = "Varint" -> Then(VarintAt(data, pos), LAMBDA val, used : Ok("skipped", pos + used))
      [] wire = "Fixed64" -> FixedAt(data, pos, Fixed64Len)
      [] wire = "Fixed32" -> FixedAt(data, pos, Fixed32Len)
      [] wire = "LengthDelimited" -> LengthAt(data, pos)
      [] wire = "StartGroup" -> SkipGroupAt(data, pos)
      [] wire = "EndGroup" -> Ok("skipped", pos)

----------------------------------------------------------------------------
(* Descriptors.                                                            *)

DescOf(m) == [fields |-> Schema[m], nested |-> NestedIn[m]]

(* A map field is a repeated message of two fields.                        *)
EntryOf(fd) ==
    [fields |-> 1 :> Singular(fd.key) @@ 2 :> [fd EXCEPT !.card = "optional"], nested |-> <<>>]

(* find_nested_message_by_type: a message declared in the parent and       *)
(* called the same comes before the one that is meant.                     *)
FindMessage(desc, of) ==
    LET called == {m \in Range(desc.nested) : ShortName[m] = ShortName[of]}
    IN  IF called # {} THEN called ELSE {of} \cap DOMAIN Schema

TypeOfField(desc, number) ==
    IF number \in DOMAIN desc.fields THEN desc.fields[number].type ELSE "none"


(* A sint32 is decoded at 64 bits and cut, a uint32 is not cut at all.     *)
ShownVarint(type, raw) ==
    CASE type = "bool" -> raw # 0
      [] type = "sint32" -> Signed(ZigzagDecode(raw, Width), NumberWidth)
      [] type = "sint64" -> ZigzagDecode(raw, Width)
      [] type \in {"int32", "enum"} -> Signed(raw, NumberWidth)
      [] type = "int64" -> Signed(raw, Width)
      [] OTHER -> raw

----------------------------------------------------------------------------
(* The walk.                                                               *)

RECURSIVE WalkFields(_, _, _, _, _, _, _), WalkElements(_, _, _, _, _, _)

(* A message, and its children's indices once they are known.              *)
WalkMessage(data, regions, made, desc, start, end, depth) ==
    LET me == Len(regions) + 1
        opened == Append(regions, Region(start, end, "message", <<>>))
    IN  Then(WalkFields(data, opened, desc, start, end, depth + 1, <<>>), LAMBDA walk, next :
            Answer([walk.regions EXCEPT ![me].children = walk.made], Append(made, me), end))

(* The elements of a packed field, as raw varints or bytes.  A fixed-width *)
(* element that does not fit ends them; a varint may run past the end.     *)
WalkElements(data, regions, elements, type, pos, end) ==
    LET len == IF type \in Fixed32Types THEN Fixed32Len
               ELSE IF type \in Fixed64Types THEN Fixed64Len ELSE 0
        read == IF len > 0 THEN Ok(SubSeq(data, pos + 1, pos + len), len) ELSE VarintAt(data, pos)
    IN  IF pos >= end \/ pos + len > end THEN Answer(regions, elements, pos)
        ELSE Then(read, LAMBDA value, used :
                WalkElements(data, Append(regions, Region(pos, pos + used, "element", value)),
                             Append(elements, Len(regions) + 1), type, pos + used, end))

WalkPacked(data, regions, made, type, start, end) ==
    LET me == Len(regions) + 1
        opened == Append(regions, Region(start, end, "packed", <<>>))
    IN  Then(WalkElements(data, opened, <<>>, type, start, end), LAMBDA walk, next :
            Answer([walk.regions EXCEPT ![me].children = walk.made], Append(made, me), end))

(* A string, bytes, or a field that is not known.                          *)
Payload(data, regions, made, start, end) ==
    Pushed(regions, made, Region(start, end, "payload", SubSeq(data, start + 1, end)), end)

(* decode_length_delimited_field.                                          *)
WalkDelimited(data, regions, desc, number, at, depth) ==
    Then(LengthAt(data, at), LAMBDA start, end :
        LET prefixed == Append(regions, Region(at, start, "length", end - start))
            made == <<Len(regions) + 1>>
            type == TypeOfField(desc, number)
            fd == desc.fields[number]
            isMap == type # "none" /\ fd.card = "map"
            found == IF type = "message" /\ ~isMap THEN FindMessage(desc, fd.of) ELSE {}
        IN  CASE isMap -> WalkMessage(data, prefixed, made, EntryOf(fd), start, end, depth)
              [] found # {} -> WalkMessage(data, prefixed, made, DescOf(CHOOSE m \in found : TRUE),
                                           start, end, depth)
              [] ~isMap /\ type \in Packable /\ fd.card = "repeated" ->
                    WalkPacked(data, prefixed, made, type, start, end)
              [] OTHER -> Payload(data, prefixed, made, start, end))

(* decode_field_value goes by the wire type of the tag; a group is skipped *)
(* as a whole, an EndGroup outside a group is nothing.                     *)
WalkValue(data, regions, desc, tag, at, depth) ==
    LET One(end, kind, value) == Pushed(regions, <<>>, Region(at, end, kind, value), end)
    IN  CASE tag.wire = "Varint" -> Then(VarintAt(data, at), LAMBDA raw, used :
                One(at + used, "varint", ShownVarint(TypeOfField(desc, tag.number), raw)))
          [] tag.wire \in {"Fixed32", "Fixed64"} ->
                Then(FixedAt(data, at, IF tag.wire = "Fixed32" THEN Fixed32Len ELSE Fixed64Len),
                     LAMBDA value, end : One(end, "fixed", value))
          [] tag.wire = "LengthDelimited" ->
                WalkDelimited(data, regions, desc, tag.number, at, depth)
          [] tag.wire = "StartGroup" ->
                Then(SkipAt(data, at, "StartGroup"), LAMBDA skipped, end : One(end, "unknown", <<>>))
          [] tag.wire = "EndGroup" -> Answer(regions, <<>>, at)

(* Mutation: a message is shown from its length on.                        *)
FieldRegionShort(number, pos, at, end, children) ==
    [Region(at, end, "field", number) EXCEPT !.children = children]

(* The region around a tag and its value.                                  *)
FieldRegion(number, pos, at, end, children) ==
    [Region(pos, end, "field", number) EXCEPT !.children = children]

(* walk_message_fields.                                                    *)
WalkFields(data, regions, desc, pos, end, depth, children) ==
    IF depth > MaxDepth THEN Fail("MaxDepthExceeded")
    ELSE IF pos >= end THEN Answer(regions, children, pos)
    ELSE Then(TagAt(data, pos), LAMBDA tag, at :
            Then(WalkValue(data, Append(regions, Region(pos, at, "tag", tag)), desc, tag, at, depth),
                 LAMBDA value, next :
                    WalkFields(data,
                        Append(value.regions, FieldRegion(tag.number, pos, at, next,
                                                  <<Len(regions) + 1>> \o value.made)),
                        desc, next, end, depth, Append(children, Len(value.regions) + 1))))

(* walk_protobuf: the root is region 1.                                    *)
Walk(m, data) ==
    Then(WalkMessage(data, <<>>, <<>>, DescOf(m), 0, Len(data), 0),
         LAMBDA walk, end : Ok(walk.regions, end))
=============================================================================
