---------------------------- MODULE MessageCodec ----------------------------
(***************************************************************************)
(* What the code generated for a message does                              *)
(* (src/codegen/src/rust_gen_runtime.rs with features.rs): the sizes and   *)
(* bytes of a message, decoding into an owned message (merge_field) and    *)
(* into a zero-copy view (merge_field_view, src/runtime/src/view.rs), and  *)
(* turning a view into an owned message.                                   *)
(*                                                                         *)
(* A schema maps message names to their descriptors, functions from field  *)
(* numbers to field descriptions.  A message is [fields, unknown]; every   *)
(* field holds a sequence: one value for a field that always has one, none or one for a  *)
(* field with presence, the elements of a repeated field, the <<key,       *)
(* value>> pairs of a map.  Floats are their bytes; a string is its bytes, *)
(* valid UTF-8 when all of them are ASCII.  The order of a BTreeMap is     *)
(* abstracted to the order in which its keys were first inserted, and      *)
(* fields are written in the order of their numbers.                       *)
(***************************************************************************)
EXTENDS KeptFields

CONSTANT Schema

----------------------------------------------------------------------------
(* Field types (descriptor.rs) and features (features.rs).                 *)

Fixed32Types == {"float", "fixed32", "sfixed32"}
Fixed64Types == {"double", "fixed64", "sfixed64"}
VarintTypes == {"int32", "int64", "uint32", "uint64", "sint32", "sint64", "bool", "enum"}
Packable == Fixed32Types \cup Fixed64Types \cup VarintTypes

WireOf(type) == CASE type \in Fixed32Types -> "Fixed32"
                  [] type \in Fixed64Types -> "Fixed64"
                  [] type \in VarintTypes -> "Varint"
                  [] OTHER -> "LengthDelimited"

Proto2 == [presence |-> "explicit", packed |-> FALSE]
Proto3 == [presence |-> "implicit", packed |-> TRUE]

(* features.is_scalar_optional.                                            *)
HasPresence(features, label, type) ==
    IF features.presence = "implicit"
    THEN label = "proto3_optional" \/ (label # "repeated" /\ type = "message")
    ELSE label \notin {"repeated", "required"}

(* features.is_packed.                                                     *)
IsPacked(features, type) == type \in Packable /\ features.packed

(* A field: its type, the message or enum it names, its cardinality, the   *)
(* oneof it belongs to, how it is packed, its default and its key type.    *)
Field(features, label, type, of) ==
    [type |-> type, of |-> of, oneof |-> "", key |-> "", default |-> <<>>,
     packed |-> IsPacked(features, type),
     card |-> IF label = "repeated" THEN "repeated"
              ELSE IF type = "message" \/ HasPresence(features, label, type) THEN "optional"
              ELSE "plain"]
Singular(type) == Field(Proto3, "optional", type, "")
SingularMessage(of) == Field(Proto3, "optional", "message", of)
RepeatedOf(type) == Field(Proto3, "repeated", type, "")
RepeatedMessage(of) == Field(Proto3, "repeated", "message", of)
MapOf(key, type, of) == [Field(Proto3, "repeated", type, of) EXCEPT !.card = "map", !.key = key]
Member(oneof, type, of) ==
    [Field(Proto3, "optional", type, of) EXCEPT !.card = "optional", !.oneof = oneof]

(* rust_scalar_type's default.                                             *)
Zero(type) == CASE type \in Fixed32Types -> [i \in 1 .. Fixed32Len |-> 0]
                [] type \in Fixed64Types -> [i \in 1 .. Fixed64Len |-> 0]
                [] type = "bool" -> FALSE
                [] type \in VarintTypes -> 0
                [] OTHER -> <<>>

(* field_default_value: what Default and clear() give the field.           *)
InitialField(fd) ==
    IF fd.card # "plain" THEN <<>>
    ELSE IF fd.default # <<>> THEN fd.default
    ELSE <<Zero(fd.type)>>

Default(desc) == [fields |-> [n \in DOMAIN desc |-> InitialField(desc[n])],
               unknown |-> <<>>]

----------------------------------------------------------------------------
(* Scalars on the wire.                                                    *)

(* Mutation: a negative int32 is not extended by its sign.                 *)
WriteScalarNarrow(type, v) ==
    CASE type \in Fixed32Types \cup Fixed64Types -> v
      [] type = "bool" -> <<IF v THEN 1 ELSE 0>>
      [] type = "int32" -> EncodeVarint[Unsigned(v, NumberWidth)]
      [] type \in VarintTypes -> EncodeVarint[Unsigned(v, Width)]
      [] OTHER -> EncodeVarint[Len(v)] \o v

WriteScalar(type, v) ==
    CASE type \in Fixed32Types \cup Fixed64Types -> v
      [] type = "bool" -> <<IF v THEN 1 ELSE 0>>
      [] type = "sint32" -> EncodeVarint[ZigzagEncode(v, NumberWidth)]
      [] type = "sint64" -> EncodeVarint[ZigzagEncode(v, Width)]
      [] type \in VarintTypes -> EncodeVarint[Unsigned(v, Width)]
      [] OTHER -> EncodeVarint[Len(v)] \o v

ScalarSize(type, v) ==
    CASE type \in Fixed32Types -> Fixed32Len
      [] type \in Fixed64Types -> Fixed64Len
      [] type = "bool" -> 1
      [] type = "sint32" -> VarintLen(ZigzagEncode(v, NumberWidth))
      [] type = "sint64" -> VarintLen(ZigzagEncode(v, Width))
      [] type \in VarintTypes -> VarintLen(Unsigned(v, Width))
      [] OTHER -> VarintLen(Len(v)) + Len(v)

(* The value of a raw varint; a 32-bit type keeps the low bits.            *)
FromVarint(type, raw) ==
    CASE type = "bool" -> raw # 0
      [] type = "sint32" -> ZigzagDecode(Unsigned(raw, NumberWidth), NumberWidth)
      [] type = "sint64" -> ZigzagDecode(raw, Width)
      [] type \in {"int32", "enum"} -> Signed(raw, NumberWidth)
      [] type = "uint32" -> Unsigned(raw, NumberWidth)
      [] type = "int64" -> Signed(raw, Width)
      [] type = "uint64" -> raw

(* A scalar at the start of buf, content being the answer for a string.    *)
ScalarOf(type, buf, content) ==
    LET read == CASE type \in Fixed32Types -> DecodeFixed32(buf)
                  [] type \in Fixed64Types -> DecodeFixed64(buf)
                  [] type \in VarintTypes -> DecodeVarint(buf)
                  [] OTHER -> content
    IN  Then(read, LAMBDA val, used :
            CASE type \in VarintTypes -> Ok(FromVarint(type, val), used)
              [] type = "string" /\ \E i \in DOMAIN val : val[i] >= Cont -> Fail("InvalidUtf8")
              [] OTHER -> Ok(val, used))

(* A view borrows what the owned message copies.                           *)
ReadScalar(type, buf) == ScalarOf(type, buf, Content(buf))
ReadViewScalar(type, buf) == ReadScalar(type, buf)

(* In a map entry a string is sliced out of the whole buffer, and its end  *)
(* may wrap below its start: &buf[pos + header..pos + end].                *)
MapContent(buf, pos) == Then(DecodeVarint(From(buf, pos)), LAMBDA len, header :
    LET end == Unsigned(header + len, Width)
        to == Unsigned(pos + end, Width)
    IN  CASE to > Len(buf) -> Fail("UnexpectedEof")
          [] to < pos + header -> Fail("panic")
          [] OTHER -> Ok(SubSeq(buf, pos + header + 1, to), end))

(* The value of a map entry and its key: an integer, a bool or a string.   *)
KeyTypes == {"string", "fixed32", "sfixed32", "fixed64", "sfixed64"} \cup (VarintTypes \ {"enum"})
ReadMapValue(type, buf, pos) == ScalarOf(type, From(buf, pos), MapContent(buf, pos))
ReadMapKey(type, buf, pos) ==
    IF type \in KeyTypes THEN ReadMapValue(type, buf, pos) ELSE Fail("panic")

(* gen_packed_decode.                                                      *)
ReadPacked(type, buf) ==
    IF type \in Fixed32Types THEN DecodePackedFixed(buf, Fixed32Len)
    ELSE IF type \in Fixed64Types THEN DecodePackedFixed(buf, Fixed64Len)
    ELSE Mapped(DecodePackedVarints(buf), LAMBDA raw : [i \in DOMAIN raw |-> FromVarint(type, raw[i])])

(* scalar_default_check; -0.0 != 0.0 is false as well.                     *)
IsZero(type, v) ==
    IF type \in {"float", "double"}
    THEN \A i \in DOMAIN v : v[i] = 0 \/ (i = Len(v) /\ v[i] = Cont)
    ELSE v = Zero(type)

(* Mutation: the fields of an optional scalar are left out when zero.      *)
PresentValuesZero(fd, values) ==
    IF fd.card # "repeated" /\ fd.type # "message" /\ values # <<>> /\ IsZero(fd.type, values[1])
    THEN <<>> ELSE values

(* The values of a field that are written: a field without presence is     *)
(* left out when it is zero.                                               *)
PresentValues(fd, values) ==
    IF fd.card = "plain" /\ IsZero(fd.type, values[1])
    THEN <<>> ELSE values

(* Regular fields first, then the oneofs.                                  *)
WriteOrder(desc) ==
    LET numbers == [i \in 1 .. Max({0} \cup DOMAIN desc) |-> i]
        Regular(n) == n \in DOMAIN desc /\ desc[n].oneof = ""
        InOneof(n) == n \in DOMAIN desc /\ desc[n].oneof # ""
    IN  SelectSeq(numbers, Regular) \o SelectSeq(numbers, InOneof)

----------------------------------------------------------------------------
(* Writing: compute_size and write_to (the cached sizes between the two    *)
(* are the subject of CachedEncode).                                       *)

RECURSIVE SizeOf(_, _), WriteMessage(_, _)

TagLen(number, wire) == VarintLen(number * 8 + WireCode[wire])
Prefixed(len) == VarintLen(len) + len

(* The size of one value with its tag.                                     *)
ValueSize(number, fd, v) ==
    TagLen(number, WireOf(fd.type)) +
    (IF fd.type = "message" THEN Prefixed(SizeOf(Schema[fd.of], v)) ELSE ScalarSize(fd.type, v))

EntrySize(fd, pair) ==
    TagLen(1, WireOf(fd.key)) + ScalarSize(fd.key, pair[1]) + ValueSize(2, fd, pair[2])

IsPackedField(fd) == fd.card = "repeated" /\ fd.packed /\ fd.type # "enum"

FieldSize(number, fd, values) ==
    IF IsPackedField(fd)
    THEN PackedSize(number, [i \in DOMAIN values |-> ScalarSize(fd.type, values[i])])
    ELSE MapThenSumSet(
            LAMBDA i : IF fd.card = "map"
                       THEN TagLen(number, "LengthDelimited") + Prefixed(EntrySize(fd, values[i]))
                       ELSE ValueSize(number, fd, values[i]),
            DOMAIN values)

SizeOf(desc, msg) ==
    MapThenSumSet(LAMBDA n : FieldSize(n, desc[n], PresentValues(desc[n], msg.fields[n])),
                  DOMAIN desc)
    + FieldsLen(msg.unknown)

WriteValue(number, fd, v) ==
    EncodeTag(number, WireOf(fd.type)) \o
    (IF fd.type = "message"
     THEN EncodeVarint[SizeOf(Schema[fd.of], v)] \o WriteMessage(Schema[fd.of], v)
     ELSE WriteScalar(fd.type, v))

WriteEntry(number, fd, pair) ==
    EncodeTag(number, "LengthDelimited") \o EncodeVarint[EntrySize(fd, pair)]
    \o EncodeTag(1, WireOf(fd.key)) \o WriteScalar(fd.key, pair[1])
    \o WriteValue(2, fd, pair[2])

WriteOneField(number, fd, values) ==
    IF IsPackedField(fd)
    THEN EncodePacked(number, [i \in DOMAIN values |-> WriteScalar(fd.type, values[i])])
    ELSE FlattenSeq([i \in DOMAIN values |->
            IF fd.card = "map" THEN WriteEntry(number, fd, values[i])
            ELSE WriteValue(number, fd, values[i])])

WriteMessage(desc, msg) ==
    LET order == WriteOrder(desc)
    IN  FlattenSeq([i \in DOMAIN order |->
            LET fd == desc[order[i]]
            IN  WriteOneField(order[i], fd, PresentValues(fd, msg.fields[order[i]]))])
        \o WriteFields(msg.unknown)

----------------------------------------------------------------------------
(* Decoding into an owned message.                                         *)

RECURSIVE MergeAll(_, _, _, _), MergeUntil(_, _, _, _, _, _),
          MergeEntry(_, _, _, _, _, _), MergeField(_, _, _, _, _, _)

(* The value joins a repeated field, replaces any other, and empties the   *)
(* rest of its oneof.                                                      *)
Store(desc, msg, number, v) ==
    LET fd == desc[number]
        Rival(n) == n # number /\ fd.oneof # "" /\ desc[n].oneof = fd.oneof
    IN  [msg EXCEPT !.fields = [n \in DOMAIN msg.fields |->
            IF n = number
            THEN IF fd.card = "repeated" THEN Append(msg.fields[n], v) ELSE <<v>>
            ELSE IF Rival(n) THEN <<>> ELSE msg.fields[n]]]

(* BTreeMap::insert.                                                       *)
Put(pairs, key, v) ==
    IF \E i \in DOMAIN pairs : pairs[i][1] = key
    THEN [i \in DOMAIN pairs |-> IF pairs[i][1] = key THEN <<key, v>> ELSE pairs[i]]
    ELSE Append(pairs, <<key, v>>)

(* decode_with_options' loop, from the start of buf to its end.            *)
MergeAll(desc, msg, buf, limit) ==
    IF buf = <<>> THEN Ok(msg, 0)
    ELSE AfterTag(buf, 0, LAMBDA tag, at :
        Then(MergeField(desc, msg, tag.number, tag.wire, From(buf, at), limit),
             LAMBDA merged, used : MergeAll(desc, merged, From(buf, at + used), limit)))

(* The value of a map entry: fields are merged from pos while pos < end,   *)
(* and every one of them may use the buffer beyond end.                    *)
MergeUntil(desc, msg, buf, pos, end, limit) ==
    IF pos >= end THEN Ok(msg, end)
    ELSE AfterTag(buf, pos, LAMBDA tag, at :
        Then(MergeField(desc, msg, tag.number, tag.wire, From(buf, at), limit),
             LAMBDA merged, used : MergeUntil(desc, merged, buf, at + used, end, limit)))

(* An entry <<key, value>> after field 1 or 2 of it was read.              *)
WithPart(entry, number, v) ==
    IF number \in {1, 2} THEN [entry EXCEPT ![number] = v] ELSE entry

(* The loop over a map entry: 1 is the key, 2 the value, whatever their    *)
(* wire types say; other fields are skipped.                               *)
MergeEntry(fd, entry, buf, pos, end, limit) ==
    IF pos >= end THEN Ok(entry, end)
    ELSE AfterTag(buf, pos, LAMBDA tag, at :
        LET rest == From(buf, at)
            message == tag.number = 2 /\ fd.type = "message"
            SubMessage(len, used) ==
                MergeUntil(Schema[fd.of], entry[2], buf, at + used,
                           Unsigned(at + used + len, Width), limit)
            read == CASE tag.number = 1 -> ReadMapKey(fd.key, buf, at)
                      [] message -> Then(DecodeVarint(rest), SubMessage)
                      [] tag.number = 2 /\ ~message -> ReadMapValue(fd.type, buf, at)
                      [] OTHER -> SkipField(rest, tag.wire, limit)
        IN  Then(read, LAMBDA val, used :
                MergeEntry(fd, WithPart(entry, tag.number, val), buf,
                           IF message THEN used ELSE at + used, end, limit)))

(* The entry a map starts from; initial is the value if it is a message.   *)
EmptyEntry(fd, initial) ==
    <<Zero(fd.key), IF fd.type = "message" THEN initial ELSE Zero(fd.type)>>

MergeMap(desc, msg, number, wire, buf, limit) ==
    LET fd == desc[number]
        empty == EmptyEntry(fd, Default(Schema[fd.of]))
    IN  IF wire # "LengthDelimited" THEN Fail("WireTypeMismatch")
        ELSE Then(Delimited(buf), LAMBDA start, end :
            Mapped(MergeEntry(fd, empty, buf, start, end, limit),
                   LAMBDA entry : [msg EXCEPT !.fields[number] = Put(@, entry[1], entry[2])]))

(* Mutation: a message met again replaces the earlier one.                 *)
MergeMessageAnew(desc, msg, number, wire, buf, limit) ==
    LET of == Schema[desc[number].of]
    IN  IF wire # "LengthDelimited" THEN Fail("WireTypeMismatch")
        ELSE Then(Content(buf), LAMBDA content, end :
            Then(MergeAll(of, Default(of), content, limit),
                 LAMBDA sub, used : Ok(Store(desc, msg, number, sub), end)))

(* A message: a set singular field is merged into; an element of a         *)
(* repeated field and a member of a oneof start from the default.          *)
MergeMessage(desc, msg, number, wire, buf, limit) ==
    LET fd == desc[number]
        old == IF fd.card = "optional" /\ fd.oneof = "" /\ msg.fields[number] # <<>>
               THEN msg.fields[number][1] ELSE Default(Schema[fd.of])
    IN  IF wire # "LengthDelimited" THEN Fail("WireTypeMismatch")
        ELSE Then(Content(buf), LAMBDA content, end :
            Then(MergeAll(Schema[fd.of], old, content, limit),
                 LAMBDA sub, used : Ok(Store(desc, msg, number, sub), end)))

(* A scalar; a repeated packable field accepts the packed form too.        *)
MergeScalar(desc, msg, number, wire, buf) ==
    LET fd == desc[number]
        packed == fd.card = "repeated" /\ fd.type \in Packable /\ wire = "LengthDelimited"
    IN  CASE packed -> Mapped(ReadPacked(fd.type, buf),
                              LAMBDA values : [msg EXCEPT !.fields[number] = @ \o values])
          [] wire = WireOf(fd.type) -> Mapped(ReadScalar(fd.type, buf),
                                              LAMBDA v : Store(desc, msg, number, v))
          [] OTHER -> Fail("WireTypeMismatch")

MergeUnknown(msg, number, wire, buf, limit) ==
    Mapped(DecodeUnknownField(buf, number, wire, limit),
           LAMBDA kept : [msg EXCEPT !.unknown = Append(@, kept)])

MergeField(desc, msg, number, wire, buf, limit) ==
    IF number \notin DOMAIN desc THEN MergeUnknown(msg, number, wire, buf, limit)
    ELSE IF desc[number].card = "map" THEN MergeMap(desc, msg, number, wire, buf, limit)
    ELSE IF desc[number].type = "message" THEN MergeMessage(desc, msg, number, wire, buf, limit)
    ELSE MergeScalar(desc, msg, number, wire, buf)

(* decode_with_options; max = 0 means any size.                            *)
Decode(desc, buf, limit, max) ==
    IF max > 0 /\ Len(buf) > max THEN Fail("MessageTooLarge")
    ELSE MergeAll(desc, Default(desc), buf, limit)

----------------------------------------------------------------------------
(* Decoding into a view.  A view has the fields of its message and no      *)
(* unknown fields; a map is the list of its entries.                       *)

RECURSIVE ViewAll(_, _, _, _), ViewEntry(_, _, _, _, _, _), ViewField(_, _, _, _, _, _),
          IntoOwned(_, _)

(* decode_view_with_limit's loop.                                          *)
ViewAll(desc, view, buf, limit) ==
    IF buf = <<>> THEN Ok(view, 0)
    ELSE AfterTag(buf, 0, LAMBDA tag, at :
        Then(ViewField(desc, view, tag.number, tag.wire, From(buf, at), limit),
             LAMBDA merged, used : ViewAll(desc, merged, From(buf, at + used), limit)))

(* view_field_default: the schema's own defaults are not used.             *)
ViewDefault(desc) ==
    [fields |-> [n \in DOMAIN desc |->
                    IF desc[n].card = "plain" THEN <<Zero(desc[n].type)>> ELSE <<>>],
     unknown |-> <<>>]

DecodeView(desc, buf, limit) == ViewAll(desc, ViewDefault(desc), buf, limit)

(* Mutation: the length of the prefix is not reported.                     *)
DecodeSubViewShort(desc, buf, limit) == Then(Content(buf), LAMBDA content, end :
    Then(DecodeView(desc, content, IF limit = 0 THEN 0 ELSE limit - 1),
         LAMBDA sub, used : Ok(sub, Len(content))))

(* decode_sub_view, with saturating_sub(1) on the limit.                   *)
DecodeSubView(desc, buf, limit) == Then(Content(buf), LAMBDA content, end :
    Then(DecodeView(desc, content, IF limit = 0 THEN 0 ELSE limit - 1),
         LAMBDA sub, used : Ok(sub, end)))

ViewEntry(fd, entry, buf, pos, end, limit) ==
    IF pos >= end THEN Ok(entry, end)
    ELSE AfterTag(buf, pos, LAMBDA tag, at :
        LET rest == From(buf, at)
            read == CASE tag.number = 1 -> ReadMapKey(fd.key, buf, at)
                      [] tag.number = 2 /\ fd.type = "message" -> DecodeSubView(Schema[fd.of], rest, limit)
                      [] tag.number = 2 /\ fd.type # "message" -> ReadMapValue(fd.type, buf, at)
                      [] OTHER -> SkipField(rest, tag.wire, limit)
        IN  Then(read, LAMBDA val, used :
                ViewEntry(fd, WithPart(entry, tag.number, val), buf, at + used, end, limit)))

ViewMap(desc, view, number, wire, buf, limit) ==
    LET fd == desc[number]
        empty == EmptyEntry(fd, ViewDefault(Schema[fd.of]))
    IN  IF wire # "LengthDelimited" THEN Fail("WireTypeMismatch")
        ELSE Then(Delimited(buf), LAMBDA start, end :
            Mapped(ViewEntry(fd, empty, buf, start, end, limit),
                   LAMBDA entry : [view EXCEPT !.fields[number] = Append(@, entry)]))

(* Every field but a map: one value, stored; a message view replaces the   *)
(* one before it, and a scalar must have its own wire type.                *)
ViewValue(desc, view, number, wire, buf, limit) ==
    LET fd == desc[number]
        read == IF fd.type = "message" THEN DecodeSubView(Schema[fd.of], buf, limit)
                ELSE ReadViewScalar(fd.type, buf)
    IN  IF wire # WireOf(fd.type) THEN Fail("WireTypeMismatch")
        ELSE Mapped(read, LAMBDA v : Store(desc, view, number, v))

ViewField(desc, view, number, wire, buf, limit) ==
    IF number \notin DOMAIN desc
    THEN Mapped(SkipField(buf, wire, limit), LAMBDA skipped : view)
    ELSE IF desc[number].card = "map" THEN ViewMap(desc, view, number, wire, buf, limit)
    ELSE ViewValue(desc, view, number, wire, buf, limit)

(* Mutation: the entries of a map are taken over as they are.              *)
OwnedFieldRaw(fd, values) ==
    LET Owned(v) == IF fd.type = "message" THEN IntoOwned(Schema[fd.of], v) ELSE v
    IN  [i \in DOMAIN values |->
            IF fd.card = "map" THEN <<values[i][1], Owned(values[i][2])>> ELSE Owned(values[i])]

(* From<View> for the owned message: maps are collected, unknown fields    *)
(* start empty.                                                            *)
OwnedField(fd, values) ==
    LET Owned(v) == IF fd.type = "message" THEN IntoOwned(Schema[fd.of], v) ELSE v
    IN  IF fd.card = "map"
        THEN FoldLeft(LAMBDA pairs, pair : Put(pairs, pair[1], Owned(pair[2])), <<>>, values)
        ELSE [i \in DOMAIN values |-> Owned(values[i])]

IntoOwned(desc, view) ==
    [fields |-> [n \in DOMAIN view.fields |-> OwnedField(desc[n], view.fields[n])],
     unknown |-> <<>>]

----------------------------------------------------------------------------
(* Mutation: the first occurrence is taken.                                *)
ExtensionGetFirst(unknown, number, type, default) ==
    LET Mine(f) == f.number = number /\ f.wire = WireOf(type)
        hits == SelectSeq(unknown, Mine)
    IN  IF hits = <<>> THEN default
        ELSE IF type \in VarintTypes THEN FromVarint(type, Head(hits).data) ELSE Head(hits).data

(* ExtensionDescriptor::get: the last unknown field of the extension's     *)
(* number that has its wire type and decodes.                              *)
ExtensionGet(unknown, number, type, default) ==
    LET Valid(data) == type = "string" => \A i \in DOMAIN data : data[i] < Cont
        Mine(f) == f.number = number /\ f.wire = WireOf(type) /\ Valid(f.data)
        hits == SelectSeq(unknown, Mine)
        data == Last(hits).data
    IN  IF hits = <<>> THEN default
        ELSE IF type \in VarintTypes THEN FromVarint(type, data) ELSE data
=============================================================================
