---------------------------- MODULE UnknownFields ----------------------------
(***************************************************************************)
(* What the runtime does with a field the schema does not know:            *)
(* src/runtime/src/unknown_fields.rs keeps it (decode_unknown_field) and   *)
(* writes it back, wire.rs's skip_field steps over it.  Both recurse into  *)
(* groups and count the nesting down from a limit.                         *)
(***************************************************************************)
EXTENDS Wire

UnknownField(number, wire, data) ==
    [number |-> number, wire |-> wire, data |-> data]

----------------------------------------------------------------------------
(* Stepping over.                                                          *)

(* A value that is not a group.                                            *)
SkipPlain(buf, wire) ==
    CASE wire = "Varint" -> DecodeVarint(buf)
      [] wire = "Fixed64" -> DecodeFixed64(buf)
      [] wire = "Fixed32" -> DecodeFixed32(buf)
      [] wire = "LengthDelimited" -> Delimited(buf)
      [] wire = "EndGroup" -> Ok("skipped", 0)

(* The value at pos; group answers for the groups one level further down.  *)
SkipValue(buf, pos, wire, limit, group) ==
    IF wire = "StartGroup"
    THEN IF limit = 0 THEN Fail("RecursionLimitExceeded") ELSE group[limit - 1][pos]
    ELSE Then(SkipPlain(From(buf, pos), wire), LAMBDA val, used : Ok("skipped", pos + used))

(* Mutation: the nesting of groups inside a skipped group is not counted.  *)
SkipGroupFlat(buf) ==
    LET Loop[limit \in Nat] == [pos \in Nat |-> AfterTag(buf, pos, LAMBDA tag, at :
            IF tag.wire = "EndGroup" THEN Ok("skipped", at)
            ELSE Then(SkipValue(buf, at, tag.wire, limit + 1, Loop),
                      LAMBDA skipped, next : Loop[limit][next]))]
    IN  Loop

(* Mutation: the bytes of the EndGroup tag are not counted.                *)
SkipGroupShort(buf) ==
    LET Loop[limit \in Nat] == [pos \in Nat |-> AfterTag(buf, pos, LAMBDA tag, at :
            IF tag.wire = "EndGroup" THEN Ok("skipped", pos)
            ELSE Then(SkipValue(buf, at, tag.wire, limit, Loop),
                      LAMBDA skipped, next : Loop[limit][next]))]
    IN  Loop

(* The loop over a group from pos, with the limit left for what is in it:  *)
(* any EndGroup tag ends it.                                               *)
SkipGroup(buf) ==
    LET Loop[limit \in Nat] == [pos \in Nat |-> AfterTag(buf, pos, LAMBDA tag, at :
            IF tag.wire = "EndGroup" THEN Ok("skipped", at)
            ELSE Then(SkipValue(buf, at, tag.wire, limit, Loop),
                      LAMBDA skipped, next : Loop[limit][next]))]
    IN  Loop

SkipField(buf, wire, limit) == SkipValue(buf, 0, wire, limit, SkipGroup(buf))

----------------------------------------------------------------------------
(* Keeping.                                                                *)

DecodePlain(buf, wire) ==
    CASE wire = "Varint" -> DecodeVarint(buf)
      [] wire = "Fixed64" -> DecodeFixed64(buf)
      [] wire = "Fixed32" -> DecodeFixed32(buf)
      [] wire = "LengthDelimited" -> Content(buf)
      [] wire = "EndGroup" -> Fail("Custom")

DecodeValue(buf, pos, number, wire, limit, group) ==
    LET read == IF wire = "StartGroup"
                THEN IF limit = 0 THEN Fail("RecursionLimitExceeded")
                     ELSE group[limit - 1][number][pos]
                ELSE Then(DecodePlain(From(buf, pos), wire), LAMBDA val, used : Ok(val, pos + used))
    IN  Mapped(read, LAMBDA data : UnknownField(number, wire, data))

(* The inner fields of a group from pos on: only the group's own EndGroup  *)
(* tag ends it.                                                            *)
DecodeGroup(buf) ==
    LET Loop[limit \in Nat] == [number \in Nat |-> [pos \in Nat |->
            AfterTag(buf, pos, LAMBDA tag, at :
                IF tag.wire = "EndGroup"
                THEN IF tag.number = number THEN Ok(<<>>, at) ELSE Fail("Custom")
                ELSE Then(DecodeValue(buf, at, tag.number, tag.wire, limit, Loop),
                          LAMBDA field, next :
                              Mapped(Loop[limit][number][next],
                                     LAMBDA inner : <<field>> \o inner)))]]
    IN  Loop

DecodeUnknownField(buf, number, wire, limit) ==
    DecodeValue(buf, 0, number, wire, limit, DecodeGroup(buf))
=============================================================================
