------------------------------ MODULE KeptFields ------------------------------
(***************************************************************************)
(* The fields a message keeps, and writing them back in the size computed  *)
(* beforehand (src/runtime/src/unknown_fields.rs: write_to, encoded_len).  *)
(***************************************************************************)
EXTENDS UnknownFields

CONSTANT MaxNesting     \* the recursion limit (100)

ASSUME NestingAssumption == MaxNesting \in Nat

(* Fields whose groups are nested at most so deep: UnknownFieldData.  What *)
(* is kept was decoded, so MaxNesting bounds its depth.                    *)
Fields[depth \in Nat] ==
    [number : Nat, wire : {"Varint"}, data : 0 .. Pow2[Width] - 1]
    \cup [number : Nat, wire : {"Fixed64", "Fixed32", "LengthDelimited"}, data : Seq(Byte)]
    \cup IF depth = 0 THEN {}
         ELSE [number : Nat, wire : {"StartGroup"}, data : Seq(Fields[depth - 1])]

(* A value without its tag; inner writes the fields of a group.            *)
WriteData(f, inner) ==
    CASE f.wire = "Varint" -> EncodeVarint[f.data]
      [] f.wire \in {"Fixed64", "Fixed32"} -> f.data
      [] f.wire = "LengthDelimited" -> EncodeVarint[Len(f.data)] \o f.data
      [] f.wire = "StartGroup" ->
            FlattenSeq([i \in DOMAIN f.data |-> inner[f.data[i]]])
            \o EncodeTag(f.number, "EndGroup")

Written[depth \in Nat] == [f \in Fields[depth] |->
    EncodeTag(f.number, f.wire) \o WriteData(f, Written[depth - 1])]
WriteField(f) == Written[MaxNesting][f]

WriteFields(fields) == FlattenSeq([i \in DOMAIN fields |-> WriteField(fields[i])])

(* Mutation: the size of a group leaves out its EndGroup tag.              *)
GroupLenOpen(number, lens) == Total(lens)

(* The inner fields and the EndGroup tag.                                  *)
GroupLen(number, lens) ==
    Total(lens)
    + VarintLen(number * 8 + WireCode["EndGroup"])

DataLen(f, inner) ==
    CASE f.wire = "Varint" -> VarintLen(f.data)
      [] f.wire = "Fixed64" -> Fixed64Len
      [] f.wire = "Fixed32" -> Fixed32Len
      [] f.wire = "LengthDelimited" -> VarintLen(Len(f.data)) + Len(f.data)
      [] f.wire = "StartGroup" ->
            GroupLen(f.number, [i \in DOMAIN f.data |-> inner[f.data[i]]])

Sized[depth \in Nat] == [f \in Fields[depth] |->
    VarintLen(f.number * 8 + WireCode[f.wire]) + DataLen(f, Sized[depth - 1])]
FieldLen(f) == Sized[MaxNesting][f]

FieldsLen(fields) == Total([i \in DOMAIN fields |-> FieldLen(fields[i])])
=============================================================================
