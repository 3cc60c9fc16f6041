------------------------------- MODULE MCWire -------------------------------
(***************************************************************************)
(* A buffer that grows by a byte at a time, given to every decoder: what a *)
(* decoder answers is compared with what it answered when the buffer was   *)
(* shorter, and what it accepts is written again.                          *)
(***************************************************************************)
EXTENDS FieldReader, Annotator

----------------------------------------------------------------------------
(* The annotator beside the generated decoder, for messages of one field.  *)

Shown(regions) ==
    [r \in DOMAIN regions |-> [i \in DOMAIN regions[r].children |-> regions[regions[r].children[i]]]]

(* Where the decoder reads past an end itself: the last varint of a packed *)
(* field, the last field of a map entry.                                   *)
ReadPast(desc, region) ==
    region.kind = "packed" \/ (region.kind = "message" /\ desc[1].card = "map")

(* walker.rs promises a tree: whatever the generated decoder accepts is    *)
(* walked, every region but the root has one parent, and the children of a *)
(* region cover its bytes without a gap or an overlap.                     *)
AnnotationTiles ==
    DecodeTag(buf).ok => \A m \in DOMAIN Schema : \A walk \in {Walk(m, buf)} :
        LET regions == walk.val
            inside == Shown(regions)
        IN  Decode(Schema[m], buf, MaxNesting, 0).ok =>
            /\ walk.ok \/ walk.err \in {"overflow", "MaxDepthExceeded"}
            /\ walk.ok => \A r \in DOMAIN regions :
                  /\ Cardinality({p \in DOMAIN regions : r \in Range(regions[p].children)})
                        = IF r = 1 THEN 0 ELSE 1
                  /\ regions[r].kind \in {"message", "packed"} /\ inside[r] = <<>>
                        => regions[r].from = regions[r].to
                  /\ inside[r] # <<>> =>
                        /\ inside[r][1].from = regions[r].from
                        /\ \A i \in 2 .. Len(inside[r]) : inside[r][i].from = inside[r][i - 1].to
                        /\ \/ Last(inside[r]).to = regions[r].to
                           \/ ReadPast(Schema[m], regions[r]) /\ Last(inside[r]).to > regions[r].to

(* The message that the regions show, and a decoded one without what it    *)
(* does not show.                                                          *)
RECURSIVE ShownMessage(_, _, _), KnownPart(_, _)
ShownMessage(regions, r, desc) ==
    LET groups == Shown(regions)[r]
        Values(fd, at) ==
            CASE regions[at].kind = "message" -> <<ShownMessage(regions, at, Schema[fd.of])>>
              [] regions[at].kind = "packed" ->
                    [i \in DOMAIN regions[at].children |->
                        LET v == Shown(regions)[at][i].value
                        IN  IF fd.type \in VarintTypes THEN FromVarint(fd.type, v) ELSE v]
              [] OTHER -> <<regions[at].value>>
        All(n) == FlattenSeq([i \in DOMAIN groups |->
                      IF groups[i].value = n THEN Values(desc[n], Last(groups[i].children)) ELSE <<>>])
    IN  [n \in DOMAIN desc |->
            CASE desc[n].card = "repeated" -> All(n)
              [] desc[n].card # "repeated" /\ All(n) = <<>> -> InitialField(desc[n])
              [] OTHER -> <<Last(All(n))>>]

KnownPart(desc, msg) ==
    [n \in DOMAIN msg.fields |->
        [i \in DOMAIN msg.fields[n] |->
            IF desc[n].type = "message" THEN KnownPart(Schema[desc[n].of], msg.fields[n][i])
            ELSE msg.fields[n][i]]]


----------------------------------------------------------------------------
MCSchema ==
    "Small" :> (1 :> Singular("sint32")) @@ "Longs" :> (1 :> RepeatedOf("sint64"))
    @@ "Fixed" :> (1 :> RepeatedOf("fixed32")) @@ "Raw" :> (1 :> RepeatedOf("bytes"))
    @@ "Long" :> (1 :> Singular("sint64"))
    @@ "Outer" :> (1 :> RepeatedMessage("Long")) @@ "Shadow" :> (1 :> RepeatedMessage("Long"))
    @@ "Map" :> (1 :> MapOf("int32", "bool", ""))
(* Shadow declares a message Long of its own, here Small.                  *)
MCNestedIn == [m \in DOMAIN MCSchema |-> IF m = "Shadow" THEN <<"Small">> ELSE <<>>]
MCShortName == [m \in DOMAIN MCSchema |-> IF m = "Small" THEN "Long" ELSE m]
=============================================================================
