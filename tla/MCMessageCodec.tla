--------------------------- MODULE MCMessageCodec ---------------------------
(***************************************************************************)
(* A message of type Root on its way to a receiver: its fields arrive as   *)
(* fragments appended to a stream, in any order and as often as they like, *)
(* and relays in between decode the stream with a schema of their own,     *)
(* perhaps an older one, and encode it again.  `sum` is what the fragments *)
(* mean, put together value by value without looking at bytes.             *)
(***************************************************************************)
EXTENDS MessageCodec

CONSTANTS
    Root,           \* the message type of sender and receiver
    Relays,         \* the types relays decode with
    Fragments,      \* what may arrive
    MaxParts,       \* fragments delivered at most
    MaxHops         \* relays passed at most

VARIABLES
    stream,         \* the bytes
    parts,          \* the fragments delivered
    hops,           \* relays passed
    sum             \* the meaning of parts

vars == <<stream, parts, hops, sum>>

Desc == Schema[Root]
Received == Decode(Desc, stream, MaxNesting, 0)

----------------------------------------------------------------------------
(* Fragments: the values of one field, packed or one at a time, or a field *)
(* the receiver does not know.                                             *)
Values(number, values) == [number |-> number, values |-> values, form |-> "single"]
Packed(number, values) == [number |-> number, values |-> values, form |-> "packed"]
Foreign(field) == [number |-> field.number, values |-> field, form |-> "foreign"]

Bytes(f) ==
    LET fd == Desc[f.number]
        Each(Write(_)) == FlattenSeq([i \in DOMAIN f.values |-> Write(f.values[i])])
    IN  CASE f.form = "foreign" -> WriteField(f.values)
          [] f.form = "packed" ->
                EncodePacked(f.number, [i \in DOMAIN f.values |-> WriteScalar(fd.type, f.values[i])])
          [] fd.card = "map" -> Each(LAMBDA pair : WriteEntry(f.number, fd, pair))
          [] OTHER -> Each(LAMBDA v : WriteValue(f.number, fd, v))

(* The meaning of a message: a map is the set of its pairs.                *)
RECURSIVE Meaning(_, _)
Meaning(desc, msg) ==
    LET Value(fd, v) == IF fd.type = "message" THEN Meaning(Schema[fd.of], v) ELSE v
        FieldMeaning(fd, vs) == IF fd.card = "map" THEN {<<vs[i][1], Value(fd, vs[i][2])>> : i \in DOMAIN vs}
                          ELSE [i \in DOMAIN vs |-> Value(fd, vs[i])]
    IN  [msg EXCEPT !.fields = [n \in DOMAIN msg.fields |-> FieldMeaning(desc[n], msg.fields[n])]]

(* Two meanings joined, the later one second: singular messages are joined *)
(* in turn, a member of a oneof evicts the others, repeated fields are     *)
(* concatenated, and the rest is replaced by what the later one has.       *)
RECURSIVE Joined(_, _, _)
JoinedValues(fd, old, new) ==
    CASE fd.card = "repeated" -> old \o new
      [] fd.card = "map" -> {p \in old : \A q \in new : q[1] # p[1]} \cup new
      [] fd.type = "message" /\ fd.oneof = "" /\ old # <<>> /\ new # <<>> ->
            <<Joined(Schema[fd.of], old[1], new[1])>>
      [] OTHER -> IF new # <<>> THEN new ELSE old

JoinedFields(desc, old, new) ==
    LET Set(n) == desc[n].card # "map" /\ new[n] # <<>>
        Evicted(n) == /\ desc[n].oneof # "" /\ ~Set(n)
                      /\ \E r \in DOMAIN new : Set(r) /\ desc[r].oneof = desc[n].oneof
    IN  [n \in DOMAIN old |->
            IF Evicted(n) THEN <<>> ELSE JoinedValues(desc[n], old[n], new[n])]

Joined(desc, a, b) ==
    LET Sent(n) == IF desc[n].card = "plain" /\ IsZero(desc[n].type, b.fields[n][1])
                   THEN <<>> ELSE b.fields[n]
    IN  [fields |-> JoinedFields(desc, a.fields, [n \in DOMAIN b.fields |-> Sent(n)]),
         unknown |-> a.unknown \o b.unknown]

With(meaning, f) ==
    LET alone == Meaning(Desc, [fields |-> [n \in DOMAIN meaning.fields |->
                                    IF n = f.number THEN f.values ELSE <<>>],
                                unknown |-> <<>>])
    IN  IF f.form = "foreign" THEN [meaning EXCEPT !.unknown = Append(@, f.values)]
        ELSE [meaning EXCEPT !.fields = JoinedFields(Desc, @, alone.fields)]

----------------------------------------------------------------------------
Init == /\ stream = <<>> /\ parts = <<>> /\ hops = 0
        /\ sum = Meaning(Desc, Default(Desc))

Deliver(f) ==
    /\ Len(parts) < MaxParts
    /\ stream' = stream \o Bytes(f)
    /\ parts' = Append(parts, f)
    /\ sum' = With(sum, f)
    /\ UNCHANGED hops

Relay(m) ==
    LET read == Decode(Schema[m], stream, MaxNesting, 0)
    IN  /\ hops < MaxHops
        /\ read.ok
        /\ stream' = WriteMessage(Schema[m], read.val)
        /\ hops' = hops + 1
        /\ UNCHANGED <<parts, sum>>

Next == \/ \E f \in Fragments : Deliver(f)
        \/ \E m \in Relays : Relay(m)

Spec == Init /\ [][Next]_vars

----------------------------------------------------------------------------
(* Hops preserve meaning: whatever was delivered and whichever schemas the *)
(* relays know, the receiver decodes the stream to what the fragments      *)
(* mean: fields relays keep as unknown are merged as if never touched.     *)
OwnedIsSum == Received.ok /\ Meaning(Desc, Received.val) = sum

(* Encoding is stable: what is decoded is encoded in compute_size's bytes  *)
(* and decodes to the same message, canonical or not as the stream was.    *)
ReencodeStable ==
    LET read == Received
        out == WriteMessage(Desc, read.val)
    IN  /\ Len(out) = SizeOf(Desc, read.val)
        /\ Decode(Desc, out, MaxNesting, 0) = read

RECURSIVE Stripped(_, _)
Stripped(desc, meaning) ==
    LET Value(fd, v) == IF fd.type = "message" THEN Stripped(Schema[fd.of], v) ELSE v
        FieldMeaning(fd, vs) == IF fd.card = "map" THEN {<<p[1], Value(fd, p[2])>> : p \in vs}
                          ELSE [i \in DOMAIN vs |-> Value(fd, vs[i])]
    IN  [fields |-> [n \in DOMAIN meaning.fields |->
                        FieldMeaning(desc[n], meaning.fields[n])],
         unknown |-> <<>>]

(* Was a singular message delivered in several parts?  (A view keeps the   *)
(* last one: rust_gen_runtime.rs stores Some(view) where the owned decoder *)
(* merges.)                                                                *)
Split == \E i, j \in DOMAIN parts :
            /\ i < j /\ parts[i].number = parts[j].number
            /\ parts[i].number \in DOMAIN Desc
            /\ LET fd == Desc[parts[i].number]
               IN  fd.card = "optional" /\ fd.type = "message" /\ fd.oneof = ""

(* The two decoders tell the same story: a stream is refused by the view   *)
(* only for a packed field; a view it gives, turned into an owned message, *)
(* is the owned message but for unknown fields, unless a singular message  *)
(* came in parts.                                                          *)
ViewAgrees ==
    LET view == DecodeView(Desc, stream, MaxNesting)
    IN  /\ ~view.ok => /\ view.err = "WireTypeMismatch"
                       /\ \E n \in DOMAIN Desc :
                            IsPackedField(Desc[n]) /\ sum.fields[n] # <<>>
        /\ view.ok /\ ~Split =>
              Meaning(Desc, IntoOwned(Desc, view.val)) = Stripped(Desc, sum)

(* An extension is read as the value of its last occurrence, wherever the  *)
(* relays put the unknown fields it is kept in.                            *)
ExtensionLast ==
    LET Mine(f) == f.form = "foreign" /\ f.number = 15 /\ f.values.wire = "Varint"
        sent == SelectSeq(parts, Mine)
    IN  ExtensionGet(Received.val.unknown, 15, "sint32", 0)
            = IF sent = <<>> THEN 0
              ELSE FromVarint("sint32", Last(sent).values.data)

----------------------------------------------------------------------------
(* What the documents say.                                                 *)

RECURSIVE Nesting(_, _)
Nesting(desc, msg) ==
    LET inner == UNION {{Nesting(Schema[desc[n].of], msg.fields[n][i]) : i \in DOMAIN msg.fields[n]} :
                            n \in {k \in DOMAIN desc : desc[k].type = "message"}}
    IN  1 + Max({0} \cup inner)

(* message.rs: recursion_limit is the "Maximum recursion depth for nested  *)
(* messages."                                                              *)
NestingLimited == Received.ok => Nesting(Desc, Received.val) - 1 <= MaxNesting

(* The closed enums of the schema, each with the numbers it declares.      *)
ClosedEnums == "E" :> {0, 1}

(* enumeration.rs: "For closed enums (proto2 default, editions with        *)
(* `CLOSED`), unknown values are routed to unknown fields at the message   *)
(* level instead": whatever was sent and relayed, a field of a closed enum *)
(* holds none but declared numbers.                                        *)
ClosedEnumsRouted ==
    Received.ok =>
        \A n \in DOMAIN Desc : Desc[n].of \in DOMAIN ClosedEnums =>
            Range(Received.val.fields[n]) \subseteq ClosedEnums[Desc[n].of]

----------------------------------------------------------------------------
(* Instances.                                                              *)

N == 1 :> Singular("int32") @@ 2 :> RepeatedOf("string") @@ 3 :> SingularMessage("N")
OldN == 1 :> Singular("int32")

MCSchema ==
    "M" :> (1 :> Singular("int32") @@ 2 :> SingularMessage("N") @@ 3 :> RepeatedOf("sint32")
            @@ 4 :> MapOf("int32", "message", "N")
            @@ 5 :> Member("o", "bool", "") @@ 6 :> Member("o", "message", "N")
            @@ 7 :> Field(Proto2, "optional", "enum", "E"))
    @@ "OldM" :> (1 :> Singular("int32") @@ 2 :> SingularMessage("OldN")
                  @@ 4 :> MapOf("int32", "message", "OldN"))
    @@ "N" :> N @@ "OldN" :> OldN

Made(m, values) == [Default(Schema[m]) EXCEPT !.fields = values @@ @]
Leaf(x) == Made("N", 1 :> <<x>>)
Chain == Made("N", 3 :> <<Leaf(1)>>)

(* Every kind of field, split messages, both forms of a list, two entries  *)
(* of a key, rival members of a oneof and fields nobody knows.             *)
MCFragments ==
    {Values(1, <<3>>), Values(1, <<0>>),
     Values(2, <<Leaf(1)>>), Values(2, <<Made("N", 2 :> <<<<65>>>>)>>),
     Values(3, <<-1, 2>>), Packed(3, <<1, -2>>),
     Values(4, <<<<1, Leaf(1)>>>>), Values(4, <<<<1, Chain>>>>),
     Values(5, <<FALSE>>), Values(6, <<Leaf(0)>>),
     Values(7, <<0>>),
     Foreign(UnknownField(15, "Varint", 3)), Foreign(UnknownField(15, "Varint", 4)),
     Foreign(UnknownField(14, "StartGroup", <<UnknownField(1, "Fixed32", <<7>>)>>))}

EnumFragments == {Values(1, <<3>>), Values(7, <<1>>), Values(7, <<2>>)}

ChainFragments == {Values(1, <<1>>), Values(3, <<Chain>>), Values(3, <<Made("N", 3 :> <<Chain>>)>>)}
=============================================================================
