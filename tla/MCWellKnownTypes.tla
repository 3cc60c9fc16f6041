-------------------------- MODULE MCWellKnownTypes --------------------------
(***************************************************************************)
(* A program sets fields of a well-known message, one at a time; every     *)
(* message it can build is encoded and read back.                          *)
(***************************************************************************)
EXTENDS WellKnownTypes

CONSTANTS
    Types,          \* the messages built
    MaxSets         \* fields set in one message

VARIABLES type, msg, sets

vars == <<type, msg, sets>>

(* Values of a field.  A message is empty or has every field set, one      *)
(* level deep.                                                             *)
RECURSIVE Sample(_, _)
Some(fd, depth) ==
    CASE fd.type = "message" -> {Default(Schema[fd.of])}
                                \cup (IF depth = 0 THEN {} ELSE {Sample(Schema[fd.of], depth - 1)})
      [] fd.type = "enum" -> {Min(EnumNumbers[fd.of]), Max(EnumNumbers[fd.of]), -1}
      [] fd.type = "bool" -> BOOLEAN
      [] fd.type \in {"int32", "int64"} -> {-1, 0, 127}
      [] fd.type \in {"uint32", "uint64"} -> {0, 255}
      [] fd.type \in {"string", "bytes"} -> {<<>>, <<65>>}
      [] fd.type \in {"float", "double"} -> {Zero(fd.type), [Zero(fd.type) EXCEPT ![1] = 1]}

FirstMember(desc, n) == \A k \in DOMAIN desc :
    k < n => desc[n].oneof = "" \/ desc[k].oneof # desc[n].oneof

Sample(desc, depth) ==
    LET Pick(fd) == CHOOSE v \in Some(fd, depth) : TRUE
    IN  [Default(desc) EXCEPT !.fields = [n \in DOMAIN @ |->
            CASE desc[n].card = "map" -> <<<<<<66>>, Pick(desc[n])>>>>
              [] desc[n].card # "map" /\ FirstMember(desc, n) -> <<Pick(desc[n])>>
              [] OTHER -> <<>>]]

Init == type \in Types /\ msg = Default(Schema[type]) /\ sets = 0

(* The program assigns a field, pushes to a list or inserts into a map.    *)
SetField(desc, n, v) ==
    /\ sets < MaxSets
    /\ msg' = IF desc[n].card = "map"
              THEN [msg EXCEPT !.fields[n] = Put(@, <<65 + sets>>, v)]
              ELSE Store(desc, msg, n, v)
    /\ sets' = sets + 1
    /\ UNCHANGED type

Next == \E desc \in {Schema[type]} : \E n \in DOMAIN desc : \E v \in Some(desc[n], 1) :
            SetField(desc, n, v)

Spec == Init /\ [][Next]_vars

----------------------------------------------------------------------------
(* Every well-known message is written in compute_size's bytes and read    *)
(* back as it was: negative numbers, unknown enum numbers, empty messages  *)
(* that are set and the recursion of Struct, Value and ListValue included. *)
WktRoundTrip ==
    \A desc \in {Schema[type]} : \A out \in {WriteMessage(desc, msg)} :
        /\ Len(out) = SizeOf(desc, msg)
        /\ Decode(desc, out, MaxNesting, 0) = Ok(msg, 0)

(* Read through the zero-copy view, it is the same message.                *)
WktViews ==
    \A desc \in {Schema[type]} :
        LET view == DecodeView(desc, WriteMessage(desc, msg), MaxNesting)
        IN  view.ok /\ IntoOwned(desc, view.val) = msg

(* The integer wrappers may be exchanged as protobuf promises: a narrow    *)
(* number is the same number for the wide reader (an int32 is extended by  *)
(* its sign), and a wide one is cut to the narrow type.                    *)
WrappersWiden ==
    LET v == msg.fields[1][1]
        Meant(as) == CASE type = "Int64Value" -> Signed(v, NumberWidth)
                       [] type = "BoolValue" -> IF v THEN 1 ELSE 0
                       [] OTHER -> v
    IN  \A as \in DOMAIN Schema :
            <<type, as>> \in {<<"Int32Value", "Int64Value">>, <<"UInt32Value", "UInt64Value">>,
                             <<"Int64Value", "Int32Value">>, <<"BoolValue", "Int32Value">>}
            => Decode(Schema[as], WriteMessage(Schema[type], msg), MaxNesting, 0).val.fields[1][1] = Meant(as)

AllTypes == DOMAIN WktSchema
=============================================================================
