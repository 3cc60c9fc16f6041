--------------------------- MODULE WellKnownTypes ---------------------------
(***************************************************************************)
(* The messages of the wkt crate (src/wkt/src/google_protobuf.rs and       *)
(* google_rpc.rs), whose code was generated ahead of time: one schema per  *)
(* message, read off its merge_field, write_to and view, for MessageCodec. *)
(***************************************************************************)
EXTENDS MessageCodec

Choice(enum) == Field(Proto3, "optional", "enum", enum)

----------------------------------------------------------------------------
(* google.protobuf                                                         *)

AnyMessage == 1 :> Singular("string") @@ 2 :> Singular("bytes")
Timestamp == 1 :> Singular("int64") @@ 2 :> Singular("int32")
Duration == 1 :> Singular("int64") @@ 2 :> Singular("int32")
Empty == <<>>

DoubleValue == 1 :> Singular("double")
FloatValue == 1 :> Singular("float")
Int64Value == 1 :> Singular("int64")
UInt64Value == 1 :> Singular("uint64")
Int32Value == 1 :> Singular("int32")
UInt32Value == 1 :> Singular("uint32")
BoolValue == 1 :> Singular("bool")
StringValue == 1 :> Singular("string")
BytesValue == 1 :> Singular("bytes")

Struct == 1 :> MapOf("string", "message", "Value")
Value ==
    1 :> Member("kind", "enum", "NullValue") @@ 2 :> Member("kind", "double", "")
    @@ 3 :> Member("kind", "string", "") @@ 4 :> Member("kind", "bool", "")
    @@ 5 :> Member("kind", "message", "Struct") @@ 6 :> Member("kind", "message", "ListValue")
ListValue == 1 :> RepeatedMessage("Value")

FieldMask == 1 :> RepeatedOf("string")
SourceContext == 1 :> Singular("string")

(* name, fields, oneofs, options, source_context, syntax, edition          *)
Type == 1 :> Singular("string") @@ 2 :> RepeatedMessage("Field") @@ 3 :> RepeatedOf("string")
        @@ 4 :> RepeatedMessage("Option") @@ 5 :> SingularMessage("SourceContext")
        @@ 6 :> Choice("Syntax") @@ 7 :> Singular("string")

(* kind, cardinality, number, name, type_url, oneof_index, packed,         *)
(* options, json_name, default_value; there is no field 5.                 *)
FieldOfType ==
    1 :> Choice("Kind") @@ 2 :> Choice("Cardinality") @@ 3 :> Singular("int32")
    @@ 4 :> Singular("string") @@ 6 :> Singular("string") @@ 7 :> Singular("int32")
    @@ 8 :> Singular("bool") @@ 9 :> RepeatedMessage("Option")
    @@ 10 :> Singular("string") @@ 11 :> Singular("string")

(* name, enumvalue, options, source_context, syntax, edition               *)
Enum == 1 :> Singular("string") @@ 2 :> RepeatedMessage("EnumValue")
        @@ 3 :> RepeatedMessage("Option") @@ 4 :> SingularMessage("SourceContext")
        @@ 5 :> Choice("Syntax") @@ 6 :> Singular("string")
EnumValue == 1 :> Singular("string") @@ 2 :> Singular("int32") @@ 3 :> RepeatedMessage("Option")
Option == 1 :> Singular("string") @@ 2 :> SingularMessage("Any")

(* name, methods, options, version, source_context, mixins, syntax,        *)
(* edition                                                                 *)
Api == 1 :> Singular("string") @@ 2 :> RepeatedMessage("Method")
       @@ 3 :> RepeatedMessage("Option") @@ 4 :> Singular("string")
       @@ 5 :> SingularMessage("SourceContext") @@ 6 :> RepeatedMessage("Mixin")
       @@ 7 :> Choice("Syntax") @@ 8 :> Singular("string")

(* name, request_type_url, request_streaming, response_type_url,           *)
(* response_streaming, options, syntax, edition                            *)
Method == 1 :> Singular("string") @@ 2 :> Singular("string") @@ 3 :> Singular("bool")
          @@ 4 :> Singular("string") @@ 5 :> Singular("bool")
          @@ 6 :> RepeatedMessage("Option") @@ 7 :> Choice("Syntax") @@ 8 :> Singular("string")
Mixin == 1 :> Singular("string") @@ 2 :> Singular("string")

(* The enums, by the numbers from_i32 knows.                               *)
NullValues == {0}
Kinds == 0 .. 18
Cardinalities == 0 .. 3
Syntaxes == 0 .. 2
EnumNumbers == "NullValue" :> NullValues @@ "Kind" :> Kinds
               @@ "Cardinality" :> Cardinalities @@ "Syntax" :> Syntaxes

----------------------------------------------------------------------------
(* google.rpc                                                              *)

Status == 1 :> Singular("int32") @@ 2 :> Singular("string") @@ 3 :> RepeatedMessage("Any")
ErrorInfo == 1 :> Singular("string") @@ 2 :> Singular("string")
             @@ 3 :> MapOf("string", "string", "")
RetryInfo == 1 :> SingularMessage("Duration")
DebugInfo == 1 :> RepeatedOf("string") @@ 2 :> Singular("string")

QuotaFailure == 1 :> RepeatedMessage("QuotaFailure.Violation")
(* subject, description, api_service, quota_metric, quota_id,              *)
(* quota_dimensions, quota_value, future_quota_value (optional)            *)
QuotaViolation ==
    [n \in 1 .. 5 |-> Singular("string")]
    @@ 6 :> MapOf("string", "string", "") @@ 7 :> Singular("int64")
    @@ 8 :> Field(Proto3, "proto3_optional", "int64", "")

PreconditionFailure == 1 :> RepeatedMessage("PreconditionFailure.Violation")
PreconditionViolation == [n \in 1 .. 3 |-> Singular("string")]

BadRequest == 1 :> RepeatedMessage("BadRequest.FieldViolation")
FieldViolation == [n \in 1 .. 3 |-> Singular("string")] @@ 4 :> SingularMessage("LocalizedMessage")

RequestInfo == 1 :> Singular("string") @@ 2 :> Singular("string")
ResourceInfo == [n \in 1 .. 4 |-> Singular("string")]
Help == 1 :> RepeatedMessage("Help.Link")
Link == 1 :> Singular("string") @@ 2 :> Singular("string")
LocalizedMessage == 1 :> Singular("string") @@ 2 :> Singular("string")

----------------------------------------------------------------------------
WktSchema ==
    "Any" :> AnyMessage @@ "Timestamp" :> Timestamp @@ "Duration" :> Duration @@ "Empty" :> Empty
    @@ "DoubleValue" :> DoubleValue @@ "FloatValue" :> FloatValue
    @@ "Int64Value" :> Int64Value @@ "UInt64Value" :> UInt64Value
    @@ "Int32Value" :> Int32Value @@ "UInt32Value" :> UInt32Value
    @@ "BoolValue" :> BoolValue @@ "StringValue" :> StringValue @@ "BytesValue" :> BytesValue
    @@ "Struct" :> Struct @@ "Value" :> Value @@ "ListValue" :> ListValue
    @@ "FieldMask" :> FieldMask @@ "SourceContext" :> SourceContext
    @@ "Type" :> Type @@ "Field" :> FieldOfType @@ "Enum" :> Enum @@ "EnumValue" :> EnumValue
    @@ "Option" :> Option @@ "Api" :> Api @@ "Method" :> Method @@ "Mixin" :> Mixin
    @@ "Status" :> Status @@ "ErrorInfo" :> ErrorInfo @@ "RetryInfo" :> RetryInfo
    @@ "DebugInfo" :> DebugInfo @@ "QuotaFailure" :> QuotaFailure
    @@ "QuotaFailure.Violation" :> QuotaViolation
    @@ "PreconditionFailure" :> PreconditionFailure
    @@ "PreconditionFailure.Violation" :> PreconditionViolation
    @@ "BadRequest" :> BadRequest @@ "BadRequest.FieldViolation" :> FieldViolation
    @@ "RequestInfo" :> RequestInfo @@ "ResourceInfo" :> ResourceInfo
    @@ "Help" :> Help @@ "Help.Link" :> Link @@ "LocalizedMessage" :> LocalizedMessage

=============================================================================
