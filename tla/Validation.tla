----------------------------- MODULE Validation -----------------------------
(***************************************************************************)
(* The checks of the analyzer once types are resolved                      *)
(* (src/analyzer/src/validate.rs and validate_all in lib.rs), and the      *)
(* labels of the descriptor set it returns.                                *)
(*                                                                         *)
(* A check in the code returns the first error it finds; here each check   *)
(* is the condition under which it finds none, so that which error is      *)
(* reported first is abstracted and whether a file is refused is not.      *)
(* validate_message calls itself for nested messages: a file has all its   *)
(* messages in one sequence, each with its path, the names of the messages *)
(* around it and its own.                                                  *)
(*                                                                         *)
(* field:   name, number, json, label ("" when none is written), default   *)
(*          (<<>> when there is none), oneof (0 or a position), type,        *)
(*          of (the full name of its enum), options                        *)
(* range:   start, end; end is exclusive, in an enum inclusive             *)
(* option:  name (its parts, or those of the extension in parentheses),    *)
(*          extension, rooted (does the extension's name begin with "."),  *)
(*          value ("string", "number" or an identifier)                    *)
(* A declared name is a sequence of characters, a package and a path are   *)
(* sequences of declared names.  Extensions declared in a message are not  *)
(* validated and left out.                                                 *)
(***************************************************************************)
EXTENDS Integers, Sequences, FiniteSets, SequencesExt, Functions

CONSTANTS
    MaxFieldNumber,             \* 536870911
    ReservedStart, ReservedEnd, \* 19000, 19999
    UpperCase                   \* the upper case of every character but "_"

ASSUME NumbersAssumption ==
    /\ MaxFieldNumber \in Nat \ {0}
    /\ ReservedStart \in Nat /\ ReservedEnd \in Nat

----------------------------------------------------------------------------
(* What the parser hands over: the parts of the descriptor types, and of   *)
(* these parts what the checks count on.                                   *)

RangeType == [start : Int, end : Int]

IsField(field) ==
    /\ DOMAIN field = {"name", "number", "json", "label", "default", "oneof", "type", "of", "options"}
    /\ field.number \in Int

IsMessage(msg) ==
    /\ DOMAIN msg = {"path", "fields", "reserved", "reservedNames", "extensions", "oneofs",
                     "options", "mapEntry", "messageSet"}
    /\ msg.fields \in Seq({msg.fields[i] : i \in DOMAIN msg.fields})
    /\ \A i \in DOMAIN msg.fields : IsField(msg.fields[i])
    /\ msg.reserved \in Seq(RangeType) /\ msg.extensions \in Seq(RangeType)

IsFile(file) ==
    /\ DOMAIN file = {"syntax", "package", "imports", "optionImports", "messages", "enums",
                      "services", "extensions", "options", "lite"}
    /\ \A i \in DOMAIN file.messages : IsMessage(file.messages[i])

----------------------------------------------------------------------------
(* Ranges and names.                                                       *)

InRange(n, range) == range.start <= n /\ n < range.end
(* Mutation: a range is only compared with what begins inside it.          *)
MeetInside(r, s) == r.start <= s.start /\ s.start < r.end

Meet(r, s) == r.start < s.end /\ s.start < r.end

NoOverlaps(ranges) == \A i, j \in DOMAIN ranges : i < j => ~Meet(ranges[i], ranges[j])
NoCrossOverlaps(as, bs) == \A i \in DOMAIN as, j \in DOMAIN bs : ~Meet(as[i], bs[j])

(* Mutation: only neighbours are compared.                                 *)
DistinctNeighbours(seq) == \A i \in DOMAIN seq : i > 1 => seq[i - 1] # seq[i]

Distinct(seq) == \A i, j \in DOMAIN seq : i < j => seq[i] # seq[j]
NamesOf(decls) == [i \in DOMAIN decls |-> decls[i].name]
Has(seq, x) == \E i \in DOMAIN seq : seq[i] = x

(* to_camel_case: "_" is dropped and the next character is a capital.      *)
CamelCase(name) ==
    LET Add(acc, c) == IF c = "_" THEN [acc EXCEPT !.capital = TRUE]
                       ELSE [out |-> Append(acc.out, IF acc.capital THEN UpperCase[c] ELSE c),
                             capital |-> FALSE]
    IN  FoldLeft(Add, [out |-> <<>>, capital |-> FALSE], name).out

----------------------------------------------------------------------------
(* Options.                                                                *)

StringOptions ==
    {"java_package", "java_outer_classname", "go_package", "objc_class_prefix",
     "csharp_namespace", "swift_prefix", "php_class_prefix", "php_namespace",
     "php_metadata_namespace", "ruby_package"}
BoolOptions ==
    {"java_multiple_files", "java_generate_equals_and_hash", "java_string_check_utf8",
     "cc_generic_services", "java_generic_services", "py_generic_services",
     "deprecated", "cc_enable_arenas"}
KnownFileOptions ==
    [o \in StringOptions \cup BoolOptions \cup {"optimize_for"} |->
        IF o \in StringOptions THEN "String" ELSE IF o \in BoolOptions THEN "Bool" ELSE "Enum"]

KnownFieldOptions ==
    [o \in {"ctype", "jstype", "packed", "lazy", "deprecated", "weak"} |->
        IF o \in {"ctype", "jstype"} THEN "Enum" ELSE "Bool"]

(* Only options of one part outside parentheses are looked up.             *)
KnownOption(option, known) ==
    LET name == option.name[1]
    IN  Len(option.name) = 1 /\ ~option.extension =>
            /\ name \in DOMAIN known
            /\ known[name] = "String" => option.value # "number"
            /\ known[name] = "Enum" => option.value \notin {"number", "string"}

KnownOptions(options, known) == \A i \in DOMAIN options : KnownOption(options[i], known)

----------------------------------------------------------------------------
(* Messages.                                                               *)

ValidNumber(msg, field) ==
    /\ field.number \in 1 .. MaxFieldNumber
    /\ field.number \notin ReservedStart .. ReservedEnd
    /\ \A i \in DOMAIN msg.reserved : ~InRange(field.number, msg.reserved[i])
    /\ ~Has(msg.reservedNames, field.name)

ValidField(msg, field, proto3) ==
    /\ ValidNumber(msg, field)
    /\ proto3 => field.label # "required" /\ field.default = <<>>
    /\ KnownOptions(field.options, KnownFieldOptions)

ValidFields(msg, proto3) ==
    /\ Distinct(NamesOf(msg.fields))
    /\ Distinct([i \in DOMAIN msg.fields |-> msg.fields[i].number])
    /\ \A i \in DOMAIN msg.fields : ValidField(msg, msg.fields[i], proto3)

ValidRanges(msg, proto3) ==
    /\ \A i \in DOMAIN msg.extensions :
          1 <= msg.extensions[i].start /\ msg.extensions[i].start < msg.extensions[i].end
    /\ proto3 => msg.extensions = <<>>
    /\ \A i \in DOMAIN msg.reserved : msg.reserved[i].start < msg.reserved[i].end
    /\ NoOverlaps(msg.reserved)
    /\ NoOverlaps(msg.extensions)
    /\ NoCrossOverlaps(msg.extensions, msg.reserved)
    /\ \A i \in DOMAIN msg.fields, j \in DOMAIN msg.extensions :
          ~InRange(msg.fields[i].number, msg.extensions[j])

(* A JSON name is the author's own if it differs from the default one.     *)
Custom(field) == field.json # CamelCase(field.name)

(* The first field of a JSON name stays in the table: a later one is       *)
(* compared with it alone.  In proto2 two custom names conflict, in proto3 *)
(* any two.                                                                *)
NoJsonConflicts(fields, checkDefault) ==
    LET First(i) == \A j \in 1 .. (i - 1) : fields[j].json # fields[i].json
    IN  \A i, j \in DOMAIN fields :
            /\ i < j /\ fields[i].json = fields[j].json /\ First(i)
            => ~checkDefault /\ ~(Custom(fields[i]) /\ Custom(fields[j]))

LegacyJson(msg) ==
    \E i \in DOMAIN msg.options :
        /\ msg.options[i].name = <<"deprecated_legacy_json_field_conflicts">>
        /\ ~msg.options[i].extension /\ msg.options[i].value = "true"

(* A oneof of a name met before is that earlier one.                       *)
OneofsFilled(msg) ==
    \A i \in DOMAIN msg.oneofs :
        \E j \in DOMAIN msg.fields : LET o == msg.fields[j].oneof IN
            /\ o \in 1 .. i /\ msg.oneofs[o] = msg.oneofs[i]
            /\ \A k \in 1 .. (o - 1) : msg.oneofs[k] # msg.oneofs[i]

(* A map entry is only checked for the type of its key.                    *)
ValidMapEntry(msg) ==
    msg.fields # <<>> =>
        msg.fields[1].type \notin {"float", "double", "bytes", "message", "group", "enum"}

(* The parts of an option's name as written, the leading dot of an         *)
(* extension's name included.                                              *)
NoExplicitEntry(msg) ==
    \A i \in DOMAIN msg.options :
        LET option == msg.options[i]
        IN  IF option.extension
            THEN option.rooted \/ option.name # <<<<"m", "a", "p", "_", "e", "n", "t", "r", "y">>>>
            ELSE ~Has(option.name, "map_entry")

ValidMessage(msg, proto3) ==
    /\ ValidFields(msg, proto3)
    /\ ValidRanges(msg, proto3)
    /\ ~LegacyJson(msg) => NoJsonConflicts(msg.fields, proto3)
    /\ Len(msg.path) > 1 => NoExplicitEntry(msg)
    /\ OneofsFilled(msg)
    /\ proto3 => ~msg.messageSet

----------------------------------------------------------------------------
(* Enums, services, extensions.                                            *)

ValidEnum(e, proto3) ==
    /\ proto3 /\ e.values # <<>> => e.values[1].number = 0
    /\ Distinct(NamesOf(e.values))
    /\ ~e.allowAlias => Distinct([i \in DOMAIN e.values |-> e.values[i].number])
    /\ \A i \in DOMAIN e.reserved : e.reserved[i].start <= e.reserved[i].end
    /\ \A i, j \in DOMAIN e.reserved :
          i < j => e.reserved[i].end < e.reserved[j].start \/ e.reserved[j].end < e.reserved[i].start
    /\ \A i \in DOMAIN e.values, j \in DOMAIN e.reserved :
          e.values[i].number \notin e.reserved[j].start .. e.reserved[j].end
    /\ \A i \in DOMAIN e.values : ~Has(e.reservedNames, e.values[i].name)
    /\ Distinct(e.reservedNames)

ValidService(service) == Distinct(service.methods)

ValidExtension(ext) == ~Custom(ext)

----------------------------------------------------------------------------
(* Files.                                                                  *)

IsProto3(file) == file.syntax = "proto3"

TopNames(file) ==
    LET Top(decl) == Len(decl.path) = 1
        Names(decls) == LET top == SelectSeq(decls, Top) IN [i \in DOMAIN top |-> top[i].path[1]]
    IN  Names(file.messages) \o Names(file.enums) \o NamesOf(file.services)

ValidFile(file) ==
    /\ Distinct(file.imports \o file.optionImports)
    /\ Distinct(TopNames(file))
    /\ \A i \in DOMAIN file.messages :
          IF file.messages[i].mapEntry THEN ValidMapEntry(file.messages[i])
          ELSE ValidMessage(file.messages[i], IsProto3(file))
    /\ \A i \in DOMAIN file.enums : ValidEnum(file.enums[i], IsProto3(file))
    /\ \A i \in DOMAIN file.services : ValidService(file.services[i])
    /\ \A i \in DOMAIN file.extensions : ValidExtension(file.extensions[i])
    /\ IsProto3(file) => file.extensions = <<>>
    /\ KnownOptions(file.options, KnownFileOptions)

(* validate_lite_imports; files is the function of the loaded files.       *)
LiteImports(files) ==
    \A f \in DOMAIN files : ~files[f].lite =>
        \A i \in DOMAIN files[f].imports :
            files[f].imports[i] \in DOMAIN files => ~files[files[f].imports[i]].lite

(* validate_enum_defaults.                                                 *)
EnumDefaults(files) ==
    LET Names(file, i) == {file.enums[i].values[k].name : k \in DOMAIN file.enums[i].values}
    IN  \A f, g \in DOMAIN files : \A m \in DOMAIN files[f].messages :
        \A k \in DOMAIN files[f].messages[m].fields : \A i \in DOMAIN files[g].enums :
            LET field == files[f].messages[m].fields[k]
            IN  /\ field.type = "enum" /\ field.default # <<>>
                /\ field.of = files[g].package \o files[g].enums[i].path
                => field.default \in Names(files[g], i)

(* resolve_extension_name: the scopes of the package from the innermost    *)
(* outwards, then the global one.  A package that has the name's first     *)
(* part ends the search.                                                   *)
ExtensionFound(symbols, package, option) ==
    LET Kind(full) == IF full \in DOMAIN symbols THEN symbols[full] ELSE "none"
        First(k) == Kind(SubSeq(package, 1, k) \o <<option.name[1]>>)
        Found(k) == Kind(SubSeq(package, 1, k) \o option.name) = "Extension"
        Inner == IF option.rooted THEN {} ELSE 1 .. Len(package)
    IN  \E k \in Inner \cup {0} :
            /\ Found(k) /\ (k > 0 => First(k) # "none")
            /\ \A j \in Inner : j > k => ~(First(j) = "Package" /\ ~Found(j))

ExtensionOptions(files, symbols) ==
    \A f \in DOMAIN files : \A i \in DOMAIN files[f].options :
        LET option == files[f].options[i]
        IN  option.extension => ExtensionFound(symbols, files[f].package, option)

(* get_feature_value: the identifier the first option of that name has.    *)
Feature(options, name) ==
    LET Sets(i) == /\ Len(options[i].name) >= 2 /\ ~options[i].extension
                   /\ SubSeq(options[i].name, 1, 2) = <<"features", name>>
        first == {i \in DOMAIN options : Sets(i) /\ \A k \in 1 .. (i - 1) : ~Sets(k)}
    IN  {options[i].value : i \in first} \ {"string", "number"}

(* validate_feature_values; "UNKNOWN" stands for <FEATURE>_UNKNOWN.        *)
FeaturesKnown(options) ==
    \A i \in DOMAIN options :
        Len(options[i].name) >= 2 /\ options[i].name[1] = "features" /\ ~options[i].extension
            => options[i].value # "UNKNOWN"

(* validate_features: a field's own presence, else the file's.             *)
ValidFeatures(file) ==
    LET Presence(field) ==
            IF Feature(field.options, "field_presence") # {}
            THEN Feature(field.options, "field_presence")
            ELSE Feature(file.options, "field_presence")
    IN  file.syntax = "editions" =>
            /\ FeaturesKnown(file.options)
            /\ \A m \in DOMAIN file.messages : \A k \in DOMAIN file.messages[m].fields :
                  LET field == file.messages[m].fields[k]
                  IN  /\ FeaturesKnown(field.options)
                      /\ Presence(field) = {"IMPLICIT"} => field.default = <<>>

(* validate_all.                                                           *)
ValidAll(files, symbols) ==
    /\ \A f \in DOMAIN files : ValidFile(files[f])
    /\ LiteImports(files)
    /\ EnumDefaults(files)
    /\ ExtensionOptions(files, symbols)
    /\ \A f \in DOMAIN files : ValidFeatures(files[f])

(* into_descriptor_set: a field without a label is optional.               *)
Labelled(fields) ==
    [i \in DOMAIN fields |-> [fields[i] EXCEPT !.label = IF @ = "" THEN "optional" ELSE @]]
Normalized(file) ==
    LET Message(msg) == [msg EXCEPT !.fields = Labelled(msg.fields)]
    IN  [file EXCEPT !.messages = [i \in DOMAIN file.messages |-> Message(file.messages[i])],
                     !.extensions = Labelled(file.extensions)]

----------------------------------------------------------------------------
(* What an accepted message promises: a number has one owner at most among *)
(* its fields, its reserved ranges and its extension ranges.               *)
Owners(msg, n) ==
    {<<"field", i>> : i \in {k \in DOMAIN msg.fields : msg.fields[k].number = n}}
    \cup {<<"reserved", i>> : i \in {k \in DOMAIN msg.reserved : InRange(n, msg.reserved[k])}}
    \cup {<<"extension", i>> : i \in {k \in DOMAIN msg.extensions : InRange(n, msg.extensions[k])}}

OwnedOnce(msg, n) == \A o, p \in Owners(msg, n) : o = p
=============================================================================
