--------------------------- MODULE MCCommandLine ---------------------------
(***************************************************************************)
(* Two kinds of source trees for the command: one file under the hands of  *)
(* an author who keeps adding declarations to it, in each syntax, and five *)
(* files with few changes whose names and outputs meet.                    *)
(***************************************************************************)
EXTENDS CommandLine

Letters == [a |-> "A", b |-> "B", j |-> "J", B |-> "B"]

A == <<"a">>     B == <<"b">>     AB == <<"a", "_", "b">>     J == <<"j">>
G == <<"g">>     X == <<"x">>     Y == <<"y">>     P == <<"p">>
Sub == <<"s">>    In == <<"i">>    First == <<"f">>    Outside == <<"o">>

----------------------------------------------------------------------------
(* Declarations.                                                           *)
FieldOf(name, number) ==
    [name |-> name, number |-> number, json |-> CamelCase(name), label |-> "", default |-> <<>>,
     oneof |-> 0, type |-> "int32", of |-> <<>>, options |-> <<>>]
Message(name, fields) ==
    [path |-> <<name>>, fields |-> fields, reserved |-> <<>>, reservedNames |-> <<>>,
     extensions |-> <<>>, oneofs |-> <<>>, options |-> <<>>, mapEntry |-> FALSE, messageSet |-> FALSE]
Option(name, value) == [name |-> name, extension |-> FALSE, rooted |-> FALSE, value |-> value]
To(start, end) == [start |-> start, end |-> end]
EnumE == [path |-> <<<<"E">>>>, values |-> <<[name |-> A, number |-> 0]>>, reserved |-> <<>>,
          reservedNames |-> <<>>, allowAlias |-> FALSE]

File(syntax, package) ==
    [syntax |-> syntax, package |-> package, imports |-> <<>>, optionImports |-> <<>>,
     messages |-> <<>>, enums |-> <<>>, services |-> <<>>, extensions |-> <<>>,
     options |-> <<>>, lite |-> FALSE]
Written(syntax) ==
    [File(syntax, <<P>>) EXCEPT !.messages = <<Message(<<"M">>, <<FieldOf(J, 1)>>)>>,
                                !.enums = <<EnumE>>]

(* What the author may add to a message, an enum and a file.               *)
Fields ==
    {FieldOf(B, 2), FieldOf(AB, 3), FieldOf(A, 2), FieldOf(B, 1),
     [FieldOf(B, 3) EXCEPT !.json = J], [FieldOf(AB, 2) EXCEPT !.json = J],
     [FieldOf(<<"a", "B">>, 4) EXCEPT !.label = "required"],
     [FieldOf(B, 2) EXCEPT !.type = "enum", !.of = <<P, <<"E">>>>, !.default = A],
     [FieldOf(B, 2) EXCEPT !.type = "enum", !.of = <<P, <<"E">>>>, !.default = B],
     [FieldOf(B, 2) EXCEPT !.options = <<Option(<<"features", "field_presence">>, "IMPLICIT")>>],
     [FieldOf(B, 2) EXCEPT !.oneof = 1]}

WithMessage(m) ==
    {[m EXCEPT !.fields = Append(@, f)] : f \in Fields}
    \cup {[m EXCEPT !.reserved = Append(@, r)] : r \in {To(2, 4), To(3, 4), To(5, 7), To(1, 2)}}
    \cup {[m EXCEPT !.extensions = Append(@, r)] : r \in {To(2, 7), To(3, 5), To(0, 1)}}
    \cup {[m EXCEPT !.reservedNames = Append(@, B)], [m EXCEPT !.oneofs = Append(@, A)],
          [m EXCEPT !.options = Append(@, Option(<<"deprecated_legacy_json_field_conflicts">>, "true"))]}
WithEnum(e) ==
    {[e EXCEPT !.values = Append(@, v)] : v \in {[name |-> B, number |-> 0], [name |-> J, number |-> 2]}}
    \cup {[e EXCEPT !.reserved = Append(@, To(1, 2))]}
WithFile(f) ==
    {[f EXCEPT !.extensions = Append(@, FieldOf(J, 5))],
     [f EXCEPT !.options = Append(@, [Option(<<J>>, "true") EXCEPT !.extension = TRUE])],
     [f EXCEPT !.imports = Append(@, <<Y>>)],
     [f EXCEPT !.lite = TRUE]}

MCDrafts(f) ==
    {[f EXCEPT !.messages[1] = m] : m \in IF f.messages = <<>> THEN {} ELSE WithMessage(f.messages[1])}
    \cup {[f EXCEPT !.enums[1] = e] : e \in IF f.messages = <<>> THEN {} ELSE WithEnum(f.enums[1])}
    \cup WithFile(f)

----------------------------------------------------------------------------
(* y has no package and is named like the package of x and s/x, i/s/x      *)
(* shares its own name with i/x, and f/y hides i/y from an argument.  g/x  *)
(* is embedded: the importer gets that file, or f/g/x where there is one.  *)
Importer == [File("proto2", <<G>>) EXCEPT !.imports = <<<<G, X>>>>]
MCTrees ==
    {<<In, X>> :> Written(syntax) : syntax \in {"proto2", "proto3", "editions"}}
    \cup {<<In, X>> :> File("proto2", <<Y>>) @@ <<In, Y>> :> File("proto2", <<>>)
          @@ <<In, Sub, X>> :> File("proto3", <<Y>>) @@ <<First, Y>> :> File("proto2", <<>>)
          @@ <<Outside, Y>> :> File("proto2", <<P>>),
          <<In, X>> :> Importer, <<In, X>> :> Importer @@ <<First, G, X>> :> File("proto2", <<G>>)}
MCWellKnown == <<G, X>> :> [File("proto3", <<P>>) EXCEPT !.messages = <<Message(A, <<FieldOf(J, 1)>>)>>]
MCIncludes == <<<<First>>, <<In>>>>

Out(set, rust, runtime, python) ==
    [set |-> set, rust |-> rust, runtime |-> runtime, ts |-> "", python |-> python]
MCRequests ==
    {[args |-> <<<<In, X>>>>, imports |-> FALSE, out |-> Out("s", "d", "d", "")],
     [args |-> <<<<In, Sub, X>>, <<In, Y>>>>, imports |-> TRUE, out |-> Out("s", "d", "", "e")],
     [args |-> <<<<Outside, Y>>, <<In, G, X>>>>, imports |-> TRUE, out |-> Out("", "", "d", "")]}
=============================================================================
