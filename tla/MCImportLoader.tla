--------------------------- MODULE MCImportLoader ---------------------------
(***************************************************************************)
(* Small instances of ImportLoader: every import graph over three files,   *)
(* and every pair of files over a handful of packages and declarations.    *)
(***************************************************************************)
EXTENDS ImportLoader, SequencesExt, TLC

CONSTANTS f1, f2, f3, a, b

ThreeFiles == {f1, f2, f3}
Names == {a, b}
OneWellKnown == {f3}

(* Lists of imports of length at most 2: repeated and self imports included. *)
ShortLists == BoundedSeq(ThreeFiles, 2)
ShortRoots == ShortLists \ {<<>>}

NoContent == [package |-> <<>>, decls |-> <<>>]

(* Every graph of empty files, every list of roots, every way sources fail. *)
GraphInit == content = [f \in File |-> NoContent] /\ Init

-----------------------------------------------------------------------------
(* One message, a message with a nested message or enum, an enum, an        *)
(* extension, in the order of registration.                                 *)
Decl(p, k) == [path |-> p, kind |-> k]
MessageParts ==
  {<<>>, <<Decl(<<b>>, "Message")>>, <<Decl(<<a>>, "Message"), Decl(<<a, b>>, "Message")>>,
   <<Decl(<<a>>, "Message"), Decl(<<a, b>>, "Enum")>>}
EnumParts == {<<>>, <<Decl(<<a>>, "Enum")>>}
ExtensionParts == {<<>>, <<Decl(<<a>>, "Extension")>>, <<Decl(<<b>>, "Extension")>>}

SmallContents ==
  {[package |-> p, decls |-> m \o e \o x] :
     p \in {<<>>, <<a>>, <<a, b>>}, m \in MessageParts, e \in EnumParts, x \in ExtensionParts}

AllContents == SmallContents \cup {NoContent}

(* The two files f1 and f2 are the roots and import nothing.                *)
SymbolInit ==
  /\ deps = [f \in File |-> <<>>] /\ roots = <<f1, f2>>
  /\ user = [f \in File |-> "found"]
  /\ content \in {f1 :> c @@ f2 :> d @@ f3 :> NoContent : c, d \in SmallContents}
  /\ Init

LoadSpec == (GraphInit \/ SymbolInit) /\ [][Next]_vars /\ WF_vars(Step)
=============================================================================
