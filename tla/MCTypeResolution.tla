-------------------------- MODULE MCTypeResolution --------------------------
(***************************************************************************)
(* Small instances of TypeResolution.  All sources are found; the load     *)
(* itself is explored by MCImportLoader.                                   *)
(***************************************************************************)
EXTENDS TypeResolution, SequencesExt, TLC

CONSTANTS f1, f2, f3, f4, a, b

AllFound == user = [f \in File |-> "found"]

FourFiles == {f1, f2, f3, f4}
Names == {a, b}
NoWellKnown == {}
FirstRoot == {<<f1>>}

-----------------------------------------------------------------------------
(* Graphs of imports, public ones among them; every file declares a message *)
(* of its own, and nothing refers to it.                                    *)
ListsOf(f) ==
  CASE f = f1 -> {<<f2>>, <<f2, f3>>}
    [] f = f2 -> {<<>>, <<f1>>, <<f3>>, <<f4>>, <<f3, f4>>, <<f4, f3>>, <<f4, f4>>}
    [] f = f3 -> {<<>>, <<f2>>, <<f3>>, <<f4>>}
    [] f = f4 -> {<<>>, <<f2>>}
GraphLists == UNION {ListsOf(f) : f \in FourFiles}
PublicPositions == {s \in [FourFiles -> SUBSET {1, 2}] : s[f1] \subseteq {1} /\ 2 \notin s[f3] \cup s[f4]}
OwnMessage(p) == [package |-> p, decls |-> <<[path |-> <<a>>, kind |-> "Message"]>>]
OwnMessages ==
  f1 :> OwnMessage(<<b>>) @@ f2 :> OwnMessage(<<b, b>>) @@ f3 :> OwnMessage(<<>>) @@ f4 :> OwnMessage(<<b, b, b>>)

GraphInit ==
  /\ AllFound
  /\ content = OwnMessages
  /\ refs = [f \in File |-> <<>>]
  /\ deps \in [File -> GraphLists] /\ \A f \in File : deps[f] \in ListsOf(f)
  /\ public \in PublicPositions /\ \A f \in File : public[f] \subseteq DOMAIN deps[f]
  /\ Init

-----------------------------------------------------------------------------
(* f1 imports f2 and perhaps f3, f2 imports f3, publicly or not; f1 makes   *)
(* one reference by a name of one or two components.                        *)
Decl(p, k) == [path |-> p, kind |-> k]
Nested == <<Decl(<<b>>, "Message"), Decl(<<b, a>>, "Message")>>
RefContents == [package : {<<>>, <<a>>, <<a, b>>}, decls :
  {<<>>, <<Decl(<<b>>, "Enum")>>, Nested, <<Decl(<<a>>, "Message")>>, <<Decl(<<a>>, "Extension")>>}]
RefNames == {<<x>> : x \in Names} \cup {<<x, y>> : x, y \in Names}
FieldPlaces == [use : {"field"}, within : {<<b>>, <<b, a>>}]
FilePlaces == [use : {"extendee", "method"}, within : {<<>>}]
PlacesAt(P) == {<<[use |-> p.use, within |-> p.within, name |-> n, rooted |-> r]>> :
                  p \in P, n \in RefNames, r \in BOOLEAN}
SingleRefs == {<<>>} \cup PlacesAt(FieldPlaces) \cup PlacesAt(FilePlaces)
ExtensionRefs == {<<>>} \cup PlacesAt([use : {"extension"}, within : {<<>>}])
ExtendeeRefs == {<<>>} \cup PlacesAt([use : {"extendee"}, within : {<<b>>}])

RefInit ==
  /\ AllFound
  /\ deps \in {f1 :> d @@ f2 :> e @@ f3 :> <<>> @@ f4 :> <<>> : d \in {<<f2>>, <<f2, f3>>}, e \in {<<>>, <<f3>>}}
  /\ content \in {f1 :> c @@ f2 :> d @@ f3 :> e @@ f4 :> OwnMessages[f4] :
                    c \in {x \in RefContents : x.decls = Nested},
                    d \in [package : {<<>>, <<a>>}, decls : {<<Decl(<<a>>, "Message")>>}],
                    e \in RefContents}
  /\ public \in {f1 :> {} @@ f2 :> s @@ f3 :> {} @@ f4 :> {} : s \in {{}, {1}}}
  /\ refs \in {f1 :> q @@ f2 :> <<>> @@ f3 :> <<>> @@ f4 :> <<>> : q \in RefLists \ {<<>>}}
  /\ Init
RefSpec == RefInit /\ [][Next]_vars

AllContents == RefContents \cup {OwnMessages[f] : f \in FourFiles}
ResolveSpec == (GraphInit \/ RefInit) /\ [][Next]_vars
               /\ WF_loading(Loader!Step) /\ WF_vars(Resolve)
=============================================================================
