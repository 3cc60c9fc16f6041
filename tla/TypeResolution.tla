--------------------------- MODULE TypeResolution ---------------------------
(***************************************************************************)
(* resolve_all_types of analyzer/src/lib.rs, after the loading that        *)
(* ImportLoader models: file by file in load_order, the names a file can   *)
(* see are collected from its imports and their public imports, and every  *)
(* type reference in it is replaced by a fully qualified name.             *)
(*                                                                         *)
(* collect_public_transitive recurses without a visited set; `walk` is its *)
(* explicit stack.  References are only ever looked up in `symbols` and    *)
(* `visible`, so what a file's own references become matters to no other   *)
(* file.                                                                   *)
(***************************************************************************)
EXTENDS Integers, Sequences, FiniteSets, SequencesExt

CONSTANTS
  File, Name, WellKnown, DepLists, Contents, RootLists,  \* see ImportLoader
  RefLists   \* possible lists of the type references in a file

(***************************************************************************)
(* use: where the reference stands.  "field": a field or an extension in a *)
(* message; "extension": an extension at file level; "extendee": what an   *)
(* extension extends; "method": the input or output of a service method.   *)
(* within: the path of the enclosing message.  rooted: ".a.b", not "a.b".  *)
(***************************************************************************)
Use == {"field", "extension", "extendee", "method"}
Reference == [use : Use, within : Seq(Name), name : Seq(Name) \ {<<>>}, rooted : BOOLEAN]

ASSUME ReferencesAssumption == RefLists \subseteq Seq(Reference)

VARIABLES
  user, deps, content, roots, rootIdx, stack, visiting, loaded, load_order, symbols, status

VARIABLES
  public,    \* public_dependency of every file, as positions in deps
  refs,      \* the references of every file, in the order of the traversal
  filePos,   \* position of the loop over load_order
  walk,      \* active loops over imports: the file's own, then the recursion
  visible,   \* the visible set of the current file
  resolved,  \* full names of the current file's references so far
  outcome    \* "waiting", "collecting", "resolving", "done" or the error

Loader == INSTANCE ImportLoader

(* What the parser hands over.  Nested declarations are visited from the    *)
(* message around them, so every prefix of a path is a message's path.      *)
ASSUME SourcesAssumption ==
  /\ WellKnown \subseteq File
  /\ DepLists \subseteq Seq(File)
  /\ Contents \subseteq Loader!Content
  /\ RootLists \subseteq Seq(File)
  /\ \A c \in Contents : \A i \in 1..Len(c.decls) :
        /\ c.decls[i].path # <<>>
        /\ \A k \in 1..(Len(c.decls[i].path) - 1) : \E j \in 1..Len(c.decls) :
              c.decls[j] = [path |-> SubSeq(c.decls[i].path, 1, k), kind |-> "Message"]

loading == <<user, deps, content, roots, rootIdx, stack, visiting, loaded, load_order, symbols, status>>
references == <<public, refs>>
resolution == <<filePos, walk, visible, resolved, outcome>>
vars == <<user, deps, content, roots, rootIdx, stack, visiting, loaded, load_order, symbols, status,
          public, refs, filePos, walk, visible, resolved, outcome>>

Outcome == {"waiting", "collecting", "resolving", "done", "unresolved", "wrong kind"}

-----------------------------------------------------------------------------
Current == load_order[filePos]
PackageOf(f) == content[f].package

(* collect_symbols_from_prefix: the messages and enums of a file, nested ones too. *)
TypesOf(f) ==
  {Loader!DeclEntries(content[f])[i].fqn :
     i \in {j \in 1..Len(content[f].decls) : content[f].decls[j].kind \in Loader!TypeKind}}

Packages == {s \in DOMAIN symbols : symbols[s] = "Package"}

Loop(f, n) == [file |-> f, next |-> n]
Inner == walk[Len(walk)]
Import == deps[Inner.file][Inner.next]
(* Mutation: imports of imports count, public or not. *)
EveryImport == Import \in loaded

(* Every import of the file itself, then public imports only. *)
Followed == Import \in loaded /\ (Len(walk) = 1 \/ Inner.next \in public[Inner.file])

(* The loop at the top of a stack of loops goes on to its next import. *)
Advanced(w) == [w EXCEPT ![Len(w)] = Loop(w[Len(w)].file, w[Len(w)].next + 1)]

-----------------------------------------------------------------------------
(* Mutation: visibility is not asked for. *)
UsableUnseen(n) == n \in DOMAIN symbols

(* resolve_type_name looks a name up in the table and among the visible names. *)
Usable(n) == n \in DOMAIN symbols /\ n \in visible

Prefixed(scope, k, n) == SubSeq(scope, 1, k) \o n

(***************************************************************************)
(* The scope the callers pass.  Extensions at file level pass the package  *)
(* without the leading dot: no candidate built from it is in the table,    *)
(* and only the last attempt, at global scope, can succeed.  Extendees are *)
(* looked up from the package, in messages too.                            *)
(***************************************************************************)
ScopeOf(f, ref) ==
  CASE ref.use = "field"     -> PackageOf(f) \o ref.within
    [] ref.use = "extension" -> <<>>
    [] OTHER                 -> PackageOf(f)

(* Mutation: only the whole name ends the search. *)
StopsAtName(scope, n) == {k \in 0..Len(scope) : Usable(Prefixed(scope, k, n))}

(* The scopes at which the search ends: the name is there, or the first     *)
(* component of a dotted name is.                                           *)
Stops(scope, n) ==
  {k \in 0..Len(scope) :
     Usable(Prefixed(scope, k, n)) \/ (Len(n) > 1 /\ Usable(Prefixed(scope, k, <<n[1]>>)))}

Innermost(scope, n) == Prefixed(scope, Max(Stops(scope, n)), n)

(* The full names the search returns: one, or none when it fails (nothing   *)
(* found, or the first component shadows the outer scopes).                 *)
Search(f, ref) ==
  LET scope == ScopeOf(f, ref)
      candidates == IF ref.rooted THEN {ref.name}
                    ELSE {Innermost(scope, ref.name) : k \in Stops(scope, ref.name)}
  IN  {n \in candidates : Usable(n)}

Fits(kind, use) ==
  IF use \in {"field", "extension"} THEN kind \in Loader!TypeKind ELSE kind = "Message"

-----------------------------------------------------------------------------
Init ==
  /\ Loader!Init
  /\ public \in [File -> SUBSET UNION {1..Len(d) : d \in DepLists}]
  /\ refs \in [File -> RefLists]
  /\ filePos = 1
  /\ walk = <<>>
  /\ visible = {}
  /\ resolved = <<>>
  /\ outcome = "waiting"

Load ==
  /\ Loader!Next
  /\ UNCHANGED <<references, resolution>>

(* Mutation: the import loop starts one too early. *)
BeginFileAtZero ==
  /\ status = "loaded" /\ outcome = "waiting"
  /\ filePos <= Len(load_order)
  /\ visible' = Packages \cup TypesOf(Current)
  /\ walk' = <<Loop(Current, 0)>>
  /\ resolved' = <<>>
  /\ outcome' = "collecting"
  /\ UNCHANGED <<loading, references, filePos>>

(* collect_visible_symbols: packages and the file's own types first. *)
BeginFile ==
  /\ status = "loaded" /\ outcome = "waiting"
  /\ filePos <= Len(load_order)
  /\ visible' = Packages \cup TypesOf(Current)
  /\ walk' = <<Loop(Current, 1)>>
  /\ resolved' = <<>>
  /\ outcome' = "collecting"
  /\ UNCHANGED <<loading, references, filePos>>

FollowImport ==
  /\ outcome = "collecting"
  /\ Inner.next <= Len(deps[Inner.file])
  /\ Followed
  /\ visible' = visible \cup TypesOf(Import)
  /\ walk' = Append(walk, Loop(Import, 1))
  /\ UNCHANGED <<loading, references, filePos, resolved, outcome>>

(* Mutation: the loop stays at an import that is not public. *)
PassImportInPlace ==
  /\ outcome = "collecting"
  /\ Inner.next <= Len(deps[Inner.file])
  /\ ~Followed
  /\ UNCHANGED vars

PassImport ==
  /\ outcome = "collecting"
  /\ Inner.next <= Len(deps[Inner.file])
  /\ ~Followed
  /\ walk' = Advanced(walk)
  /\ UNCHANGED <<loading, references, filePos, visible, resolved, outcome>>

FinishWalk ==
  /\ outcome = "collecting"
  /\ Inner.next > Len(deps[Inner.file])
  /\ IF Len(walk) = 1
       THEN walk' = <<>> /\ outcome' = "resolving"
       ELSE walk' = Advanced(SubSeq(walk, 1, Len(walk) - 1)) /\ UNCHANGED outcome
  /\ UNCHANGED <<loading, references, filePos, visible, resolved>>

Pending == refs[Current][Len(resolved) + 1]
Target == CHOOSE n \in Search(Current, Pending) : TRUE
Verdict ==
  IF Search(Current, Pending) = {} THEN "unresolved"
  ELSE IF Fits(symbols[Target], Pending.use) THEN "resolved" ELSE "wrong kind"

ResolveReference ==
  /\ outcome = "resolving"
  /\ Len(resolved) < Len(refs[Current])
  /\ Verdict = "resolved"
  /\ resolved' = Append(resolved, Target)
  /\ UNCHANGED <<loading, references, filePos, walk, visible, outcome>>

RejectReference ==
  /\ outcome = "resolving"
  /\ Len(resolved) < Len(refs[Current])
  /\ Verdict # "resolved"
  /\ outcome' = Verdict
  /\ UNCHANGED <<loading, references, filePos, walk, visible, resolved>>

(* The file with its resolved names replaces the loaded one. *)
FinishFile ==
  /\ outcome = "resolving"
  /\ Len(resolved) = Len(refs[Current])
  /\ filePos' = filePos + 1
  /\ outcome' = "waiting"
  /\ UNCHANGED <<loading, references, walk, visible, resolved>>

AllResolved ==
  /\ status = "loaded" /\ outcome = "waiting"
  /\ filePos > Len(load_order)
  /\ outcome' = "done"
  /\ UNCHANGED <<loading, references, filePos, walk, visible, resolved>>

Resolve ==
  \/ BeginFile \/ FollowImport \/ PassImport \/ FinishWalk
  \/ ResolveReference \/ RejectReference \/ FinishFile \/ AllResolved

Next == Load \/ Resolve

(* One thread: loading, then resolution, for as long as there is a step. *)
Spec == Init /\ [][Next]_vars /\ WF_loading(Loader!Step) /\ WF_vars(Resolve)

-----------------------------------------------------------------------------
Rejected == outcome \in {"unresolved", "wrong kind"}

TypeOK ==
  /\ Loader!TypeOK
  /\ public \in [File -> SUBSET Nat]
  /\ refs \in [File -> Seq(Reference)]
  /\ filePos \in 1..(Len(load_order) + 1)
  /\ walk \in Seq([file : File, next : Nat \ {0}])
  /\ visible \subseteq Seq(Name)
  /\ resolved \in Seq(Seq(Name))
  /\ outcome \in Outcome
  /\ outcome \notin {"waiting", "done"} => filePos <= Len(load_order)

(* The recursion over imports never enters a file it is already in, although *)
(* nothing remembers where it has been: only the absence of import cycles,   *)
(* which loading has established, keeps collect_public_transitive finite.    *)
WalkBounded == \A i, j \in 1..Len(walk) : walk[i].file = walk[j].file => i = j

(* A file sees itself, its imports, and what these import publicly, and so on. *)
ImportsOf(f) == {deps[f][i] : i \in 1..Len(deps[f])}
PublicImportsOf(f) == {deps[f][i] : i \in public[f] \cap 1..Len(deps[f])}
Sees(f) ==
  {f} \cup {g \in File : \A S \in SUBSET File :
              ImportsOf(f) \subseteq S /\ (\A h \in S : PublicImportsOf(h) \subseteq S) => g \in S}

(* When references are resolved, `visible` holds the types of exactly the   *)
(* files that are seen, and the packages of all files.                      *)
VisibleExact ==
  outcome = "resolving" => visible = Packages \cup UNION {TypesOf(g) : g \in Sees(Current)}

(* The declarations themselves, which `symbols` and `visible` summarise. *)
Declares(g, n, kinds) ==
  \E i \in 1..Len(content[g].decls) :
    Loader!DeclEntries(content[g])[i] \in [fqn : {n}, kind : kinds]
KindsFor(use) == IF use \in {"field", "extension"} THEN {"Message", "Enum"} ELSE {"Message"}
InPackage(n) == \E g \in loaded : IsPrefix(n, PackageOf(g)) /\ n # <<>>
Seen(f, n) == InPackage(n) \/ \E g \in Sees(f) : Declares(g, n, Loader!TypeKind)

(* A resolved name is declared in a file that the reference's file sees, as *)
(* a kind that the use allows, although the kind is looked up in the table  *)
(* that all files share and visibility goes by name only.                   *)
ResolvedDeclared ==
  outcome = "resolving" =>
    \A i \in 1..Len(resolved) :
      \E g \in Sees(Current) : Declares(g, resolved[i], KindsFor(refs[Current][i].use))

(***************************************************************************)
(* The scoping rule: the first component of the name belongs to the        *)
(* innermost scope around the reference in which it is declared, and the   *)
(* rest of the name is looked up there and nowhere else.                   *)
(***************************************************************************)
ScopeAround(f, ref) == PackageOf(f) \o ref.within
Homes(f, ref) == {k \in 0..Len(ScopeAround(f, ref)) : Seen(f, Prefixed(ScopeAround(f, ref), k, <<ref.name[1]>>))}
Rule(f, ref) ==
  IF ref.rooted THEN {ref.name}
  ELSE {Prefixed(ScopeAround(f, ref), k, ref.name) : k \in {h \in Homes(f, ref) : \A j \in Homes(f, ref) : j <= h}}

(* An extension has replaced the entry of a package or a type at one of the *)
(* places the search looks at.                                              *)
Overwritten(f, ref) ==
  \E k \in 0..Len(ScopeAround(f, ref)), m \in {1, Len(ref.name)} :
    LET n == Prefixed(ScopeAround(f, ref), k, SubSeq(ref.name, 1, m))
    IN  Seen(f, n) /\ symbols[n] = "Extension"

(* A reference of a sort gets the name the rule says, and is rejected only  *)
(* if the rule leads to nothing of the right kind that its file sees.       *)
Scoped(Among(_)) ==
  /\ outcome = "resolving" =>
       \A i \in 1..Len(resolved) :
         Among(refs[Current][i]) /\ ~Overwritten(Current, refs[Current][i])
         => resolved[i] \in Rule(Current, refs[Current][i])
  /\ Rejected /\ Among(Pending) /\ ~Overwritten(Current, Pending) =>
       \A n \in Rule(Current, Pending), g \in Sees(Current) : ~Declares(g, n, KindsFor(Pending.use))

(* Types of fields, and extendees and method types at file level.           *)
FieldsScoped == Scoped(LAMBDA r : r.use = "field" \/ (r.use # "extension" /\ r.within = <<>>))

(* "Follows protobuf scoping rules: search from innermost scope outward":   *)
(* the type of an extension field at file level ...                         *)
ExtensionsScoped == Scoped(LAMBDA r : r.use = "extension")

(* ... and the extendee of an extension inside a message.                   *)
ExtendeesScoped == Scoped(LAMBDA r : r.use = "extendee")

(* Every analysis comes to an end. *)
Ends == <>(status \notin {"running", "loaded"} \/ outcome = "done" \/ Rejected)
=============================================================================
