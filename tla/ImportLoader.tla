---------------------------- MODULE ImportLoader ----------------------------
(***************************************************************************)
(* AnalyzeContext of analyzer/src/lib.rs: analyze_files walks the roots in *)
(* order, load_file loads the imports of a file depth first before the     *)
(* file itself, and then registers the symbols the file declares in one    *)
(* table shared by all files.                                              *)
(*                                                                         *)
(* The Rust recursion is an explicit stack with one frame per active call  *)
(* of load_file; the bottom caller, the loop over the roots, is rootIdx.   *)
(* What the program is given (which names resolve and parse, what every    *)
(* file imports and declares, which files are asked for) is chosen in Init *)
(* and never changes: the resolver is only read.                           *)
(***************************************************************************)
EXTENDS Integers, Sequences, FiniteSets, Functions

CONSTANTS
  File,        \* file names, as they appear in imports
  Name,        \* identifiers
  WellKnown,   \* the files WellKnownResolver embeds
  DepLists,    \* possible values of FileDescriptorProto.dependency
  Contents,    \* possible packages and declarations of a file
  RootLists    \* possible root_files arguments

Outcome == {"found", "absent", "unparsable"}
TypeKind == {"Message", "Enum"}
DeclKind == TypeKind \cup {"Extension"}
SymbolKind == DeclKind \cup {"Package"}

(***************************************************************************)
(* package: the dotted package name; decls: what register_messages,        *)
(* register_enums and register_extensions visit, in the order they visit   *)
(* it (a message, then its nested types, ...), with the name path that     *)
(* follows the package.                                                    *)
(***************************************************************************)
Content == [package : Seq(Name), decls : Seq([path : Seq(Name), kind : DeclKind])]

ASSUME ConstantsAssumption ==
  /\ WellKnown \subseteq File
  /\ DepLists \subseteq Seq(File)
  /\ Contents \subseteq Content
  /\ RootLists \subseteq Seq(File)

VARIABLES
  user,        \* what the user's resolver (and parse) make of a name
  deps,        \* dependency list of every file
  content,     \* package and declarations of every file
  roots,       \* the root_files argument
  rootIdx,     \* position of the loop over root_files
  stack,       \* active calls of load_file
  visiting,    \* AnalyzeContext.visiting
  loaded,      \* keys of AnalyzeContext.loaded
  load_order,  \* AnalyzeContext.load_order
  symbols,     \* AnalyzeContext.symbols: fully qualified name -> kind
  status       \* "running", "loaded" or the error analyze_files returns

input == <<user, deps, content, roots>>
vars == <<user, deps, content, roots, rootIdx, stack, visiting, loaded, load_order, symbols, status>>

Status == {"running", "loaded", "root not found", "root unparsable", "import not found",
           "import unparsable", "recursive import", "package conflict", "duplicate symbol"}

Frame == [file : File, next : Nat \ {0}, reg : Nat]
  \* next: the import the loop is at; reg: 0 while imports are loaded, then
  \* the position of the next entry to register

-----------------------------------------------------------------------------
(***************************************************************************)
(* CombinedResolver followed by parse: the user's file wins, the embedded  *)
(* well-known files are the fallback and always parse.                     *)
(***************************************************************************)
Source(f) == IF user[f] = "absent" /\ f \in WellKnown THEN "found" ELSE user[f]

PackageEntries(c) ==
  [i \in 1..Len(c.package) |-> [fqn |-> SubSeq(c.package, 1, i), kind |-> "Package"]]

DeclEntries(c) ==
  [i \in 1..Len(c.decls) |-> [fqn |-> c.package \o c.decls[i].path, kind |-> c.decls[i].kind]]

(* Everything load_file puts in the symbol table for a file, in order. *)
Entries(c) == PackageEntries(c) \o DeclEntries(c)

Call(f, n, r) == [file |-> f, next |-> n, reg |-> r]
Top == stack[Len(stack)]
ReplaceTop(frame) == stack' = [stack EXCEPT ![Len(stack)] = frame]
InRootLoop == stack = <<>>
Importing == stack # <<>> /\ Top.reg = 0 /\ Top.next <= Len(deps[Top.file])
Registering == stack # <<>> /\ Top.reg \in 1..Len(Entries(content[Top.file]))

(* The loop over root_files, or over the imports of the top frame, has a next file. *)
Wanting == status = "running" /\ (Importing \/ (InRootLoop /\ rootIdx <= Len(roots)))
Wanted == IF InRootLoop THEN roots[rootIdx] ELSE deps[Top.file][Top.next]

Unresolvable(f) == Source(f) # "found"

-----------------------------------------------------------------------------
Init ==
  /\ user \in [File -> Outcome]
  /\ deps \in [File -> DepLists]
  /\ content \in [File -> Contents]
  /\ roots \in RootLists
  /\ \A f \in File : Unresolvable(f) => deps[f] = <<>>
  /\ rootIdx = 1
  /\ stack = <<>>
  /\ visiting = {}
  /\ loaded = {}
  /\ load_order = <<>>
  /\ symbols = [s \in {} |-> "Package"]
  /\ status = "running"

(* Mutation: the loop over the imports is not advanced. *)
SkipLoadedInPlace ==
  /\ Wanting
  /\ Wanted \in loaded
  /\ rootIdx' = IF InRootLoop THEN rootIdx + 1 ELSE rootIdx
  /\ UNCHANGED <<input, stack, visiting, loaded, load_order, symbols, status>>

(* Both loops pass over a file that is already loaded. *)
SkipLoaded ==
  /\ Wanting
  /\ Wanted \in loaded
  /\ IF InRootLoop
       THEN rootIdx' = rootIdx + 1 /\ UNCHANGED stack
       ELSE ReplaceTop(Call(Top.file, Top.next + 1, 0)) /\ UNCHANGED rootIdx
  /\ UNCHANGED <<input, visiting, loaded, load_order, symbols, status>>

Fail(error) ==
  /\ status' = error
  /\ UNCHANGED <<input, rootIdx, stack, visiting, loaded, load_order, symbols>>

RootUnavailable ==
  /\ Wanting /\ InRootLoop
  /\ Wanted \notin loaded
  /\ Unresolvable(Wanted)
  /\ Fail(IF Source(Wanted) = "absent" THEN "root not found" ELSE "root unparsable")

ImportUnavailable ==
  /\ Wanting /\ ~InRootLoop
  /\ Wanted \notin loaded
  /\ Unresolvable(Wanted)
  /\ Fail(IF Source(Wanted) = "absent" THEN "import not found" ELSE "import unparsable")

(* Mutation: any file met while another one is loading is refused. *)
RejectNested ==
  /\ Wanting
  /\ Wanted \notin loaded
  /\ ~Unresolvable(Wanted)
  /\ visiting # {}
  /\ Fail("recursive import")

(* load_file is entered for a file whose own load is still in progress. *)
RejectCycle ==
  /\ Wanting
  /\ Wanted \notin loaded
  /\ ~Unresolvable(Wanted)
  /\ Wanted \in visiting
  /\ Fail("recursive import")

(* Mutation: the import loop starts one too early. *)
EnterFileAtZero ==
  /\ Wanting
  /\ Wanted \notin loaded
  /\ ~Unresolvable(Wanted)
  /\ Wanted \notin visiting
  /\ visiting' = visiting \cup {Wanted}
  /\ stack' = Append(stack, Call(Wanted, 0, 0))
  /\ UNCHANGED <<input, rootIdx, loaded, load_order, symbols, status>>

(* Mutation: `loaded` is not consulted. *)
EnterLoadedFile ==
  /\ Wanting
  /\ ~Unresolvable(Wanted)
  /\ Wanted \notin visiting
  /\ visiting' = visiting \cup {Wanted}
  /\ stack' = Append(stack, Call(Wanted, 1, 0))
  /\ UNCHANGED <<input, rootIdx, loaded, load_order, symbols, status>>

EnterFile ==
  /\ Wanting
  /\ Wanted \notin loaded
  /\ ~Unresolvable(Wanted)
  /\ Wanted \notin visiting
  /\ visiting' = visiting \cup {Wanted}
  /\ stack' = Append(stack, Call(Wanted, 1, 0))
  /\ UNCHANGED <<input, rootIdx, loaded, load_order, symbols, status>>

(* Mutation: the last import is left out. *)
FinishImportsEarly ==
  /\ status = "running"
  /\ stack # <<>> /\ Top.reg = 0 /\ Top.next >= Len(deps[Top.file])
  /\ visiting' = visiting \ {Top.file}
  /\ loaded' = loaded \cup {Top.file}
  /\ load_order' = Append(load_order, Top.file)
  /\ ReplaceTop(Call(Top.file, Top.next, 1))
  /\ UNCHANGED <<input, rootIdx, symbols, status>>

(* Mutation: the file stays in `visiting`. *)
FinishImportsVisiting ==
  /\ status = "running"
  /\ stack # <<>> /\ Top.reg = 0 /\ Top.next > Len(deps[Top.file])
  /\ loaded' = loaded \cup {Top.file}
  /\ load_order' = Append(load_order, Top.file)
  /\ ReplaceTop(Call(Top.file, Top.next, 1))
  /\ UNCHANGED <<input, rootIdx, visiting, symbols, status>>

(* All imports are in: the file itself is recorded, before its symbols. *)
FinishImports ==
  /\ status = "running"
  /\ stack # <<>> /\ Top.reg = 0 /\ Top.next > Len(deps[Top.file])
  /\ visiting' = visiting \ {Top.file}
  /\ loaded' = loaded \cup {Top.file}
  /\ load_order' = Append(load_order, Top.file)
  /\ ReplaceTop(Call(Top.file, Top.next, 1))
  /\ UNCHANGED <<input, rootIdx, symbols, status>>

Entry == Entries(content[Top.file])[Top.reg]
Known == Entry.fqn \in DOMAIN symbols
NextEntry == ReplaceTop(Call(Top.file, Top.next, Top.reg + 1))
Insert(e) == symbols' = [s \in DOMAIN symbols \cup {e.fqn} |-> IF s = e.fqn THEN e.kind ELSE symbols[s]]

(* Mutation: a package is checked against the table but not put there. *)
CheckPackage ==
  /\ status = "running" /\ Registering
  /\ Entry.kind = "Package"
  /\ Known => symbols[Entry.fqn] = "Package"
  /\ NextEntry
  /\ UNCHANGED <<input, rootIdx, visiting, loaded, load_order, symbols, status>>

(* A package component: shared with other packages, never with a type or extension. *)
RegisterPackage ==
  /\ status = "running" /\ Registering
  /\ Entry.kind = "Package"
  /\ Known => symbols[Entry.fqn] = "Package"
  /\ IF Known THEN UNCHANGED symbols ELSE Insert(Entry)
  /\ NextEntry
  /\ UNCHANGED <<input, rootIdx, visiting, loaded, load_order, status>>

PackageConflict ==
  /\ status = "running" /\ Registering
  /\ Entry.kind = "Package"
  /\ Known /\ symbols[Entry.fqn] # "Package"
  /\ Fail("package conflict")

(* Mutation: only a second declaration of the same kind is a duplicate. *)
RegisterOtherKind ==
  /\ status = "running" /\ Registering
  /\ Entry.kind \in TypeKind
  /\ Known => symbols[Entry.fqn] # Entry.kind
  /\ Insert(Entry)
  /\ NextEntry
  /\ UNCHANGED <<input, rootIdx, visiting, loaded, load_order, status>>

(* register_messages and register_enums. *)
RegisterType ==
  /\ status = "running" /\ Registering
  /\ Entry.kind \in TypeKind
  /\ ~Known
  /\ Insert(Entry)
  /\ NextEntry
  /\ UNCHANGED <<input, rootIdx, visiting, loaded, load_order, status>>

DuplicateType ==
  /\ status = "running" /\ Registering
  /\ Entry.kind \in TypeKind
  /\ Known
  /\ Fail("duplicate symbol")

(* register_extensions inserts whatever is there: the kind is overwritten. *)
RegisterExtension ==
  /\ status = "running" /\ Registering
  /\ Entry.kind = "Extension"
  /\ Insert(Entry)
  /\ NextEntry
  /\ UNCHANGED <<input, rootIdx, visiting, loaded, load_order, status>>

(* load_file returns Ok: the caller's loop goes on to its next file. *)
Return ==
  /\ status = "running"
  /\ stack # <<>> /\ Top.reg > Len(Entries(content[Top.file]))
  /\ stack' = [i \in 1..(Len(stack) - 1) |->
                 IF i = Len(stack) - 1 THEN Call(stack[i].file, stack[i].next + 1, 0) ELSE stack[i]]
  /\ rootIdx' = IF Len(stack) = 1 THEN rootIdx + 1 ELSE rootIdx
  /\ UNCHANGED <<input, visiting, loaded, load_order, symbols, status>>

(* Mutation: the last root is left out. *)
AllButLastLoaded ==
  /\ status = "running"
  /\ InRootLoop /\ rootIdx >= Len(roots)
  /\ status' = "loaded"
  /\ UNCHANGED <<input, rootIdx, stack, visiting, loaded, load_order, symbols>>

(* analyze_files goes on to resolve_all_types. *)
AllLoaded ==
  /\ status = "running"
  /\ InRootLoop /\ rootIdx > Len(roots)
  /\ status' = "loaded"
  /\ UNCHANGED <<input, rootIdx, stack, visiting, loaded, load_order, symbols>>

Terminated == status # "running" /\ UNCHANGED vars

Step ==
  \/ SkipLoaded \/ RootUnavailable \/ ImportUnavailable \/ RejectCycle \/ EnterFile
  \/ FinishImports \/ RegisterPackage \/ PackageConflict \/ RegisterType \/ DuplicateType
  \/ RegisterExtension \/ Return \/ AllLoaded

Next == Step \/ Terminated

(* One thread runs the analysis: as long as it can take a step it takes one. *)
Spec == Init /\ [][Next]_vars /\ WF_vars(Step)

-----------------------------------------------------------------------------
Loading(i) == stack[i].reg = 0

TypeOK ==
  /\ user \in [File -> Outcome]
  /\ deps \in [File -> Seq(File)]
  /\ content \in [File -> Content]
  /\ roots \in Seq(File)
  /\ rootIdx \in Nat \ {0}
  /\ stack \in Seq(Frame)
  /\ visiting \subseteq File
  /\ loaded \subseteq File
  /\ load_order \in Seq(File)
  /\ DOMAIN symbols \subseteq Seq(Name)
  /\ \A s \in DOMAIN symbols : symbols[s] \in SymbolKind
  /\ status \in Status

(* Every import of a file stands before the file in load_order, which is    *)
(* what resolve_all_types, the validation passes and the emitted descriptor *)
(* set rely on; no file stands there twice.                                 *)
DepsPrecede ==
  \A i \in 1..Len(load_order) : \A k \in 1..Len(deps[load_order[i]]) :
    \E j \in 1..(i-1) : load_order[j] = deps[load_order[i]][k]

LoadedOnce ==
  /\ loaded = Range(load_order)
  /\ \A i, j \in 1..Len(load_order) : load_order[i] = load_order[j] => i = j

(* load_file never recurses into a file that is loaded or being loaded, so   *)
(* the recursion is no deeper than the number of files; `visiting` names     *)
(* exactly the active calls whose imports are still being loaded.            *)
RecursionBounded ==
  /\ \A i, j \in 1..Len(stack) : stack[i].file = stack[j].file => i = j
  /\ visiting = {stack[i].file : i \in {n \in 1..Len(stack) : Loading(n)}}
  /\ visiting \cap loaded = {}

(* "File recursively imports itself" is only said of a file that does: the  *)
(* active calls from its own down to the offending import form a cycle.     *)
CycleIsReal ==
  status = "recursive import" =>
    \E i \in 1..Len(stack) :
      /\ stack[i].file = deps[Top.file][Top.next]
      /\ \A j \in i..(Len(stack) - 1) : stack[j+1].file \in Range(deps[stack[j].file])

(* The table holds a name for everything the loaded files declare, except   *)
(* what the file on top of the stack has yet to register, and nothing else. *)
Registered(f) == IF stack # <<>> /\ f = Top.file THEN Top.reg - 1 ELSE Len(Entries(content[f]))
TableComplete ==
  DOMAIN symbols = UNION {{Entries(content[f])[n].fqn : n \in 1..Registered(f)} : f \in loaded}

(* A successful load has no name declared as a message or an enum and a     *)
(* second time as anything else, whatever the order of files and the kinds  *)
(* (an extension overwrites the kind of a name, never its presence).        *)
NoDoubleDefinition ==
  status = "loaded" =>
    \A f, g \in loaded : \A m \in 1..Len(Entries(content[f])), n \in 1..Len(Entries(content[g])) :
      /\ <<f, m>> # <<g, n>>
      /\ Entries(content[f])[m].fqn = Entries(content[g])[n].fqn
      /\ Entries(content[f])[m].kind \in TypeKind
      => Entries(content[g])[n].kind = "Extension"

(* The analysis of every input ends, with a descriptor set or an error. *)
Terminates == <>(status # "running")

-----------------------------------------------------------------------------
(***************************************************************************)
(* Two declarations may share a name only if both are package components   *)
(* or both are extensions; any other pair may be refused, in one order of  *)
(* registration or in both.                                                *)
(***************************************************************************)
Clash(f, g) ==
  \E m \in 1..Len(Entries(content[f])), n \in 1..Len(Entries(content[g])) :
    /\ <<f, m>> # <<g, n>>
    /\ Entries(content[f])[m].fqn = Entries(content[g])[n].fqn
    /\ ~(Entries(content[f])[m].kind = Entries(content[g])[n].kind /\ Entries(content[f])[m].kind \notin TypeKind)

Order == INSTANCE ImportOrder WITH
  imports <- [f \in File |-> Range(deps[f])],
  wanted  <- Range(roots),
  broken  <- {f \in File : Unresolvable(f)},
  clash   <- {p \in File \X File : Clash(p[1], p[2])},
  order   <- load_order,
  outcome <- IF status \in {"running", "loaded"} THEN status ELSE "error"

(* The recursive, single-pass load_file computes what ImportOrder promises: *)
(* all reachable files in an import-first order, and no error that the      *)
(* imports, the missing sources or the declarations give no reason for.     *)
ImplementsOrder == Order!Spec
=============================================================================
