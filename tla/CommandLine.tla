---------------------------- MODULE CommandLine ----------------------------
(***************************************************************************)
(* The protoc-rs command: run in src/compiler/src/main.rs with the         *)
(* resolver beside it.  An author edits proto files and runs the command   *)
(* again and again in one output directory; a run names its files relative *)
(* to the include paths, loads and validates them, then writes the         *)
(* requested outputs one after the other, and may fail or be killed at any *)
(* point.                                                                  *)
(*                                                                         *)
(* Loading is the abstract import order that ImportLoader implements, type *)
(* resolution (TypeResolution) is taken to succeed, and what an output     *)
(* says is who wrote it, from which files and from which edit of them.     *)
(* Paths and names are sequences of components, a proto file's last        *)
(* component without ".proto".                                             *)
(***************************************************************************)
EXTENDS Validation

CONSTANTS
    Trees,          \* the proto files there may be at first: path -> file
    Drafts(_),      \* what an author may turn a file into
    Includes,       \* the include paths, in the order of the command line
    WellKnown,      \* the proto files embedded in the program: name -> file
    Requests,       \* the command lines: [args, imports, out]
    MaxEdits,       \* edits made at most
    MaxRuns         \* runs of the command at most

(* The components of a path are names, and names are sequences of          *)
(* characters.  Paths are absolute.                                        *)
PathName == Seq(Seq(STRING))

ASSUME CommandAssumption ==
    /\ \A t \in Trees : \A p \in DOMAIN t : p \in PathName /\ IsFile(t[p])
    /\ Includes \in Seq(PathName)
    /\ \A n \in DOMAIN WellKnown : n \in PathName /\ IsFile(WellKnown[n])
    /\ \A req \in Requests : req.args \in Seq(PathName)

(* In the order in which run writes them.  out[s] is the output directory  *)
(* (for "set" the file), "" if it is not requested.                        *)
Stages == <<"set", "rust", "runtime", "ts", "python">>
Suffix(s) == CASE s \in {"rust", "runtime"} -> "rs" [] s = "ts" -> "ts" [] s = "python" -> "py"

VARIABLES
    tree,           \* the proto files: path -> file
    edits, runs,    \* edits made, runs begun
    disk,           \* the outputs: path -> content
    request,        \* the command line of the run in progress or of the last
    order, files,   \* its descriptor set: names in order, name -> file
    version,        \* `edits` when the files were read
    stage,          \* position in Stages; 0 when no run is in progress
    todo,           \* keys still to be written at this stage
    writing,        \* has the stage been generated
    code            \* "none", "ok" or "error": exit code of the last run

vars == <<tree, edits, runs, disk, request, order, files, version, stage, todo, writing, code>>

----------------------------------------------------------------------------
(* Names.                                                                  *)

FirstOf(positions) == CHOOSE i \in positions : \A j \in positions : i <= j

(* Mutation: the include path a file was found under is not looked for.    *)
FileNameOnly(path) == <<Last(path)>>

(* relative_proto_path: a file outside the include paths keeps its own     *)
(* name only.                                                              *)
RelativeName(path) ==
    LET around == {i \in DOMAIN Includes : IsPrefix(Includes[i], path)}
    IN  IF around = {} THEN <<Last(path)>>
        ELSE SubSeq(path, Len(Includes[FirstOf(around)]) + 1, Len(path))

(* FsResolver::resolve: the first include path that has the file.          *)
Holding(name) == {i \in DOMAIN Includes : Includes[i] \o name \in DOMAIN tree}
Located(name) == Includes[FirstOf(Holding(name))] \o name

(* CombinedResolver::resolve: the embedded file where the user has none.   *)
Resolvable(name) == Holding(name) # {} \/ name \in DOMAIN WellKnown
Source(name) == IF Holding(name) # {} THEN tree[Located(name)] ELSE WellKnown[name]

Roots(req) == {RelativeName(req.args[i]) : i \in DOMAIN req.args}

(* The names files import, and the orders in which files are loaded: every *)
(* file after its imports, and none but the roots and what is imported.    *)
Imported == UNION {Range(file.imports) : file \in Range(tree) \cup Range(WellKnown)}

LoadsInOrder(names, roots) ==
    LET Needs(i) == Source(names[i]).imports
    IN  /\ \A i \in DOMAIN names : Resolvable(names[i])
        /\ roots \subseteq Range(names)
        /\ \A i \in DOMAIN names : \A k \in DOMAIN Needs(i) :
              \E j \in 1 .. (i - 1) : names[j] = Needs(i)[k]
        /\ \A i \in DOMAIN names :
              names[i] \in roots \/ \E j \in DOMAIN names : Has(Needs(j), names[i])

LoadOrders(roots) ==
    {names \in UNION {SetToSeqs(S) : S \in SUBSET {n \in roots \cup Imported : Resolvable(n)}} :
        LoadsInOrder(names, roots)}

(* The full names of a file's messages and enums, and its packages.        *)
TypesOf(file) ==
    {file.package \o file.messages[i].path : i \in DOMAIN file.messages}
    \cup {file.package \o file.enums[i].path : i \in DOMAIN file.enums}
PackagesOf(file) == {SubSeq(file.package, 1, k) : k \in 1 .. Len(file.package)}

(* The loader refuses a type whose name is taken by another file; what it  *)
(* does within a file, and of extensions, is ImportLoader's subject.       *)
NoDuplicates(fs) ==
    \A f, g \in DOMAIN fs :
        TypesOf(fs[f]) \cap (PackagesOf(fs[g]) \cup (IF f = g THEN {} ELSE TypesOf(fs[g]))) = {}

(* The symbol table of the loaded files.                                   *)
Symbols(fs) ==
    LET types == UNION {TypesOf(fs[f]) : f \in DOMAIN fs}
        exts == UNION {{Append(fs[f].package, fs[f].extensions[i].name) :
                            i \in DOMAIN fs[f].extensions} : f \in DOMAIN fs}
        packages == UNION {PackagesOf(fs[f]) : f \in DOMAIN fs}
    IN  [n \in types \cup exts \cup packages |->
            IF n \in exts THEN "Extension" ELSE IF n \in packages THEN "Package" ELSE "Type"]

----------------------------------------------------------------------------
(* Outputs.                                                                *)

Requested(i) == request.out[Stages[i]] # ""

(* The generators name a file after its package, or after itself.          *)
Key(name) == IF files[name].package # <<>> THEN files[name].package ELSE name

(* include_imports: without it only the roots stay in the descriptor set.  *)
Kept == {n \in Range(order) : request.imports \/ n \in Roots(request)}

Keys(s) == IF s = "set" THEN {<<>>} ELSE {Key(order[i]) : i \in DOMAIN order}

Path(s, key) == IF s = "set" THEN <<request.out[s]>> ELSE <<request.out[s], key, Suffix(s)>>

(* Mutation: the last file of a key replaces those before it.              *)
GeneratedLast(s, key) ==
    LET mine == {i \in DOMAIN order : Key(order[i]) = key}
    IN  IF s = "set" THEN Kept ELSE {order[i] : i \in {j \in mine : \A k \in mine : k <= j}}

(* The files of one key are appended to each other.  In which order is     *)
(* abstracted: what an output says is which files are in it.               *)
Generated(s, key) == IF s = "set" THEN Kept ELSE {n \in Range(order) : Key(n) = key}

Content(s, key) == [by |-> s, files |-> Generated(s, key), version |-> version, whole |-> TRUE]

Put(path, content) ==
    [p \in DOMAIN disk \cup {path} |-> IF p = path THEN content ELSE disk[p]]

----------------------------------------------------------------------------
NoRequest == [args |-> <<>>, imports |-> FALSE, out |-> [s \in Range(Stages) |-> ""]]

Init ==
    /\ tree \in Trees
    /\ edits = 0 /\ runs = 0 /\ disk = <<>>
    /\ request = NoRequest
    /\ order = <<>> /\ files = <<>> /\ version = 0
    /\ stage = 0 /\ todo = {} /\ writing = FALSE /\ code = "none"

(* The author saves another version of a file, one that parses.            *)
Edit ==
    /\ stage = 0 /\ edits < MaxEdits
    /\ \E p \in DOMAIN tree : \E f \in Drafts(tree[p]) :
          IsFile(f) /\ tree' = [tree EXCEPT ![p] = f]
    /\ edits' = edits + 1
    /\ code' = "none" /\ order' = <<>> /\ files' = <<>> /\ version' = 0 /\ request' = NoRequest
    /\ UNCHANGED <<runs, disk, stage, todo, writing>>

Loaded(names) == [n \in Range(names) |-> Source(n)]
Analyzes(names) ==
    NoDuplicates(Loaded(names)) /\ ValidAll(Loaded(names), Symbols(Loaded(names)))
Begin == stage = 0 /\ runs < MaxRuns /\ runs' = runs + 1

(* analyze_files succeeds for a command line, or does not.                 *)
Accept(req) ==
    /\ Begin
    /\ \E names \in LoadOrders(Roots(req)) :
          /\ Analyzes(names)
          /\ order' = names
          /\ files' = [n \in Range(names) |-> Normalized(Loaded(names)[n])]
    /\ request' = req /\ version' = edits
    /\ stage' = 1 /\ todo' = {} /\ writing' = FALSE
    /\ code' = "none"
    /\ UNCHANGED <<tree, edits, disk>>

Refuse(req) ==
    /\ Begin
    /\ \A names \in LoadOrders(Roots(req)) : ~Analyzes(names)
    /\ request' = req /\ code' = "error" /\ order' = <<>> /\ files' = <<>>
    /\ UNCHANGED <<tree, edits, disk, version, stage, todo, writing>>

Skip ==
    /\ stage \in DOMAIN Stages /\ ~writing /\ ~Requested(stage)
    /\ stage' = stage + 1
    /\ UNCHANGED <<tree, edits, runs, disk, request, order, files, version, todo, writing, code>>

Generate ==
    /\ stage \in DOMAIN Stages /\ ~writing /\ Requested(stage)
    /\ todo' = Keys(Stages[stage]) /\ writing' = TRUE
    /\ UNCHANGED <<tree, edits, runs, disk, request, order, files, version, stage, code>>

(* fs::write; the generated files are in a HashMap and come in any order.  *)
Write(key) ==
    /\ key \in todo
    /\ disk' = Put(Path(Stages[stage], key), Content(Stages[stage], key))
    /\ todo' = todo \ {key}
    /\ UNCHANGED <<tree, edits, runs, request, order, files, version, stage, writing, code>>

EndStage ==
    /\ writing /\ todo = {}
    /\ stage' = stage + 1 /\ writing' = FALSE
    /\ UNCHANGED <<tree, edits, runs, disk, request, order, files, version, todo, code>>

(* A generator or fs::write fails, or the process is killed: what has been *)
(* written stays, and a file being written may be left torn.               *)
Fail ==
    /\ stage > 0
    /\ \/ disk' = disk
       \/ \E key \in todo : LET path == Path(Stages[stage], key) IN
             disk' = Put(path, [Content(Stages[stage], key) EXCEPT !.whole = FALSE])
    /\ code' = "error" /\ stage' = 0 /\ todo' = {} /\ writing' = FALSE
    /\ UNCHANGED <<tree, edits, runs, request, order, files, version>>

Finish ==
    /\ stage > Len(Stages)
    /\ code' = "ok" /\ stage' = 0
    /\ UNCHANGED <<tree, edits, runs, disk, request, order, files, version, todo, writing>>

Next ==
    \/ Edit \/ Skip \/ Generate \/ EndStage \/ Fail \/ Finish
    \/ \E req \in Requests : Accept(req) \/ Refuse(req)
    \/ \E key \in todo : Write(key)

Spec == Init /\ [][Next]_vars

----------------------------------------------------------------------------
(* validate.rs: of the files a run goes on with, no message gives a field  *)
(* number to two fields, nor to a field and a reserved or extension range, *)
(* nor to two ranges, the bounds 0 and MaxFieldNumber included.            *)
NumbersOwnedOnce ==
    stage > 0 => \A f \in DOMAIN files : \A i \in DOMAIN files[f].messages :
        ~files[f].messages[i].mapEntry =>
            \A n \in 0 .. MaxFieldNumber : OwnedOnce(files[f].messages[i], n)

(* validate_message: two neighbouring fields, or reserved ranges, in the   *)
(* other order are accepted or refused as before.  One case is left out:   *)
(* in proto2 a default JSON name hides a conflict between two custom ones  *)
(* that follow it, and not one between two that precede it.                *)
Swapped(seq, i) == [seq EXCEPT ![i] = seq[i + 1], ![i + 1] = seq[i]]
HidesConflict(fields) ==
    \E i, j, k \in DOMAIN fields :
        /\ i < j /\ fields[i].json = fields[j].json /\ fields[j].json = fields[k].json
        /\ Custom(fields[i]) /\ Custom(fields[j]) /\ ~Custom(fields[k])

OrderFree ==
    \A p \in DOMAIN tree : \A m \in DOMAIN tree[p].messages :
        LET msg == tree[p].messages[m]
            Same(other) == ValidMessage(other, IsProto3(tree[p])) <=> ValidMessage(msg, IsProto3(tree[p]))
        IN  /\ ~(~IsProto3(tree[p]) /\ HidesConflict(msg.fields)) =>
                  \A i \in 1 .. (Len(msg.fields) - 1) :
                      Same([msg EXCEPT !.fields = Swapped(msg.fields, i)])
            /\ \A i \in 1 .. (Len(msg.reserved) - 1) :
                  Same([msg EXCEPT !.reserved = Swapped(msg.reserved, i)])

(* main.rs: exit code 0 means that every file of the analysed set is, from *)
(* the current sources and untorn, in the output named after it of every   *)
(* requested generator, whatever earlier runs left there, how many files   *)
(* share that output and in which order they were written.  Of generators  *)
(* that write to the same path the last one wins.                          *)
LastWriter(i, path, key) ==
    \A j \in (i + 1) .. Len(Stages) : Requested(j) => Path(Stages[j], key) # path
SuccessIsWhole ==
    code = "ok" => \A i \in DOMAIN Stages : \A k \in DOMAIN order :
        LET n == order[k]
            key == IF i = 1 THEN <<>> ELSE Key(n)
            path == Path(Stages[i], key)
        IN  Requested(i) /\ (i = 1 => request.imports \/ n \in Roots(request)) =>
                /\ path \in DOMAIN disk
                /\ disk[path].whole /\ disk[path].version = edits
                /\ n \in disk[path].files
                /\ LastWriter(i, path, key) => disk[path].by = Stages[i]

(* relative_proto_path and resolve undo each other: the file compiled for  *)
(* an argument is that file, unless it lies outside the include paths or   *)
(* an include path listed earlier has a file of the same name.  Of a file  *)
(* that is not there, run does not notice if another one, or an embedded   *)
(* one, has its name.                                                      *)
RootsAreArguments ==
    stage > 0 => \A i \in DOMAIN request.args :
        LET arg == request.args[i]
            Around(k) == IsPrefix(Includes[k], arg)
            Shadows(k) == /\ \E j \in DOMAIN Includes : j > k /\ Around(j)
                          /\ Includes[k] \o RelativeName(arg) \in DOMAIN tree
        IN  \/ arg \notin DOMAIN tree \/ \A k \in DOMAIN Includes : ~Around(k)
            \/ Located(RelativeName(arg)) = arg
            \/ \E k \in DOMAIN Includes : Shadows(k)
=============================================================================
