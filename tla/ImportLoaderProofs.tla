------------------------- MODULE ImportLoaderProofs -------------------------
(***************************************************************************)
(* What ImportLoader guarantees for any set of files, any import graph and *)
(* any declarations.                                                       *)
(***************************************************************************)
EXTENDS ImportLoader, SequenceTheorems, TLAPS

(* A function on 1..n is a sequence of length n. *)
LEMMA FunctionIsSeq ==
  ASSUME NEW S, NEW n \in Nat, NEW g \in [1..n -> S]
  PROVE  g \in Seq(S) /\ Len(g) = n
OBVIOUS

LEMMA FrameFields ==
  /\ \A g \in Frame : g.file \in File /\ g.next \in Nat \ {0} /\ g.reg \in Nat
  /\ \A f \in File, n \in Nat \ {0}, r \in Nat :
        /\ Call(f, n, r) \in Frame
        /\ Call(f, n, r).file = f /\ Call(f, n, r).next = n /\ Call(f, n, r).reg = r
BY DEF Frame, Call

(***************************************************************************)
(* The three ways a step changes the stack: another frame replaces the     *)
(* top, a frame is pushed, the top is popped and its caller goes on.       *)
(***************************************************************************)
FramesTyped ==
  /\ Len(stack) \in Nat
  /\ \A i \in 1..Len(stack) :
        stack[i] \in Frame /\ stack[i].file \in File /\ stack[i].next \in Nat \ {0} /\ stack[i].reg \in Nat

LEMMA StackTyped ==
  ASSUME stack \in Seq(Frame)
  PROVE  FramesTyped /\ (stack # <<>> => Len(stack) \in Nat \ {0} /\ Len(stack) \in 1..Len(stack))
<1>1. Len(stack) \in Nat /\ \A i \in 1..Len(stack) : stack[i] \in Frame
  OBVIOUS
<1>2. stack # <<>> => Len(stack) \in Nat \ {0} /\ Len(stack) \in 1..Len(stack)
  OBVIOUS
<1> QED BY <1>1, <1>2, FrameFields DEF FramesTyped

LEMMA TopReplaced ==
  ASSUME stack \in Seq(Frame), stack # <<>>,
         NEW n \in Nat \ {0}, NEW r \in Nat, ReplaceTop(Call(Top.file, n, r))
  PROVE  /\ stack' \in Seq(Frame) /\ stack' # <<>>
         /\ Len(stack) \in Nat \ {0} /\ Len(stack') = Len(stack)
         /\ \A i \in 1..Len(stack) : stack'[i].file = stack[i].file
         /\ \A i \in 1..(Len(stack) - 1) : /\ stack'[i].next = stack[i].next
                                           /\ stack'[i].reg = stack[i].reg
         /\ stack'[Len(stack)].next = n /\ stack'[Len(stack)].reg = r
<1> DEFINE g == Call(Top.file, n, r)
<1>1. g \in Frame /\ g.file = Top.file /\ g.next = n /\ g.reg = r
  BY StackTyped, FrameFields DEF Top, FramesTyped
<1> HIDE DEF g
<1>2. /\ stack' \in Seq(Frame)
      /\ Len(stack) \in Nat \ {0}
      /\ Len(stack') = Len(stack)
      /\ stack'[Len(stack)] = g
      /\ \A i \in 1..(Len(stack) - 1) : stack'[i] = stack[i]
  BY <1>1 DEF ReplaceTop, g
<1>3. \A i \in 1..Len(stack) : stack'[i].file = stack[i].file
  BY <1>1, <1>2 DEF Top
<1> QED BY <1>1, <1>2, <1>3

LEMMA Pushed ==
  ASSUME stack \in Seq(Frame), NEW f \in File, stack' = Append(stack, Call(f, 1, 0))
  PROVE  /\ stack' \in Seq(Frame) /\ stack' # <<>>
         /\ Len(stack) \in Nat /\ Len(stack') = Len(stack) + 1
         /\ \A i \in 1..Len(stack) : stack'[i] = stack[i]
         /\ stack'[Len(stack) + 1].file = f
         /\ stack'[Len(stack) + 1].next = 1
         /\ stack'[Len(stack) + 1].reg = 0
<1> DEFINE g == Call(f, 1, 0)
<1>1. g \in Frame /\ g.file = f /\ g.next = 1 /\ g.reg = 0
  BY FrameFields
<1> HIDE DEF g
<1>2. /\ stack' \in Seq(Frame) /\ stack' # <<>>
      /\ Len(stack) \in Nat /\ Len(stack') = Len(stack) + 1
      /\ stack'[Len(stack) + 1] = g
      /\ \A i \in 1..Len(stack) : stack'[i] = stack[i]
  BY <1>1 DEF g
<1> QED BY <1>1, <1>2

LEMMA Popped ==
  ASSUME stack \in Seq(Frame), stack # <<>>, Return
  PROVE  /\ stack' \in Seq(Frame)
         /\ Len(stack) \in Nat \ {0} /\ Len(stack') = Len(stack) - 1
         /\ stack' = <<>> <=> Len(stack) = 1
         /\ \A i \in 1..(Len(stack) - 1) : stack'[i].file = stack[i].file
         /\ \A i \in 1..(Len(stack) - 2) : stack'[i] = stack[i]
         /\ Len(stack) > 1 => /\ stack'[Len(stack) - 1].next = stack[Len(stack) - 1].next + 1
                              /\ stack'[Len(stack) - 1].reg = 0
<1> DEFINE n == Len(stack) - 1
           caller == Call(stack[n].file, stack[n].next + 1, 0)
           t == [i \in 1..n |-> IF i = n THEN Call(stack[i].file, stack[i].next + 1, 0) ELSE stack[i]]
<1>1. stack' = t /\ Len(stack) \in Nat \ {0}
  BY StackTyped DEF Return
<1>2. n > 0 => /\ caller \in Frame /\ caller.file = stack[n].file
               /\ caller.next = stack[n].next + 1 /\ caller.reg = 0
  <2>1. n > 0 => stack[n].file \in File /\ stack[n].next + 1 \in Nat \ {0}
    BY <1>1, StackTyped DEF FramesTyped
  <2> QED BY <2>1, FrameFields
<1>3. \A i \in 1..n : t[i] = IF i = n THEN caller ELSE stack[i]
  OBVIOUS
<1>4. n \in Nat /\ t \in [1..n -> Frame]
  <2>1. \A i \in 1..n : t[i] \in Frame
    BY <1>1, <1>2, <1>3, StackTyped DEF FramesTyped
  <2> QED BY <2>1, <1>1
<1>5. t \in Seq(Frame) /\ Len(t) = n
  BY <1>4, FunctionIsSeq
<1> HIDE DEF t, caller
<1>6. t = <<>> <=> n = 0
  BY <1>4, <1>5
<1> QED BY <1>1, <1>2, <1>3, <1>5, <1>6

EntryType == [fqn : Seq(Name), kind : SymbolKind]

LEMMA EntriesType ==
  ASSUME NEW c \in Content
  PROVE  Entries(c) \in Seq(EntryType) /\ Len(Entries(c)) \in Nat
<1> DEFINE pkg == c.package
           dcl == c.decls
<1>1. pkg \in Seq(Name) /\ dcl \in Seq([path : Seq(Name), kind : DeclKind])
  BY DEF Content
<1>2. PackageEntries(c) \in Seq(EntryType)
  <2>1. \A i \in 1..Len(pkg) : [fqn |-> SubSeq(pkg, 1, i), kind |-> "Package"] \in EntryType
    BY <1>1 DEF EntryType, SymbolKind
  <2> HIDE DEF pkg
  <2>2. [i \in 1..Len(pkg) |-> [fqn |-> SubSeq(pkg, 1, i), kind |-> "Package"]]
           \in [1..Len(pkg) -> EntryType]
    BY <2>1
  <2>3. Len(pkg) \in Nat
    BY <1>1, LenProperties
  <2>4. [i \in 1..Len(pkg) |-> [fqn |-> SubSeq(pkg, 1, i), kind |-> "Package"]] \in Seq(EntryType)
    BY <2>2, <2>3, FunctionIsSeq, Zenon
  <2> QED BY <2>4 DEF PackageEntries, pkg
<1>3. DeclEntries(c) \in Seq(EntryType)
  <2>1. \A i \in 1..Len(dcl) : [fqn |-> pkg \o dcl[i].path, kind |-> dcl[i].kind] \in EntryType
    <3> HIDE DEF pkg, dcl
    <3> TAKE i \in 1..Len(dcl)
    <3>1. dcl[i] \in [path : Seq(Name), kind : DeclKind]
      BY <1>1, ElementOfSeq
    <3>2. pkg \o dcl[i].path \in Seq(Name) /\ dcl[i].kind \in DeclKind
      BY <3>1, <1>1
    <3> QED BY <3>2 DEF EntryType, SymbolKind
  <2> HIDE DEF pkg, dcl
  <2>2. [i \in 1..Len(dcl) |-> [fqn |-> pkg \o dcl[i].path, kind |-> dcl[i].kind]]
           \in [1..Len(dcl) -> EntryType]
    BY <2>1
  <2>3. Len(dcl) \in Nat
    BY <1>1, LenProperties
  <2>4. [i \in 1..Len(dcl) |-> [fqn |-> pkg \o dcl[i].path, kind |-> dcl[i].kind]] \in Seq(EntryType)
    BY <2>2, <2>3, FunctionIsSeq, Zenon
  <2> QED BY <2>4 DEF DeclEntries, pkg, dcl
<1>4. Entries(c) \in Seq(EntryType)
  BY <1>2, <1>3 DEF Entries
<1> QED BY <1>4, LenProperties

LEMMA EntryTyped ==
  ASSUME TypeOK, Registering
  PROVE  Entry \in EntryType
<1>1. Top \in Frame
  BY DEF TypeOK, Registering, Top
<1>2. Entries(content[Top.file]) \in Seq(EntryType)
  BY <1>1, EntriesType DEF TypeOK, Frame
<1> QED BY <1>2 DEF Registering, Entry

(* Every variable keeps its type: no call of load_file leaves the stack,    *)
(* the table or the order ill-formed, whatever the input.                   *)
LEMMA TypeInit == Init => TypeOK
BY ConstantsAssumption DEF Init, TypeOK, Status

LEMMA TypeStep ==
  ASSUME TypeOK, [Next]_vars
  PROVE  TypeOK'
<1> USE DEF TypeOK
<1>a. stack # <<>> => Top \in Frame /\ Len(stack) \in 1..Len(stack)
  BY DEF Top
<1>b. Wanting => Wanted \in File
  BY <1>a DEF Wanting, Wanted, Importing, InRootLoop, Frame
<1>c. ASSUME Registering, Insert(Entry)
      PROVE  DOMAIN symbols' \subseteq Seq(Name) /\ \A s \in DOMAIN symbols' : symbols'[s] \in SymbolKind
  BY <1>c, EntryTyped DEF Insert, EntryType
<1>d. ASSUME stack # <<>>, NextEntry PROVE stack' \in Seq(Frame)
  <2>1. Top.next \in Nat \ {0} /\ Top.reg + 1 \in Nat
    BY <1>a, <1>d, FrameFields
  <2> QED BY <2>1, <1>d, TopReplaced DEF NextEntry
<1>1. CASE SkipLoaded
  <2>1. CASE InRootLoop
    BY <1>1, <2>1 DEF SkipLoaded, input
  <2>2. CASE ~InRootLoop
    <3>1. Top.next + 1 \in Nat \ {0}
      BY <1>a, <2>2, FrameFields DEF InRootLoop
    <3> QED BY <1>1, <2>2, <3>1, TopReplaced DEF SkipLoaded, input, InRootLoop
  <2> QED BY <2>1, <2>2
<1>2. CASE RootUnavailable
  BY <1>2 DEF RootUnavailable, Fail, input, Status
<1>3. CASE ImportUnavailable
  BY <1>3 DEF ImportUnavailable, Fail, input, Status
<1>4. CASE RejectCycle
  BY <1>4 DEF RejectCycle, Fail, input, Status
<1>5. CASE EnterFile
  BY <1>5, <1>b, Pushed DEF EnterFile, input
<1>6. CASE FinishImports
  <2>1. Top.next \in Nat \ {0} /\ Top.file \in File
    BY <1>a, <1>6, FrameFields DEF FinishImports
  <2> QED BY <1>6, <2>1, TopReplaced DEF FinishImports, input
<1>7. CASE RegisterPackage
  BY <1>7, <1>c, <1>d DEF RegisterPackage, Registering, input
<1>8. CASE PackageConflict
  BY <1>8 DEF PackageConflict, Fail, input, Status
<1>9. CASE RegisterType
  BY <1>9, <1>c, <1>d DEF RegisterType, Registering, input
<1>10. CASE DuplicateType
  BY <1>10 DEF DuplicateType, Fail, input, Status
<1>11. CASE RegisterExtension
  BY <1>11, <1>c, <1>d DEF RegisterExtension, Registering, input
<1>12. CASE Return
  BY <1>12, Popped DEF Return, input
<1>13. CASE AllLoaded
  BY <1>13 DEF AllLoaded, input, Status
<1>14. CASE UNCHANGED vars
  BY <1>14 DEF vars, input
<1> QED
  BY <1>1, <1>2, <1>3, <1>4, <1>5, <1>6, <1>7, <1>8, <1>9, <1>10, <1>11, <1>12, <1>13, <1>14
     DEF Next, Step, Terminated

THEOREM TypeCorrect == Spec => []TypeOK
BY TypeInit, TypeStep, PTL DEF Spec

-----------------------------------------------------------------------------
(***************************************************************************)
(* The inductive invariant of the depth-first search.                      *)
(***************************************************************************)
(* Every frame is loading the import its importer asked for, the bottom one *)
(* the root the outer loop is at; only the top frame registers symbols.     *)
CallChain ==
  /\ \A i \in 1..(Len(stack) - 1) :
        /\ stack[i].reg = 0
        /\ stack[i].next <= Len(deps[stack[i].file])
        /\ stack[i+1].file = deps[stack[i].file][stack[i].next]
  /\ stack # <<>> => rootIdx <= Len(roots) /\ stack[1].file = roots[rootIdx]

(* What a loop has passed is loaded; past the imports, so is the file. *)
PassedLoaded ==
  /\ rootIdx <= Len(roots) + 1
  /\ \A k \in 1..(rootIdx - 1) : roots[k] \in loaded
  /\ \A i \in 1..Len(stack) :
        /\ stack[i].next <= Len(deps[stack[i].file]) + 1
        /\ \A k \in 1..(stack[i].next - 1) : deps[stack[i].file][k] \in loaded
        /\ Loading(i) <=> stack[i].file \notin loaded

Search == CallChain /\ PassedLoaded /\ RecursionBounded /\ LoadedOnce /\ DepsPrecede

LEMMA SearchInit == Init => Search
BY ConstantsAssumption DEF Init, Search, CallChain, PassedLoaded, RecursionBounded, LoadedOnce, DepsPrecede, Range

(* A step that only turns status, the table or the position of the next     *)
(* entry leaves the search as it is.                                        *)
LEMMA SearchSkip ==
  ASSUME TypeOK, Search, NextEntry, Registering,
         UNCHANGED <<input, rootIdx, visiting, loaded, load_order>>
  PROVE  Search'
<1>1. /\ stack \in Seq(Frame) /\ stack # <<>> /\ Top = stack[Len(stack)]
      /\ Top.next \in Nat \ {0} /\ Top.reg \in Nat /\ Top.reg > 0
  <2>1. stack \in Seq(Frame) /\ stack # <<>> /\ Top = stack[Len(stack)]
    BY DEF Top, TypeOK, Registering
  <2>2. Top.file \in File /\ Top.next \in Nat \ {0} /\ Top.reg \in Nat
    BY <2>1, StackTyped DEF FramesTyped
  <2>3. Len(Entries(content[Top.file])) \in Nat
    BY <2>2, EntriesType, LenProperties DEF TypeOK
  <2>4. Top.reg \in 1..Len(Entries(content[Top.file]))
    BY DEF Registering
  <2> QED BY <2>1, <2>2, <2>3, <2>4
<1>2. Top.reg + 1 \in Nat /\ Top.reg + 1 # 0
  BY <1>1
<1>3. /\ stack' # <<>> /\ Len(stack) \in Nat \ {0} /\ Len(stack') = Len(stack)
      /\ \A i \in 1..Len(stack) : /\ stack'[i].file = stack[i].file
                                  /\ stack'[i].next = stack[i].next
                                  /\ stack'[i].reg = 0 <=> stack[i].reg = 0
  <2>1. /\ stack' # <<>> /\ Len(stack) \in Nat \ {0} /\ Len(stack') = Len(stack)
        /\ \A i \in 1..Len(stack) : stack'[i].file = stack[i].file
        /\ \A i \in 1..(Len(stack) - 1) : /\ stack'[i].next = stack[i].next
                                          /\ stack'[i].reg = stack[i].reg
        /\ stack'[Len(stack)].next = Top.next /\ stack'[Len(stack)].reg = Top.reg + 1
    BY <1>1, <1>2, TopReplaced DEF NextEntry
  <2> QED BY <1>1, <1>2, <2>1
<1>4. deps' = deps /\ roots' = roots
  BY DEF input
<1>5. CallChain'
  <2>1. ASSUME NEW i \in 1..(Len(stack) - 1)
        PROVE  /\ stack'[i].reg = 0
               /\ stack'[i].next <= Len(deps[stack'[i].file])
               /\ stack'[i+1].file = deps[stack'[i].file][stack'[i].next]
    <3>1. i \in 1..Len(stack) /\ i + 1 \in 1..Len(stack)
      BY <1>3
    <3> QED BY <1>3, <3>1 DEF Search, CallChain
  <2>2. rootIdx' <= Len(roots') /\ stack'[1].file = roots'[rootIdx']
    <3>1. 1 \in 1..Len(stack)
      BY <1>3
    <3> QED BY <1>1, <1>3, <1>4, <3>1 DEF Search, CallChain
  <2> QED BY <1>3, <1>4, <2>1, <2>2 DEF CallChain
<1>6. PassedLoaded'
  BY <1>3, <1>4 DEF Search, PassedLoaded, Loading
<1>7. RecursionBounded'
  <2>1. {stack'[i].file : i \in {n \in 1..Len(stack') : stack'[n].reg = 0}}
          = {stack[i].file : i \in {n \in 1..Len(stack) : stack[n].reg = 0}}
    BY <1>3
  <2> QED BY <1>3, <1>4, <2>1 DEF Search, RecursionBounded, Loading
<1>8. LoadedOnce' /\ DepsPrecede'
  BY <1>4 DEF Search, LoadedOnce, DepsPrecede
<1> QED BY <1>5, <1>6, <1>7, <1>8 DEF Search

LEMMA SearchFrozen ==
  ASSUME Search, UNCHANGED <<input, rootIdx, stack, visiting, loaded, load_order>>
  PROVE  Search'
BY DEF Search, CallChain, PassedLoaded, RecursionBounded, LoadedOnce, DepsPrecede, Loading, input

(* The next file of a loop: where it comes from and what its frame is. *)
LEMMA WantedFacts ==
  ASSUME TypeOK, Search, Wanting
  PROVE  /\ status = "running"
         /\ Wanted \in File
         /\ InRootLoop => /\ stack = <<>> /\ Len(stack) = 0
                          /\ rootIdx <= Len(roots) /\ Wanted = roots[rootIdx]
         /\ ~InRootLoop =>
              /\ stack # <<>> /\ Len(stack) \in Nat \ {0} /\ Top = stack[Len(stack)]
              /\ Top.file \in File /\ Top.next \in Nat \ {0} /\ Top.reg = 0
              /\ Top.next <= Len(deps[Top.file]) /\ Wanted = deps[Top.file][Top.next]
              /\ deps[Top.file] \in Seq(File)
<1>1. CASE InRootLoop
  BY <1>1 DEF TypeOK, Wanting, Wanted, Importing, InRootLoop
<1>2. CASE ~InRootLoop
  <2>1. stack # <<>> /\ Top.reg = 0 /\ Top.next <= Len(deps[Top.file]) /\ Wanted = deps[Top.file][Top.next]
    BY <1>2 DEF Wanting, Wanted, Importing, InRootLoop
  <2>2. Len(stack) \in Nat \ {0} /\ Top = stack[Len(stack)] /\ Top.file \in File /\ Top.next \in Nat \ {0}
    BY <2>1, StackTyped DEF TypeOK, Top, FramesTyped
  <2>3. deps[Top.file] \in Seq(File)
    BY <2>2 DEF TypeOK
  <2>4. deps[Top.file][Top.next] \in File
    BY <2>1, <2>2, <2>3
  <2> QED BY <1>2, <2>1, <2>2, <2>3, <2>4 DEF Wanting
<1> QED BY <1>1, <1>2

LEMMA SearchSkipLoaded ==
  ASSUME TypeOK, Search, SkipLoaded
  PROVE  Search'
<1> USE WantedFacts DEF SkipLoaded
<1>1. deps' = deps /\ roots' = roots /\ UNCHANGED <<visiting, loaded, load_order>> /\ Wanted \in loaded
  BY DEF input
<1>2. LoadedOnce' /\ DepsPrecede'
  BY <1>1 DEF Search, LoadedOnce, DepsPrecede
<1>3. CASE InRootLoop
  <2>1. stack = <<>> /\ stack' = <<>> /\ Len(stack') = 0 /\ rootIdx' = rootIdx + 1
    BY <1>3
  <2>2. CallChain' /\ RecursionBounded'
    BY <1>1, <2>1 DEF Search, CallChain, RecursionBounded
  <2>3. PassedLoaded'
    <3>1. rootIdx' <= Len(roots) + 1 /\ \A k \in 1..rootIdx : roots[k] \in loaded
      BY <1>1, <1>3, <2>1 DEF Search, PassedLoaded, TypeOK
    <3> QED BY <1>1, <2>1, <3>1 DEF PassedLoaded, TypeOK
  <2> QED BY <1>2, <2>2, <2>3 DEF Search
<1>4. CASE ~InRootLoop
  <2>1. /\ stack' # <<>> /\ Len(stack) \in Nat \ {0} /\ Len(stack') = Len(stack)
        /\ \A i \in 1..Len(stack) : stack'[i].file = stack[i].file
        /\ \A i \in 1..(Len(stack) - 1) : /\ stack'[i].next = stack[i].next
                                          /\ stack'[i].reg = stack[i].reg
        /\ stack'[Len(stack)].next = Top.next + 1 /\ stack'[Len(stack)].reg = 0
    <3>1. Top.next + 1 \in Nat \ {0}
      BY <1>4
    <3> QED BY <1>4, <3>1, TopReplaced DEF TypeOK
  <2>2. /\ \A i \in 1..Len(stack) : stack'[i].reg = stack[i].reg
        /\ rootIdx' = rootIdx /\ stack # <<>> /\ Top = stack[Len(stack)]
        /\ Len(stack) \in 1..Len(stack) /\ 1 \in 1..Len(stack)
    BY <1>4, <2>1
  <2>3. CallChain'
    <3>1. ASSUME NEW i \in 1..(Len(stack) - 1)
          PROVE  /\ stack'[i].reg = 0
                 /\ stack'[i].next <= Len(deps[stack'[i].file])
                 /\ stack'[i+1].file = deps[stack'[i].file][stack'[i].next]
      <4>1. i \in 1..Len(stack) /\ i + 1 \in 1..Len(stack)
        BY <2>1
      <4> QED BY <2>1, <4>1 DEF Search, CallChain
    <3>2. rootIdx' <= Len(roots') /\ stack'[1].file = roots'[rootIdx']
      BY <1>1, <2>1, <2>2 DEF Search, CallChain
    <3> QED BY <1>1, <2>1, <3>1, <3>2 DEF CallChain
  <2>4. PassedLoaded'
    <3>1. ASSUME NEW i \in 1..Len(stack)
          PROVE  /\ stack'[i].next <= Len(deps[stack'[i].file]) + 1
                 /\ \A k \in 1..(stack'[i].next - 1) : deps[stack'[i].file][k] \in loaded
                 /\ stack'[i].reg = 0 <=> stack'[i].file \notin loaded
      <4>1. stack[i].reg = 0 <=> stack[i].file \notin loaded
        BY DEF Search, PassedLoaded, Loading
      <4>2. /\ stack[i].next <= Len(deps[stack[i].file]) + 1
            /\ \A k \in 1..(stack[i].next - 1) : deps[stack[i].file][k] \in loaded
        BY DEF Search, PassedLoaded
      <4>3. CASE i < Len(stack)
        <5>1. /\ stack'[i].file = stack[i].file /\ stack'[i].next = stack[i].next
              /\ stack'[i].reg = stack[i].reg
          <6>1. i \in 1..(Len(stack) - 1)
            BY <2>1, <4>3
          <6> QED BY <2>1, <6>1
        <5> QED BY <4>1, <4>2, <5>1
      <4>4. CASE i = Len(stack)
        <5>1. /\ stack'[i].file = Top.file /\ stack'[i].next = Top.next + 1
              /\ stack'[i].reg = stack[i].reg
          BY <2>1, <2>2, <4>4
        <5>2. \A k \in 1..Top.next : deps[Top.file][k] \in loaded
          BY <1>1, <1>4, <2>2, <4>2, <4>4
        <5>3. Top.next + 1 <= Len(deps[Top.file]) + 1 /\ Top.next + 1 - 1 = Top.next
          BY <1>4, LenProperties
        <5> QED BY <2>2, <4>1, <4>4, <5>1, <5>2, <5>3
      <4> QED BY <2>1, <4>3, <4>4
    <3>2. rootIdx' <= Len(roots') + 1 /\ \A k \in 1..(rootIdx' - 1) : roots'[k] \in loaded'
      BY <1>1, <2>2 DEF Search, PassedLoaded
    <3> QED BY <1>1, <2>1, <3>1, <3>2 DEF PassedLoaded, Loading
  <2>5. RecursionBounded'
    <3>1. {stack'[i].file : i \in {n \in 1..Len(stack') : stack'[n].reg = 0}}
            = {stack[i].file : i \in {n \in 1..Len(stack) : stack[n].reg = 0}}
      BY <2>1, <2>2
    <3>2. /\ \A i, j \in 1..Len(stack) : stack'[i].file = stack'[j].file => i = j
          /\ visiting = {stack[i].file : i \in {n \in 1..Len(stack) : stack[n].reg = 0}}
          /\ visiting \cap loaded = {}
      BY <2>1 DEF Search, RecursionBounded, Loading
    <3> QED BY <1>1, <2>1, <3>1, <3>2 DEF RecursionBounded, Loading
  <2> QED BY <1>2, <2>3, <2>4, <2>5 DEF Search
<1> QED BY <1>3, <1>4

LEMMA SearchEnterFile ==
  ASSUME TypeOK, Search, EnterFile
  PROVE  Search'
<1> DEFINE n == Len(stack)
<1>1. /\ Wanted \in File /\ Wanted \notin loaded /\ Wanted \notin visiting
      /\ visiting' = visiting \cup {Wanted}
      /\ stack' = Append(stack, Call(Wanted, 1, 0))
      /\ rootIdx' = rootIdx /\ deps' = deps /\ roots' = roots
      /\ loaded' = loaded /\ load_order' = load_order
  BY WantedFacts DEF EnterFile, input
<1>2. /\ stack' # <<>> /\ n \in Nat /\ Len(stack') = n + 1
      /\ \A i \in 1..n : stack'[i] = stack[i]
      /\ stack'[n + 1].file = Wanted /\ stack'[n + 1].next = 1 /\ stack'[n + 1].reg = 0
  BY <1>1, Pushed DEF TypeOK
<1>3. n = 0 => rootIdx <= Len(roots) /\ Wanted = roots[rootIdx]
  BY WantedFacts DEF EnterFile
<1>4. n > 0 => /\ stack[n].reg = 0 /\ stack[n].next <= Len(deps[stack[n].file])
               /\ Wanted = deps[stack[n].file][stack[n].next]
  BY WantedFacts DEF EnterFile
<1>5. \A i \in 1..n : stack[i].reg = 0
  BY <1>2, <1>4 DEF Search, CallChain
<1>6. \A i \in 1..n : stack[i].file \in visiting
  BY <1>5 DEF Search, RecursionBounded, Loading
<1>7. CallChain'
  <2>1. ASSUME NEW i \in 1..n
        PROVE  /\ stack'[i].reg = 0
               /\ stack'[i].next <= Len(deps[stack'[i].file])
               /\ stack'[i+1].file = deps[stack'[i].file][stack'[i].next]
    <3>1. CASE i = n
      BY <1>2, <1>4, <3>1
    <3>2. CASE i # n
      <4>1. i \in 1..(n - 1) /\ i + 1 \in 1..n
        BY <1>2, <3>2
      <4> QED BY <1>2, <4>1 DEF Search, CallChain
    <3> QED BY <3>1, <3>2
  <2>2. rootIdx <= Len(roots) /\ stack'[1].file = roots[rootIdx]
    <3>1. CASE n = 0
      BY <1>2, <1>3, <3>1
    <3>2. CASE n # 0
      <4>1. 1 \in 1..n /\ stack # <<>>
        BY <1>2, <3>2
      <4> QED BY <1>2, <4>1 DEF Search, CallChain
    <3> QED BY <3>1, <3>2
  <2> QED BY <1>1, <1>2, <2>1, <2>2 DEF CallChain
<1>8. PassedLoaded'
  <2>1. ASSUME NEW i \in 1..(n + 1)
        PROVE  /\ stack'[i].next <= Len(deps[stack'[i].file]) + 1
               /\ \A k \in 1..(stack'[i].next - 1) : deps[stack'[i].file][k] \in loaded
               /\ stack'[i].reg = 0 <=> stack'[i].file \notin loaded
    <3>1. CASE i = n + 1
      <4>1. Len(deps[Wanted]) \in Nat
        BY <1>1, LenProperties DEF TypeOK
      <4> QED BY <1>1, <1>2, <3>1, <4>1
    <3>2. CASE i # n + 1
      <4>1. i \in 1..n
        BY <1>2, <3>2
      <4> QED BY <1>2, <4>1 DEF Search, PassedLoaded, Loading
    <3> QED BY <3>1, <3>2
  <2>2. rootIdx <= Len(roots) + 1 /\ \A k \in 1..(rootIdx - 1) : roots[k] \in loaded
    BY DEF Search, PassedLoaded
  <2> QED BY <1>1, <1>2, <2>1, <2>2 DEF PassedLoaded, Loading
<1>9. RecursionBounded'
  <2>1. ASSUME NEW i \in 1..(n + 1), NEW j \in 1..(n + 1), stack'[i].file = stack'[j].file
        PROVE  i = j
    <3>1. CASE i \in 1..n /\ j \in 1..n
      BY <1>2, <2>1, <3>1 DEF Search, RecursionBounded
    <3>2. CASE i \in 1..n /\ j = n + 1
      BY <1>1, <1>2, <1>6, <2>1, <3>2
    <3>3. CASE i = n + 1 /\ j \in 1..n
      BY <1>1, <1>2, <1>6, <2>1, <3>3
    <3> QED BY <1>2, <3>1, <3>2, <3>3
  <2>2. visiting' = {stack'[i].file : i \in {m \in 1..Len(stack') : stack'[m].reg = 0}}
    <3>1. visiting = {stack[i].file : i \in 1..n}
      BY <1>5 DEF Search, RecursionBounded, Loading
    <3>2. {m \in 1..Len(stack') : stack'[m].reg = 0} = 1..(n + 1)
      BY <1>2, <1>5
    <3>3. 1..(n + 1) = (1..n) \cup {n + 1}
      BY <1>2
    <3>4. {stack'[i].file : i \in (1..n) \cup {n + 1}} = {stack[i].file : i \in 1..n} \cup {Wanted}
      BY <1>2
    <3> QED BY <1>1, <3>1, <3>2, <3>3, <3>4
  <2>3. visiting' \cap loaded' = {}
    BY <1>1 DEF Search, RecursionBounded
  <2> QED BY <1>2, <2>1, <2>2, <2>3 DEF RecursionBounded, Loading
<1>10. LoadedOnce' /\ DepsPrecede'
  BY <1>1 DEF Search, LoadedOnce, DepsPrecede
<1> QED BY <1>7, <1>8, <1>9, <1>10 DEF Search

LEMMA SearchReturn ==
  ASSUME TypeOK, Search, Return
  PROVE  Search'
<1> DEFINE n == Len(stack)
<1>1. /\ deps' = deps /\ roots' = roots
      /\ UNCHANGED <<visiting, loaded, load_order>>
      /\ rootIdx' = IF n = 1 THEN rootIdx + 1 ELSE rootIdx
      /\ stack # <<>> /\ Top = stack[n]
  BY DEF Return, input, Top
<1>2. /\ n \in Nat \ {0} /\ Len(stack') = n - 1
      /\ stack' = <<>> <=> n = 1
      /\ \A i \in 1..(n - 1) : stack'[i].file = stack[i].file
      /\ \A i \in 1..(n - 2) : stack'[i] = stack[i]
      /\ n > 1 => stack'[n - 1].next = stack[n - 1].next + 1 /\ stack'[n - 1].reg = 0
  BY <1>1, Popped DEF TypeOK
<1>3. \A i \in 1..n : stack[i].file \in File /\ stack[i].next \in Nat \ {0} /\ stack[i].reg \in Nat
  BY StackTyped DEF TypeOK, FramesTyped
<1>4. stack[n].reg # 0 /\ stack[n].file \in loaded
  <2>1. Len(Entries(content[Top.file])) \in Nat
    BY <1>1, <1>2, <1>3, EntriesType, LenProperties DEF TypeOK
  <2>2. stack[n].reg # 0
    BY <1>1, <1>2, <1>3, <2>1 DEF Return
  <2> QED BY <1>2, <2>2 DEF Search, PassedLoaded, Loading
<1>5. \A i \in 1..(n - 1) : /\ stack[i].reg = 0
                            /\ stack[i].next <= Len(deps[stack[i].file])
                            /\ stack[i+1].file = deps[stack[i].file][stack[i].next]
  BY DEF Search, CallChain
<1>6. \A i \in 1..(n - 1) : stack'[i].reg = 0
  BY <1>2, <1>5
<1>7. CallChain'
  <2>1. ASSUME NEW i \in 1..(n - 2)
        PROVE  /\ stack'[i].reg = 0
               /\ stack'[i].next <= Len(deps[stack'[i].file])
               /\ stack'[i+1].file = deps[stack'[i].file][stack'[i].next]
    <3>1. i \in 1..(n - 1) /\ i + 1 \in 1..(n - 1)
      BY <1>2
    <3> QED BY <1>2, <1>5, <3>1
  <2>2. stack' # <<>> => rootIdx' <= Len(roots') /\ stack'[1].file = roots'[rootIdx']
    BY <1>1, <1>2 DEF Search, CallChain
  <2> QED BY <1>1, <1>2, <2>1, <2>2 DEF CallChain
<1>8. PassedLoaded'
  <2>1. ASSUME NEW i \in 1..(n - 1)
        PROVE  /\ stack'[i].next <= Len(deps[stack'[i].file]) + 1
               /\ \A k \in 1..(stack'[i].next - 1) : deps[stack'[i].file][k] \in loaded
               /\ stack'[i].reg = 0 <=> stack'[i].file \notin loaded
    <3>1. /\ stack[i].next <= Len(deps[stack[i].file]) + 1
          /\ \A k \in 1..(stack[i].next - 1) : deps[stack[i].file][k] \in loaded
          /\ stack[i].file \notin loaded
      BY <1>2, <1>5 DEF Search, PassedLoaded, Loading
    <3>2. CASE i # n - 1
      <4>1. i \in 1..(n - 2)
        BY <1>2, <3>2
      <4> QED BY <1>2, <1>6, <3>1, <4>1
    <3>3. CASE i = n - 1
      <4>1. n > 1 /\ stack[n].file = deps[stack[i].file][stack[i].next] /\ stack[i].next <= Len(deps[stack[i].file])
        BY <1>2, <1>5, <3>3
      <4>2. /\ stack'[i].file = stack[i].file /\ stack'[i].next = stack[i].next + 1
            /\ stack[i].next \in Nat
        BY <1>2, <1>3, <3>3, <4>1
      <4>3. \A k \in 1..stack[i].next : deps[stack[i].file][k] \in loaded
        BY <1>4, <3>1, <4>1, <4>2
      <4>4. Len(deps[stack[i].file]) \in Nat
        BY <1>2, <1>3, LenProperties DEF TypeOK
      <4> QED BY <1>6, <3>1, <4>1, <4>2, <4>3, <4>4
    <3> QED BY <3>2, <3>3
  <2>2. rootIdx' <= Len(roots) + 1 /\ \A k \in 1..(rootIdx' - 1) : roots[k] \in loaded
    <3>1. /\ rootIdx <= Len(roots) + 1 /\ \A k \in 1..(rootIdx - 1) : roots[k] \in loaded
          /\ rootIdx \in Nat \ {0} /\ Len(roots) \in Nat
          /\ rootIdx <= Len(roots) /\ stack[1].file = roots[rootIdx]
      BY <1>1, LenProperties DEF Search, PassedLoaded, CallChain, TypeOK
    <3>2. CASE n = 1
      <4>1. roots[rootIdx] \in loaded /\ rootIdx' = rootIdx + 1
        BY <1>1, <1>4, <3>1, <3>2
      <4> QED BY <3>1, <4>1
    <3>3. CASE n # 1
      BY <1>1, <3>1, <3>3
    <3> QED BY <3>2, <3>3
  <2> QED BY <1>1, <1>2, <2>1, <2>2 DEF PassedLoaded, Loading
<1>9. RecursionBounded'
  <2>1. \A i, j \in 1..(n - 1) : stack'[i].file = stack'[j].file => i = j
    BY <1>2 DEF Search, RecursionBounded
  <2>2. {m \in 1..Len(stack') : stack'[m].reg = 0} = 1..(n - 1)
    BY <1>2, <1>6
  <2>3. {m \in 1..n : stack[m].reg = 0} = 1..(n - 1)
    BY <1>2, <1>4, <1>5
  <2>4. {stack'[i].file : i \in 1..(n - 1)} = {stack[i].file : i \in 1..(n - 1)}
    BY <1>2
  <2> QED BY <1>1, <1>2, <2>1, <2>2, <2>3, <2>4 DEF Search, RecursionBounded, Loading
<1>10. LoadedOnce' /\ DepsPrecede'
  BY <1>1 DEF Search, LoadedOnce, DepsPrecede
<1> QED BY <1>7, <1>8, <1>9, <1>10 DEF Search

LEMMA SearchFinishImports ==
  ASSUME TypeOK, Search, FinishImports
  PROVE  Search'
<1> DEFINE n == Len(stack)
           f == Top.file
           m == Len(load_order)
<1>1. /\ deps' = deps /\ roots' = roots /\ rootIdx' = rootIdx
      /\ visiting' = visiting \ {f} /\ loaded' = loaded \cup {f}
      /\ load_order' = Append(load_order, f)
      /\ stack # <<>> /\ Top = stack[n] /\ ReplaceTop(Call(f, Top.next, 1))
      /\ Top.reg = 0 /\ Top.next > Len(deps[f])
  BY DEF FinishImports, input, Top
<1>2. /\ n \in Nat \ {0} /\ n \in 1..n
      /\ \A i \in 1..n : stack[i].file \in File /\ stack[i].next \in Nat \ {0} /\ stack[i].reg \in Nat
  BY <1>1, StackTyped DEF TypeOK, FramesTyped
<1>3. f = stack[n].file /\ f \in File /\ Top.next \in Nat \ {0} /\ deps[f] \in Seq(File) /\ Len(deps[f]) \in Nat
  BY <1>1, <1>2, LenProperties DEF TypeOK
<1> HIDE DEF f
<1>4. /\ stack' # <<>> /\ Len(stack') = n
      /\ \A i \in 1..n : stack'[i].file = stack[i].file
      /\ \A i \in 1..(n - 1) : stack'[i].next = stack[i].next /\ stack'[i].reg = stack[i].reg
      /\ stack'[n].next = Top.next /\ stack'[n].reg = 1
  <2>1. 1 \in Nat /\ stack \in Seq(Frame)
    BY DEF TypeOK
  <2> QED BY <1>1, <1>3, <2>1, TopReplaced DEF f
<1>5. /\ \A i \in 1..(n - 1) : stack[i].reg = 0
      /\ f \notin loaded
      /\ Top.next = Len(deps[f]) + 1
      /\ \A k \in 1..Len(deps[f]) : deps[f][k] \in loaded
  <2>1. \A i \in 1..(n - 1) : stack[i].reg = 0
    BY DEF Search, CallChain
  <2>2. f \notin loaded
    BY <1>1, <1>2, <1>3 DEF Search, PassedLoaded, Loading
  <2>3. Top.next <= Len(deps[f]) + 1 /\ \A k \in 1..(Top.next - 1) : deps[f][k] \in loaded
    BY <1>1, <1>2, <1>3 DEF Search, PassedLoaded
  <2>4. Top.next = Len(deps[f]) + 1
    BY <1>1, <1>3, <2>3
  <2> QED BY <1>3, <2>1, <2>2, <2>3, <2>4
<1>6. \A i \in 1..(n - 1) : stack[i].file # f
  BY <1>2, <1>3 DEF Search, RecursionBounded
<1>7. CallChain'
  <2>1. ASSUME NEW i \in 1..(n - 1)
        PROVE  /\ stack'[i].reg = 0
               /\ stack'[i].next <= Len(deps[stack'[i].file])
               /\ stack'[i+1].file = deps[stack'[i].file][stack'[i].next]
    <3>1. i \in 1..n /\ i + 1 \in 1..n
      BY <1>2
    <3> QED BY <1>4, <3>1 DEF Search, CallChain
  <2>2. rootIdx <= Len(roots) /\ stack'[1].file = roots[rootIdx]
    <3>1. 1 \in 1..n
      BY <1>2
    <3> QED BY <1>1, <1>4, <3>1 DEF Search, CallChain
  <2> QED BY <1>1, <1>4, <2>1, <2>2 DEF CallChain
<1>8. PassedLoaded'
  <2>1. ASSUME NEW i \in 1..n
        PROVE  /\ stack'[i].next <= Len(deps[stack'[i].file]) + 1
               /\ \A k \in 1..(stack'[i].next - 1) : deps[stack'[i].file][k] \in loaded'
               /\ stack'[i].reg = 0 <=> stack'[i].file \notin loaded'
    <3>1. CASE i = n
      <4>1. stack'[i].file = f /\ stack'[i].next = Len(deps[f]) + 1 /\ stack'[i].reg = 1
        BY <1>3, <1>4, <1>5, <3>1
      <4>2. \A k \in 1..Len(deps[f]) : deps[f][k] \in loaded'
        BY <1>1, <1>5
      <4> QED BY <1>1, <1>3, <4>1, <4>2
    <3>2. CASE i # n
      <4>1. i \in 1..(n - 1)
        BY <1>2, <3>2
      <4>2. /\ stack[i].next <= Len(deps[stack[i].file]) + 1
            /\ \A k \in 1..(stack[i].next - 1) : deps[stack[i].file][k] \in loaded
            /\ stack[i].reg = 0 <=> stack[i].file \notin loaded
        BY DEF Search, PassedLoaded, Loading
      <4> QED BY <1>1, <1>4, <1>6, <4>1, <4>2
    <3> QED BY <3>1, <3>2
  <2>2. rootIdx <= Len(roots) + 1 /\ \A k \in 1..(rootIdx - 1) : roots[k] \in loaded'
    BY <1>1 DEF Search, PassedLoaded
  <2> QED BY <1>1, <1>4, <2>1, <2>2 DEF PassedLoaded, Loading
<1>9. RecursionBounded'
  <2>1. \A i, j \in 1..n : stack'[i].file = stack'[j].file => i = j
    BY <1>4 DEF Search, RecursionBounded
  <2>2. visiting = {stack[i].file : i \in 1..n}
    <3>1. {k \in 1..n : stack[k].reg = 0} = 1..n
      BY <1>1, <1>2, <1>5
    <3> QED BY <3>1 DEF Search, RecursionBounded, Loading
  <2>3. {k \in 1..Len(stack') : stack'[k].reg = 0} = 1..(n - 1)
    BY <1>2, <1>4, <1>5
  <2>4. {stack[i].file : i \in 1..n} \ {f} = {stack[i].file : i \in 1..(n - 1)}
    BY <1>2, <1>3, <1>6
  <2>5. {stack'[i].file : i \in 1..(n - 1)} = {stack[i].file : i \in 1..(n - 1)}
    BY <1>2, <1>4
  <2>6. visiting' \cap loaded' = {}
    BY <1>1 DEF Search, RecursionBounded
  <2> QED BY <1>1, <1>4, <2>1, <2>2, <2>3, <2>4, <2>5, <2>6 DEF RecursionBounded, Loading
<1>10. /\ load_order' \in Seq(File) /\ m \in Nat /\ Len(load_order') = m + 1
       /\ \A i \in 1..m : load_order'[i] = load_order[i]
       /\ load_order'[m + 1] = f
  BY <1>1, <1>3 DEF TypeOK
<1>11. /\ loaded = {load_order[i] : i \in 1..m}
       /\ \A i, j \in 1..m : load_order[i] = load_order[j] => i = j
  <2>1. DOMAIN load_order = 1..m
    BY LenProperties DEF TypeOK
  <2>2. Range(load_order) = {load_order[i] : i \in 1..m}
    BY <2>1 DEF Range
  <2> QED BY <2>2 DEF Search, LoadedOnce
<1>12. LoadedOnce'
  <2>1. loaded' = {load_order'[i] : i \in 1..(m + 1)}
    <3>1. 1..(m + 1) = (1..m) \cup {m + 1}
      BY <1>10
    <3> QED BY <1>1, <1>10, <1>11, <3>1
  <2>2. DOMAIN load_order' = 1..(m + 1)
    BY <1>10
  <2>3. ASSUME NEW i \in 1..(m + 1), NEW j \in 1..(m + 1), load_order'[i] = load_order'[j]
        PROVE  i = j
    <3>1. CASE i \in 1..m /\ j \in 1..m
      BY <1>10, <1>11, <2>3, <3>1
    <3>2. CASE i \in 1..m /\ j = m + 1
      BY <1>5, <1>10, <1>11, <2>3, <3>2
    <3>3. CASE i = m + 1 /\ j \in 1..m
      BY <1>5, <1>10, <1>11, <2>3, <3>3
    <3> QED BY <1>10, <3>1, <3>2, <3>3
  <2> QED BY <1>10, <2>1, <2>2, <2>3 DEF LoadedOnce, Range
<1>13. DepsPrecede'
  <2>1. ASSUME NEW i \in 1..(m + 1), NEW k \in 1..Len(deps[load_order'[i]])
        PROVE  \E j \in 1..(i - 1) : load_order'[j] = deps[load_order'[i]][k]
    <3>1. CASE i = m + 1
      <4>1. load_order'[i] = f /\ k \in 1..Len(deps[f])
        BY <1>10, <3>1
      <4>2. PICK j \in 1..m : load_order[j] = deps[f][k]
        BY <1>5, <1>11, <4>1
      <4> QED BY <1>10, <3>1, <4>1, <4>2
    <3>2. CASE i # m + 1
      <4>1. i \in 1..m /\ load_order'[i] = load_order[i]
        BY <1>10, <3>2
      <4>2. PICK j \in 1..(i - 1) : load_order[j] = deps[load_order[i]][k]
        BY <4>1 DEF Search, DepsPrecede
      <4>3. j \in 1..m
        BY <1>10, <4>1, <4>2
      <4> QED BY <1>10, <4>1, <4>2, <4>3
    <3> QED BY <3>1, <3>2
  <2>2. deps' = deps /\ Len(load_order') = m + 1
    BY <1>1, <1>10
  <2>3. \A i \in 1..(m + 1) : \A k \in 1..Len(deps'[load_order'[i]]) :
          \E j \in 1..(i - 1) : load_order'[j] = deps'[load_order'[i]][k]
    BY <2>1, <2>2
  <2> QED BY <2>2, <2>3 DEF DepsPrecede
<1> QED BY <1>7, <1>8, <1>9, <1>12, <1>13 DEF Search

LEMMA SearchStep ==
  ASSUME TypeOK, Search, [Next]_vars
  PROVE  Search'
<1>1. CASE SkipLoaded
  BY <1>1, SearchSkipLoaded
<1>2. CASE EnterFile
  BY <1>2, SearchEnterFile
<1>3. CASE FinishImports
  BY <1>3, SearchFinishImports
<1>4. CASE Return
  BY <1>4, SearchReturn
<1>5. CASE RegisterPackage \/ RegisterType \/ RegisterExtension
  BY <1>5, SearchSkip DEF RegisterPackage, RegisterType, RegisterExtension
<1>6. CASE RootUnavailable \/ ImportUnavailable \/ RejectCycle \/ PackageConflict \/ DuplicateType
  BY <1>6, SearchFrozen
     DEF RootUnavailable, ImportUnavailable, RejectCycle, PackageConflict, DuplicateType, Fail
<1>7. CASE AllLoaded \/ UNCHANGED vars
  BY <1>7, SearchFrozen DEF AllLoaded, vars, input
<1> QED
  BY <1>1, <1>2, <1>3, <1>4, <1>5, <1>6, <1>7 DEF Next, Step, Terminated

LEMMA SearchInvariant == Spec => [](TypeOK /\ Search)
BY TypeInit, TypeStep, SearchInit, SearchStep, PTL DEF Spec

(* load_order lists every import of a file before the file. *)
THEOREM ImportsComeFirst == Spec => []DepsPrecede
BY SearchInvariant, PTL DEF Search

(* load_order lists exactly the loaded files, each of them once. *)
THEOREM FilesLoadedOnce == Spec => []LoadedOnce
BY SearchInvariant, PTL DEF Search

(* The recursion of load_file never meets a file twice on its stack, and    *)
(* visiting names exactly the calls that still load imports.                *)
THEOREM RecursionIsBounded == Spec => []RecursionBounded
BY SearchInvariant, PTL DEF Search

(* "File recursively imports itself" is never said of a file that does not: *)
(* the active calls of load_file spell out the cycle.                       *)
THEOREM CyclesAreReal == Spec => []CycleIsReal
<1>1. Init => CycleIsReal
  BY DEF Init, CycleIsReal
<1>2. ASSUME TypeOK, Search, RejectCycle
      PROVE  CycleIsReal'
  <2>1. stack' = stack /\ deps' = deps
    BY <1>2 DEF RejectCycle, Fail, input
  <2>2. PICK i \in 1..Len(stack) : stack[i].file = Wanted
    BY <1>2 DEF RejectCycle, Search, RecursionBounded
  <2>3. stack # <<>> /\ Len(stack) \in Nat
    BY <2>2, <1>2 DEF TypeOK
  <2>4. Wanted = deps[Top.file][Top.next]
    BY <2>3 DEF Wanted, InRootLoop
  <2>5. ASSUME NEW j \in i..(Len(stack) - 1)
        PROVE  stack[j+1].file \in Range(deps[stack[j].file])
    <3>1. /\ j \in 1..(Len(stack) - 1) /\ j \in 1..Len(stack)
      BY <2>3
    <3>2. /\ stack[j].next <= Len(deps[stack[j].file])
          /\ stack[j+1].file = deps[stack[j].file][stack[j].next]
      BY <1>2, <3>1 DEF Search, CallChain
    <3>3. stack[j].file \in File /\ stack[j].next \in Nat \ {0}
      BY <1>2, <3>1, StackTyped DEF FramesTyped, TypeOK
    <3>4. deps[stack[j].file] \in Seq(File)
      BY <1>2, <3>3 DEF TypeOK
    <3>5. stack[j].next \in DOMAIN deps[stack[j].file]
      BY <3>2, <3>3, <3>4
    <3> QED BY <3>2, <3>5 DEF Range
  <2> QED BY <2>1, <2>2, <2>4, <2>5 DEF CycleIsReal, Top
<1>3. ASSUME CycleIsReal, UNCHANGED vars
      PROVE  CycleIsReal'
  BY <1>3 DEF CycleIsReal, Top, vars
<1>4. ASSUME Step, ~RejectCycle
      PROVE  status' # "recursive import"
  BY <1>4 DEF Step, SkipLoaded, RootUnavailable, ImportUnavailable, EnterFile, FinishImports,
              RegisterPackage, PackageConflict, RegisterType, DuplicateType, RegisterExtension,
              Return, AllLoaded, Fail, Wanting
<1>5. TypeOK /\ Search /\ CycleIsReal /\ [Next]_vars => CycleIsReal'
  <2> SUFFICES ASSUME TypeOK, Search, CycleIsReal, [Next]_vars
               PROVE  CycleIsReal'
    OBVIOUS
  <2>1. CASE UNCHANGED vars
    BY <1>3, <2>1
  <2>2. CASE RejectCycle
    BY <1>2, <2>2
  <2>3. CASE Step /\ ~RejectCycle
    BY <1>4, <2>3 DEF CycleIsReal
  <2> QED BY <2>1, <2>2, <2>3 DEF Next, Terminated
<1> QED BY <1>1, <1>5, SearchInvariant, PTL DEF Spec
=============================================================================
