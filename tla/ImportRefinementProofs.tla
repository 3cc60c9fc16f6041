----------------------- MODULE ImportRefinementProofs -----------------------
(***************************************************************************)
(* The depth-first load_file implements ImportOrder: every step of it is a *)
(* step of ImportOrder or leaves order and outcome as they are.            *)
(***************************************************************************)
EXTENDS ImportLoaderProofs

ClosedSet(S) == \A g \in S : Range(deps[g]) \subseteq S

(* f is in every set of files that contains W and the imports of its members. *)
Leads(W, f) == \A S \in SUBSET File : W \subseteq S /\ ClosedSet(S) => f \in S

LEMMA FromIsLeads ==
  ASSUME NEW W
  PROVE  Order!From(W) = {f \in File : Leads(W, f)}
<1>1. \A S \in SUBSET File : Order!Closed(S) <=> ClosedSet(S)
  <2> TAKE S \in SUBSET File
  <2>1. \A g \in S : [f \in File |-> Range(deps[f])][g] = Range(deps[g])
    OBVIOUS
  <2> QED BY <2>1 DEF Order!Closed, ClosedSet
<1> QED BY <1>1 DEF Order!From, Leads

LEMMA LeadsOn ==
  ASSUME NEW W, NEW f, Leads(W, f), NEW d \in Range(deps[f])
  PROVE  Leads(W, d)
BY DEF Leads, ClosedSet

(* What is on the stack or loaded resolves and is reachable; a frame is     *)
(* reachable from the imports of each frame below it.                       *)
Reached ==
  /\ \A f \in loaded : Leads(Range(roots), f) /\ ~Unresolvable(f)
  /\ \A i \in 1..Len(stack) : Leads(Range(roots), stack[i].file) /\ ~Unresolvable(stack[i].file)
  /\ \A i, j \in 1..Len(stack) : i < j => Leads(Range(deps[stack[i].file]), stack[j].file)

(* The next file of a loop is reachable, and from every active call. *)
LEMMA WantedReached ==
  ASSUME TypeOK, Search, Reached, Wanting
  PROVE  /\ Leads(Range(roots), Wanted)
         /\ \A i \in 1..Len(stack) : Leads(Range(deps[stack[i].file]), Wanted)
<1> USE WantedFacts
<1>1. CASE InRootLoop
  <2>1. Wanted \in Range(roots)
    <3>1. rootIdx \in 1..Len(roots)
      BY <1>1, LenProperties DEF TypeOK
    <3> QED BY <1>1, <3>1 DEF Range, TypeOK
  <2> QED BY <1>1, <2>1 DEF Leads
<1>2. CASE ~InRootLoop
  <2>1. Len(stack) \in 1..Len(stack) /\ Wanted \in Range(deps[stack[Len(stack)].file])
    <3>1. Top.next \in DOMAIN deps[Top.file]
      BY <1>2, LenProperties
    <3> QED BY <1>2, <3>1 DEF Range
  <2>2. Leads(Range(roots), Wanted)
    BY <2>1, LeadsOn DEF Reached
  <2>3. ASSUME NEW i \in 1..Len(stack)
        PROVE  Leads(Range(deps[stack[i].file]), Wanted)
    <3>1. CASE i = Len(stack)
      BY <2>1, <3>1 DEF Leads
    <3>2. CASE i # Len(stack)
      <4>1. Leads(Range(deps[stack[i].file]), stack[Len(stack)].file)
        BY <1>2, <2>1, <3>2 DEF Reached
      <4> QED BY <2>1, <4>1, LeadsOn
    <3> QED BY <3>1, <3>2
  <2> QED BY <2>2, <2>3
<1> QED BY <1>1, <1>2

LEMMA ReachedInit == Init => Reached
BY DEF Init, Reached

(* Files of the new stack that were already there keep what is known of them. *)
LEMMA ReachedKept ==
  ASSUME Reached, input' = input, loaded' = loaded,
         Len(stack) \in Nat, Len(stack') \in Nat, Len(stack') <= Len(stack),
         \A i \in 1..Len(stack') : stack'[i].file = stack[i].file
  PROVE  Reached'
<1>1. \A i \in 1..Len(stack') : i \in 1..Len(stack)
  OBVIOUS
<1> QED BY <1>1 DEF Reached, Leads, ClosedSet, Unresolvable, Source, input

LEMMA ReachedEnterFile ==
  ASSUME TypeOK, Search, Reached, EnterFile
  PROVE  Reached'
<1> DEFINE n == Len(stack)
<1>1. /\ Wanted \in File /\ ~Unresolvable(Wanted)
      /\ stack' = Append(stack, Call(Wanted, 1, 0))
      /\ UNCHANGED <<user, deps, roots>> /\ loaded' = loaded
  BY WantedFacts DEF EnterFile, input
<1>2. /\ n \in Nat /\ Len(stack') = n + 1
      /\ \A i \in 1..n : stack'[i] = stack[i]
      /\ stack'[n + 1].file = Wanted
  BY <1>1, Pushed DEF TypeOK
<1>3. /\ Leads(Range(roots), Wanted)
      /\ \A i \in 1..n : Leads(Range(deps[stack[i].file]), Wanted)
  BY WantedReached DEF EnterFile
<1>4. \A i \in 1..(n + 1) : i \in 1..n \/ i = n + 1
  BY <1>2
<1>5. /\ \A i \in 1..(n + 1) : Leads(Range(roots), stack'[i].file) /\ ~Unresolvable(stack'[i].file)
      /\ \A i, j \in 1..(n + 1) : i < j => Leads(Range(deps[stack'[i].file]), stack'[j].file)
  <2>1. \A i \in 1..(n + 1) : Leads(Range(roots), stack'[i].file) /\ ~Unresolvable(stack'[i].file)
    BY <1>1, <1>2, <1>3, <1>4 DEF Reached
  <2>2. ASSUME NEW i \in 1..(n + 1), NEW j \in 1..(n + 1), i < j
        PROVE  Leads(Range(deps[stack'[i].file]), stack'[j].file)
    <3>1. i \in 1..n /\ stack'[i] = stack[i]
      BY <1>2, <2>2
    <3>2. CASE j \in 1..n
      BY <1>2, <2>2, <3>1, <3>2 DEF Reached
    <3>3. CASE j = n + 1
      BY <1>2, <1>3, <3>1, <3>3
    <3> QED BY <1>4, <3>2, <3>3
  <2> QED BY <2>1, <2>2
<1> QED BY <1>1, <1>2, <1>5 DEF Reached, Leads, ClosedSet, Unresolvable, Source

LEMMA ReachedStep ==
  ASSUME TypeOK, Search, Reached, [Next]_vars
  PROVE  Reached'
<1>0. stack \in Seq(Frame) /\ Len(stack) \in Nat /\ Len(stack') \in Nat
  BY TypeStep, LenProperties DEF TypeOK
<1>a. ASSUME input' = input, loaded' = loaded, stack' = stack
      PROVE  Reached'
  <2>1. Len(stack') <= Len(stack) /\ \A i \in 1..Len(stack') : stack'[i].file = stack[i].file
    BY <1>0, <1>a
  <2> QED BY <1>0, <1>a, <2>1, ReachedKept
<1>b. ASSUME stack # <<>>, NEW n \in Nat \ {0}, NEW r \in Nat, ReplaceTop(Call(Top.file, n, r))
      PROVE  Len(stack') <= Len(stack) /\ \A i \in 1..Len(stack') : stack'[i].file = stack[i].file
  <2>1. Len(stack') = Len(stack) /\ \A i \in 1..Len(stack) : stack'[i].file = stack[i].file
    BY <1>0, <1>b, TopReplaced
  <2> QED BY <1>0, <2>1
<1>1. CASE SkipLoaded
  <2>1. CASE InRootLoop
    BY <1>1, <2>1, <1>a DEF SkipLoaded
  <2>2. CASE ~InRootLoop
    <3>1. stack # <<>> /\ Top.next + 1 \in Nat \ {0} /\ 0 \in Nat
      BY <1>1, <2>2, WantedFacts DEF SkipLoaded
    <3>2. ReplaceTop(Call(Top.file, Top.next + 1, 0)) /\ UNCHANGED <<input, loaded>>
      BY <1>1, <2>2 DEF SkipLoaded
    <3> QED BY <1>0, <1>b, <3>1, <3>2, ReachedKept
  <2> QED BY <2>1, <2>2
<1>2. CASE EnterFile
  BY <1>2, ReachedEnterFile
<1>3. CASE FinishImports
  <2>1. /\ stack # <<>> /\ Top = stack[Len(stack)] /\ Top.next \in Nat \ {0} /\ 1 \in Nat
        /\ Len(stack) \in 1..Len(stack)
    BY <1>0, <1>3, StackTyped DEF FinishImports, Top, FramesTyped
  <2>2. Len(stack') = Len(stack) /\ \A i \in 1..Len(stack) : stack'[i].file = stack[i].file
    BY <1>0, <1>3, <2>1, TopReplaced DEF FinishImports
  <2>3. Leads(Range(roots), Top.file) /\ ~Unresolvable(Top.file)
    BY <2>1 DEF Reached
  <2>4. loaded' = loaded \cup {Top.file} /\ UNCHANGED <<user, deps, roots>>
    BY <1>3 DEF FinishImports, input
  <2> QED BY <2>2, <2>3, <2>4 DEF Reached, Leads, ClosedSet, Unresolvable, Source
<1>4. CASE Return
  <2>1. stack # <<>> /\ UNCHANGED <<input, loaded>>
    BY <1>4 DEF Return
  <2>2. Len(stack') = Len(stack) - 1 /\ \A i \in 1..(Len(stack) - 1) : stack'[i].file = stack[i].file
    BY <1>0, <1>4, <2>1, Popped
  <2>3. Len(stack') <= Len(stack) /\ \A i \in 1..Len(stack') : stack'[i].file = stack[i].file
    BY <1>0, <2>2
  <2> QED BY <1>0, <2>1, <2>3, ReachedKept
<1>5. CASE RegisterPackage \/ RegisterType \/ RegisterExtension
  <2>1. stack # <<>> /\ NextEntry /\ UNCHANGED <<input, loaded>>
    BY <1>5 DEF RegisterPackage, RegisterType, RegisterExtension, Registering
  <2>2. Top.next \in Nat \ {0} /\ Top.reg + 1 \in Nat
    BY <1>0, <2>1, StackTyped DEF Top, FramesTyped
  <2> QED BY <1>0, <1>b, <2>1, <2>2, ReachedKept DEF NextEntry
<1>6. CASE RootUnavailable \/ ImportUnavailable \/ RejectCycle \/ PackageConflict \/ DuplicateType
  BY <1>6, <1>a
     DEF RootUnavailable, ImportUnavailable, RejectCycle, PackageConflict, DuplicateType, Fail
<1>7. CASE AllLoaded \/ UNCHANGED vars
  BY <1>7, <1>a DEF AllLoaded, vars, input
<1> QED
  BY <1>1, <1>2, <1>3, <1>4, <1>5, <1>6, <1>7 DEF Next, Step, Terminated

-----------------------------------------------------------------------------
(***************************************************************************)
(* The symbol table, seen through the entries registered so far.           *)
(***************************************************************************)
Done(f, m) == f \in loaded /\ m \in 1..Registered(f)

(* The position of the table is never past the end of a file's entries. *)
Position ==
  /\ stack # <<>> => Top.reg <= Len(Entries(content[Top.file])) + 1
  /\ status = "loaded" => stack = <<>>

(* A name is in the table iff an entry with it is registered, with the kind *)
(* of such an entry, and "Package" only if all of them are packages.        *)
Table ==
  /\ \A f \in File, m \in Nat : Done(f, m) =>
        /\ Entries(content[f])[m].fqn \in DOMAIN symbols
        /\ Entries(content[f])[m].kind # "Package" => symbols[Entries(content[f])[m].fqn] # "Package"
  /\ \A s \in DOMAIN symbols : \E f \in File, m \in Nat :
        Done(f, m) /\ Entries(content[f])[m].fqn = s /\ Entries(content[f])[m].kind = symbols[s]
  /\ \A f, g \in File, m, n \in Nat :
        /\ Done(f, m) /\ Done(g, n) /\ <<f, m>> # <<g, n>>
        /\ Entries(content[f])[m].fqn = Entries(content[g])[n].fqn
        /\ Entries(content[f])[m].kind \in TypeKind
        => Entries(content[g])[n].kind = "Extension"

(* The top frame, and how each kind of step moves it. *)
LEMMA TopMoves ==
  ASSUME TypeOK, Search, stack # <<>>
  PROVE  /\ Top.file \in File /\ Top.next \in Nat \ {0} /\ Top.reg \in Nat
         /\ content[Top.file] \in Content /\ Len(Entries(content[Top.file])) \in Nat
         /\ Top.reg = 0 <=> Top.file \notin loaded
         /\ \A n \in Nat \ {0}, r \in Nat : ReplaceTop(Call(Top.file, n, r)) =>
               stack' # <<>> /\ Top'.file = Top.file /\ Top'.reg = r
<1>1. Len(stack) \in Nat \ {0} /\ Len(stack) \in 1..Len(stack) /\ stack \in Seq(Frame)
  BY StackTyped DEF TypeOK
<1>2. Top.file \in File /\ Top.next \in Nat \ {0} /\ Top.reg \in Nat
  BY <1>1, StackTyped DEF Top, FramesTyped
<1>3. content[Top.file] \in Content
  BY <1>2 DEF TypeOK
<1>4. Top.reg = 0 <=> Top.file \notin loaded
  BY <1>1 DEF Search, PassedLoaded, Loading, Top
<1>5. ASSUME NEW n \in Nat \ {0}, NEW r \in Nat, ReplaceTop(Call(Top.file, n, r))
      PROVE  stack' # <<>> /\ Top'.file = Top.file /\ Top'.reg = r
  <2>1. /\ stack' # <<>> /\ Len(stack') = Len(stack)
        /\ \A i \in 1..Len(stack) : stack'[i].file = stack[i].file
        /\ stack'[Len(stack)].reg = r
    BY <1>1, <1>5, TopReplaced
  <2> QED BY <1>1, <2>1 DEF Top
<1> QED BY <1>2, <1>3, <1>4, <1>5, EntriesType

(* The actions that register nothing leave what is done as it is. *)
Quiet == SkipLoaded \/ EnterFile \/ FinishImports \/ Return

LEMMA QuietStep ==
  ASSUME TypeOK, Search, Position, Quiet
  PROVE  /\ Position' /\ content' = content /\ symbols' = symbols
         /\ \A f \in File, m \in Nat : Done(f, m)' <=> Done(f, m)
<1>1. content' = content /\ symbols' = symbols /\ status' = status /\ status = "running"
  BY DEF Quiet, SkipLoaded, EnterFile, FinishImports, Return, Wanting, input
<1>2. CASE SkipLoaded
  <2>1. loaded' = loaded
    BY <1>2 DEF SkipLoaded
  <2>2. CASE InRootLoop
    BY <1>1, <1>2, <2>1, <2>2 DEF SkipLoaded, InRootLoop, Position, Done, Registered
  <2>3. CASE ~InRootLoop
    <3>1. stack # <<>> /\ Top.reg = 0 /\ ReplaceTop(Call(Top.file, Top.next + 1, 0))
      BY <1>2, <2>3, WantedFacts DEF SkipLoaded
    <3>2. Top.next + 1 \in Nat \ {0} /\ 0 \in Nat
      BY <3>1, TopMoves
    <3>3. stack' # <<>> /\ Top'.file = Top.file /\ Top'.reg = 0
      BY <3>1, <3>2, TopMoves
    <3> QED BY <1>1, <2>1, <3>1, <3>3, TopMoves DEF Position, Done, Registered
  <2> QED BY <2>2, <2>3
<1>3. CASE EnterFile
  <2>1. /\ Wanted \in File /\ Wanted \notin loaded /\ loaded' = loaded
        /\ stack' = Append(stack, Call(Wanted, 1, 0)) /\ Wanting
    BY <1>3, WantedFacts DEF EnterFile
  <2>2. stack' # <<>> /\ Top'.file = Wanted /\ Top'.reg = 0
    BY <2>1, Pushed DEF TypeOK, Top
  <2>3. stack # <<>> => Top.file \notin loaded
    BY <2>1, WantedFacts, TopMoves DEF InRootLoop
  <2>4. content[Wanted] \in Content
    BY <2>1 DEF TypeOK
  <2>5. Len(Entries(content[Wanted])) \in Nat
    BY <2>4, EntriesType
  <2> QED BY <1>1, <2>1, <2>2, <2>3, <2>5 DEF Position, Done, Registered
<1>4. CASE FinishImports
  <2>1. /\ stack # <<>> /\ Top.reg = 0 /\ loaded' = loaded \cup {Top.file}
        /\ ReplaceTop(Call(Top.file, Top.next, 1))
    BY <1>4 DEF FinishImports
  <2>2. stack' # <<>> /\ Top'.file = Top.file /\ Top'.reg = 1
    <3>1. Top.next \in Nat \ {0} /\ 1 \in Nat
      BY <2>1, TopMoves
    <3> QED BY <2>1, <3>1, TopMoves
  <2>3. Top.file \notin loaded /\ Len(Entries(content[Top.file])) \in Nat
    BY <2>1, TopMoves
  <2> QED BY <1>1, <2>1, <2>2, <2>3 DEF Position, Done, Registered
<1>5. CASE Return
  <2>1. /\ stack # <<>> /\ stack \in Seq(Frame) /\ loaded' = loaded
        /\ Top.reg > Len(Entries(content[Top.file]))
    BY <1>5 DEF Return, TypeOK
  <2>2. Top.reg - 1 = Len(Entries(content[Top.file])) /\ Top.file \in loaded
    BY <2>1, TopMoves DEF Position
  <2>3. stack' # <<>> => Top'.reg = 0 /\ Top'.file \in File /\ Top'.file \notin loaded
    <3>1. /\ Len(stack) \in Nat \ {0} /\ Len(stack') = Len(stack) - 1
          /\ stack' = <<>> <=> Len(stack) = 1
          /\ Len(stack) > 1 => stack'[Len(stack) - 1].reg = 0
      BY <1>5, <2>1, Popped
    <3>2. TypeOK' /\ Search'
      BY <1>5, TypeStep, SearchStep DEF Next, Step
    <3>3. stack' # <<>> => Top'.reg = 0
      BY <3>1 DEF Top
    <3>4. (stack # <<>> => Top.file \in File /\ (Top.reg = 0 <=> Top.file \notin loaded))'
      BY <3>2, TopMoves, PTL
    <3> QED BY <2>1, <3>3, <3>4
  <2>4. stack' # <<>> => Len(Entries(content'[Top'.file])) \in Nat
    <3>1. content \in [File -> Content]
      BY DEF TypeOK
    <3> QED BY <1>1, <2>3, <3>1, EntriesType
  <2> QED BY <1>1, <2>1, <2>2, <2>3, <2>4 DEF Position, Done, Registered
<1> QED BY <1>2, <1>3, <1>4, <1>5 DEF Quiet

LEMMA TableKept ==
  ASSUME Table, content' = content, symbols' = symbols,
         \A f \in File, m \in Nat : Done(f, m)' <=> Done(f, m)
  PROVE  Table'
BY DEF Table

(* Registering an entry makes it done, and nothing else. *)
LEMMA DoneGrows ==
  ASSUME TypeOK, Search, Position, Registering, NextEntry, status = "running",
         UNCHANGED <<input, loaded, status>>
  PROVE  /\ Position' /\ content' = content
         /\ Top.file \in File /\ Top.reg \in Nat /\ Top.file \in loaded
         /\ Top.reg \in 1..Len(Entries(content[Top.file]))
         /\ Entry = Entries(content[Top.file])[Top.reg] /\ Entry \in EntryType
         /\ ~Done(Top.file, Top.reg)
         /\ \A f \in File, m \in Nat :
               Done(f, m)' <=> Done(f, m) \/ <<f, m>> = <<Top.file, Top.reg>>
<1>1. stack # <<>> /\ Top.reg \in 1..Len(Entries(content[Top.file])) /\ content' = content
  BY DEF Registering, input
<1>2. /\ Top.file \in File /\ Top.next \in Nat \ {0} /\ Top.reg \in Nat
      /\ Len(Entries(content[Top.file])) \in Nat /\ (Top.reg = 0 <=> Top.file \notin loaded)
  BY <1>1, TopMoves
<1>3. Top.file \in loaded /\ Top.reg + 1 \in Nat
  BY <1>1, <1>2
<1>4. stack' # <<>> /\ Top'.file = Top.file /\ Top'.reg = Top.reg + 1
  BY <1>1, <1>2, <1>3, TopMoves DEF NextEntry
<1>5. Position'
  BY <1>1, <1>2, <1>4 DEF Position
<1>6. ~Done(Top.file, Top.reg)
  BY <1>1, <1>2 DEF Done, Registered
<1>7. ASSUME NEW f \in File, NEW m \in Nat
      PROVE  Done(f, m)' <=> Done(f, m) \/ <<f, m>> = <<Top.file, Top.reg>>
  <2>1. CASE f = Top.file
    BY <1>1, <1>2, <1>3, <1>4, <2>1 DEF Done, Registered
  <2>2. CASE f # Top.file
    BY <1>1, <1>4, <2>2 DEF Done, Registered
  <2> QED BY <2>1, <2>2
<1> QED BY <1>1, <1>2, <1>3, <1>5, <1>6, <1>7, EntryTyped DEF Entry

(* The four kinds of change to the table, once and for all: e is the entry  *)
(* that becomes done.                                                       *)
LEMMA TableGrows ==
  ASSUME Table, content' = content,
         NEW h \in File, NEW k \in Nat, NEW e, e = Entries(content[h])[k],
         ~Done(h, k),
         \A f \in File, m \in Nat : Done(f, m)' <=> Done(f, m) \/ <<f, m>> = <<h, k>>,
         e.kind \in SymbolKind,
         \/ e.fqn \notin DOMAIN symbols /\ Insert(e)
         \/ e.kind = "Extension" /\ Insert(e)
         \/ /\ e.kind = "Package" /\ e.fqn \in DOMAIN symbols
            /\ symbols[e.fqn] = "Package" /\ symbols' = symbols
  PROVE  Table'
<1>1. /\ DOMAIN symbols' = DOMAIN symbols \cup {e.fqn}
      /\ symbols'[e.fqn] = e.kind
      /\ \A s \in DOMAIN symbols : s # e.fqn => symbols'[s] = symbols[s]
  BY DEF Insert
<1>2. ASSUME NEW f \in File, NEW m \in Nat, Done(f, m)'
      PROVE  /\ Entries(content[f])[m].fqn \in DOMAIN symbols'
             /\ Entries(content[f])[m].kind # "Package" => symbols'[Entries(content[f])[m].fqn] # "Package"
  <2>1. CASE <<f, m>> = <<h, k>>
    BY <1>1, <2>1
  <2>2. CASE Done(f, m)
    <3>1. /\ Entries(content[f])[m].fqn \in DOMAIN symbols
          /\ Entries(content[f])[m].kind # "Package" => symbols[Entries(content[f])[m].fqn] # "Package"
      BY <2>2 DEF Table
    <3> QED BY <1>1, <3>1
  <2> QED BY <1>2, <2>1, <2>2
<1>3. ASSUME NEW s \in DOMAIN symbols'
      PROVE  \E f \in File, m \in Nat :
               Done(f, m)' /\ Entries(content[f])[m].fqn = s /\ Entries(content[f])[m].kind = symbols'[s]
  <2>1. CASE s = e.fqn
    <3>1. Done(h, k)'
      OBVIOUS
    <3> QED BY <1>1, <2>1, <3>1
  <2>2. CASE s # e.fqn
    <3>1. s \in DOMAIN symbols /\ symbols'[s] = symbols[s]
      BY <1>1, <2>2
    <3>2. PICK f \in File, m \in Nat :
            Done(f, m) /\ Entries(content[f])[m].fqn = s /\ Entries(content[f])[m].kind = symbols[s]
      BY <3>1 DEF Table
    <3>3. Done(f, m)'
      BY <3>2
    <3> QED BY <3>1, <3>2, <3>3
  <2> QED BY <2>1, <2>2
<1>4. ASSUME NEW f \in File, NEW g \in File, NEW m \in Nat, NEW n \in Nat,
             Done(f, m)', Done(g, n)', <<f, m>> # <<g, n>>,
             Entries(content[f])[m].fqn = Entries(content[g])[n].fqn,
             Entries(content[f])[m].kind \in TypeKind
      PROVE  Entries(content[g])[n].kind = "Extension"
  <2>1. CASE Done(f, m) /\ Done(g, n)
    BY <1>4, <2>1 DEF Table
  <2>2. CASE Done(f, m) /\ <<g, n>> = <<h, k>>
    <3>1. e.fqn \in DOMAIN symbols /\ symbols[e.fqn] # "Package"
      BY <1>4, <2>2 DEF Table, TypeKind
    <3> QED BY <1>4, <2>2, <3>1
  <2>3. CASE <<f, m>> = <<h, k>> /\ Done(g, n)
    <3>1. e.fqn \in DOMAIN symbols
      BY <1>4, <2>3 DEF Table
    <3> QED BY <1>4, <2>3, <3>1 DEF TypeKind
  <2> QED BY <1>4, <2>1, <2>2, <2>3
<1> QED BY <1>2, <1>3, <1>4 DEF Table

LEMMA TableStep ==
  ASSUME TypeOK, Search, Position, Table, [Next]_vars
  PROVE  Position' /\ Table'
<1>1. CASE Quiet
  BY <1>1, QuietStep, TableKept
<1>2. CASE RegisterPackage \/ RegisterType \/ RegisterExtension
  <2>1. Registering /\ NextEntry /\ status = "running" /\ UNCHANGED <<input, loaded, status>>
    BY <1>2 DEF RegisterPackage, RegisterType, RegisterExtension
  <2>2. \/ Entry.fqn \notin DOMAIN symbols /\ Insert(Entry)
        \/ Entry.kind = "Extension" /\ Insert(Entry)
        \/ /\ Entry.kind = "Package" /\ Entry.fqn \in DOMAIN symbols
           /\ symbols[Entry.fqn] = "Package" /\ symbols' = symbols
    BY <1>2 DEF RegisterPackage, RegisterType, RegisterExtension, Known
  <2>3. Entry.kind \in SymbolKind
    BY <2>1, DoneGrows DEF EntryType
  <2> QED BY <2>1, <2>2, <2>3, DoneGrows, TableGrows
<1>3. CASE RootUnavailable \/ ImportUnavailable \/ RejectCycle \/ PackageConflict \/ DuplicateType
  <2>1. UNCHANGED <<content, symbols, loaded, stack>> /\ status' # "loaded"
    BY <1>3 DEF RootUnavailable, ImportUnavailable, RejectCycle, PackageConflict, DuplicateType, Fail, input
  <2>2. \A f \in File, m \in Nat : Done(f, m)' <=> Done(f, m)
    BY <2>1 DEF Done, Registered, Top
  <2> QED BY <2>1, <2>2, TableKept DEF Position, Top
<1>4. CASE AllLoaded \/ UNCHANGED vars
  <2>1. UNCHANGED <<content, symbols, loaded, stack>> /\ (status' = "loaded" => stack' = <<>>)
    BY <1>4 DEF AllLoaded, vars, input, InRootLoop, Position
  <2>2. \A f \in File, m \in Nat : Done(f, m)' <=> Done(f, m)
    BY <2>1 DEF Done, Registered, Top
  <2> QED BY <2>1, <2>2, TableKept DEF Position, Top
<1> QED BY <1>1, <1>2, <1>3, <1>4 DEF Next, Step, Terminated, Quiet

LEMMA TableInit == Init => Position /\ Table
BY DEF Init, Position, Table, Done

LEMMA LoaderInvariant == Spec => [](TypeOK /\ Search /\ Reached /\ Position /\ Table)
BY TypeInit, TypeStep, SearchInit, SearchStep, ReachedInit, ReachedStep, TableInit, TableStep, PTL DEF Spec

LEMMA DoneRange ==
  ASSUME TypeOK, Position, NEW f \in loaded
  PROVE  /\ f \in File /\ Registered(f) \in Int
         /\ Registered(f) <= Len(Entries(content[f]))
         /\ Len(Entries(content[f])) \in Nat
<1>1. f \in File /\ content[f] \in Content
  BY DEF TypeOK
<1>2. Len(Entries(content[f])) \in Nat
  BY <1>1, EntriesType
<1>3. stack # <<>> => Top.reg \in Nat
  BY StackTyped DEF TypeOK, Top, FramesTyped
<1> QED BY <1>1, <1>2, <1>3 DEF Registered, Position

(* The symbol table holds the names of all registered entries and no other. *)
THEOREM TableIsComplete == Spec => []TableComplete
<1>1. TypeOK /\ Position /\ Table => TableComplete
  <2> SUFFICES ASSUME TypeOK, Position, Table PROVE TableComplete
    OBVIOUS
  <2>1. ASSUME NEW f \in loaded, NEW n \in 1..Registered(f)
        PROVE  Entries(content[f])[n].fqn \in DOMAIN symbols
    <3>1. Done(f, n) /\ f \in File /\ n \in Nat
      BY DoneRange DEF Done
    <3> QED BY <3>1 DEF Table
  <2>2. ASSUME NEW s \in DOMAIN symbols
        PROVE  \E f \in loaded : \E n \in 1..Registered(f) : s = Entries(content[f])[n].fqn
    BY DEF Table, Done
  <2>3. \A s \in DOMAIN symbols : s \in UNION {{Entries(content[f])[n].fqn : n \in 1..Registered(f)} : f \in loaded}
    BY <2>2
  <2>4. \A s \in UNION {{Entries(content[f])[n].fqn : n \in 1..Registered(f)} : f \in loaded} : s \in DOMAIN symbols
    BY <2>1
  <2> QED BY <2>3, <2>4 DEF TableComplete
<1> QED BY <1>1, LoaderInvariant, PTL

(* A successful load leaves no type name that anything but an extension     *)
(* also declares.                                                           *)
THEOREM NoDoubleDefinitions == Spec => []NoDoubleDefinition
<1>1. TypeOK /\ Position /\ Table => NoDoubleDefinition
  <2> SUFFICES ASSUME TypeOK, Position, Table, status = "loaded",
                      NEW f \in loaded, NEW g \in loaded,
                      NEW m \in 1..Len(Entries(content[f])), NEW n \in 1..Len(Entries(content[g])),
                      <<f, m>> # <<g, n>>,
                      Entries(content[f])[m].fqn = Entries(content[g])[n].fqn,
                      Entries(content[f])[m].kind \in TypeKind
               PROVE  Entries(content[g])[n].kind = "Extension"
    BY DEF NoDoubleDefinition
  <2>1. stack = <<>>
    BY DEF Position
  <2>2. Done(f, m) /\ Done(g, n)
    BY <2>1 DEF Done, Registered
  <2>3. f \in File /\ g \in File /\ m \in Nat /\ n \in Nat
    BY DoneRange
  <2> QED BY <2>2, <2>3 DEF Table
<1> QED BY <1>1, LoaderInvariant, PTL

-----------------------------------------------------------------------------
LEMMA OrderInit == Init => Order!Init
<1> SUFFICES ASSUME Init PROVE Order!Init
  OBVIOUS
<1>1. \A f \in File : Range(deps[f]) \subseteq File
  <2> TAKE f \in File
  <2>1. deps[f] \in Seq(File)
    BY ConstantsAssumption DEF Init
  <2> QED BY <2>1 DEF Range
<1>2. Range(roots) \subseteq File
  <2>1. roots \in Seq(File)
    BY ConstantsAssumption DEF Init
  <2> QED BY <2>1 DEF Range
<1>3. [f \in File |-> Range(deps[f])] \in [File -> SUBSET File]
  BY <1>1
<1>4. {f \in File : Unresolvable(f)} \in SUBSET File
  OBVIOUS
<1>5. {p \in File \X File : Clash(p[1], p[2])} \in SUBSET (File \X File)
  OBVIOUS
<1>6. load_order = <<>> /\ status = "running"
  BY DEF Init
<1> QED BY <1>2, <1>3, <1>4, <1>5, <1>6 DEF Order!Init

(* What load_file is given never changes, hence neither does its image. *)
LEMMA OrderInput ==
  ASSUME input' = input
  PROVE  UNCHANGED Order!input
<1>1. UNCHANGED <<user, deps, content, roots>>
  BY DEF input
<1>2. {f \in File : Unresolvable(f)}' = {f \in File : Unresolvable(f)}
  BY <1>1 DEF Unresolvable, Source
<1>3. {p \in File \X File : Clash(p[1], p[2])}' = {p \in File \X File : Clash(p[1], p[2])}
  BY <1>1 DEF Clash
<1> QED BY <1>1, <1>2, <1>3 DEF Order!input

LEMMA OrderFail ==
  ASSUME TypeOK, Search, Reached, Position, Table,
         RootUnavailable \/ ImportUnavailable \/ RejectCycle \/ PackageConflict \/ DuplicateType
  PROVE  Order!GiveUp
<1>1. status = "running" /\ status' \notin {"running", "loaded"} /\ input' = input /\ load_order' = load_order
  BY DEF RootUnavailable, ImportUnavailable, RejectCycle, PackageConflict, DuplicateType, Fail, Wanting
<1>2. UNCHANGED Order!input
  BY <1>1, OrderInput
<1>3. Order!Reachable = {f \in File : Leads(Range(roots), f)}
  BY FromIsLeads DEF Order!Reachable
<1>4. CASE RootUnavailable \/ ImportUnavailable
  <2>1. Wanted \in File /\ Unresolvable(Wanted) /\ Leads(Range(roots), Wanted)
    BY <1>4, WantedFacts, WantedReached DEF RootUnavailable, ImportUnavailable
  <2>2. Order!Reachable \cap {f \in File : Unresolvable(f)} # {}
    BY <1>3, <2>1
  <2> QED BY <1>1, <1>2, <2>2 DEF Order!GiveUp
<1>5. CASE RejectCycle
  <2>1. Wanted \in File /\ Wanted \in visiting /\ Leads(Range(roots), Wanted)
    BY <1>5, WantedFacts, WantedReached DEF RejectCycle
  <2>2. Leads(Range(deps[Wanted]), Wanted)
    <3>1. PICK i \in 1..Len(stack) : stack[i].file = Wanted
      BY <2>1 DEF Search, RecursionBounded
    <3> QED BY <1>5, <3>1, WantedReached DEF RejectCycle
  <2>3. Wanted \in Order!From([f \in File |-> Range(deps[f])][Wanted])
    BY <2>1, <2>2, FromIsLeads
  <2>4. Wanted \in Order!Reachable
    BY <1>3, <2>1
  <2>5. Order!Cyclic
    BY <2>3, <2>4 DEF Order!Cyclic
  <2> QED BY <1>1, <1>2, <2>5 DEF Order!GiveUp
<1>6. CASE PackageConflict \/ DuplicateType
  <2>1. /\ Registering /\ Known
        /\ \/ Entry.kind = "Package" /\ symbols[Entry.fqn] # "Package"
           \/ Entry.kind \in TypeKind
    BY <1>6 DEF PackageConflict, DuplicateType
  <2>2. /\ stack # <<>> /\ Top.file \in File /\ Top.reg \in Nat
        /\ Top.reg \in 1..Len(Entries(content[Top.file]))
        /\ Top.file \in loaded
    BY <2>1, TopMoves DEF Registering
  <2>3. PICK g \in File, n \in Nat :
          /\ Done(g, n) /\ Entries(content[g])[n].fqn = Entry.fqn
          /\ Entries(content[g])[n].kind = symbols[Entry.fqn]
    BY <2>1 DEF Table, Known
  <2>4. <<g, n>> # <<Top.file, Top.reg>> /\ n \in 1..Len(Entries(content[g])) /\ g \in loaded
    <3>1. ~Done(Top.file, Top.reg)
      BY <2>2 DEF Done, Registered
    <3>2. n \in 1..Len(Entries(content[g])) /\ g \in loaded
      BY <2>3, DoneRange DEF Done
    <3> QED BY <2>3, <3>1, <3>2
  <2>5. Clash(Top.file, g)
    BY <2>1, <2>2, <2>3, <2>4 DEF Clash, Entry, TypeKind
  <2>6. Top.file \in Order!Reachable /\ g \in Order!Reachable
    BY <1>3, <2>2, <2>4, DoneRange DEF Reached
  <2>7. <<Top.file, g>> \in {p \in File \X File : Clash(p[1], p[2])} \cap (Order!Reachable \X Order!Reachable)
    BY <2>2, <2>5, <2>6
  <2> QED BY <1>1, <1>2, <2>7 DEF Order!GiveUp
<1> QED BY <1>4, <1>5, <1>6

LEMMA OrderPlace ==
  ASSUME TypeOK, Search, Reached, FinishImports
  PROVE  \E f \in File : Order!Place(f)
<1>1. /\ status = "running" /\ status' = status /\ input' = input
      /\ load_order' = Append(load_order, Top.file)
      /\ stack # <<>> /\ Top.reg = 0 /\ Top.next > Len(deps[Top.file])
  BY DEF FinishImports
<1>2. /\ Top.file \in File /\ Top.file \notin loaded /\ Top.next \in Nat \ {0}
      /\ Len(stack) \in 1..Len(stack) /\ Top = stack[Len(stack)]
  BY <1>1, TopMoves, StackTyped DEF TypeOK, Top
<1>3. UNCHANGED Order!input
  BY <1>1, OrderInput
<1>4. Leads(Range(roots), Top.file) /\ ~Unresolvable(Top.file)
  BY <1>2 DEF Reached
<1>5. loaded = Range(load_order)
  BY DEF Search, LoadedOnce
<1>6. Range(deps[Top.file]) \subseteq Range(load_order)
  <2>1. deps[Top.file] \in Seq(File) /\ Len(deps[Top.file]) \in Nat
    BY <1>2, LenProperties DEF TypeOK
  <2>2. \A k \in 1..(Top.next - 1) : deps[Top.file][k] \in loaded
    BY <1>2 DEF Search, PassedLoaded
  <2>3. \A k \in 1..Len(deps[Top.file]) : deps[Top.file][k] \in loaded
    BY <1>1, <1>2, <2>1, <2>2
  <2>4. DOMAIN deps[Top.file] = 1..Len(deps[Top.file])
    BY <2>1, LenProperties
  <2> QED BY <1>5, <2>3, <2>4 DEF Range
<1>7. Top.file \in Order!Reachable
  BY <1>2, <1>4, FromIsLeads DEF Order!Reachable
<1>8. [f \in File |-> Range(deps[f])][Top.file] = Range(deps[Top.file])
  BY <1>2
<1>9. Order!Range(load_order) = Range(load_order)
  BY DEF Order!Range, Range
<1>10. Order!Place(Top.file)
  BY <1>1, <1>2, <1>3, <1>4, <1>5, <1>6, <1>7, <1>8, <1>9 DEF Order!Place
<1> QED BY <1>2, <1>10

LEMMA OrderFinish ==
  ASSUME TypeOK, Search, Reached, AllLoaded
  PROVE  Order!Finish
<1>1. /\ status = "running" /\ status' = "loaded" /\ input' = input /\ load_order' = load_order
      /\ rootIdx > Len(roots)
  BY DEF AllLoaded
<1>2. UNCHANGED Order!input
  BY <1>1, OrderInput
<1>3. loaded = Range(load_order) /\ loaded \subseteq File
  BY DEF Search, LoadedOnce, TypeOK
<1>4. Range(roots) \subseteq loaded
  <2>1. roots \in Seq(File) /\ Len(roots) \in Nat /\ DOMAIN roots = 1..Len(roots) /\ rootIdx \in Nat
    BY LenProperties DEF TypeOK
  <2>2. \A k \in 1..(rootIdx - 1) : roots[k] \in loaded
    BY DEF Search, PassedLoaded
  <2> QED BY <1>1, <2>1, <2>2 DEF Range
<1>5. ClosedSet(loaded)
  <2> SUFFICES ASSUME NEW f \in loaded, NEW d \in Range(deps[f])
               PROVE  d \in loaded
    BY DEF ClosedSet
  <2>1. DOMAIN load_order = 1..Len(load_order) /\ Len(load_order) \in Nat
    BY LenProperties DEF TypeOK
  <2>2. PICK i \in 1..Len(load_order) : load_order[i] = f
    BY <1>3, <2>1 DEF Range
  <2>3. deps[f] \in Seq(File)
    BY <1>3 DEF TypeOK
  <2>4. PICK k \in 1..Len(deps[f]) : d = deps[f][k]
    BY <2>3, LenProperties DEF Range
  <2>5. PICK j \in 1..(i - 1) : load_order[j] = d
    BY <2>2, <2>4 DEF Search, DepsPrecede
  <2>6. j \in 1..Len(load_order)
    BY <2>1, <2>2, <2>5
  <2> QED BY <1>3, <2>1, <2>5, <2>6 DEF Range
<1>6. {f \in File : Leads(Range(roots), f)} = loaded
  BY <1>3, <1>4, <1>5 DEF Leads, Reached
<1>7. Order!Reachable = loaded
  BY <1>6, FromIsLeads DEF Order!Reachable
<1>8. Order!Range(load_order) = Range(load_order)
  BY DEF Order!Range, Range
<1> QED BY <1>1, <1>2, <1>3, <1>7, <1>8 DEF Order!Finish

LEMMA OrderStep ==
  ASSUME TypeOK, Search, Reached, Position, Table, [Next]_vars
  PROVE  [Order!Next]_Order!vars
<1>1. CASE RootUnavailable \/ ImportUnavailable \/ RejectCycle \/ PackageConflict \/ DuplicateType
  BY <1>1, OrderFail DEF Order!Next
<1>2. CASE FinishImports
  BY <1>2, OrderPlace DEF Order!Next
<1>3. CASE AllLoaded
  BY <1>3, OrderFinish DEF Order!Next
<1>4. CASE \/ SkipLoaded \/ EnterFile \/ Return \/ UNCHANGED vars
           \/ RegisterPackage \/ RegisterType \/ RegisterExtension
  <2>1. input' = input /\ load_order' = load_order /\ status' = status
    BY <1>4 DEF SkipLoaded, EnterFile, Return, RegisterPackage, RegisterType, RegisterExtension, vars, input
  <2>2. UNCHANGED Order!input
    BY <2>1, OrderInput
  <2> QED BY <2>1, <2>2 DEF Order!vars, Order!input
<1> QED BY <1>1, <1>2, <1>3, <1>4 DEF Next, Step, Terminated

(* load_file implements the promise of ImportOrder. *)
THEOREM LoaderImplementsOrder == Spec => ImplementsOrder
<1>1. Init => Order!Init
  BY OrderInit
<1> QED BY <1>1, OrderStep, LoaderInvariant, PTL DEF Spec, ImplementsOrder, Order!Spec
=============================================================================
