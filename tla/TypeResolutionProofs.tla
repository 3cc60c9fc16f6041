------------------------ MODULE TypeResolutionProofs ------------------------
(***************************************************************************)
(* What type resolution guarantees for any files, imports, declarations    *)
(* and references.  What it needs to know of loading has been proved of    *)
(* ImportLoader, and is taken over from there.                             *)
(***************************************************************************)
EXTENDS TypeResolution, SequenceTheorems, WellFoundedInduction, TLAPS

Facts == INSTANCE ImportRefinementProofs

(* A function on 1..n is a sequence of length n. *)
LEMMA FunctionIsSeq ==
  ASSUME NEW S, NEW n \in Nat, NEW g \in [1..n -> S]
  PROVE  g \in Seq(S) /\ Len(g) = n
OBVIOUS

(* Nonempty sets of naturals have a least, bounded ones a greatest element. *)
LEMMA LeastNatural ==
  ASSUME NEW T, T \subseteq Nat, T # {}
  PROVE  \E x \in T : \A y \in T : x <= y
<1>1. PICK x \in T : \A y \in T : ~(<<y, x>> \in OpToRel(<, Nat))
  BY NatLessThanWellFounded, WFMin
<1>2. \A y \in T : ~(y < x)
  BY <1>1 DEF OpToRel
<1> QED BY <1>2

LEMMA GreatestNatural ==
  ASSUME NEW n \in Nat, NEW T, T \subseteq 0..n, T # {}
  PROVE  Max(T) \in T /\ \A y \in T : Max(T) >= y
<1> DEFINE U == {n - y : y \in T}
<1>1. U \subseteq Nat
  OBVIOUS
<1>2. U # {}
  <2>1. PICK y \in T : TRUE
    OBVIOUS
  <2>2. n - y \in U
    OBVIOUS
  <2> QED BY <2>2
<1>3. PICK x \in U : \A z \in U : x <= z
  BY <1>1, <1>2, LeastNatural
<1>4. \E x_1 \in T : \A y \in T : x_1 >= y
  BY <1>3
<1> QED BY <1>4 DEF Max

-----------------------------------------------------------------------------
LoaderInv == Facts!TypeOK /\ Facts!Search /\ Facts!Reached /\ Facts!Position /\ Facts!Table

LEMMA SameKinds ==
  /\ Loader!TypeKind = Facts!TypeKind
  /\ Loader!SymbolKind = Facts!SymbolKind
  /\ Loader!Content = Facts!Content
  /\ Loader!DeclKind = Facts!DeclKind
BY DEF Loader!TypeKind, Facts!TypeKind, Loader!SymbolKind, Facts!SymbolKind, Loader!DeclKind, Facts!DeclKind,
       Loader!Content, Facts!Content

(* The instance of the loader that the model is made of is the one that the *)
(* facts are about.                                                         *)
LEMMA SameTypes == Loader!TypeOK <=> Facts!TypeOK
BY SameKinds DEF Loader!TypeOK, Facts!TypeOK, Loader!Frame, Facts!Frame, Loader!Outcome, Facts!Outcome,
       Loader!Status, Facts!Status

LEMMA SameEntries ==
  /\ \A c : Loader!DeclEntries(c) = Facts!DeclEntries(c)
  /\ \A c : Loader!PackageEntries(c) = Facts!PackageEntries(c)
  /\ \A c : Loader!Entries(c) = Facts!Entries(c)
BY DEF Loader!DeclEntries, Facts!DeclEntries, Loader!PackageEntries, Facts!PackageEntries,
       Loader!Entries, Facts!Entries

LEMMA SameInit == Loader!Init => Facts!Init
BY DEF Loader!Init, Facts!Init, Loader!Unresolvable, Facts!Unresolvable, Loader!Source, Facts!Source,
       Loader!Outcome, Facts!Outcome

LEMMA SameNext == Loader!Next => Facts!Next
BY DEF Loader!Next, Facts!Next, Loader!Step, Facts!Step, Loader!Terminated, Facts!Terminated,
       Loader!SkipLoaded, Facts!SkipLoaded, Loader!RootUnavailable, Facts!RootUnavailable,
       Loader!ImportUnavailable, Facts!ImportUnavailable, Loader!RejectCycle, Facts!RejectCycle,
       Loader!EnterFile, Facts!EnterFile, Loader!FinishImports, Facts!FinishImports,
       Loader!RegisterPackage, Facts!RegisterPackage, Loader!PackageConflict, Facts!PackageConflict,
       Loader!RegisterType, Facts!RegisterType, Loader!DuplicateType, Facts!DuplicateType,
       Loader!RegisterExtension, Facts!RegisterExtension, Loader!Return, Facts!Return,
       Loader!AllLoaded, Facts!AllLoaded, Loader!Fail, Facts!Fail, Loader!Wanting, Facts!Wanting,
       Loader!Wanted, Facts!Wanted, Loader!Importing, Facts!Importing, Loader!InRootLoop, Facts!InRootLoop,
       Loader!Registering, Facts!Registering, Loader!Top, Facts!Top, Loader!Call, Facts!Call,
       Loader!ReplaceTop, Facts!ReplaceTop, Loader!Entries, Facts!Entries, Loader!PackageEntries,
       Facts!PackageEntries, Loader!DeclEntries, Facts!DeclEntries, Loader!Entry, Facts!Entry,
       Loader!Known, Facts!Known, Loader!NextEntry, Facts!NextEntry, Loader!Insert, Facts!Insert,
       Loader!Unresolvable, Facts!Unresolvable, Loader!Source, Facts!Source, Loader!TypeKind, Facts!TypeKind,
       Loader!input, Facts!input, Loader!vars, Facts!vars

LEMMA LoaderAssumption == Facts!ConstantsAssumption
BY SourcesAssumption, SameKinds DEF Facts!ConstantsAssumption

LEMMA LoaderInit == Init => LoaderInv
<1>1. Facts!Init => Facts!TypeOK
  BY LoaderAssumption, Facts!TypeInit
<1>2. Facts!Init => Facts!Search
  BY LoaderAssumption, Facts!SearchInit
<1>3. Facts!Init => Facts!Reached
  BY LoaderAssumption, Facts!ReachedInit
<1>4. Facts!Init => Facts!Position /\ Facts!Table
  BY LoaderAssumption, Facts!TableInit
<1> QED BY <1>1, <1>2, <1>3, <1>4, SameInit DEF Init, LoaderInv

(* Every step is a step of the loader or leaves what it keeps alone. *)
LEMMA LoaderSteps ==
  ASSUME [Next]_vars
  PROVE  [Facts!Next]_(Facts!vars)
<1>1. CASE Load
  BY <1>1, SameNext DEF Load
<1>2. CASE UNCHANGED loading
  BY <1>2 DEF loading, Facts!vars
<1>3. CASE Resolve
  BY <1>2, <1>3 DEF Resolve, BeginFile, FollowImport, PassImport, FinishWalk, ResolveReference, RejectReference,
                    FinishFile, AllResolved
<1> QED BY <1>1, <1>2, <1>3 DEF Next, vars, loading

LEMMA LoaderStep ==
  ASSUME LoaderInv, [Next]_vars
  PROVE  LoaderInv'
<1>1. [Facts!Next]_(Facts!vars)
  BY LoaderSteps
<1>2. Facts!TypeOK'
  BY <1>1, LoaderAssumption, Facts!TypeStep DEF LoaderInv
<1>3. Facts!Search'
  BY <1>1, LoaderAssumption, Facts!SearchStep DEF LoaderInv
<1>4. Facts!Reached'
  BY <1>1, LoaderAssumption, Facts!ReachedStep DEF LoaderInv
<1>5. Facts!Position' /\ Facts!Table'
  BY <1>1, LoaderAssumption, Facts!TableStep DEF LoaderInv
<1> QED BY <1>2, <1>3, <1>4, <1>5 DEF LoaderInv

-----------------------------------------------------------------------------
(***************************************************************************)
(* What resolution relies on once everything is loaded.                    *)
(***************************************************************************)
Decls(g) == 1..Len(content[g].decls)
DeclName(g, i) == Loader!DeclEntries(content[g])[i].fqn
DeclaredAs(g, i) == Loader!DeclEntries(content[g])[i].kind

Ordered ==
  /\ loaded = {load_order[i] : i \in 1..Len(load_order)}
  /\ \A i, j \in 1..Len(load_order) : load_order[i] = load_order[j] => i = j
  /\ \A i \in 1..Len(load_order) : \A k \in 1..Len(deps[load_order[i]]) :
        \E j \in 1..(i-1) : load_order[j] = deps[load_order[i]][k]

(* The table has all declared names and packages, each with the kind of one *)
(* of its declarations; a type shares its name with extensions only.        *)
Tabled ==
  /\ \A g \in loaded : \A i \in Decls(g) : DeclName(g, i) \in DOMAIN symbols /\ symbols[DeclName(g, i)] # "Package"
  /\ \A n \in DOMAIN symbols :
        IF symbols[n] = "Package" THEN InPackage(n)
        ELSE \E g \in loaded : \E i \in Decls(g) : DeclName(g, i) = n /\ DeclaredAs(g, i) = symbols[n]
  /\ \A n \in Seq(Name) : InPackage(n) => n \in DOMAIN symbols /\ symbols[n] \in {"Package", "Extension"}
  /\ \A g, h \in loaded : \A i \in Decls(g), j \in Decls(h) :
        /\ DeclName(g, i) = DeclName(h, j) /\ <<g, i>> # <<h, j>>
        /\ DeclaredAs(g, i) \in Loader!TypeKind
        => DeclaredAs(h, j) = "Extension"

LEMMA LoadedOrdered == LoaderInv => Ordered
<1> SUFFICES ASSUME LoaderInv PROVE Ordered
  OBVIOUS
<1>1. load_order \in Seq(File)
  BY DEF LoaderInv, Facts!TypeOK
<1>2. loaded = {load_order[i] : i \in 1..Len(load_order)}
  BY <1>1 DEF LoaderInv, Facts!Search, Facts!LoadedOnce, Facts!Range
<1> QED BY <1>2 DEF Ordered, LoaderInv, Facts!Search, Facts!LoadedOnce, Facts!DepsPrecede

(* The entries of a file: the prefixes of its package, then its declarations. *)
LEMMA EntriesSplit ==
  ASSUME NEW c \in Loader!Content
  PROVE  /\ c.package \in Seq(Name) /\ Len(c.package) \in Nat /\ Len(c.decls) \in Nat
         /\ Len(Facts!Entries(c)) = Len(c.package) + Len(c.decls)
         /\ \A i \in 1..Len(c.package) :
               /\ Facts!Entries(c)[i].fqn = SubSeq(c.package, 1, i)
               /\ Facts!Entries(c)[i].kind = "Package"
         /\ \A i \in 1..Len(c.decls) :
               /\ Facts!Entries(c)[Len(c.package) + i] = Loader!DeclEntries(c)[i]
               /\ Loader!DeclEntries(c)[i].fqn = c.package \o c.decls[i].path
               /\ Loader!DeclEntries(c)[i].fqn \in Seq(Name)
               /\ Loader!DeclEntries(c)[i].kind = c.decls[i].kind
               /\ c.decls[i].path \in Seq(Name)
               /\ c.decls[i].kind \in Loader!DeclKind
<1> DEFINE pkg == c.package
           dcl == c.decls
           P == Facts!PackageEntries(c)
           D == Facts!DeclEntries(c)
           E == [fqn : Seq(Name), kind : Loader!SymbolKind]
<1>1. pkg \in Seq(Name) /\ dcl \in Seq([path : Seq(Name), kind : Loader!DeclKind])
  BY DEF Loader!Content
<1>2. Len(pkg) \in Nat /\ Len(dcl) \in Nat
  <2> HIDE DEF pkg, dcl
  <2> QED BY <1>1, LenProperties
<1>3. \A i \in 1..Len(dcl) : dcl[i].path \in Seq(Name) /\ dcl[i].kind \in Loader!DeclKind
  <2> HIDE DEF pkg, dcl
  <2> TAKE i \in 1..Len(dcl)
  <2>1. dcl[i] \in [path : Seq(Name), kind : Loader!DeclKind]
    BY <1>1, ElementOfSeq
  <2> QED BY <2>1
<1>4. /\ P \in [1..Len(pkg) -> E]
      /\ \A i \in 1..Len(pkg) : P[i].fqn = SubSeq(pkg, 1, i) /\ P[i].kind = "Package"
  <2> HIDE DEF pkg
  <2>1. \A i \in 1..Len(pkg) : [fqn |-> SubSeq(pkg, 1, i), kind |-> "Package"] \in E
    BY <1>1 DEF Loader!SymbolKind
  <2>2. P = [i \in 1..Len(pkg) |-> [fqn |-> SubSeq(pkg, 1, i), kind |-> "Package"]]
    BY DEF Facts!PackageEntries, pkg
  <2> HIDE DEF P, E
  <2> QED BY <2>1, <2>2
<1>5. /\ D \in [1..Len(dcl) -> E]
      /\ \A i \in 1..Len(dcl) : /\ D[i].fqn = pkg \o dcl[i].path /\ D[i].kind = dcl[i].kind
                                 /\ pkg \o dcl[i].path \in Seq(Name)
  <2> HIDE DEF pkg, dcl
  <2>1. \A i \in 1..Len(dcl) : pkg \o dcl[i].path \in Seq(Name)
    BY <1>1, <1>3
  <2>2. \A i \in 1..Len(dcl) : [fqn |-> pkg \o dcl[i].path, kind |-> dcl[i].kind] \in E
    BY <1>3, <2>1 DEF Loader!SymbolKind
  <2>3. D = [i \in 1..Len(dcl) |-> [fqn |-> pkg \o dcl[i].path, kind |-> dcl[i].kind]]
    BY DEF Facts!DeclEntries, pkg, dcl
  <2> HIDE DEF D, E
  <2> QED BY <2>1, <2>2, <2>3
<1> HIDE DEF P, D, E, pkg, dcl
<1>6. P \in Seq(E) /\ Len(P) = Len(pkg) /\ D \in Seq(E) /\ Len(D) = Len(dcl)
  BY <1>2, <1>4, <1>5, FunctionIsSeq, Zenon
<1>7. /\ Len(P \o D) = Len(pkg) + Len(dcl)
      /\ \A i \in 1..Len(pkg) : (P \o D)[i] = P[i]
      /\ \A i \in 1..Len(dcl) : (P \o D)[Len(pkg) + i] = D[i]
  <2>1. /\ Len(P \o D) = Len(P) + Len(D)
        /\ \A i \in 1..(Len(P) + Len(D)) : (P \o D)[i] = IF i <= Len(P) THEN P[i] ELSE D[i - Len(P)]
    BY <1>6, ConcatProperties
  <2>2. ASSUME NEW i \in 1..Len(pkg)
        PROVE  (P \o D)[i] = P[i]
    BY <1>2, <1>6, <2>1
  <2>3. ASSUME NEW i \in 1..Len(dcl)
        PROVE  (P \o D)[Len(pkg) + i] = D[i]
    <3>1. Len(P) + i \in 1..(Len(P) + Len(D)) /\ ~(Len(P) + i <= Len(P)) /\ (Len(P) + i) - Len(P) = i
      BY <1>2, <1>6
    <3> QED BY <1>6, <2>1, <3>1
  <2> QED BY <1>6, <2>1, <2>2, <2>3
<1>8. Facts!Entries(c) = P \o D /\ Loader!DeclEntries(c) = D
  BY SameEntries DEF Facts!Entries, P, D
<1>9. \A i \in 1..Len(pkg) :
        Facts!Entries(c)[i].fqn = SubSeq(pkg, 1, i) /\ Facts!Entries(c)[i].kind = "Package"
  BY <1>4, <1>7, <1>8
<1>10. \A i \in 1..Len(dcl) : Facts!Entries(c)[Len(pkg) + i] = Loader!DeclEntries(c)[i]
  BY <1>7, <1>8
<1>11. \A i \in 1..Len(dcl) :
         /\ Loader!DeclEntries(c)[i].fqn = pkg \o dcl[i].path
         /\ Loader!DeclEntries(c)[i].fqn \in Seq(Name)
         /\ Loader!DeclEntries(c)[i].kind = dcl[i].kind
  BY <1>5, <1>8
<1>12. Len(Facts!Entries(c)) = Len(pkg) + Len(dcl)
  BY <1>7, <1>8
<1> QED BY <1>1, <1>2, <1>3, <1>9, <1>10, <1>11, <1>12 DEF pkg, dcl

LEMMA PrefixOfPackage ==
  ASSUME NEW p \in Seq(Name)
  PROVE  /\ \A i \in 1..Len(p) : SubSeq(p, 1, i) # <<>> /\ IsPrefix(SubSeq(p, 1, i), p)
         /\ \A n \in Seq(Name) : IsPrefix(n, p) /\ n # <<>> => Len(n) \in 1..Len(p) /\ n = SubSeq(p, 1, Len(n))
<1>1. ASSUME NEW i \in 1..Len(p)
      PROVE  SubSeq(p, 1, i) # <<>> /\ IsPrefix(SubSeq(p, 1, i), p)
  <2>1. SubSeq(p, 1, i) \in Seq(Name) /\ Len(SubSeq(p, 1, i)) = i /\ i \in Nat /\ i <= Len(p) /\ i > 0
    OBVIOUS
  <2>2. SubSeq(SubSeq(p, 1, i), 1, i) = SubSeq(p, 1, i)
    BY <2>1, SubSeqFull
  <2> QED BY <2>1, <2>2 DEF IsPrefix
<1>2. ASSUME NEW n \in Seq(Name), IsPrefix(n, p), n # <<>>
      PROVE  Len(n) \in 1..Len(p) /\ n = SubSeq(p, 1, Len(n))
  <2>1. Len(n) \in Nat /\ Len(n) > 0 /\ Len(n) <= Len(p) /\ Len(p) \in Nat
    BY <1>2, EmptySeq DEF IsPrefix
  <2>2. SubSeq(n, 1, Len(n)) = n
    BY SubSeqFull
  <2> QED BY <1>2, <2>1, <2>2 DEF IsPrefix
<1>3. \A n \in Seq(Name) : IsPrefix(n, p) /\ n # <<>> => Len(n) \in 1..Len(p) /\ n = SubSeq(p, 1, Len(n))
  BY <1>2
<1> QED BY <1>1, <1>3

LEMMA LoadedTabled == LoaderInv /\ status = "loaded" => Tabled
<1> SUFFICES ASSUME LoaderInv, status = "loaded" PROVE Tabled
  OBVIOUS
<1> DEFINE Size(g) == Len(Facts!Entries(content[g]))
           pkg(g) == content[g].package
<1>1. /\ loaded \subseteq File /\ \A g \in loaded : content[g] \in Loader!Content
      /\ DOMAIN symbols \subseteq Seq(Name) /\ \A n \in DOMAIN symbols : symbols[n] \in Loader!SymbolKind
  BY SameKinds DEF LoaderInv, Facts!TypeOK
<1>2. ASSUME NEW g \in loaded
      PROVE  /\ pkg(g) \in Seq(Name) /\ Len(pkg(g)) \in Nat /\ Len(content[g].decls) \in Nat
             /\ Size(g) = Len(pkg(g)) + Len(content[g].decls)
             /\ \A i \in 1..Len(pkg(g)) : /\ Facts!Entries(content[g])[i].fqn = SubSeq(pkg(g), 1, i)
                                          /\ Facts!Entries(content[g])[i].kind = "Package"
             /\ \A i \in Decls(g) : /\ Facts!Entries(content[g])[Len(pkg(g)) + i].fqn = DeclName(g, i)
                                    /\ Facts!Entries(content[g])[Len(pkg(g)) + i].kind = DeclaredAs(g, i)
                                    /\ DeclaredAs(g, i) \in Loader!DeclKind
  BY <1>1, EntriesSplit DEF Decls, DeclName, DeclaredAs
<1>3. \A g, m : Facts!Done(g, m) <=> g \in loaded /\ m \in 1..Size(g)
  BY DEF LoaderInv, Facts!Done, Facts!Registered, Facts!Position
<1>4. /\ \A g \in loaded, m \in Nat : m \in 1..Size(g) =>
            /\ Facts!Entries(content[g])[m].fqn \in DOMAIN symbols
            /\ Facts!Entries(content[g])[m].kind # "Package" => symbols[Facts!Entries(content[g])[m].fqn] # "Package"
      /\ \A n \in DOMAIN symbols : \E g \in loaded, m \in Nat :
            m \in 1..Size(g) /\ Facts!Entries(content[g])[m].fqn = n /\ Facts!Entries(content[g])[m].kind = symbols[n]
      /\ \A g, h \in loaded, m, n \in Nat :
            /\ m \in 1..Size(g) /\ n \in 1..Size(h) /\ <<g, m>> # <<h, n>>
            /\ Facts!Entries(content[g])[m].fqn = Facts!Entries(content[h])[n].fqn
            /\ Facts!Entries(content[g])[m].kind \in Loader!TypeKind
            => Facts!Entries(content[h])[n].kind = "Extension"
  <2> HIDE DEF Size
  <2>1. Facts!Table
    BY DEF LoaderInv
  <2>2. ASSUME NEW g \in loaded, NEW m \in Nat, m \in 1..Size(g)
        PROVE  /\ Facts!Entries(content[g])[m].fqn \in DOMAIN symbols
               /\ Facts!Entries(content[g])[m].kind # "Package" => symbols[Facts!Entries(content[g])[m].fqn] # "Package"
    BY <1>1, <1>3, <2>1, <2>2 DEF Facts!Table
  <2>3. ASSUME NEW n \in DOMAIN symbols
        PROVE  \E g \in loaded, m \in Nat :
                 /\ m \in 1..Size(g) /\ Facts!Entries(content[g])[m].fqn = n
                 /\ Facts!Entries(content[g])[m].kind = symbols[n]
    <3>1. PICK g \in File, m \in Nat :
            Facts!Done(g, m) /\ Facts!Entries(content[g])[m].fqn = n /\ Facts!Entries(content[g])[m].kind = symbols[n]
      BY <2>1 DEF Facts!Table
    <3>2. g \in loaded /\ m \in 1..Size(g)
      BY <1>3, <3>1
    <3> QED BY <3>1, <3>2
  <2>4. ASSUME NEW g \in loaded, NEW h \in loaded, NEW m \in Nat, NEW n \in Nat,
               m \in 1..Size(g), n \in 1..Size(h), <<g, m>> # <<h, n>>,
               Facts!Entries(content[g])[m].fqn = Facts!Entries(content[h])[n].fqn,
               Facts!Entries(content[g])[m].kind \in Loader!TypeKind
        PROVE  Facts!Entries(content[h])[n].kind = "Extension"
    <3>1. Facts!Done(g, m) /\ Facts!Done(h, n) /\ g \in File /\ h \in File
      BY <1>1, <1>3, <2>4
    <3>2. Facts!Entries(content[g])[m].kind \in Facts!TypeKind
      BY <2>4, SameKinds
    <3> QED BY <2>1, <2>4, <3>1, <3>2 DEF Facts!Table
  <2> QED BY <2>2, <2>3, <2>4
<1> HIDE DEF Size, pkg
(* Where an entry stands. *)
<1>5. ASSUME NEW g \in loaded, NEW m \in 1..Size(g)
      PROVE  \/ m \in 1..Len(pkg(g))
             \/ m - Len(pkg(g)) \in Decls(g) /\ m = Len(pkg(g)) + (m - Len(pkg(g)))
  BY <1>2 DEF Decls
<1>6. ASSUME NEW g \in loaded, NEW i \in Decls(g)
      PROVE  Len(pkg(g)) + i \in 1..Size(g) /\ Len(pkg(g)) + i \in Nat
  BY <1>2 DEF Decls
<1>7. ASSUME NEW g \in loaded, NEW i \in Decls(g)
      PROVE  DeclName(g, i) \in DOMAIN symbols /\ symbols[DeclName(g, i)] # "Package"
  <2>1. Facts!Entries(content[g])[Len(pkg(g)) + i].kind # "Package"
    BY <1>2 DEF Loader!DeclKind, Loader!TypeKind
  <2> QED BY <1>2, <1>4, <1>6, <2>1
<1>8. ASSUME NEW n \in DOMAIN symbols
      PROVE  IF symbols[n] = "Package" THEN InPackage(n)
             ELSE \E g \in loaded : \E i \in Decls(g) : DeclName(g, i) = n /\ DeclaredAs(g, i) = symbols[n]
  <2>1. PICK g \in loaded, m \in Nat :
          /\ m \in 1..Size(g) /\ Facts!Entries(content[g])[m].fqn = n
          /\ Facts!Entries(content[g])[m].kind = symbols[n]
    BY <1>4
  <2>2. CASE m \in 1..Len(pkg(g))
    <3>1. n = SubSeq(pkg(g), 1, m) /\ symbols[n] = "Package"
      BY <1>2, <2>1, <2>2
    <3>2. n # <<>> /\ IsPrefix(n, pkg(g))
      BY <1>2, <2>2, <3>1, PrefixOfPackage
    <3> QED BY <3>1, <3>2 DEF InPackage, PackageOf, pkg
  <2>3. CASE m - Len(pkg(g)) \in Decls(g) /\ m = Len(pkg(g)) + (m - Len(pkg(g)))
    <3>1. /\ DeclName(g, m - Len(pkg(g))) = n /\ DeclaredAs(g, m - Len(pkg(g))) = symbols[n]
          /\ symbols[n] # "Package"
      BY <1>2, <2>1, <2>3 DEF Loader!DeclKind, Loader!TypeKind
    <3> QED BY <2>3, <3>1
  <2> QED BY <1>5, <2>1, <2>2, <2>3
<1>9. ASSUME NEW n \in Seq(Name), InPackage(n)
      PROVE  n \in DOMAIN symbols /\ symbols[n] \in {"Package", "Extension"}
  <2>1. PICK h \in loaded : IsPrefix(n, pkg(h)) /\ n # <<>>
    BY <1>9 DEF InPackage, PackageOf, pkg
  <2>2. Len(n) \in 1..Len(pkg(h)) /\ n = SubSeq(pkg(h), 1, Len(n))
    <3>1. pkg(h) \in Seq(Name)
      BY <1>2
    <3> QED BY <2>1, <3>1, PrefixOfPackage
  <2>3. /\ Len(n) \in Nat /\ Len(n) \in 1..Size(h)
        /\ Facts!Entries(content[h])[Len(n)].fqn = n /\ Facts!Entries(content[h])[Len(n)].kind = "Package"
    <3>1. Len(pkg(h)) \in Nat /\ Len(content[h].decls) \in Nat /\ Size(h) = Len(pkg(h)) + Len(content[h].decls)
      BY <1>2
    <3>2. Len(n) \in Nat /\ Len(n) \in 1..Size(h)
      BY <2>2, <3>1
    <3>3. /\ Facts!Entries(content[h])[Len(n)].fqn = SubSeq(pkg(h), 1, Len(n))
          /\ Facts!Entries(content[h])[Len(n)].kind = "Package"
      BY <1>2, <2>2
    <3> QED BY <2>2, <3>2, <3>3
  <2>4. n \in DOMAIN symbols
    BY <1>4, <2>3
  <2>5. PICK g \in loaded, m \in Nat :
          /\ m \in 1..Size(g) /\ Facts!Entries(content[g])[m].fqn = n
          /\ Facts!Entries(content[g])[m].kind = symbols[n]
    BY <1>4, <2>4
  <2>6. symbols[n] \notin Loader!TypeKind
    <3> SUFFICES ASSUME symbols[n] \in Loader!TypeKind PROVE FALSE
      OBVIOUS
    <3>1. <<g, m>> # <<h, Len(n)>>
      BY <2>3, <2>5 DEF Loader!TypeKind
    <3>2. Facts!Entries(content[h])[Len(n)].kind = "Extension"
      <4>1. Facts!Entries(content[g])[m].kind \in Loader!TypeKind
        BY <2>5
      <4>2. Facts!Entries(content[g])[m].fqn = Facts!Entries(content[h])[Len(n)].fqn
        BY <2>3, <2>5
      <4>3. \A g_1, h_1 \in loaded, m_1, n_1 \in Nat :
              /\ m_1 \in 1..Size(g_1) /\ n_1 \in 1..Size(h_1) /\ <<g_1, m_1>> # <<h_1, n_1>>
              /\ Facts!Entries(content[g_1])[m_1].fqn = Facts!Entries(content[h_1])[n_1].fqn
              /\ Facts!Entries(content[g_1])[m_1].kind \in Loader!TypeKind
              => Facts!Entries(content[h_1])[n_1].kind = "Extension"
        BY <1>4
      <4> HIDE <1>4
      <4> QED BY <2>3, <2>5, <3>1, <4>1, <4>2, <4>3
    <3> QED BY <2>3, <3>2
  <2> QED BY <1>1, <2>4, <2>6 DEF Loader!SymbolKind, Loader!DeclKind
<1>10. ASSUME NEW g \in loaded, NEW h \in loaded, NEW i \in Decls(g), NEW j \in Decls(h),
              DeclName(g, i) = DeclName(h, j), <<g, i>> # <<h, j>>, DeclaredAs(g, i) \in Loader!TypeKind
       PROVE  DeclaredAs(h, j) = "Extension"
  <2>1. <<g, Len(pkg(g)) + i>> # <<h, Len(pkg(h)) + j>>
    BY <1>2, <1>10 DEF Decls
  <2> DEFINE m == Len(pkg(g)) + i
             n == Len(pkg(h)) + j
  <2>2. /\ m \in Nat /\ m \in 1..Size(g) /\ n \in Nat /\ n \in 1..Size(h)
    BY <1>6
  <2>3. /\ Facts!Entries(content[g])[m].fqn = DeclName(g, i) /\ Facts!Entries(content[g])[m].kind = DeclaredAs(g, i)
        /\ Facts!Entries(content[h])[n].fqn = DeclName(h, j) /\ Facts!Entries(content[h])[n].kind = DeclaredAs(h, j)
    BY <1>2
  <2> HIDE DEF m, n
  <2>4. <<g, m>> # <<h, n>>
    BY <2>1 DEF m, n
  <2>5. Facts!Entries(content[h])[n].kind = "Extension"
    BY <1>4, <1>10, <2>2, <2>3, <2>4
  <2> QED BY <2>3, <2>5
<1> QED BY <1>7, <1>8, <1>9, <1>10 DEF Tabled

-----------------------------------------------------------------------------
(***************************************************************************)
(* Types and phases.                                                       *)
(***************************************************************************)
LoopType == [file : File, next : Nat \ {0}]

LEMMA LoopFields ==
  /\ \A l \in LoopType : l.file \in File /\ l.next \in Nat \ {0}
  /\ \A f \in File, n \in Nat \ {0} : Loop(f, n) \in LoopType /\ Loop(f, n).file = f /\ Loop(f, n).next = n
BY DEF LoopType, Loop

(* The top loop, and what going on to its next import, entering a file and  *)
(* leaving one do to the loops.                                             *)
LEMMA TopLoop ==
  ASSUME NEW w \in Seq(LoopType), w # <<>>
  PROVE  /\ Len(w) \in Nat \ {0} /\ Len(w) \in 1..Len(w)
         /\ \A i \in 1..Len(w) : w[i] \in LoopType /\ w[i].file \in File /\ w[i].next \in Nat \ {0}
<1>1. Len(w) \in Nat \ {0} /\ Len(w) \in 1..Len(w)
  BY EmptySeq
<1>2. \A i \in 1..Len(w) : w[i] \in LoopType
  BY ElementOfSeq
<1> QED BY <1>1, <1>2, LoopFields

LEMMA AdvancedLoops ==
  ASSUME NEW w \in Seq(LoopType), w # <<>>
  PROVE  /\ Advanced(w) \in Seq(LoopType) /\ Advanced(w) # <<>> /\ Len(Advanced(w)) = Len(w)
         /\ \A i \in 1..Len(w) : /\ Advanced(w)[i].file = w[i].file
                                 /\ Advanced(w)[i].next = IF i = Len(w) THEN w[i].next + 1 ELSE w[i].next
<1> DEFINE n == Len(w)
           l == Loop(w[n].file, w[n].next + 1)
<1>1. n \in Nat \ {0} /\ n \in 1..n /\ w[n].file \in File /\ w[n].next \in Nat \ {0}
  BY TopLoop
<1>2. l \in LoopType /\ l.file = w[n].file /\ l.next = w[n].next + 1
  BY <1>1, LoopFields
<1>3. Advanced(w) = [w EXCEPT ![n] = l]
  BY DEF Advanced
<1> HIDE DEF l
<1>4. /\ [w EXCEPT ![n] = l] \in Seq(LoopType) /\ Len([w EXCEPT ![n] = l]) = n
      /\ \A i \in 1..n : [w EXCEPT ![n] = l][i] = IF i = n THEN l ELSE w[i]
  BY <1>1, <1>2, ExceptSeq
<1>5. ASSUME NEW i \in 1..n
      PROVE  /\ Advanced(w)[i].file = w[i].file
             /\ Advanced(w)[i].next = IF i = n THEN w[i].next + 1 ELSE w[i].next
  BY <1>2, <1>3, <1>4
<1>6. Advanced(w) # <<>>
  BY <1>1, <1>3, <1>4, EmptySeq
<1> QED BY <1>3, <1>4, <1>5, <1>6

LEMMA EnteredLoops ==
  ASSUME NEW w \in Seq(LoopType), NEW f \in File
  PROVE  /\ Append(w, Loop(f, 1)) \in Seq(LoopType) /\ Append(w, Loop(f, 1)) # <<>>
         /\ Len(w) \in Nat /\ Len(Append(w, Loop(f, 1))) = Len(w) + 1
         /\ \A i \in 1..Len(w) : Append(w, Loop(f, 1))[i] = w[i]
         /\ Append(w, Loop(f, 1))[Len(w) + 1].file = f
         /\ Append(w, Loop(f, 1))[Len(w) + 1].next = 1
<1>1. Loop(f, 1) \in LoopType /\ Loop(f, 1).file = f /\ Loop(f, 1).next = 1
  BY LoopFields
<1> QED BY <1>1, AppendProperties

LEMMA LeftLoops ==
  ASSUME NEW w \in Seq(LoopType), Len(w) > 1
  PROVE  /\ SubSeq(w, 1, Len(w) - 1) \in Seq(LoopType) /\ SubSeq(w, 1, Len(w) - 1) # <<>>
         /\ Len(SubSeq(w, 1, Len(w) - 1)) = Len(w) - 1
         /\ \A i \in 1..(Len(w) - 1) : SubSeq(w, 1, Len(w) - 1)[i] = w[i]
<1>1. Len(w) \in Nat /\ \A i \in 1..Len(w) : w[i] \in LoopType
  BY ElementOfSeq
<1> QED BY <1>1, SubSeqProperties

Phases ==
  /\ outcome # "waiting" \/ filePos > 1 => status = "loaded"
  /\ outcome = "collecting" <=> walk # <<>>
  /\ outcome = "collecting" => resolved = <<>>
  /\ outcome \in {"resolving", "unresolved", "wrong kind"} => Len(resolved) <= Len(refs[Current])
  /\ Rejected => Len(resolved) < Len(refs[Current])
  /\ content \in [File -> Contents]

LEMMA LoadKeeps ==
  ASSUME LoaderInv, Load
  PROVE  /\ status = "loaded" => UNCHANGED loading
         /\ content' = content
         /\ Len(load_order) \in Nat /\ Len(load_order') \in Nat /\ Len(load_order') >= Len(load_order)
<1>1. load_order \in Seq(File) /\ Len(load_order) \in Nat
  BY DEF LoaderInv, Facts!TypeOK
<1>2. Loader!Step => status = "running"
  BY DEF Loader!Step, Loader!SkipLoaded, Loader!RootUnavailable, Loader!ImportUnavailable, Loader!RejectCycle,
         Loader!EnterFile, Loader!FinishImports, Loader!RegisterPackage, Loader!PackageConflict,
         Loader!RegisterType, Loader!DuplicateType, Loader!RegisterExtension, Loader!Return, Loader!AllLoaded,
         Loader!Wanting
<1>3. Loader!Terminated => UNCHANGED loading
  BY DEF Loader!Terminated, Loader!vars, loading
<1>4. ASSUME Loader!Step
      PROVE  content' = content /\ (load_order' = load_order \/ load_order' = Append(load_order, Loader!Top.file))
  BY <1>4 DEF Loader!Step, Loader!SkipLoaded, Loader!RootUnavailable, Loader!ImportUnavailable, Loader!RejectCycle,
         Loader!EnterFile, Loader!FinishImports, Loader!RegisterPackage, Loader!PackageConflict,
         Loader!RegisterType, Loader!DuplicateType, Loader!RegisterExtension, Loader!Return, Loader!AllLoaded,
         Loader!Fail, Loader!input
<1>5. Loader!Step \/ UNCHANGED loading
  BY <1>3 DEF Load, Loader!Next
<1>6. Len(Append(load_order, Loader!Top.file)) = Len(load_order) + 1
  BY <1>1
<1>7. content' = content /\ (load_order' = load_order \/ load_order' = Append(load_order, Loader!Top.file))
  BY <1>4, <1>5 DEF loading
<1> QED BY <1>1, <1>2, <1>5, <1>6, <1>7

LEMMA TypeInit == Init => TypeOK
<1> SUFFICES ASSUME Init PROVE TypeOK
  OBVIOUS
<1>1. Loader!TypeOK
  BY LoaderInit, SameTypes DEF LoaderInv
<1>2. public \in [File -> SUBSET Nat]
  <2>1. \A d \in DepLists : 1..Len(d) \subseteq Nat
    BY SourcesAssumption
  <2> QED BY <2>1 DEF Init
<1>3. load_order = <<>>
  BY DEF Init, Loader!Init
<1>4. refs \in [File -> Seq(Reference)]
  BY ReferencesAssumption DEF Init
<1> QED BY <1>1, <1>2, <1>3, <1>4 DEF Init, TypeOK, Outcome

(* A name that is looked up successfully is a name of the table. *)
LEMMA FoundInTable ==
  \A f, ref : \A n \in Search(f, ref) : n \in DOMAIN symbols /\ n \in visible
BY DEF Search, Usable

LEMMA CurrentFile ==
  ASSUME LoaderInv, filePos \in 1..Len(load_order)
  PROVE  /\ Current \in File /\ Current \in loaded
         /\ content[Current] \in Loader!Content
<1>1. load_order \in Seq(File)
  BY DEF LoaderInv, Facts!TypeOK
<1>2. Current \in File /\ Current \in loaded
  BY <1>1, LoadedOrdered, ElementOfSeq DEF Current, Ordered
<1> QED BY <1>2, SameKinds DEF LoaderInv, Facts!TypeOK

LEMMA TypesNamed ==
  ASSUME NEW g \in File, LoaderInv
  PROVE  TypesOf(g) \subseteq Seq(Name)
<1>1. content[g] \in Loader!Content
  BY SameKinds DEF LoaderInv, Facts!TypeOK
<1> QED BY <1>1, EntriesSplit DEF TypesOf

LEMMA ImportTyped ==
  ASSUME LoaderInv, walk \in Seq(LoopType), walk # <<>>, Inner.next <= Len(deps[Inner.file])
  PROVE  /\ Inner \in LoopType /\ Inner.file \in File /\ Inner.next \in 1..Len(deps[Inner.file])
         /\ Import \in File
<1>1. Inner \in LoopType /\ Inner.file \in File /\ Inner.next \in Nat \ {0}
  BY TopLoop DEF Inner
<1>2. deps[Inner.file] \in Seq(File) /\ Len(deps[Inner.file]) \in Nat
  BY <1>1 DEF LoaderInv, Facts!TypeOK
<1>3. Inner.next \in 1..Len(deps[Inner.file])
  BY <1>1, <1>2
<1> QED BY <1>1, <1>2, <1>3, ElementOfSeq DEF Import

LEMMA TypeStep ==
  ASSUME LoaderInv, TypeOK, Phases, [Next]_vars
  PROVE  TypeOK'
<1>1. Loader!TypeOK'
  <2>1. (Loader!TypeOK <=> Facts!TypeOK)'
    BY SameTypes, PTL
  <2> QED BY <2>1, LoaderStep DEF LoaderInv
<1>2. /\ walk \in Seq(LoopType) /\ load_order \in Seq(File) /\ Len(load_order) \in Nat
      /\ DOMAIN symbols \subseteq Seq(Name)
  BY DEF TypeOK, LoopType, Facts!TypeOK, LoaderInv
<1> DEFINE Kept == UNCHANGED <<loading, references>>
<1>3. CASE Load
  <2>1. /\ public' = public /\ refs' = refs /\ walk' = walk /\ visible' = visible /\ resolved' = resolved
        /\ outcome' = outcome /\ filePos' = filePos
    BY <1>3 DEF Load, references, resolution
  <2>2. filePos \in 1..(Len(load_order') + 1)
    BY <1>3, LoadKeeps DEF TypeOK
  <2>3. outcome \notin {"waiting", "done"} => filePos <= Len(load_order')
    BY <1>3, LoadKeeps DEF TypeOK
  <2> QED BY <1>1, <2>1, <2>2, <2>3 DEF TypeOK
<1>4. CASE UNCHANGED vars
  BY <1>1, <1>4 DEF TypeOK, vars
<1>5. CASE BeginFile
  <2>1. Current \in File
    BY <1>5, CurrentFile DEF BeginFile, TypeOK
  <2>2. walk' \in Seq(LoopType)
    <3>1. Loop(Current, 1) \in LoopType
      BY <2>1, LoopFields
    <3> QED BY <1>5, <3>1 DEF BeginFile
  <2>3. visible' \subseteq Seq(Name)
    BY <1>2, <1>5, <2>1, TypesNamed DEF BeginFile, Packages
  <2> QED BY <1>1, <1>5, <2>2, <2>3 DEF BeginFile, TypeOK, LoopType, Outcome, loading, references
<1>6. CASE FollowImport
  <2>1. walk # <<>> /\ Inner.next <= Len(deps[Inner.file])
    BY <1>6 DEF FollowImport, Phases
  <2>2. Import \in File
    BY <1>2, <2>1, ImportTyped
  <2>3. walk' \in Seq(LoopType)
    BY <1>2, <1>6, <2>2, EnteredLoops DEF FollowImport
  <2>4. visible' \subseteq Seq(Name)
    BY <1>6, <2>2, TypesNamed DEF FollowImport, TypeOK
  <2> QED BY <1>1, <1>6, <2>3, <2>4 DEF FollowImport, TypeOK, LoopType, loading, references
<1>7. CASE PassImport
  <2>1. walk' \in Seq(LoopType)
    BY <1>2, <1>7, AdvancedLoops DEF PassImport, Phases
  <2> QED BY <1>1, <1>7, <2>1 DEF PassImport, TypeOK, LoopType, loading, references
<1>8. CASE FinishWalk
  <2>1. walk' \in Seq(LoopType)
    <3>1. CASE Len(walk) = 1
      BY <1>8, <3>1 DEF FinishWalk
    <3>2. CASE Len(walk) # 1
      <4>1. Len(walk) > 1
        <5>1. walk # <<>>
          BY <1>8 DEF FinishWalk, Phases
        <5>2. Len(walk) \in Nat \ {0}
          BY <1>2, <5>1, TopLoop
        <5>3. \A n \in Nat \ {0} : n # 1 => n > 1
          OBVIOUS
        <5> QED BY <3>2, <5>2, <5>3
      <4> QED BY <1>2, <1>8, <3>2, <4>1, LeftLoops, AdvancedLoops DEF FinishWalk
    <3> QED BY <3>1, <3>2
  <2> QED BY <1>1, <1>8, <2>1 DEF FinishWalk, TypeOK, LoopType, Outcome, loading, references
<1>9. CASE ResolveReference
  <2>1. Search(Current, Pending) # {}
    BY <1>9 DEF ResolveReference, Verdict
  <2>2. Target \in Search(Current, Pending)
    BY <2>1 DEF Target
  <2>3. Target \in Seq(Name)
    BY <1>2, <2>2, FoundInTable
  <2>4. resolved' \in Seq(Seq(Name))
    BY <1>9, <2>3 DEF ResolveReference, TypeOK
  <2> QED BY <1>1, <1>9, <2>4 DEF ResolveReference, TypeOK, loading, references
<1>10. CASE RejectReference
  BY <1>1, <1>10 DEF RejectReference, Verdict, TypeOK, Outcome, loading, references
<1>11. CASE FinishFile
  BY <1>1, <1>2, <1>11 DEF FinishFile, TypeOK, Outcome, loading, references
<1>12. CASE AllResolved
  BY <1>1, <1>12 DEF AllResolved, TypeOK, Outcome, loading, references
<1> QED BY <1>3, <1>4, <1>5, <1>6, <1>7, <1>8, <1>9, <1>10, <1>11, <1>12 DEF Next, Resolve

LEMMA PhasesInit == Init => Phases
BY DEF Init, Phases, Rejected, Loader!Init

LEMMA PhasesStep ==
  ASSUME LoaderInv, TypeOK, Phases, [Next]_vars
  PROVE  Phases'
<1>1. CASE Load
  <2>1. /\ refs' = refs /\ walk' = walk /\ resolved' = resolved /\ outcome' = outcome /\ filePos' = filePos
    BY <1>1 DEF Load, references, resolution
  <2>2. content' = content /\ (status = "loaded" => status' = status /\ load_order' = load_order)
    BY <1>1, LoadKeeps DEF loading
  <2> QED BY <2>1, <2>2 DEF Phases, Rejected, Current
<1>2. CASE UNCHANGED vars
  BY <1>2 DEF vars, Phases, Rejected, Current
<1>3. CASE Resolve
  <2>1. content' = content /\ status' = status /\ load_order' = load_order /\ refs' = refs
    BY <1>3 DEF Resolve, BeginFile, FollowImport, PassImport, FinishWalk, ResolveReference, RejectReference,
                FinishFile, AllResolved, loading, references
  <2>2. Len(resolved) \in Nat
    BY DEF TypeOK
  <2>3. ASSUME filePos \in 1..Len(load_order) PROVE refs[Current] \in Seq(Reference) /\ Len(refs[Current]) \in Nat
    BY <2>3, CurrentFile DEF TypeOK
  <2>4. walk \in Seq(LoopType)
    BY DEF TypeOK, LoopType
  <2>5. CASE BeginFile
    BY <2>1, <2>5 DEF BeginFile, Phases, Rejected
  <2>6. CASE FollowImport
    <3>1. walk # <<>> /\ Inner.next <= Len(deps[Inner.file])
      BY <2>6 DEF FollowImport, Phases
    <3>2. walk' # <<>>
      BY <2>4, <2>6, <3>1, ImportTyped, EnteredLoops DEF FollowImport
    <3> QED BY <2>1, <2>6, <3>2 DEF FollowImport, Phases, Rejected
  <2>7. CASE PassImport
    <3>1. walk' # <<>>
      BY <2>4, <2>7, AdvancedLoops DEF PassImport, Phases
    <3> QED BY <2>1, <2>7, <3>1 DEF PassImport, Phases, Rejected
  <2>8. CASE FinishWalk /\ Len(walk) = 1
    <3>1. filePos \in 1..Len(load_order)
      BY <2>8 DEF FinishWalk, TypeOK
    <3>2. Len(resolved) = 0 /\ Len(resolved) <= Len(refs[Current])
      BY <2>3, <2>8, <3>1 DEF FinishWalk, Phases
    <3> QED BY <2>1, <2>8, <3>2 DEF FinishWalk, Phases, Rejected, Current
  <2>9. CASE FinishWalk /\ Len(walk) # 1
    <3>1. walk # <<>>
      BY <2>9 DEF FinishWalk, Phases
    <3>2. Len(walk) \in Nat \ {0}
      BY <2>4, <3>1, TopLoop
    <3>3. Len(walk) > 1
      <4>1. \A n \in Nat \ {0} : n # 1 => n > 1
        OBVIOUS
      <4> QED BY <2>9, <3>2, <4>1
    <3>4. walk' # <<>>
      BY <2>4, <2>9, <3>3, LeftLoops, AdvancedLoops DEF FinishWalk
    <3> QED BY <2>1, <2>9, <3>4 DEF FinishWalk, Phases, Rejected
  <2>10. CASE ResolveReference
    <3>1. filePos \in 1..Len(load_order)
      BY <2>10 DEF ResolveReference, TypeOK
    <3>2. Len(resolved') = Len(resolved) + 1
      BY <2>10 DEF ResolveReference, TypeOK
    <3>3. Len(resolved') <= Len(refs[Current])
      BY <2>2, <2>3, <2>10, <3>1, <3>2 DEF ResolveReference
    <3> QED BY <2>1, <2>10, <3>3 DEF ResolveReference, Phases, Rejected, Current
  <2>11. CASE RejectReference
    <3>1. outcome' \in {"unresolved", "wrong kind"}
      BY <2>11 DEF RejectReference, Verdict
    <3>2. filePos \in 1..Len(load_order)
      BY <2>11 DEF RejectReference, TypeOK
    <3>3. Len(resolved) <= Len(refs[Current])
      BY <2>2, <2>3, <2>11, <3>2 DEF RejectReference
    <3> QED BY <2>1, <2>11, <3>1, <3>3 DEF RejectReference, Phases, Rejected, Current
  <2>12. CASE FinishFile
    BY <2>1, <2>12 DEF FinishFile, Phases, Rejected
  <2>13. CASE AllResolved
    BY <2>1, <2>13 DEF AllResolved, Phases, Rejected
  <2> QED BY <1>3, <2>5, <2>6, <2>7, <2>8, <2>9, <2>10, <2>11, <2>12, <2>13 DEF Resolve
<1> QED BY <1>1, <1>2, <1>3 DEF Next

LEMMA TypesInvariant == Spec => [](LoaderInv /\ TypeOK /\ Phases)
BY LoaderInit, LoaderStep, TypeInit, TypeStep, PhasesInit, PhasesStep, PTL DEF Spec

(* Every variable of loading and of resolution keeps to its type. *)
THEOREM TypeCorrect == Spec => []TypeOK
BY TypesInvariant, PTL

-----------------------------------------------------------------------------
(***************************************************************************)
(* The recursion over imports.                                             *)
(***************************************************************************)
Before(g, f) ==
  \E p, q \in 1..Len(load_order) : q < p /\ load_order[q] = g /\ load_order[p] = f

(* Every loop but the first is over the imports of the file that the loop   *)
(* below it is at, so the files get earlier in load_order.                  *)
Descent ==
  /\ walk # <<>> => walk[1].file = Current
  /\ \A i \in 1..(Len(walk) - 1) :
        /\ walk[i].next <= Len(deps[walk[i].file])
        /\ walk[i+1].file = deps[walk[i].file][walk[i].next]
  /\ \A i \in 1..Len(walk) : walk[i].file \in loaded
  /\ \A i, j \in 1..Len(walk) : i < j => Before(walk[j].file, walk[i].file)

LEMMA BeforeIsStrict ==
  ASSUME Ordered, load_order \in Seq(File)
  PROVE  /\ \A f : ~Before(f, f)
         /\ \A f, g, h : Before(f, g) /\ Before(g, h) => Before(f, h)
<1>1. Len(load_order) \in Nat /\ \A i, j \in 1..Len(load_order) : load_order[i] = load_order[j] => i = j
  BY DEF Ordered
<1>2. ASSUME NEW f, Before(f, f) PROVE FALSE
  BY <1>1, <1>2 DEF Before
<1>3. ASSUME NEW f, NEW g, NEW h, Before(f, g), Before(g, h)
      PROVE  Before(f, h)
  <2>1. PICK p, q \in 1..Len(load_order) : q < p /\ load_order[q] = f /\ load_order[p] = g
    BY <1>3 DEF Before
  <2>2. PICK r, t \in 1..Len(load_order) : t < r /\ load_order[t] = g /\ load_order[r] = h
    BY <1>3 DEF Before
  <2>3. t = p
    BY <1>1, <2>1, <2>2
  <2>4. q < r
    BY <1>1, <2>1, <2>2, <2>3
  <2> QED BY <2>1, <2>2, <2>4 DEF Before
<1> QED BY <1>2, <1>3

LEMMA ImportsBefore ==
  ASSUME Ordered, load_order \in Seq(File), NEW f \in loaded, NEW k \in 1..Len(deps[f])
  PROVE  deps[f][k] \in loaded /\ Before(deps[f][k], f)
<1>1. PICK i \in 1..Len(load_order) : load_order[i] = f
  BY DEF Ordered
<1>2. PICK j \in 1..(i-1) : load_order[j] = deps[f][k]
  BY <1>1 DEF Ordered
<1>3. j \in 1..Len(load_order) /\ j < i
  BY <1>1, <1>2
<1> QED BY <1>1, <1>2, <1>3 DEF Ordered, Before

(* The three moves of the walk. *)
LEMMA DescentEntered ==
  ASSUME LoaderInv, TypeOK, Phases, Descent, FollowImport
  PROVE  Descent'
<1> DEFINE n == Len(walk)
<1>1. /\ walk \in Seq(LoopType) /\ walk # <<>> /\ Inner.next <= Len(deps[Inner.file])
      /\ load_order \in Seq(File) /\ Ordered
  BY LoadedOrdered DEF FollowImport, Phases, TypeOK, LoopType, LoaderInv, Facts!TypeOK
<1>2. n \in Nat \ {0} /\ n \in 1..n /\ Inner = walk[n] /\ Inner.next \in 1..Len(deps[Inner.file]) /\ Import \in File
  BY <1>1, TopLoop, ImportTyped DEF Inner
<1>3. /\ Len(walk') = n + 1 /\ walk' # <<>>
      /\ \A i \in 1..n : walk'[i] = walk[i]
      /\ walk'[n+1].file = Import
  BY <1>1, <1>2, EnteredLoops DEF FollowImport
<1>4. UNCHANGED <<deps, loaded, load_order, filePos>>
  BY DEF FollowImport, loading
<1>5. Import \in loaded /\ Before(Import, Inner.file) /\ Import = deps[Inner.file][Inner.next]
  BY <1>1, <1>2, ImportsBefore DEF Descent, Import
<1>6. walk'[1].file = Current'
  BY <1>1, <1>2, <1>3, <1>4 DEF Descent, Current
<1>7. ASSUME NEW i \in 1..(Len(walk') - 1)
      PROVE  /\ walk'[i].next <= Len(deps'[walk'[i].file])
             /\ walk'[i+1].file = deps'[walk'[i].file][walk'[i].next]
  <2>1. i \in 1..n
    BY <1>2, <1>3
  <2>2. CASE i = n
    BY <1>2, <1>3, <1>4, <1>5, <2>2
  <2>3. CASE i # n
    <3>1. i \in 1..(n - 1) /\ i + 1 \in 1..n
      BY <1>2, <2>1, <2>3
    <3> QED BY <1>3, <1>4, <2>1, <3>1 DEF Descent
  <2> QED BY <2>2, <2>3
<1>8. ASSUME NEW i \in 1..Len(walk')
      PROVE  walk'[i].file \in loaded'
  <2>1. i \in 1..n \/ i = n + 1
    BY <1>2, <1>3
  <2> QED BY <1>3, <1>4, <1>5, <2>1 DEF Descent
<1>9. ASSUME NEW i \in 1..Len(walk'), NEW j \in 1..Len(walk'), i < j
      PROVE  Before(walk'[j].file, walk'[i].file)
  <2>1. i \in 1..n /\ (j \in 1..n \/ j = n + 1)
    BY <1>2, <1>3, <1>9
  <2>2. CASE j \in 1..n
    BY <1>3, <1>9, <2>1, <2>2 DEF Descent
  <2>3. CASE j = n + 1
    <3>1. Before(Import, walk[i].file)
      <4>1. CASE i = n
        BY <1>2, <1>5, <4>1
      <4>2. CASE i # n
        <5>1. i < n
          BY <1>2, <2>1, <4>2
        <5>2. Before(walk[n].file, walk[i].file)
          BY <1>2, <2>1, <5>1 DEF Descent
        <5> QED BY <1>1, <1>2, <1>5, <5>2, BeforeIsStrict
      <4> QED BY <4>1, <4>2
    <3> QED BY <1>3, <2>1, <2>3, <3>1
  <2> QED BY <2>1, <2>2, <2>3
<1>10. \A f, g : Before(f, g) => Before(f, g)'
  BY <1>4 DEF Before
<1> QED BY <1>6, <1>7, <1>8, <1>9, <1>10 DEF Descent

LEMMA DescentKept ==
  ASSUME Descent, UNCHANGED <<deps, loaded, load_order, filePos>>, walk # <<>>,
         Len(walk) \in Nat, Len(walk') \in Nat, Len(walk') <= Len(walk), walk' # <<>> => Len(walk') >= 1,
         \A i \in 1..Len(walk') : walk'[i].file = walk[i].file,
         \A i \in 1..(Len(walk') - 1) : walk'[i].next = walk[i].next
  PROVE  Descent'
<1>1. \A f, g : Before(f, g) => Before(f, g)'
  BY DEF Before
<1>2. walk' # <<>> => walk'[1].file = Current'
  BY DEF Descent, Current
<1>3. ASSUME NEW i \in 1..(Len(walk') - 1)
      PROVE  /\ walk'[i].next <= Len(deps'[walk'[i].file])
             /\ walk'[i+1].file = deps'[walk'[i].file][walk'[i].next]
  <2>1. i \in 1..(Len(walk) - 1) /\ i \in 1..Len(walk') /\ i + 1 \in 1..Len(walk')
    OBVIOUS
  <2> QED BY <2>1 DEF Descent
<1>4. \A i \in 1..Len(walk') : i \in 1..Len(walk)
  OBVIOUS
<1>5. \A i \in 1..Len(walk') : walk'[i].file \in loaded'
  BY <1>4 DEF Descent
<1>6. \A i, j \in 1..Len(walk') : i < j => Before(walk'[j].file, walk'[i].file)
  BY <1>4 DEF Descent
<1> QED BY <1>1, <1>2, <1>3, <1>5, <1>6 DEF Descent

(* The loops that are left when the top one has come to its end. *)
LEMMA WalkLeft ==
  ASSUME LoaderInv, TypeOK, Phases, FinishWalk, Len(walk) # 1
  PROVE  /\ walk \in Seq(LoopType) /\ walk # <<>> /\ Len(walk) \in Nat /\ Len(walk) > 1
         /\ walk' \in Seq(LoopType) /\ walk' # <<>> /\ Len(walk') = Len(walk) - 1
         /\ \A i \in 1..(Len(walk) - 1) :
               /\ walk'[i].file = walk[i].file
               /\ walk'[i].next = IF i = Len(walk) - 1 THEN walk[i].next + 1 ELSE walk[i].next
<1> DEFINE w == SubSeq(walk, 1, Len(walk) - 1)
<1>1. walk \in Seq(LoopType) /\ walk # <<>> /\ walk' = Advanced(w)
  BY DEF FinishWalk, Phases, TypeOK, LoopType
<1>2. Len(walk) \in Nat /\ Len(walk) > 1
  <2>1. Len(walk) \in Nat \ {0}
    BY <1>1, TopLoop
  <2>2. \A n \in Nat \ {0} : n # 1 => n > 1
    OBVIOUS
  <2> QED BY <2>1, <2>2
<1>3. w \in Seq(LoopType) /\ w # <<>> /\ Len(w) = Len(walk) - 1 /\ \A i \in 1..(Len(walk) - 1) : w[i] = walk[i]
  BY <1>1, <1>2, LeftLoops
<1> HIDE DEF w
<1>4. /\ Advanced(w) \in Seq(LoopType) /\ Advanced(w) # <<>> /\ Len(Advanced(w)) = Len(w)
      /\ \A i \in 1..Len(w) : /\ Advanced(w)[i].file = w[i].file
                              /\ Advanced(w)[i].next = IF i = Len(w) THEN w[i].next + 1 ELSE w[i].next
  BY <1>3, AdvancedLoops
<1>5. ASSUME NEW i \in 1..(Len(walk) - 1)
      PROVE  /\ walk'[i].file = walk[i].file
             /\ walk'[i].next = IF i = Len(walk) - 1 THEN walk[i].next + 1 ELSE walk[i].next
  <2>1. i \in 1..Len(w) /\ w[i] = walk[i]
    BY <1>3
  <2> QED BY <1>1, <1>3, <1>4, <2>1
<1> QED BY <1>1, <1>2, <1>3, <1>4, <1>5

LEMMA DescentInit == Init => Descent
BY DEF Init, Descent

LEMMA DescentStep ==
  ASSUME LoaderInv, TypeOK, Phases, Descent, [Next]_vars
  PROVE  Descent'
<1>0. walk \in Seq(LoopType)
  BY DEF TypeOK, LoopType
<1>1. ASSUME UNCHANGED <<deps, loaded, load_order, filePos, walk>>
      PROVE  Descent'
  BY <1>1 DEF Descent, Before, Current
<1>2. ASSUME walk' = <<>> PROVE Descent'
  BY <1>2 DEF Descent
<1>3. CASE Load
  <2>1. CASE status = "loaded"
    BY <1>1, <1>3, <2>1, LoadKeeps DEF Load, resolution, loading
  <2>2. CASE status # "loaded"
    <3>1. walk' = <<>>
      BY <1>3, <2>2 DEF Load, resolution, Phases
    <3> QED BY <1>2, <3>1
  <2> QED BY <2>1, <2>2
<1>4. CASE BeginFile
  <2>1. Current \in File /\ Current \in loaded
    BY <1>4, CurrentFile DEF BeginFile, TypeOK
  <2>2. /\ walk' = <<Loop(Current, 1)>> /\ Current' = Current /\ loaded' = loaded
    BY <1>4 DEF BeginFile, loading, Current
  <2>3. Len(walk') = 1 /\ walk'[1].file = Current
    BY <2>1, <2>2, LoopFields
  <2>4. \A i \in 1..Len(walk') : i = 1
    BY <2>3
  <2>5. 1..(Len(walk') - 1) = {}
    BY <2>3
  <2> QED BY <2>1, <2>2, <2>3, <2>4, <2>5 DEF Descent
<1>5. CASE FollowImport
  BY <1>5, DescentEntered
<1>6. CASE PassImport
  <2>1. walk # <<>> /\ UNCHANGED <<deps, loaded, load_order, filePos>> /\ walk' = Advanced(walk)
    BY <1>6 DEF PassImport, Phases, loading
  <2>2. Len(walk) \in Nat \ {0} /\ Len(walk') = Len(walk)
    BY <1>0, <2>1, TopLoop, AdvancedLoops
  <2>3. /\ \A i \in 1..Len(walk') : walk'[i].file = walk[i].file
        /\ \A i \in 1..(Len(walk') - 1) : walk'[i].next = walk[i].next
    BY <1>0, <2>1, <2>2, AdvancedLoops
  <2> QED BY <2>1, <2>2, <2>3, DescentKept
<1>7. CASE FinishWalk
  <2>1. CASE Len(walk) = 1
    BY <1>2, <1>7, <2>1 DEF FinishWalk
  <2>2. CASE Len(walk) # 1
    <3>1. UNCHANGED <<deps, loaded, load_order, filePos>>
      BY <1>7 DEF FinishWalk, loading
    <3>2. /\ walk # <<>> /\ Len(walk) \in Nat /\ Len(walk) > 1 /\ Len(walk') = Len(walk) - 1
          /\ \A i \in 1..(Len(walk) - 1) :
                /\ walk'[i].file = walk[i].file
                /\ walk'[i].next = IF i = Len(walk) - 1 THEN walk[i].next + 1 ELSE walk[i].next
      BY <1>7, <2>2, WalkLeft
    <3>3. \A i \in 1..Len(walk') : walk'[i].file = walk[i].file
      BY <3>2
    <3>4. \A i \in 1..(Len(walk') - 1) : walk'[i].next = walk[i].next
      <4>1. \A i \in 1..(Len(walk') - 1) : i \in 1..(Len(walk) - 1) /\ i # Len(walk) - 1
        BY <3>2
      <4> QED BY <3>2, <4>1
    <3>5. Len(walk') \in Nat /\ Len(walk') <= Len(walk) /\ Len(walk') >= 1
      BY <3>2
    <3> QED BY <3>1, <3>2, <3>3, <3>4, <3>5, DescentKept
  <2> QED BY <2>1, <2>2
<1>8. CASE ResolveReference \/ RejectReference
  BY <1>1, <1>8 DEF ResolveReference, RejectReference, loading
<1>9. CASE FinishFile \/ AllResolved
  <2>1. walk' = <<>>
    BY <1>9 DEF FinishFile, AllResolved, Phases
  <2> QED BY <1>2, <2>1
<1> QED BY <1>1, <1>3, <1>4, <1>5, <1>6, <1>7, <1>8, <1>9 DEF Next, Resolve, vars

LEMMA WalkInvariant == Spec => [](LoaderInv /\ TypeOK /\ Phases /\ Descent)
BY TypesInvariant, DescentInit, DescentStep, PTL DEF Spec

(* collect_public_transitive keeps no visited set, and still never enters a *)
(* file it is in: each file it enters precedes the one before in load_order. *)
THEOREM WalkIsBounded == Spec => []WalkBounded
<1>1. LoaderInv /\ TypeOK /\ Descent => WalkBounded
  <2> SUFFICES ASSUME LoaderInv, TypeOK, Descent,
                      NEW i \in 1..Len(walk), NEW j \in 1..Len(walk), walk[i].file = walk[j].file, i # j
               PROVE  FALSE
    BY DEF WalkBounded
  <2>1. i < j \/ j < i
    OBVIOUS
  <2>2. Before(walk[j].file, walk[i].file) \/ Before(walk[i].file, walk[j].file)
    BY <2>1 DEF Descent
  <2>3. Ordered /\ load_order \in Seq(File)
    BY LoadedOrdered DEF LoaderInv, Facts!TypeOK
  <2> QED BY <2>2, <2>3, BeforeIsStrict
<1> QED BY <1>1, WalkInvariant, PTL

-----------------------------------------------------------------------------
(***************************************************************************)
(* What is visible.                                                        *)
(***************************************************************************)
Reach(f) ==
  {g \in File : \A S \in SUBSET File :
     ImportsOf(f) \subseteq S /\ (\A h \in S : PublicImportsOf(h) \subseteq S) => g \in S}

LEMMA SeesIsReach == \A f : Sees(f) = {f} \cup Reach(f)
BY DEF Sees, Reach

LEMMA ReachClosed ==
  ASSUME LoaderInv, NEW f \in File
  PROVE  ImportsOf(f) \subseteq Reach(f) /\ \A h \in Reach(f) : PublicImportsOf(h) \subseteq Reach(f)
<1>1. deps \in [File -> Seq(File)]
  BY DEF LoaderInv, Facts!TypeOK
<1>2. \A h \in File : ImportsOf(h) \subseteq File /\ PublicImportsOf(h) \subseteq File
  <2> TAKE h \in File
  <2>1. deps[h] \in Seq(File)
    BY <1>1
  <2>2. \A i \in 1..Len(deps[h]) : deps[h][i] \in File
    BY <2>1, ElementOfSeq
  <2> QED BY <2>2 DEF ImportsOf, PublicImportsOf
<1>3. ImportsOf(f) \subseteq Reach(f)
  BY <1>2 DEF Reach
<1>4. ASSUME NEW h \in Reach(f), NEW g \in PublicImportsOf(h)
      PROVE  g \in Reach(f)
  <2>1. h \in File /\ g \in File
    BY <1>2, <1>4 DEF Reach
  <2>2. ASSUME NEW S \in SUBSET File, ImportsOf(f) \subseteq S, \A e \in S : PublicImportsOf(e) \subseteq S
        PROVE  g \in S
    BY <1>4, <2>2 DEF Reach
  <2> QED BY <2>1, <2>2 DEF Reach
<1> QED BY <1>3, <1>4

(* Resolution changes nothing that has been loaded. *)
LEMMA Frozen ==
  ASSUME UNCHANGED <<loading, references>>
  PROVE  /\ Packages' = Packages
         /\ \A g : TypesOf(g)' = TypesOf(g) /\ Reach(g)' = Reach(g) /\ Sees(g)' = Sees(g)
         /\ \A g : PublicImportsOf(g)' = PublicImportsOf(g)
<1>1. UNCHANGED <<content, deps, symbols, public>>
  BY DEF loading, references
<1>2. Packages' = Packages
  BY <1>1 DEF Packages
<1>3. \A g : TypesOf(g)' = TypesOf(g)
  BY <1>1 DEF TypesOf, Loader!DeclEntries
<1>4. \A g : ImportsOf(g)' = ImportsOf(g) /\ PublicImportsOf(g)' = PublicImportsOf(g)
  BY <1>1 DEF ImportsOf, PublicImportsOf
<1>5. \A g : Reach(g)' = Reach(g)
  BY <1>4 DEF Reach
<1>6. \A g : Sees(g)' = Sees(g)
  BY <1>4 DEF Sees
<1> QED BY <1>2, <1>3, <1>4, <1>5, <1>6

(* C: the files whose types have been collected.  A file of C is in a loop  *)
(* of the walk, or all it imports publicly is in C too.                     *)
Follows(i, k) == i = 1 \/ k \in public[walk[i].file]

Gathers(C) ==
  /\ visible = Packages \cup UNION {TypesOf(g) : g \in C}
  /\ C \subseteq Sees(Current) /\ Current \in C
  /\ \A i \in 1..Len(walk) :
        /\ walk[i].file \in C
        /\ i > 1 => walk[i].file \in Reach(Current)
        /\ \A k \in 1..(walk[i].next - 1) : Follows(i, k) => deps[walk[i].file][k] \in C
  /\ \A g \in C : (\A i \in 1..Len(walk) : walk[i].file # g) => PublicImportsOf(g) \subseteq C

Collected == outcome = "collecting" => \E C \in SUBSET File : Gathers(C)

Gathered ==
  outcome \in {"resolving", "unresolved", "wrong kind"} =>
    visible = Packages \cup UNION {TypesOf(g) : g \in Sees(Current)}

LEMMA CollectedBegin ==
  ASSUME LoaderInv, TypeOK, BeginFile
  PROVE  Gathers({Current})' /\ Current' \in File
<1>1. Current \in File
  BY CurrentFile DEF BeginFile, TypeOK
<1>2. Current' = Current /\ walk' = <<Loop(Current, 1)>>
  BY DEF BeginFile, loading, Current
<1>3. Len(walk') = 1 /\ walk'[1].file = Current /\ walk'[1].next = 1
  BY <1>1, <1>2, LoopFields
<1>4. Packages' = Packages /\ TypesOf(Current)' = TypesOf(Current)
  <2>1. Packages' = Packages /\ \A g : TypesOf(g)' = TypesOf(g)
    BY Frozen DEF BeginFile
  <2> QED BY <1>2, <2>1 DEF BeginFile, loading, Current, TypesOf, Loader!DeclEntries
<1>5. visible' = Packages' \cup UNION {TypesOf(g)' : g \in {Current'}}
  BY <1>2, <1>4 DEF BeginFile
<1>6. {Current'} \subseteq Sees(Current)'
  BY DEF Sees
<1>7. \A i \in 1..Len(walk') : i = 1 /\ 1..(walk'[i].next - 1) = {}
  BY <1>3
<1>8. \A i \in 1..Len(walk') :
        /\ walk'[i].file \in {Current'}
        /\ i > 1 => walk'[i].file \in Reach(Current)'
        /\ \A k \in 1..(walk'[i].next - 1) : Follows(i, k)' => deps'[walk'[i].file][k] \in {Current'}
  BY <1>2, <1>3, <1>7
<1>9. \A g \in {Current'} : ~\A i \in 1..Len(walk') : walk'[i].file # g
  BY <1>2, <1>3
<1> QED BY <1>1, <1>2, <1>5, <1>6, <1>8, <1>9 DEF Gathers

LEMMA CollectedEntered ==
  ASSUME LoaderInv, TypeOK, Phases, Descent, FollowImport, NEW C \in SUBSET File, Gathers(C),
         NEW f \in File, f = Import
  PROVE  Gathers(C \cup {f})'
<1> DEFINE n == Len(walk)
<1>1. /\ walk \in Seq(LoopType) /\ walk # <<>> /\ Inner.next <= Len(deps[Inner.file])
      /\ Current' = Current /\ UNCHANGED <<deps, public>>
  BY DEF FollowImport, Phases, TypeOK, LoopType, loading, references, Current
<1>2. n \in Nat \ {0} /\ n \in 1..n /\ Inner = walk[n] /\ Inner.next \in 1..Len(deps[Inner.file]) 
  BY <1>1, TopLoop, ImportTyped DEF Inner
<1>3. /\ Len(walk') = n + 1
      /\ \A i \in 1..n : walk'[i] = walk[i]
      /\ walk'[n+1].file = f /\ walk'[n+1].next = 1
  BY <1>1, <1>2, EnteredLoops DEF FollowImport
<1>4. Current \in File
  BY CurrentFile DEF FollowImport, TypeOK
<1>5. /\ Packages' = Packages
      /\ \A g : TypesOf(g)' = TypesOf(g) /\ PublicImportsOf(g)' = PublicImportsOf(g)
      /\ Reach(Current)' = Reach(Current) /\ Sees(Current)' = Sees(Current)
  <2>1. /\ Packages' = Packages
        /\ \A g : TypesOf(g)' = TypesOf(g) /\ Reach(g)' = Reach(g) /\ Sees(g)' = Sees(g)
        /\ \A g : PublicImportsOf(g)' = PublicImportsOf(g)
    BY Frozen DEF FollowImport
  <2> QED BY <1>1, <2>1 DEF FollowImport, loading, references, Reach, Sees, ImportsOf, PublicImportsOf
<1>6. f \in Reach(Current)
  <2>1. f = deps[Inner.file][Inner.next]
    BY DEF Import
  <2>2. CASE n = 1
    <3>1. Inner.file = Current
      BY <1>1, <1>2, <2>2 DEF Descent
    <3>2. f \in ImportsOf(Current)
      BY <1>2, <2>1, <3>1 DEF ImportsOf
    <3> QED BY <1>4, <3>2, ReachClosed
  <2>3. CASE n # 1
    <3>1. Inner.file \in Reach(Current)
      <4>1. \A m \in Nat \ {0} : m # 1 => m > 1
        OBVIOUS
      <4> QED BY <1>2, <2>3, <4>1 DEF Gathers
    <3>2. Inner.next \in public[Inner.file]
      BY <2>3 DEF FollowImport, Followed
    <3>3. f \in PublicImportsOf(Inner.file)
      BY <1>2, <2>1, <3>2 DEF PublicImportsOf
    <3> QED BY <1>4, <3>1, <3>3, ReachClosed
  <2> QED BY <2>2, <2>3
<1> DEFINE D == C \cup {f}
<1>7. visible' = Packages' \cup UNION {TypesOf(g)' : g \in D}
  <2>1. visible' = (Packages \cup UNION {TypesOf(g) : g \in C}) \cup TypesOf(f)
    BY DEF FollowImport, Gathers
  <2>2. UNION {TypesOf(g) : g \in D} = (UNION {TypesOf(g) : g \in C}) \cup TypesOf(f)
    <3> DEFINE U == UNION {TypesOf(g) : g \in D}
               V == UNION {TypesOf(g) : g \in C}
    <3>1. /\ \A x \in U : \E g \in D : x \in TypesOf(g)
          /\ \A x \in V : \E g \in C : x \in TypesOf(g)
          /\ \A g \in D : TypesOf(g) \subseteq U
          /\ \A g \in C : TypesOf(g) \subseteq V
          /\ \A g : g \in D <=> g \in C \/ g = f
      OBVIOUS
    <3> HIDE DEF D, U, V
    <3>2. U \subseteq V \cup TypesOf(f)
      BY <3>1
    <3>3. V \subseteq U /\ TypesOf(f) \subseteq U
      BY <3>1
    <3>4. U = V \cup TypesOf(f)
      BY <3>2, <3>3
    <3> QED BY <3>4 DEF U, V
  <2> QED BY <1>5, <2>1, <2>2
<1>8. D \subseteq Sees(Current)' /\ Current' \in D
  BY <1>1, <1>5, <1>6, SeesIsReach DEF Gathers
<1>9. ASSUME NEW i \in 1..Len(walk')
      PROVE  /\ walk'[i].file \in D
             /\ i > 1 => walk'[i].file \in Reach(Current)'
             /\ \A k \in 1..(walk'[i].next - 1) : Follows(i, k)' => deps'[walk'[i].file][k] \in D
  <2>1. i \in 1..n \/ i = n + 1
    BY <1>2, <1>3
  <2>2. CASE i \in 1..n
    <3>1. walk'[i] = walk[i]
      BY <1>3, <2>2
    <3>2. \A k : Follows(i, k)' => Follows(i, k)
      BY <1>1, <3>1 DEF Follows
    <3> QED BY <1>1, <1>5, <2>2, <3>1, <3>2 DEF Gathers
  <2>3. CASE i = n + 1
    <3>1. 1..(walk'[i].next - 1) = {}
      BY <1>3, <2>3
    <3> QED BY <1>3, <1>5, <1>6, <2>3, <3>1
  <2> QED BY <2>1, <2>2, <2>3
<1>10. ASSUME NEW g \in D, \A i \in 1..Len(walk') : walk'[i].file # g
       PROVE  PublicImportsOf(g)' \subseteq D
  <2>1. n + 1 \in 1..Len(walk')
    BY <1>2, <1>3
  <2>2. g \in C
    BY <1>3, <1>10, <2>1
  <2>3. \A i \in 1..n : walk[i].file # g
    BY <1>2, <1>3, <1>10
  <2> QED BY <1>5, <2>2, <2>3 DEF Gathers
<1> HIDE DEF D
<1>11. Gathers(D)'
  <2> SUFFICES ASSUME NEW E, E = D PROVE Gathers(E)'
    BY DEF D
  <2> QED BY <1>7, <1>8, <1>9, <1>10 DEF Gathers
<1> QED BY <1>11 DEF D

(* The moves that collect nothing: the loops that go on are where they were *)
(* or one import further, and a file that is left has all its public        *)
(* imports collected.                                                       *)
LEMMA CollectedKept ==
  ASSUME UNCHANGED <<loading, references, filePos, visible>>, NEW C \in SUBSET File, Gathers(C),
         Len(walk) \in Nat, Len(walk') \in Nat, Len(walk') <= Len(walk),
         \A i \in 1..Len(walk') :
           /\ walk'[i].file = walk[i].file
           /\ walk'[i].next \in Int /\ walk[i].next \in Int
           /\ \/ walk'[i].next = walk[i].next
              \/ /\ walk'[i].next = walk[i].next + 1
                 /\ Follows(i, walk[i].next) => deps[walk[i].file][walk[i].next] \in C,
         \A i \in 1..Len(walk) : i > Len(walk') => PublicImportsOf(walk[i].file) \subseteq C
  PROVE  Gathers(C)'
<1>1. Current' = Current /\ UNCHANGED <<deps, public>>
  BY DEF loading, references, Current
<1>2. /\ Packages' = Packages
      /\ \A g : TypesOf(g)' = TypesOf(g) /\ PublicImportsOf(g)' = PublicImportsOf(g)
      /\ Reach(Current)' = Reach(Current) /\ Sees(Current)' = Sees(Current)
  <2>1. /\ Packages' = Packages
        /\ \A g : TypesOf(g)' = TypesOf(g) /\ Reach(g)' = Reach(g) /\ Sees(g)' = Sees(g)
        /\ \A g : PublicImportsOf(g)' = PublicImportsOf(g)
    BY Frozen
  <2> QED BY <1>1, <2>1 DEF loading, references, Reach, Sees, ImportsOf, PublicImportsOf
<1>3. ASSUME NEW i \in 1..Len(walk'), NEW k \in 1..(walk'[i].next - 1), Follows(i, k)'
      PROVE  deps'[walk'[i].file][k] \in C
  <2>1. i \in 1..Len(walk) /\ walk'[i].file = walk[i].file
    OBVIOUS
  <2>2. Follows(i, k)
    BY <1>1, <1>3, <2>1 DEF Follows
  <2>3. CASE k \in 1..(walk[i].next - 1)
    BY <1>1, <2>1, <2>2, <2>3 DEF Gathers
  <2>4. CASE k \notin 1..(walk[i].next - 1)
    <3>1. walk'[i].next = walk[i].next + 1 /\ k = walk[i].next
      BY <2>4
    <3> QED BY <1>1, <2>1, <2>2, <3>1
  <2> QED BY <2>3, <2>4
<1>4. ASSUME NEW i \in 1..Len(walk')
      PROVE  walk'[i].file \in C /\ (i > 1 => walk'[i].file \in Reach(Current)')
  <2>1. i \in 1..Len(walk) /\ walk'[i].file = walk[i].file
    OBVIOUS
  <2> QED BY <1>2, <2>1 DEF Gathers
<1>5. ASSUME NEW g \in C, \A i \in 1..Len(walk') : walk'[i].file # g
      PROVE  PublicImportsOf(g)' \subseteq C
  <2>1. CASE \A i \in 1..Len(walk) : walk[i].file # g
    BY <1>2, <2>1 DEF Gathers
  <2>2. CASE ~\A i \in 1..Len(walk) : walk[i].file # g
    <3>1. PICK i \in 1..Len(walk) : walk[i].file = g
      BY <2>2
    <3>2. i > Len(walk')
      BY <1>5, <3>1
    <3> QED BY <1>2, <3>1, <3>2
  <2> QED BY <2>1, <2>2
<1>6. visible' = Packages' \cup UNION {TypesOf(g)' : g \in C}
  BY <1>2 DEF Gathers
<1>7. C \subseteq Sees(Current)' /\ Current' \in C
  BY <1>1, <1>2 DEF Gathers
<1> QED BY <1>3, <1>4, <1>5, <1>6, <1>7 DEF Gathers

(* When the first loop has come to its end, what has been collected is what *)
(* the file sees: it is closed under public imports and holds its imports.  *)
LEMMA AllSeen ==
  ASSUME LoaderInv, TypeOK, Phases, Descent, NEW C \in SUBSET File, Gathers(C),
         outcome = "collecting", Len(walk) = 1, Inner.next > Len(deps[Inner.file])
  PROVE  C = Sees(Current)
<1>1. walk \in Seq(LoopType) /\ walk # <<>> /\ filePos \in 1..Len(load_order)
  BY DEF Phases, TypeOK, LoopType
<1>2. Current \in File
  BY <1>1, CurrentFile
<1>3. /\ Inner = walk[1] /\ Inner.file = Current /\ walk[1].next \in Nat
      /\ deps[Current] \in Seq(File) /\ Len(deps[Current]) \in Nat
  BY <1>1, <1>2, TopLoop DEF Inner, Descent, LoaderInv, Facts!TypeOK
<1>4. ImportsOf(Current) \subseteq C
  <2> SUFFICES ASSUME NEW k \in 1..Len(deps[Current])
               PROVE  deps[Current][k] \in C
    BY DEF ImportsOf
  <2>1. k \in 1..(walk[1].next - 1) /\ 1 \in 1..Len(walk)
    BY <1>3
  <2>2. Follows(1, k)
    BY DEF Follows
  <2> QED BY <1>3, <2>1, <2>2 DEF Gathers
<1>5. ASSUME NEW h \in C PROVE PublicImportsOf(h) \subseteq C
  <2>1. CASE h = Current
    BY <1>4, <2>1 DEF ImportsOf, PublicImportsOf
  <2>2. CASE h # Current
    <3>1. \A i \in 1..Len(walk) : walk[i].file # h
      BY <1>3, <2>2
    <3> QED BY <3>1 DEF Gathers
  <2> QED BY <2>1, <2>2
<1>6. Reach(Current) \subseteq C
  BY <1>4, <1>5 DEF Reach
<1> QED BY <1>6, SeesIsReach DEF Gathers

LEMMA CollectedInit == Init => Collected /\ Gathered
BY DEF Init, Collected, Gathered

LEMMA CollectedStep ==
  ASSUME LoaderInv, TypeOK, Phases, Descent, Collected, Gathered, [Next]_vars
  PROVE  Collected' /\ Gathered'
<1>0. walk \in Seq(LoopType)
  BY DEF TypeOK, LoopType
<1>1. ASSUME UNCHANGED <<loading, references, filePos, walk, visible, outcome>>
      PROVE  Collected' /\ Gathered'
  <2>1. /\ Packages' = Packages /\ Current' = Current /\ UNCHANGED <<deps, public>>
        /\ \A g : TypesOf(g)' = TypesOf(g) /\ Reach(g)' = Reach(g) /\ Sees(g)' = Sees(g)
        /\ \A g : PublicImportsOf(g)' = PublicImportsOf(g)
    BY <1>1, Frozen DEF Current, loading, references
  <2>2. Sees(Current)' = Sees(Current) /\ Reach(Current)' = Reach(Current)
    BY <1>1, <2>1 DEF loading, references, Reach, Sees, ImportsOf, PublicImportsOf
  <2>3. \A C : Gathers(C) => Gathers(C)'
    BY <1>1, <2>1, <2>2 DEF Gathers, Follows
  <2> QED BY <1>1, <2>1, <2>2, <2>3 DEF Collected, Gathered
<1>2. ASSUME outcome' \in {"waiting", "done"} PROVE Collected' /\ Gathered'
  BY <1>2 DEF Collected, Gathered
<1>3. CASE Load
  <2>1. CASE outcome = "waiting"
    BY <1>2, <1>3, <2>1 DEF Load, resolution
  <2>2. CASE outcome # "waiting"
    BY <1>1, <1>3, <2>2, LoadKeeps DEF Load, resolution, references, Phases
  <2> QED BY <2>1, <2>2
<1>4. CASE BeginFile
  <2>1. PICK f \in File : f = Current'
    BY <1>4, CollectedBegin
  <2>2. Gathers({f})'
    <3>1. Gathers({Current})'
      BY <1>4, CollectedBegin
    <3> QED BY <2>1, <3>1 DEF Gathers
  <2>3. outcome' = "collecting"
    BY <1>4 DEF BeginFile
  <2> QED BY <2>2, <2>3 DEF Collected, Gathered
<1>5. CASE FollowImport
  <2>1. PICK C \in SUBSET File : Gathers(C)
    BY <1>5 DEF FollowImport, Collected
  <2>2. Import \in File
    BY <1>0, <1>5, ImportTyped DEF FollowImport, Phases
  <2>3. PICK f \in File : f = Import
    BY <2>2
  <2>4. Gathers(C \cup {f})' /\ C \cup {f} \in SUBSET File
    BY <1>5, <2>1, <2>3, CollectedEntered
  <2>5. outcome' = "collecting"
    BY <1>5 DEF FollowImport
  <2> QED BY <2>4, <2>5 DEF Collected, Gathered
<1>6. CASE PassImport
  <2>1. PICK C \in SUBSET File : Gathers(C)
    BY <1>6 DEF PassImport, Collected
  <2>2. /\ walk # <<>> /\ Inner.next <= Len(deps[Inner.file]) /\ ~Followed /\ walk' = Advanced(walk)
        /\ UNCHANGED <<loading, references, filePos, visible>> /\ outcome' = "collecting"
    BY <1>6 DEF PassImport, Phases
  <2>3. Len(walk) \in Nat \ {0} /\ Inner = walk[Len(walk)] /\ Inner.next \in 1..Len(deps[Inner.file])
    BY <1>0, <2>2, TopLoop, ImportTyped DEF Inner
  <2>4. Import \in loaded
    <3>1. Inner.file \in loaded /\ load_order \in Seq(File)
      BY <2>3 DEF Descent, LoaderInv, Facts!TypeOK
    <3> QED BY <2>3, <3>1, LoadedOrdered, ImportsBefore DEF Import
  <2>5. ~Follows(Len(walk), Inner.next)
    BY <2>2, <2>3, <2>4 DEF Followed, Follows
  <2>6. ASSUME NEW i \in 1..Len(walk)
        PROVE  /\ walk'[i].file = walk[i].file
               /\ walk'[i].next = IF i = Len(walk) THEN walk[i].next + 1 ELSE walk[i].next
               /\ walk[i].next \in Nat
    BY <1>0, <2>2, AdvancedLoops, TopLoop
  <2>7. Len(walk') = Len(walk)
    BY <1>0, <2>2, AdvancedLoops
  <2>8. ASSUME NEW i \in 1..Len(walk')
        PROVE  /\ walk'[i].file = walk[i].file
               /\ walk'[i].next \in Int /\ walk[i].next \in Int
               /\ \/ walk'[i].next = walk[i].next
                  \/ /\ walk'[i].next = walk[i].next + 1
                     /\ Follows(i, walk[i].next) => deps[walk[i].file][walk[i].next] \in C
    BY <2>3, <2>5, <2>6, <2>7
  <2>9. Gathers(C)'
    BY <2>1, <2>2, <2>3, <2>7, <2>8, CollectedKept
  <2> QED BY <2>2, <2>9 DEF Collected, Gathered
<1>7. CASE FinishWalk /\ Len(walk) = 1
  <2>1. PICK C \in SUBSET File : Gathers(C)
    BY <1>7 DEF FinishWalk, Collected
  <2>2. /\ UNCHANGED <<loading, references, filePos, visible>> /\ outcome' = "resolving"
    BY <1>7 DEF FinishWalk
  <2>3. C = Sees(Current)
    BY <1>7, <2>1, AllSeen DEF FinishWalk
  <2>4. visible = Packages \cup UNION {TypesOf(g) : g \in Sees(Current)}
    BY <2>1, <2>3 DEF Gathers
  <2>5. Packages' = Packages /\ (\A g : TypesOf(g)' = TypesOf(g)) /\ Sees(Current)' = Sees(Current)
    <3>1. Packages' = Packages /\ \A g : TypesOf(g)' = TypesOf(g) /\ Sees(g)' = Sees(g)
      BY <2>2, Frozen
    <3> QED BY <2>2, <3>1 DEF loading, references, Current, Sees, ImportsOf, PublicImportsOf
  <2> QED BY <2>2, <2>4, <2>5 DEF Collected, Gathered
<1>8. CASE FinishWalk /\ Len(walk) # 1
  <2>1. PICK C \in SUBSET File : Gathers(C)
    BY <1>8 DEF FinishWalk, Collected
  <2>2. /\ UNCHANGED <<loading, references, filePos, visible>> /\ outcome' = "collecting"
        /\ Inner.next > Len(deps[Inner.file])
    BY <1>8 DEF FinishWalk
  <2>3. /\ walk # <<>> /\ Len(walk) \in Nat /\ Len(walk) > 1 /\ Len(walk') = Len(walk) - 1
        /\ \A i \in 1..(Len(walk) - 1) :
              /\ walk'[i].file = walk[i].file
              /\ walk'[i].next = IF i = Len(walk) - 1 THEN walk[i].next + 1 ELSE walk[i].next
    BY <1>8, WalkLeft
  <2>4. \A i \in 1..Len(walk) : walk[i].file \in File /\ walk[i].next \in Nat
    BY <1>0, <2>3, TopLoop
  <2>5. ASSUME NEW i \in 1..Len(walk')
        PROVE  /\ walk'[i].file = walk[i].file
               /\ walk'[i].next \in Int /\ walk[i].next \in Int
               /\ \/ walk'[i].next = walk[i].next
                  \/ /\ walk'[i].next = walk[i].next + 1
                     /\ Follows(i, walk[i].next) => deps[walk[i].file][walk[i].next] \in C
    <3>1. i \in 1..(Len(walk) - 1) /\ i \in 1..Len(walk) /\ i + 1 \in 1..Len(walk)
      BY <2>3
    <3>2. walk[i+1].file \in C /\ walk[i+1].file = deps[walk[i].file][walk[i].next]
      BY <2>1, <3>1 DEF Gathers, Descent
    <3> QED BY <2>3, <2>4, <3>1, <3>2
  <2>6. ASSUME NEW i \in 1..Len(walk), i > Len(walk')
        PROVE  PublicImportsOf(walk[i].file) \subseteq C
    <3>1. i = Len(walk) /\ walk[i] = Inner
      BY <2>3, <2>6 DEF Inner
    <3>2. deps[walk[i].file] \in Seq(File)
      BY <2>4 DEF LoaderInv, Facts!TypeOK
    <3>3. ASSUME NEW k \in public[walk[i].file] \cap 1..Len(deps[walk[i].file])
          PROVE  deps[walk[i].file][k] \in C
      <4>1. k \in 1..(walk[i].next - 1)
        BY <2>2, <2>4, <3>1, <3>2
      <4>2. Follows(i, k)
        BY <3>3 DEF Follows
      <4> QED BY <2>1, <4>1, <4>2 DEF Gathers
    <3> QED BY <3>3 DEF PublicImportsOf
  <2>7. Gathers(C)'
    <3>1. Len(walk') \in Nat /\ Len(walk') <= Len(walk)
      BY <2>3
    <3> QED BY <2>1, <2>2, <2>3, <2>5, <2>6, <3>1, CollectedKept
  <2> QED BY <2>2, <2>7 DEF Collected, Gathered
<1>9. CASE ResolveReference
  BY <1>1, <1>9 DEF ResolveReference
<1>10. CASE RejectReference
  <2>1. outcome = "resolving" /\ outcome' \in {"unresolved", "wrong kind"} /\ UNCHANGED <<loading, references, filePos, visible>>
    BY <1>10 DEF RejectReference, Verdict
  <2>2. Packages' = Packages /\ (\A g : TypesOf(g)' = TypesOf(g)) /\ Sees(Current)' = Sees(Current)
    <3>1. Packages' = Packages /\ \A g : TypesOf(g)' = TypesOf(g) /\ Sees(g)' = Sees(g)
      BY <2>1, Frozen
    <3>2. Current' = Current /\ UNCHANGED <<deps, public>>
      BY <2>1 DEF loading, references, Current
    <3>3. Sees(Current)' = Sees(Current)
      BY <3>2 DEF Sees, ImportsOf, PublicImportsOf
    <3> QED BY <3>1, <3>3
  <2>3. Collected'
    BY <2>1 DEF Collected
  <2>4. visible = Packages \cup UNION {TypesOf(g) : g \in Sees(Current)}
    BY <2>1 DEF Gathered
  <2>5. visible' = (Packages \cup UNION {TypesOf(g) : g \in Sees(Current)})'
    BY <2>1, <2>2, <2>4
  <2>6. Gathered'
    BY <2>5 DEF Gathered
  <2> QED BY <2>3, <2>6
<1>11. CASE FinishFile \/ AllResolved
  BY <1>2, <1>11 DEF FinishFile, AllResolved
<1>12. CASE UNCHANGED vars
  BY <1>1, <1>12 DEF vars, loading, references
<1> QED BY <1>3, <1>4, <1>5, <1>6, <1>7, <1>8, <1>9, <1>10, <1>11, <1>12 DEF Next, Resolve

LEMMA VisibleInvariant == Spec => [](LoaderInv /\ TypeOK /\ Phases /\ Descent /\ Collected /\ Gathered)
BY WalkInvariant, CollectedInit, CollectedStep, PTL DEF Spec

(* References are looked up among the types of exactly the files seen, and  *)
(* the packages of all: what collect_visible_symbols leaves in `visible`.   *)
THEOREM VisibleIsExact == Spec => []VisibleExact
<1>1. Gathered => VisibleExact
  BY DEF Gathered, VisibleExact
<1> QED BY <1>1, VisibleInvariant, PTL

-----------------------------------------------------------------------------
(***************************************************************************)
(* What a resolved name stands for.                                        *)
(***************************************************************************)
LEMMA DeclaresByName ==
  \A g, n, kinds : Declares(g, n, kinds) <=> \E i \in Decls(g) : DeclName(g, i) = n /\ DeclaredAs(g, i) \in kinds
<1> SUFFICES ASSUME NEW g, NEW n, NEW kinds
             PROVE  Declares(g, n, kinds) <=> \E i \in Decls(g) : DeclName(g, i) = n /\ DeclaredAs(g, i) \in kinds
  OBVIOUS
<1>1. ASSUME NEW i \in Decls(g)
      PROVE  Loader!DeclEntries(content[g])[i] \in [fqn : {n}, kind : kinds]
             <=> DeclName(g, i) = n /\ DeclaredAs(g, i) \in kinds
  BY DEF Decls, DeclName, DeclaredAs, Loader!DeclEntries
<1> QED BY <1>1 DEF Declares, Decls

LEMMA TypesByName ==
  \A g, n : n \in TypesOf(g) <=> Declares(g, n, Loader!TypeKind)
<1> SUFFICES ASSUME NEW g, NEW n
             PROVE  n \in TypesOf(g) <=> Declares(g, n, Loader!TypeKind)
  OBVIOUS
<1>1. \A i \in Decls(g) : DeclaredAs(g, i) = content[g].decls[i].kind
  BY DEF Decls, DeclaredAs, Loader!DeclEntries
<1>2. n \in TypesOf(g) <=> \E i \in Decls(g) : DeclName(g, i) = n /\ DeclaredAs(g, i) \in Loader!TypeKind
  BY <1>1 DEF TypesOf, Decls, DeclName
<1> QED BY <1>2, DeclaresByName

(* All that a loaded file sees is loaded. *)
LEMMA SeesLoaded ==
  ASSUME LoaderInv, NEW f \in loaded
  PROVE  Sees(f) \subseteq loaded
<1>1. Ordered /\ load_order \in Seq(File) /\ loaded \in SUBSET File
  BY LoadedOrdered DEF LoaderInv, Facts!TypeOK
<1>2. \A h \in loaded : ImportsOf(h) \subseteq loaded /\ PublicImportsOf(h) \subseteq loaded
  BY <1>1, ImportsBefore DEF ImportsOf, PublicImportsOf
<1> QED BY <1>1, <1>2 DEF Sees

(* While references are looked up, everything is loaded and in the table.   *)
LEMMA Resolving ==
  ASSUME LoaderInv, TypeOK, Phases, outcome = "resolving" \/ Rejected
  PROVE  /\ Tabled /\ Current \in File /\ Current \in loaded /\ Sees(Current) \subseteq loaded
         /\ content[Current] \in Loader!Content
<1>1. status = "loaded"
  BY DEF Phases, Rejected
<1>2. filePos \in 1..Len(load_order)
  <2>1. load_order \in Seq(File)
    BY DEF LoaderInv, Facts!TypeOK
  <2>2. outcome \notin {"waiting", "done"}
    BY DEF Rejected
  <2> QED BY <2>1, <2>2 DEF TypeOK
<1> QED BY <1>1, <1>2, LoadedTabled, CurrentFile, SeesLoaded

(* Only one declaration of a type has its name and is not an extension, so  *)
(* the table's kind is the kind in the file that makes the name visible.    *)
LEMMA TargetDeclared ==
  ASSUME LoaderInv, TypeOK, Phases, Gathered, outcome = "resolving",
         Search(Current, Pending) # {}, Fits(symbols[Target], Pending.use)
  PROVE  \E g \in Sees(Current) : Declares(g, Target, KindsFor(Pending.use))
<1>1. Target \in DOMAIN symbols /\ Target \in visible
  <2>1. Target \in Search(Current, Pending)
    BY DEF Target
  <2> QED BY <2>1, FoundInTable
<1>2. /\ symbols[Target] \in KindsFor(Pending.use) /\ symbols[Target] \in Loader!TypeKind
      /\ symbols[Target] \notin {"Package", "Extension"}
  BY DEF Fits, KindsFor, Loader!TypeKind
<1>3. PICK g \in Sees(Current) : Target \in TypesOf(g)
  <2>1. Target \notin Packages
    BY <1>2 DEF Packages
  <2> QED BY <1>1, <2>1 DEF Gathered
<1>4. PICK i \in Decls(g) : DeclName(g, i) = Target /\ DeclaredAs(g, i) \in Loader!TypeKind
  BY <1>3, TypesByName, DeclaresByName
<1>5. PICK h \in loaded : \E j \in Decls(h) : DeclName(h, j) = Target /\ DeclaredAs(h, j) = symbols[Target]
  BY <1>1, <1>2, Resolving DEF Tabled
<1>6. PICK j \in Decls(h) : DeclName(h, j) = Target /\ DeclaredAs(h, j) = symbols[Target]
  BY <1>5
<1>7. g = h /\ i = j
  <2> SUFFICES ASSUME <<g, i>> # <<h, j>> PROVE FALSE
    OBVIOUS
  <2>1. Tabled /\ g \in loaded
    BY <1>3, Resolving
  <2> QED BY <1>2, <1>4, <1>6, <2>1 DEF Tabled
<1>8. Declares(g, Target, KindsFor(Pending.use))
  BY <1>2, <1>4, <1>6, <1>7, DeclaresByName
<1> QED BY <1>3, <1>8

LEMMA DeclaredInit == Init => ResolvedDeclared
BY DEF Init, ResolvedDeclared

LEMMA DeclaredStep ==
  ASSUME LoaderInv, TypeOK, Phases, Gathered, ResolvedDeclared, [Next]_vars
  PROVE  ResolvedDeclared'
<1>1. ASSUME UNCHANGED <<loading, references>>
      PROVE  \A g, n, kinds : Declares(g, n, kinds) => Declares(g, n, kinds)'
  <2>1. content' = content
    BY <1>1 DEF loading
  <2> QED BY <2>1 DEF Declares, Loader!DeclEntries
<1>2. ASSUME UNCHANGED <<loading, references, filePos>>
      PROVE  Current' = Current /\ Sees(Current)' = Sees(Current) /\ UNCHANGED refs
  BY <1>2 DEF loading, references, Current, Sees, ImportsOf, PublicImportsOf
<1>3. ASSUME UNCHANGED <<loading, references, filePos, resolved, outcome>>
      PROVE  ResolvedDeclared'
  BY <1>1, <1>2, <1>3 DEF ResolvedDeclared
<1>4. ASSUME outcome' # "resolving" PROVE ResolvedDeclared'
  BY <1>4 DEF ResolvedDeclared
<1>5. CASE Load
  <2>1. CASE outcome = "resolving"
    BY <1>3, <1>5, <2>1, LoadKeeps DEF Load, resolution, references, Phases
  <2>2. CASE outcome # "resolving"
    BY <1>4, <1>5, <2>2 DEF Load, resolution
  <2> QED BY <2>1, <2>2
<1>6. CASE BeginFile \/ FollowImport \/ PassImport \/ FinishFile \/ AllResolved \/ RejectReference
  BY <1>4, <1>6 DEF BeginFile, FollowImport, PassImport, FinishFile, AllResolved, RejectReference, Verdict
<1>7. CASE FinishWalk
  <2>1. resolved' = <<>>
    BY <1>7 DEF FinishWalk, Phases
  <2> QED BY <2>1 DEF ResolvedDeclared
<1>8. CASE ResolveReference
  <2> DEFINE n == Len(resolved)
  <2>1. /\ UNCHANGED <<loading, references, filePos>> /\ outcome = "resolving"
        /\ Search(Current, Pending) # {} /\ Fits(symbols[Target], Pending.use)
        /\ resolved' = Append(resolved, Target)
    BY <1>8 DEF ResolveReference, Verdict
  <2>2. resolved \in Seq(Seq(Name)) /\ n \in Nat
    BY DEF TypeOK
  <2>3. /\ Len(resolved') = n + 1 /\ resolved'[n + 1] = Target
        /\ \A i \in 1..n : resolved'[i] = resolved[i]
    BY <2>1, <2>2
  <2>4. ASSUME NEW i \in 1..Len(resolved')
        PROVE  \E g \in Sees(Current) : Declares(g, resolved'[i], KindsFor(refs[Current][i].use))
    <3>1. i \in 1..n \/ i = n + 1
      BY <2>2, <2>3
    <3>2. CASE i \in 1..n
      BY <2>1, <2>3, <3>2 DEF ResolvedDeclared
    <3>3. CASE i = n + 1
      BY <2>1, <2>3, <3>3, TargetDeclared DEF Pending
    <3> QED BY <3>1, <3>2, <3>3
  <2>5. /\ outcome' = "resolving" /\ content' = content /\ refs' = refs /\ Current' = Current
        /\ Sees(Current)' = Sees(Current)
    BY <1>2, <1>8, <2>1 DEF ResolveReference, loading
  <2>6. ASSUME NEW i \in 1..Len(resolved')
        PROVE  \E g \in Sees(Current) : \E d \in 1..Len(content[g].decls) :
                 Loader!DeclEntries(content[g])[d] \in [fqn : {resolved'[i]}, kind : KindsFor(refs[Current][i].use)]
    BY <2>4 DEF Declares
  <2>7. ASSUME NEW i \in 1..Len(resolved')
        PROVE  \E g \in Sees(Current)' : \E d \in 1..Len(content'[g].decls) :
                 Loader!DeclEntries(content'[g])[d] \in [fqn : {resolved'[i]}, kind : KindsFor(refs'[Current'][i].use)]
    BY <2>5, <2>6
  <2> QED BY <2>7 DEF ResolvedDeclared, Declares
<1>9. CASE UNCHANGED vars
  BY <1>3, <1>9 DEF vars, loading, references
<1> QED BY <1>5, <1>6, <1>7, <1>8, <1>9 DEF Next, Resolve

(* Every name that resolve_type_name puts in is declared in a file that the *)
(* reference's file sees, as a kind that its use allows, although the kind  *)
(* comes from one table for all files and visibility goes by name only.     *)
THEOREM ResolvedIsDeclared == Spec => []ResolvedDeclared
BY VisibleInvariant, DeclaredInit, DeclaredStep, PTL DEF Spec

-----------------------------------------------------------------------------
(***************************************************************************)
(* The scoping rule.                                                       *)
(***************************************************************************)
LEMMA PrefixPointwise ==
  ASSUME NEW x \in Seq(Name), NEW y \in Seq(Name)
  PROVE  IsPrefix(y, x) <=> Len(y) <= Len(x) /\ \A i \in 1..Len(y) : y[i] = x[i]
<1>1. Len(x) \in Nat /\ Len(y) \in Nat /\ SubSeq(y, 1, Len(y)) = y
  BY SubSeqFull
<1>2. ASSUME Len(y) <= Len(x)
      PROVE  y = SubSeq(x, 1, Len(y)) <=> \A i \in 1..Len(y) : y[i] = x[i]
  <2>1. /\ SubSeq(x, 1, Len(y)) \in Seq(Name) /\ Len(SubSeq(x, 1, Len(y))) = Len(y)
        /\ \A i \in 1..Len(y) : SubSeq(x, 1, Len(y))[i] = x[i]
    BY <1>1, <1>2, SubSeqProperties
  <2> QED BY <2>1, SeqEqual
<1> QED BY <1>1, <1>2 DEF IsPrefix

(* A name below the scope of k components. *)
LEMMA PrefixedParts ==
  ASSUME NEW s \in Seq(Name), NEW k \in 0..Len(s), NEW n \in Seq(Name)
  PROVE  /\ Prefixed(s, k, n) \in Seq(Name) /\ Len(Prefixed(s, k, n)) = k + Len(n) /\ Len(n) \in Nat
         /\ \A i \in 1..k : Prefixed(s, k, n)[i] = s[i]
         /\ \A i \in 1..Len(n) : Prefixed(s, k, n)[k + i] = n[i]
<1>1. /\ SubSeq(s, 1, k) \in Seq(Name) /\ Len(SubSeq(s, 1, k)) = k /\ k \in Nat /\ Len(n) \in Nat
      /\ \A i \in 1..k : SubSeq(s, 1, k)[i] = s[i]
  BY SubSeqProperties
<1> DEFINE h == SubSeq(s, 1, k)
<1> HIDE DEF h
<1>2. h \in Seq(Name) /\ Len(h) = k /\ \A i \in 1..k : h[i] = s[i]
  BY <1>1 DEF h
<1>3. /\ h \o n \in Seq(Name) /\ Len(h \o n) = k + Len(n)
      /\ \A i \in 1..(k + Len(n)) : (h \o n)[i] = IF i <= k THEN h[i] ELSE n[i - k]
  BY <1>2, ConcatProperties
<1>4. \A i \in 1..k : (h \o n)[i] = s[i]
  BY <1>1, <1>2, <1>3
<1>5. ASSUME NEW i \in 1..Len(n)
      PROVE  (h \o n)[k + i] = n[i]
  <2>1. k + i \in 1..(k + Len(n)) /\ ~(k + i <= k) /\ (k + i) - k = i
    BY <1>1
  <2> QED BY <1>3, <2>1
<1> QED BY <1>1, <1>3, <1>4, <1>5 DEF Prefixed, h

LEMMA FirstComponent ==
  ASSUME NEW s \in Seq(Name), NEW k \in 0..Len(s), NEW n \in Seq(Name), n # <<>>
  PROVE  /\ <<n[1]>> \in Seq(Name) /\ SubSeq(n, 1, 1) = <<n[1]>> /\ SubSeq(n, 1, Len(n)) = n
         /\ Prefixed(s, k, <<n[1]>>) \in Seq(Name) /\ Prefixed(s, k, <<n[1]>>) # <<>>
         /\ Prefixed(s, k, n) \in Seq(Name)
         /\ IsPrefix(Prefixed(s, k, <<n[1]>>), Prefixed(s, k, n))
<1>1. Len(n) \in Nat \ {0} /\ n[1] \in Name /\ SubSeq(n, 1, Len(n)) = n
  BY EmptySeq, ElementOfSeq, SubSeqFull
<1> DEFINE c == <<n[1]>>
<1>2. c \in Seq(Name) /\ Len(c) = 1 /\ c[1] = n[1]
  BY <1>1
<1>3. SubSeq(n, 1, 1) = c
  <2>1. SubSeq(n, 1, 1) \in Seq(Name) /\ Len(SubSeq(n, 1, 1)) = 1 /\ SubSeq(n, 1, 1)[1] = n[1]
    BY <1>1, SubSeqProperties
  <2> HIDE DEF c
  <2> QED BY <1>2, <2>1, SeqEqual
<1> HIDE DEF c
<1>4. /\ Prefixed(s, k, c) \in Seq(Name) /\ Len(Prefixed(s, k, c)) = k + 1
      /\ \A i \in 1..k : Prefixed(s, k, c)[i] = s[i]
      /\ Prefixed(s, k, c)[k + 1] = n[1]
  <2>1. /\ Prefixed(s, k, c) \in Seq(Name) /\ Len(Prefixed(s, k, c)) = k + Len(c)
        /\ \A i \in 1..k : Prefixed(s, k, c)[i] = s[i]
        /\ \A i \in 1..Len(c) : Prefixed(s, k, c)[k + i] = c[i]
    BY <1>2, PrefixedParts
  <2>2. 1 \in 1..Len(c)
    BY <1>2
  <2> QED BY <1>2, <2>1, <2>2
<1>5. /\ Prefixed(s, k, n) \in Seq(Name) /\ Len(Prefixed(s, k, n)) = k + Len(n)
      /\ \A i \in 1..k : Prefixed(s, k, n)[i] = s[i]
      /\ Prefixed(s, k, n)[k + 1] = n[1]
  <2>1. /\ Prefixed(s, k, n) \in Seq(Name) /\ Len(Prefixed(s, k, n)) = k + Len(n)
        /\ \A i \in 1..k : Prefixed(s, k, n)[i] = s[i]
        /\ \A i \in 1..Len(n) : Prefixed(s, k, n)[k + i] = n[i]
    BY PrefixedParts
  <2>2. 1 \in 1..Len(n)
    BY <1>1
  <2> QED BY <2>1, <2>2
<1>6. Prefixed(s, k, c) # <<>>
  BY <1>4, EmptySeq
<1>7. \A i \in 1..(k + 1) : i \in 1..k \/ i = k + 1
  OBVIOUS
<1>8. IsPrefix(Prefixed(s, k, c), Prefixed(s, k, n))
  BY <1>1, <1>4, <1>5, <1>7, PrefixPointwise
<1> QED BY <1>1, <1>2, <1>3, <1>4, <1>5, <1>6, <1>8 DEF c

(* What encloses a name that is seen is seen: the packages and messages     *)
(* around a declaration come with it.                                       *)
LEMMA SeenPrefix ==
  ASSUME LoaderInv, Phases, NEW f \in loaded, NEW x \in Seq(Name), NEW y \in Seq(Name),
         IsPrefix(y, x), y # <<>>, Seen(f, x)
  PROVE  Seen(f, y)
<1>0. /\ loaded \subseteq File /\ \A g \in loaded : content[g] \in Loader!Content /\ content[g] \in Contents
      /\ Sees(f) \subseteq loaded
  BY SameKinds, SeesLoaded DEF LoaderInv, Facts!TypeOK, Phases
<1>1. /\ Len(y) \in Nat /\ Len(x) \in Nat /\ Len(y) <= Len(x)
      /\ \A i \in 1..Len(y) : y[i] = x[i]
  BY PrefixPointwise
<1>2. CASE InPackage(x)
  <2>1. PICK g \in loaded : IsPrefix(x, PackageOf(g))
    BY <1>2 DEF InPackage
  <2>2. PackageOf(g) \in Seq(Name)
    BY <1>0 DEF PackageOf, Loader!Content
  <2>3. Len(PackageOf(g)) \in Nat /\ Len(x) <= Len(PackageOf(g)) /\ \A i \in 1..Len(x) : x[i] = PackageOf(g)[i]
    BY <2>1, <2>2, PrefixPointwise
  <2>4. Len(y) <= Len(PackageOf(g)) /\ \A i \in 1..Len(y) : y[i] = PackageOf(g)[i]
    BY <1>1, <2>3
  <2>5. IsPrefix(y, PackageOf(g))
    BY <2>2, <2>4, PrefixPointwise
  <2> QED BY <2>5 DEF Seen, InPackage
<1>3. CASE \E g \in Sees(f) : Declares(g, x, Loader!TypeKind)
  <2>1. PICK g \in Sees(f) : \E i \in Decls(g) : DeclName(g, i) = x /\ DeclaredAs(g, i) \in Loader!TypeKind
    BY <1>3, DeclaresByName
  <2>2. PICK i \in Decls(g) : DeclName(g, i) = x /\ DeclaredAs(g, i) \in Loader!TypeKind
    BY <2>1
  <2> DEFINE pkg == PackageOf(g)
             path == content[g].decls[i].path
             m == Len(y) - Len(pkg)
  <2>3. /\ g \in loaded /\ content[g] \in Contents /\ pkg \in Seq(Name) /\ path \in Seq(Name)
        /\ x = pkg \o path /\ Len(pkg) \in Nat /\ Len(path) \in Nat
        /\ \A j \in Decls(g) : /\ DeclName(g, j) = pkg \o content[g].decls[j].path
                               /\ DeclaredAs(g, j) = content[g].decls[j].kind
    <3>1. g \in loaded /\ content[g] \in Contents /\ content[g] \in Loader!Content
      BY <1>0
    <3>2. /\ content[g].package \in Seq(Name) /\ Len(content[g].package) \in Nat
          /\ \A j \in Decls(g) : /\ DeclName(g, j) = content[g].package \o content[g].decls[j].path
                                 /\ DeclaredAs(g, j) = content[g].decls[j].kind
                                 /\ content[g].decls[j].path \in Seq(Name)
      BY <3>1, EntriesSplit DEF Decls, DeclName, DeclaredAs
    <3>3. x = pkg \o path /\ path \in Seq(Name)
      BY <2>2, <3>2 DEF PackageOf
    <3>4. Len(path) \in Nat
      BY <3>3, LenProperties
    <3> QED BY <3>1, <3>2, <3>3, <3>4 DEF PackageOf
  <2>4. /\ \A k \in 1..(Len(path) - 1) : \E j \in Decls(g) :
              content[g].decls[j] = [path |-> SubSeq(path, 1, k), kind |-> "Message"]
    BY <2>3, SourcesAssumption DEF Decls
  <2> HIDE DEF pkg, path
  <2>5. /\ Len(x) = Len(pkg) + Len(path)
        /\ \A k \in 1..Len(pkg) : x[k] = pkg[k]
        /\ \A k \in 1..Len(path) : x[Len(pkg) + k] = path[k]
    <3>1. \A k \in 1..(Len(pkg) + Len(path)) : x[k] = IF k <= Len(pkg) THEN pkg[k] ELSE path[k - Len(pkg)]
      BY <2>3, ConcatProperties
    <3>2. ASSUME NEW k \in 1..Len(path) PROVE x[Len(pkg) + k] = path[k]
      <4>1. Len(pkg) + k \in 1..(Len(pkg) + Len(path)) /\ ~(Len(pkg) + k <= Len(pkg)) /\ (Len(pkg) + k) - Len(pkg) = k
        BY <2>3
      <4> QED BY <3>1, <4>1
    <3>3. \A k \in 1..Len(pkg) : x[k] = pkg[k]
      BY <2>3, <3>1
    <3>4. Len(x) = Len(pkg) + Len(path)
      BY <2>3, ConcatProperties
    <3> QED BY <3>2, <3>3, <3>4
  <2>6. CASE Len(y) <= Len(pkg)
    <3>1. \A k \in 1..Len(y) : y[k] = pkg[k]
      BY <1>1, <2>3, <2>5, <2>6
    <3>2. IsPrefix(y, pkg)
      BY <2>3, <2>6, <3>1, PrefixPointwise
    <3> QED BY <2>3, <3>2 DEF Seen, InPackage, pkg
  <2>7. CASE Len(y) = Len(x)
    <3>1. y = x
      BY <1>1, <2>7, SeqEqual
    <3> QED BY <1>3, <3>1 DEF Seen
  <2>8. CASE Len(y) > Len(pkg) /\ Len(y) # Len(x)
    <3>1. m \in 1..(Len(path) - 1) /\ m \in Nat /\ Len(y) = Len(pkg) + m /\ m <= Len(path)
      BY <1>1, <2>3, <2>5, <2>8
    <3> HIDE DEF m
    <3>2. PICK j \in Decls(g) : content[g].decls[j] = [path |-> SubSeq(path, 1, m), kind |-> "Message"]
      BY <2>4, <3>1
    <3>3. /\ SubSeq(path, 1, m) \in Seq(Name) /\ Len(SubSeq(path, 1, m)) = m
          /\ \A k \in 1..m : SubSeq(path, 1, m)[k] = path[k]
      BY <2>3, <3>1, SubSeqProperties
    <3>4. PICK q \in Seq(Name) : q = SubSeq(path, 1, m)
      BY <3>3
    <3>5. /\ pkg \o q \in Seq(Name) /\ Len(pkg \o q) = Len(pkg) + Len(q)
          /\ \A k \in 1..(Len(pkg) + Len(q)) : (pkg \o q)[k] = IF k <= Len(pkg) THEN pkg[k] ELSE q[k - Len(pkg)]
      BY <2>3, ConcatProperties
    <3>6. Len(q) = m /\ \A k \in 1..m : q[k] = path[k]
      BY <3>3, <3>4
    <3>7. ASSUME NEW k \in 1..Len(y) PROVE y[k] = (pkg \o q)[k]
      <4>1. CASE k <= Len(pkg)
        BY <1>1, <2>3, <2>5, <3>1, <3>5, <3>6, <4>1
      <4>2. CASE ~(k <= Len(pkg))
        <5>1. k - Len(pkg) \in 1..m /\ k - Len(pkg) \in 1..Len(path) /\ k = Len(pkg) + (k - Len(pkg))
          BY <1>1, <2>3, <3>1, <4>2
        <5>2. x[k] = path[k - Len(pkg)]
          BY <2>5, <5>1
        <5>3. (pkg \o q)[k] = q[k - Len(pkg)]
          BY <2>3, <3>1, <3>5, <3>6, <4>2
        <5> QED BY <1>1, <3>6, <5>1, <5>2, <5>3
      <4> QED BY <4>1, <4>2
    <3>8. y = pkg \o q
      BY <3>1, <3>5, <3>6, <3>7, SeqEqual
    <3>9. DeclName(g, j) = y /\ DeclaredAs(g, j) \in Loader!TypeKind
      <4>1. content[g].decls[j].path = q /\ content[g].decls[j].kind = "Message"
        BY <3>2, <3>4
      <4>2. DeclName(g, j) = pkg \o content[g].decls[j].path /\ DeclaredAs(g, j) = content[g].decls[j].kind
        BY <2>3
      <4> QED BY <3>8, <4>1, <4>2 DEF Loader!TypeKind
    <3>10. Declares(g, y, Loader!TypeKind)
      BY <3>9, DeclaresByName
    <3> QED BY <3>10 DEF Seen
  <2>9. Len(y) <= Len(pkg) \/ Len(y) > Len(pkg)
    BY <1>1, <2>3
  <2> QED BY <2>6, <2>7, <2>8, <2>9
<1> QED BY <1>2, <1>3 DEF Seen

(* At a place where no extension has taken an entry over, what is declared  *)
(* and seen is exactly what the search can use.                             *)
LEMMA SeenIsUsable ==
  ASSUME LoaderInv, TypeOK, Phases, Gathered, outcome = "resolving", NEW x \in Seq(Name),
         ~(Seen(Current, x) /\ symbols[x] = "Extension")
  PROVE  Seen(Current, x) <=> Usable(x)
<1>0. Tabled /\ Sees(Current) \subseteq loaded /\ visible = Packages \cup UNION {TypesOf(g) : g \in Sees(Current)}
  BY Resolving DEF Gathered
<1>1. ASSUME InPackage(x) PROVE Usable(x)
  <2>1. x \in DOMAIN symbols /\ symbols[x] \in {"Package", "Extension"} /\ symbols[x] # "Extension"
    BY <1>0, <1>1 DEF Tabled, Seen
  <2> QED BY <1>0, <2>1 DEF Usable, Packages
<1>2. ASSUME NEW g \in Sees(Current), Declares(g, x, Loader!TypeKind) PROVE Usable(x)
  <2>1. x \in TypesOf(g)
    BY <1>2, TypesByName
  <2>2. x \in DOMAIN symbols
    BY <1>0, <1>2, DeclaresByName DEF Tabled
  <2> QED BY <1>0, <2>1, <2>2 DEF Usable
<1>3. ASSUME Usable(x) PROVE Seen(Current, x)
  <2>1. x \in DOMAIN symbols /\ (x \in Packages \/ \E g \in Sees(Current) : x \in TypesOf(g))
    BY <1>0, <1>3 DEF Usable
  <2>2. CASE x \in Packages
    BY <1>0, <2>1, <2>2 DEF Packages, Tabled, Seen
  <2>3. CASE \E g \in Sees(Current) : x \in TypesOf(g)
    BY <2>3, TypesByName DEF Seen
  <2> QED BY <2>1, <2>2, <2>3
<1> QED BY <1>1, <1>2, <1>3 DEF Seen

Plain(r) == r.use = "field" \/ (r.use # "extension" /\ r.within = <<>>)

LEMMA PlainScope ==
  ASSUME LoaderInv, NEW f \in File, NEW r \in Reference, Plain(r)
  PROVE  ScopeOf(f, r) = ScopeAround(f, r) /\ ScopeAround(f, r) \in Seq(Name)
<1>1. PackageOf(f) \in Seq(Name) /\ r.within \in Seq(Name)
  BY SameKinds DEF LoaderInv, Facts!TypeOK, Loader!Content, PackageOf, Reference
<1>2. CASE r.use = "field"
  BY <1>1, <1>2, ConcatProperties DEF ScopeOf, ScopeAround
<1>3. CASE r.use # "field" /\ r.use # "extension" /\ r.within = <<>>
  <2>1. PackageOf(f) \o <<>> = PackageOf(f)
    BY <1>1, ConcatEmptySeq
  <2> QED BY <1>1, <1>3, <2>1 DEF ScopeOf, ScopeAround
<1> QED BY <1>2, <1>3 DEF Plain

(* The search stops where the first component is at home: it also asks for  *)
(* the whole name, but what is seen is seen with all that is around it.     *)
LEMMA StopsAtHomes ==
  ASSUME LoaderInv, TypeOK, Phases, Gathered, outcome = "resolving",
         NEW r \in Reference, Plain(r), ~Overwritten(Current, r)
  PROVE  /\ Stops(ScopeOf(Current, r), r.name) = Homes(Current, r)
         /\ Homes(Current, r) \subseteq 0..Len(ScopeAround(Current, r))
<1> DEFINE scope == ScopeAround(Current, r)
           name == r.name
           head == <<r.name[1]>>
<1>1. /\ ScopeOf(Current, r) = scope /\ scope \in Seq(Name)
      /\ name \in Seq(Name) /\ name # <<>> /\ Len(name) \in Nat \ {0}
      /\ Current \in loaded
  <2>1. Current \in File /\ Current \in loaded
    BY Resolving
  <2>2. name \in Seq(Name) /\ name # <<>>
    BY DEF Reference
  <2>3. Len(name) \in Nat \ {0}
    BY <2>2, EmptySeq
  <2> QED BY <2>1, <2>2, <2>3, PlainScope
<1> HIDE DEF scope
<1>2. ASSUME NEW k \in 0..Len(scope)
      PROVE  /\ Seen(Current, Prefixed(scope, k, head)) <=> Usable(Prefixed(scope, k, head))
             /\ Seen(Current, Prefixed(scope, k, name)) <=> Usable(Prefixed(scope, k, name))
             /\ Seen(Current, Prefixed(scope, k, name)) => Seen(Current, Prefixed(scope, k, head))
  <2>1. /\ Prefixed(scope, k, head) \in Seq(Name) /\ Prefixed(scope, k, head) # <<>>
        /\ Prefixed(scope, k, name) \in Seq(Name)
        /\ IsPrefix(Prefixed(scope, k, head), Prefixed(scope, k, name))
        /\ SubSeq(name, 1, 1) = head /\ SubSeq(name, 1, Len(name)) = name
    BY <1>1, FirstComponent
  <2>2. \A m \in {1, Len(name)} :
          ~(/\ Seen(Current, Prefixed(scope, k, SubSeq(name, 1, m)))
            /\ symbols[Prefixed(scope, k, SubSeq(name, 1, m))] = "Extension")
    BY DEF Overwritten, scope
  <2> HIDE DEF head, name
  <2>3. /\ ~(Seen(Current, Prefixed(scope, k, head)) /\ symbols[Prefixed(scope, k, head)] = "Extension")
        /\ ~(Seen(Current, Prefixed(scope, k, name)) /\ symbols[Prefixed(scope, k, name)] = "Extension")
    BY <2>1, <2>2
  <2>4. Seen(Current, Prefixed(scope, k, head)) <=> Usable(Prefixed(scope, k, head))
    BY <2>1, <2>3, SeenIsUsable
  <2>5. Seen(Current, Prefixed(scope, k, name)) <=> Usable(Prefixed(scope, k, name))
    BY <2>1, <2>3, SeenIsUsable
  <2>6. Seen(Current, Prefixed(scope, k, name)) => Seen(Current, Prefixed(scope, k, head))
    BY <1>1, <2>1, SeenPrefix
  <2> QED BY <2>4, <2>5, <2>6
<1>3. Len(name) = 1 => name = head
  BY <1>1, FirstComponent, SeqEqual
<1>4. Homes(Current, r) = {k \in 0..Len(scope) : Seen(Current, Prefixed(scope, k, head))}
  BY DEF Homes, scope
<1>5. Stops(scope, name) =
        {k \in 0..Len(scope) :
           Usable(Prefixed(scope, k, name)) \/ (Len(name) > 1 /\ Usable(Prefixed(scope, k, head)))}
  BY DEF Stops
<1>6. Len(name) = 1 \/ Len(name) > 1
  <2>1. \A n \in Nat \ {0} : n = 1 \/ n > 1
    OBVIOUS
  <2> QED BY <1>1, <2>1
<1> HIDE DEF name, head
<1>7. ASSUME NEW k \in 0..Len(scope)
      PROVE  Seen(Current, Prefixed(scope, k, head))
             <=> Usable(Prefixed(scope, k, name)) \/ (Len(name) > 1 /\ Usable(Prefixed(scope, k, head)))
  BY <1>2, <1>3, <1>6
<1>8. Stops(scope, name) = Homes(Current, r)
  BY <1>4, <1>5, <1>7
<1>9. Homes(Current, r) \subseteq 0..Len(scope)
  BY <1>4
<1> QED BY <1>1, <1>8, <1>9 DEF scope, name

(* The rule names at most one candidate, and the search returns it if it    *)
(* can be used.                                                             *)
LEMMA SearchByRule ==
  ASSUME LoaderInv, TypeOK, Phases, Gathered, outcome = "resolving",
         NEW r \in Reference, Plain(r), ~Overwritten(Current, r)
  PROVE  /\ Search(Current, r) = {n \in Rule(Current, r) : Usable(n)}
         /\ \A n, m \in Rule(Current, r) : n = m
<1>1. CASE r.rooted
  BY <1>1 DEF Search, Rule
<1>2. CASE ~r.rooted
  <2> DEFINE scope == ScopeAround(Current, r)
             H == Homes(Current, r)
  <2>1. /\ Stops(ScopeOf(Current, r), r.name) = H /\ H \subseteq 0..Len(scope)
        /\ ScopeOf(Current, r) = scope /\ Len(scope) \in Nat
    <3>1. Current \in File
      BY Resolving
    <3>2. scope \in Seq(Name) /\ ScopeOf(Current, r) = scope
      BY <3>1, PlainScope
    <3>3. Len(scope) \in Nat
      BY <3>2, LenProperties
    <3> QED BY <3>2, <3>3, StopsAtHomes
  <2>2. Rule(Current, r) = {Prefixed(scope, k, r.name) : k \in {h \in H : \A j \in H : j <= h}}
    BY <1>2 DEF Rule
  <2>3. Search(Current, r) = {n \in {Innermost(scope, r.name) : k \in H} : Usable(n)}
    BY <1>2, <2>1 DEF Search
  <2>4. Innermost(scope, r.name) = Prefixed(scope, Max(H), r.name)
    BY <2>1 DEF Innermost
  <2> HIDE DEF scope, H
  <2>5. CASE H = {}
    BY <2>2, <2>3, <2>5
  <2>6. CASE H # {}
    <3>1. Max(H) \in H /\ \A j \in H : Max(H) >= j
      BY <2>1, <2>6, GreatestNatural
    <3>2. \A h \in H : h \in Int
      BY <2>1
    <3> DEFINE top == Max(H)
    <3> HIDE DEF top
    <3>3. {h \in H : \A j \in H : j <= h} = {top}
      <4>1. top \in H /\ top \in Int /\ \A j \in H : top >= j
        BY <3>1, <3>2 DEF top
      <4>2. \A h \in H : (\A j \in H : j <= h) <=> h = top
        BY <3>2, <4>1
      <4> QED BY <4>1, <4>2
    <3>4. Rule(Current, r) = {Prefixed(scope, top, r.name)}
      BY <2>2, <3>3
    <3>5. {Innermost(scope, r.name) : k \in H} = {Prefixed(scope, top, r.name)}
      BY <2>4, <2>6 DEF top
    <3> QED BY <2>3, <3>4, <3>5
  <2> QED BY <2>5, <2>6
<1> QED BY <1>1, <1>2

(* What the rule leads to, if a file that is seen declares it as a kind     *)
(* that the use allows, is resolved.                                        *)
LEMMA RuleIsResolved ==
  ASSUME LoaderInv, TypeOK, Phases, Gathered, outcome = "resolving",
         Pending \in Reference, Plain(Pending), ~Overwritten(Current, Pending),
         NEW n \in Rule(Current, Pending), NEW g \in Sees(Current), Declares(g, n, KindsFor(Pending.use))
  PROVE  Verdict = "resolved"
<1> DEFINE scope == ScopeAround(Current, Pending)
<1>0. Tabled /\ g \in loaded /\ Current \in File
  BY Resolving
<1>1. PICK r \in Reference : r = Pending
  OBVIOUS
<1>2. KindsFor(r.use) \subseteq Loader!TypeKind
  BY DEF KindsFor, Loader!TypeKind
<1>3. PICK i \in Decls(g) : DeclName(g, i) = n /\ DeclaredAs(g, i) \in KindsFor(r.use)
  BY <1>1, DeclaresByName
<1>4. n \in TypesOf(g)
  BY <1>2, <1>3, DeclaresByName, TypesByName
<1>5. n \in DOMAIN symbols /\ symbols[n] # "Package"
  BY <1>0, <1>3 DEF Tabled
<1>6. Usable(n)
  BY <1>4, <1>5 DEF Gathered, Usable
<1>7. symbols[n] # "Extension"
  <2>1. /\ scope \in Seq(Name) /\ r.name \in Seq(Name) /\ r.name # <<>> /\ Len(scope) \in Nat
        /\ SubSeq(r.name, 1, Len(r.name)) = r.name
    <3>1. scope \in Seq(Name)
      BY <1>0, PlainScope
    <3>2. r.name \in Seq(Name) /\ r.name # <<>>
      BY <1>1 DEF Reference
    <3> QED BY <3>1, <3>2, LenProperties, SubSeqFull
  <2>2. \E k \in 0..Len(scope) : n = Prefixed(scope, k, r.name)
    <3>1. CASE r.rooted
      <4>1. n = r.name
        BY <1>1, <3>1 DEF Rule
      <4>2. SubSeq(scope, 1, 0) = <<>>
        BY SubSeqEmpty
      <4>3. <<>> \o r.name = r.name
        BY <2>1, ConcatEmptySeq
      <4>4. 0 \in 0..Len(scope) /\ n = Prefixed(scope, 0, r.name)
        BY <2>1, <4>1, <4>2, <4>3 DEF Prefixed
      <4> QED BY <4>4
    <3>2. CASE ~r.rooted
      <4>1. PICK k \in Homes(Current, r) : n = Prefixed(scope, k, r.name)
        BY <1>1, <3>2 DEF Rule
      <4>2. k \in 0..Len(scope)
        BY <1>1, <4>1 DEF Homes
      <4> QED BY <4>1, <4>2
    <3> QED BY <3>1, <3>2
  <2>3. PICK k \in 0..Len(scope) : n = Prefixed(scope, k, r.name)
    BY <2>2
  <2>4. Seen(Current, n)
    BY <1>4, TypesByName DEF Seen
  <2>5. ~(Seen(Current, Prefixed(scope, k, SubSeq(r.name, 1, Len(r.name))))
          /\ symbols[Prefixed(scope, k, SubSeq(r.name, 1, Len(r.name)))] = "Extension")
    BY <1>1 DEF Overwritten
  <2> QED BY <2>1, <2>3, <2>4, <2>5
<1>8. symbols[n] \in KindsFor(r.use)
  <2>1. PICK h \in loaded : \E j \in Decls(h) : DeclName(h, j) = n /\ DeclaredAs(h, j) = symbols[n]
    BY <1>0, <1>5 DEF Tabled
  <2>2. PICK j \in Decls(h) : DeclName(h, j) = n /\ DeclaredAs(h, j) = symbols[n]
    BY <2>1
  <2>3. <<g, i>> = <<h, j>>
    <3>1. DeclaredAs(g, i) \in Loader!TypeKind /\ DeclName(g, i) = DeclName(h, j)
      BY <1>2, <1>3, <2>2
    <3>2. DeclaredAs(h, j) # "Extension"
      BY <1>7, <2>2
    <3> QED BY <1>0, <3>1, <3>2 DEF Tabled
  <2> QED BY <1>3, <2>2, <2>3
<1>9. Search(Current, Pending) = {n}
  <2>1. /\ Search(Current, r) = {m \in Rule(Current, r) : Usable(m)}
        /\ \A m, l \in Rule(Current, r) : m = l
    BY <1>1, SearchByRule
  <2>2. n \in Rule(Current, r)
    BY <1>1
  <2> QED BY <1>1, <1>6, <2>1, <2>2
<1>10. Target = n
  BY <1>9 DEF Target
<1>11. Fits(symbols[n], Pending.use)
  BY <1>1, <1>8 DEF Fits, KindsFor, Loader!TypeKind
<1> QED BY <1>9, <1>10, <1>11 DEF Verdict

(* FieldsScoped, said of each reference. *)
Ruled ==
  /\ outcome = "resolving" =>
       \A i \in 1..Len(resolved), r \in Reference :
         r = refs[Current][i] /\ Plain(r) /\ ~Overwritten(Current, r) => resolved[i] \in Rule(Current, r)
  /\ Rejected =>
       \A r \in Reference : r = Pending /\ Plain(r) /\ ~Overwritten(Current, r) =>
         \A n \in Rule(Current, r), g \in Sees(Current) : ~Declares(g, n, KindsFor(r.use))

LEMMA ReferenceTyped ==
  ASSUME LoaderInv, TypeOK, Phases, outcome = "resolving" \/ Rejected
  PROVE  /\ refs[Current] \in Seq(Reference) /\ Len(refs[Current]) \in Nat /\ Len(resolved) \in Nat
         /\ Len(resolved) <= Len(refs[Current])
         /\ \A i \in 1..Len(refs[Current]) : refs[Current][i] \in Reference
         /\ Len(resolved) < Len(refs[Current]) => Pending \in Reference
<1>1. Current \in File
  BY Resolving
<1>2. refs[Current] \in Seq(Reference) /\ Len(refs[Current]) \in Nat /\ Len(resolved) \in Nat
  BY <1>1 DEF TypeOK
<1>3. \A i \in 1..Len(refs[Current]) : refs[Current][i] \in Reference
  BY <1>2, ElementOfSeq
<1>4. Len(resolved) <= Len(refs[Current])
  BY DEF Phases, Rejected
<1>5. Len(resolved) < Len(refs[Current]) => Pending \in Reference
  <2>1. Len(resolved) < Len(refs[Current]) => Len(resolved) + 1 \in 1..Len(refs[Current])
    BY <1>2
  <2> QED BY <1>3, <2>1 DEF Pending
<1> QED BY <1>2, <1>3, <1>4, <1>5

LEMMA RuledScopes ==
  ASSUME LoaderInv, TypeOK, Phases, Ruled
  PROVE  FieldsScoped
<1>1. ASSUME outcome = "resolving", NEW i \in 1..Len(resolved),
             Plain(refs[Current][i]), ~Overwritten(Current, refs[Current][i])
      PROVE  resolved[i] \in Rule(Current, refs[Current][i])
  <2>1. refs[Current][i] \in Reference
    <3>1. i \in 1..Len(refs[Current])
      BY <1>1, ReferenceTyped
    <3> QED BY <1>1, <3>1, ReferenceTyped
  <2>2. PICK r \in Reference : r = refs[Current][i]
    BY <2>1
  <2> QED BY <1>1, <2>2 DEF Ruled
<1>2. ASSUME Rejected, Plain(Pending), ~Overwritten(Current, Pending)
      PROVE  \A n \in Rule(Current, Pending), g \in Sees(Current) : ~Declares(g, n, KindsFor(Pending.use))
  <2>1. PICK r \in Reference : r = Pending
    BY <1>2, ReferenceTyped DEF Phases
  <2> QED BY <1>2, <2>1 DEF Ruled
<1> QED BY <1>1, <1>2 DEF FieldsScoped, Scoped, Plain

LEMMA RuleKept ==
  ASSUME UNCHANGED <<loading, references, filePos>>
  PROVE  /\ Current' = Current /\ Sees(Current)' = Sees(Current) /\ refs' = refs
         /\ \A r : Rule(Current, r)' = Rule(Current, r)
         /\ \A r : Overwritten(Current, r)' <=> Overwritten(Current, r)
         /\ \A g, n, kinds : Declares(g, n, kinds)' <=> Declares(g, n, kinds)
<1>1. Current' = Current /\ UNCHANGED <<deps, content, loaded, symbols, public, refs>>
  BY DEF loading, references, Current
<1>2. Sees(Current)' = Sees(Current)
  BY <1>1 DEF Sees, ImportsOf, PublicImportsOf
<1>3. \A g, n, kinds : Declares(g, n, kinds)' <=> Declares(g, n, kinds)
  BY <1>1 DEF Declares, Loader!DeclEntries
<1>4. \A n : InPackage(n)' <=> InPackage(n)
  BY <1>1 DEF InPackage, PackageOf
<1>5. \A n : Seen(Current, n)' <=> Seen(Current, n)
  BY <1>1, <1>2, <1>3, <1>4 DEF Seen
<1>6. \A r : ScopeAround(Current, r)' = ScopeAround(Current, r)
  BY <1>1 DEF ScopeAround, PackageOf
<1>7. \A r : Homes(Current, r)' = Homes(Current, r)
  BY <1>5, <1>6 DEF Homes
<1>8. \A r : Rule(Current, r)' = Rule(Current, r)
  BY <1>6, <1>7 DEF Rule
<1>9. \A r : Overwritten(Current, r)' <=> Overwritten(Current, r)
  BY <1>1, <1>5, <1>6 DEF Overwritten
<1> QED BY <1>1, <1>2, <1>3, <1>8, <1>9

LEMMA RuledInit == Init => Ruled
BY DEF Init, Ruled, Rejected

LEMMA RuledStep ==
  ASSUME LoaderInv, TypeOK, Phases, Gathered, Ruled, [Next]_vars
  PROVE  Ruled'
<1>1. ASSUME UNCHANGED <<loading, references, filePos, resolved, outcome>>
      PROVE  Ruled'
  <2>1. Pending' = Pending
    BY <1>1, RuleKept DEF Pending
  <2>2. ASSUME outcome' = "resolving", NEW i \in 1..Len(resolved'), NEW r \in Reference,
               r = refs'[Current'][i], Plain(r), ~Overwritten(Current, r)'
        PROVE  resolved'[i] \in Rule(Current, r)'
    BY <1>1, <2>2, RuleKept DEF Ruled
  <2>3. ASSUME Rejected', NEW r \in Reference, r = Pending', Plain(r), ~Overwritten(Current, r)',
               NEW n \in Rule(Current, r)', NEW g \in Sees(Current)'
        PROVE  ~Declares(g, n, KindsFor(r.use))'
    <3>1. Rejected
      BY <1>1, <2>3 DEF Rejected
    <3> QED BY <1>1, <2>1, <2>3, <3>1, RuleKept DEF Ruled
  <2> QED BY <2>2, <2>3 DEF Ruled
<1>2. ASSUME outcome' \notin {"resolving", "unresolved", "wrong kind"} PROVE Ruled'
  BY <1>2 DEF Ruled, Rejected
<1>3. CASE Load
  <2>1. CASE outcome \in {"resolving", "unresolved", "wrong kind"}
    BY <1>1, <1>3, <2>1, LoadKeeps DEF Load, resolution, references, Phases
  <2>2. CASE outcome \notin {"resolving", "unresolved", "wrong kind"}
    BY <1>2, <1>3, <2>2 DEF Load, resolution
  <2> QED BY <2>1, <2>2
<1>4. CASE BeginFile \/ FollowImport \/ PassImport \/ FinishFile \/ AllResolved
  BY <1>2, <1>4 DEF BeginFile, FollowImport, PassImport, FinishFile, AllResolved
<1>5. CASE FinishWalk
  <2>1. resolved' = <<>> /\ outcome' \in {"collecting", "resolving"}
    BY <1>5 DEF FinishWalk, Phases
  <2>2. 1..Len(resolved') = {}
    BY <2>1
  <2>3. outcome' # "unresolved" /\ outcome' # "wrong kind"
    BY <2>1
  <2> QED BY <2>2, <2>3 DEF Ruled, Rejected
<1>6. CASE ResolveReference
  <2> DEFINE n == Len(resolved)
  <2>1. /\ UNCHANGED <<loading, references, filePos>> /\ outcome = "resolving" /\ outcome' = "resolving"
        /\ Search(Current, Pending) # {} /\ n < Len(refs[Current])
        /\ resolved' = Append(resolved, Target)
    BY <1>6 DEF ResolveReference, Verdict
  <2>2. /\ resolved \in Seq(Seq(Name)) /\ n \in Nat
        /\ Len(resolved') = n + 1 /\ resolved'[n + 1] = Target
        /\ \A i \in 1..n : resolved'[i] = resolved[i]
    BY <2>1 DEF TypeOK
  <2>3. ASSUME NEW i \in 1..Len(resolved'), NEW r \in Reference,
               r = refs[Current][i], Plain(r), ~Overwritten(Current, r)
        PROVE  resolved'[i] \in Rule(Current, r)
    <3>1. i \in 1..n \/ i = n + 1
      BY <2>2
    <3>2. CASE i \in 1..n
      BY <2>1, <2>2, <2>3, <3>2 DEF Ruled
    <3>3. CASE i = n + 1
      <4>1. r = Pending /\ resolved'[i] = Target
        BY <2>2, <2>3, <3>3 DEF Pending
      <4>2. Target \in Search(Current, r)
        BY <2>1, <4>1 DEF Target
      <4>3. Search(Current, r) = {m \in Rule(Current, r) : Usable(m)}
        BY <2>1, <2>3, SearchByRule
      <4> QED BY <4>1, <4>2, <4>3
    <3> QED BY <3>1, <3>2, <3>3
  <2>4. ASSUME NEW i \in 1..Len(resolved'), NEW r \in Reference,
               r = refs'[Current'][i], Plain(r), ~Overwritten(Current, r)'
        PROVE  resolved'[i] \in Rule(Current, r)'
    BY <2>1, <2>3, <2>4, RuleKept
  <2> QED BY <2>1, <2>4 DEF Ruled, Rejected
<1>7. CASE RejectReference
  <2>1. /\ UNCHANGED <<loading, references, filePos, resolved>> /\ outcome = "resolving"
        /\ Verdict # "resolved" /\ Len(resolved) < Len(refs[Current])
        /\ outcome' # "resolving"
    BY <1>7 DEF RejectReference, Verdict
  <2>2. Pending' = Pending
    BY <2>1, RuleKept DEF Pending
  <2>3. ASSUME NEW r \in Reference, r = Pending, Plain(r), ~Overwritten(Current, r),
               NEW n \in Rule(Current, r), NEW g \in Sees(Current)
        PROVE  ~Declares(g, n, KindsFor(r.use))
    BY <2>1, <2>3, RuleIsResolved
  <2>4. ASSUME NEW r \in Reference, r = Pending', Plain(r), ~Overwritten(Current, r)',
               NEW n \in Rule(Current, r)', NEW g \in Sees(Current)'
        PROVE  ~Declares(g, n, KindsFor(r.use))'
    BY <2>1, <2>2, <2>3, <2>4, RuleKept
  <2> QED BY <2>1, <2>4 DEF Ruled
<1>8. CASE UNCHANGED vars
  BY <1>1, <1>8 DEF vars, loading, references
<1> QED BY <1>3, <1>4, <1>5, <1>6, <1>7, <1>8 DEF Next, Resolve

(* The types of fields, and the extendees and method types at file level,   *)
(* follow protobuf's scoping rule: a name is what its first component means *)
(* in the innermost scope that has it, and is refused only if nothing of    *)
(* the right kind is there, wherever no extension has taken over the entry  *)
(* of a package or a type.                                                  *)
THEOREM FieldsFollowScopes == Spec => []FieldsScoped
<1>1. Spec => [](LoaderInv /\ TypeOK /\ Phases /\ Ruled)
  BY VisibleInvariant, RuledInit, RuledStep, PTL DEF Spec
<1> QED BY <1>1, RuledScopes, PTL

(***************************************************************************)
(* resolve_all_types works on what load_file has left behind and disturbs  *)
(* nothing of it: with resolution behind it the loader still loads all     *)
(* reachable files in an import-first order, or has a reason not to.       *)
(***************************************************************************)
THEOREM ResolutionKeepsOrder == Spec => Facts!ImplementsOrder
<1>1. Init => Facts!Order!Init
  BY SameInit, Facts!OrderInit, LoaderAssumption DEF Init
<1>2. ASSUME LoaderInv, [Next]_vars
      PROVE  [Facts!Order!Next]_Facts!Order!vars
  BY <1>2, LoaderSteps, LoaderAssumption, Facts!OrderStep DEF LoaderInv
<1> QED BY <1>1, <1>2, LoaderInit, LoaderStep, PTL DEF Spec, Facts!ImplementsOrder, Facts!Order!Spec
=============================================================================
