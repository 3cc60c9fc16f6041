-------------------------- MODULE CommandLineProofs --------------------------
(***************************************************************************)
(* What the command guarantees for any source trees, edits, include paths  *)
(* and requests, with any number of runs and of failures.                  *)
(***************************************************************************)
EXTENDS CommandLine, SequenceTheorems, WellFoundedInduction, TLAPS

(* Nonempty sets of naturals have a least element. *)
LEMMA LeastNatural ==
  ASSUME NEW T, T \subseteq Nat, T # {}
  PROVE  \E x \in T : \A y \in T : x <= y
<1>1. PICK x \in T : \A y \in T : ~(<<y, x>> \in OpToRel(<, Nat))
  BY NatLessThanWellFounded, WFMin
<1>2. \A y \in T : ~(y < x)
  BY <1>1 DEF OpToRel
<1> QED BY <1>2

LEMMA FirstIsLeast ==
  ASSUME NEW T, T \subseteq Nat, T # {}
  PROVE  FirstOf(T) \in T /\ \A y \in T : FirstOf(T) <= y
<1>1. \E x \in T : \A y \in T : x <= y
  BY LeastNatural
<1> QED BY <1>1 DEF FirstOf

LEMMA StageNames ==
  /\ Len(Stages) = 5 /\ DOMAIN Stages = 1 .. 5
  /\ Stages[1] = "set" /\ \A i \in 2 .. 5 : Stages[i] # "set"
BY DEF Stages

-----------------------------------------------------------------------------
(***************************************************************************)
(* The progress of a run.                                                  *)
(***************************************************************************)
Progress ==
  /\ stage \in 0 .. (Len(Stages) + 1)
  /\ writing \in BOOLEAN
  /\ writing => stage \in DOMAIN Stages
  /\ ~writing => todo = {}
  /\ \A i \in DOMAIN Stages : writing /\ i = stage => Requested(i) /\ todo \subseteq Keys(Stages[i])
  /\ code = "ok" => stage = 0

LEMMA ProgressInit == Init => Progress
<1>1. Init => /\ stage = 0 /\ writing = FALSE /\ todo = {} /\ code = "none"
  BY DEF Init
<1>2. 0 \in 0 .. (Len(Stages) + 1)
  BY StageNames
<1> QED BY <1>1, <1>2 DEF Progress

(* What does not change while the run's input does not. *)
LEMMA InputFixes ==
  ASSUME UNCHANGED <<request, order, files, version>>
  PROVE  /\ \A i : Requested(i)' = Requested(i)
         /\ \A s : Keys(s)' = Keys(s)
         /\ \A s, key : Path(s, key)' = Path(s, key) /\ Content(s, key)' = Content(s, key)
BY DEF Keys, Key, Path, Content, Generated, Kept, Roots, Requested

LEMMA ProgressStep ==
  ASSUME Progress, [Next]_vars
  PROVE  Progress'
<1>0. /\ stage \in 0 .. 6 /\ DOMAIN Stages = 1 .. 5 /\ Len(Stages) = 5
      /\ (DOMAIN Stages)' = 1 .. 5 /\ Len(Stages)' = 5
  BY StageNames DEF Progress
<1>a. (stage' \in 0 .. 6 /\ writing' = FALSE /\ todo' = {} /\ (code' = "ok" => stage' = 0)) => Progress'
  <2>1. (0 .. (Len(Stages) + 1))' = 0 .. 6
    BY <1>0
  <2> QED BY <2>1 DEF Progress
<1>1. CASE Edit
  <2>1. writing = FALSE /\ todo = {}
    BY <1>0, <1>1 DEF Edit, Progress
  <2> QED BY <1>0, <1>1, <1>a, <2>1 DEF Edit
<1>2. CASE Skip
  <2>1. writing = FALSE /\ todo = {} /\ code' = code /\ stage' = stage + 1 /\ stage > 0 /\ stage < 6
    BY <1>0, <1>2 DEF Skip, Progress
  <2>2. code # "ok"
    BY <2>1 DEF Progress
  <2> QED BY <1>0, <1>2, <1>a, <2>1, <2>2 DEF Skip
<1>3. CASE Generate
  <2>1. /\ stage' = stage /\ stage \in DOMAIN Stages /\ writing' = TRUE /\ todo' = Keys(Stages[stage])
        /\ Requested(stage) /\ code' = code
        /\ UNCHANGED <<request, order, files, version>>
    BY <1>3 DEF Generate
  <2>2. ASSUME NEW i \in DOMAIN Stages, i = stage'
        PROVE  Requested(i)' /\ todo' \subseteq Keys(Stages[i])'
    BY <2>1, <2>2, InputFixes
  <2> QED BY <1>0, <2>1, <2>2 DEF Progress
<1>4. CASE EndStage
  <2>1. stage' = stage + 1 /\ stage > 0 /\ stage < 6 /\ todo' = {} /\ writing' = FALSE /\ code' = code
    BY <1>0, <1>4 DEF EndStage, Progress
  <2>2. code # "ok"
    BY <2>1 DEF Progress
  <2> QED BY <1>0, <1>a, <2>1, <2>2
<1>5. CASE Fail
  <2>1. stage' = 0 /\ todo' = {} /\ writing' = FALSE
    BY <1>5 DEF Fail
  <2> QED BY <1>a, <2>1
<1>6. CASE Finish
  <2>1. writing = FALSE /\ todo = {} /\ stage' = 0 /\ todo' = todo /\ writing' = writing
    BY <1>0, <1>6 DEF Finish, Progress
  <2> QED BY <1>a, <2>1
<1>7. ASSUME NEW req \in Requests, Accept(req) PROVE Progress'
  <2>1. stage' = 1 /\ todo' = {} /\ writing' = FALSE /\ code' = "none"
    BY <1>7 DEF Accept
  <2> QED BY <1>a, <2>1
<1>8. ASSUME NEW req \in Requests, Refuse(req) PROVE Progress'
  <2>1. stage = 0 /\ writing = FALSE /\ todo = {} /\ UNCHANGED <<stage, todo, writing>>
    BY <1>0, <1>8 DEF Refuse, Begin, Progress
  <2> QED BY <1>a, <2>1
<1>9. ASSUME NEW key \in todo, Write(key) PROVE Progress'
  <2>1. /\ todo' = todo \ {key}
        /\ UNCHANGED <<request, order, files, version, stage, writing, code>>
    BY <1>9 DEF Write
  <2>2. writing = TRUE
    BY <1>9 DEF Progress
  <2>3. ASSUME NEW i \in DOMAIN Stages, i = stage'
        PROVE  Requested(i)' /\ todo' \subseteq Keys(Stages[i])'
    BY <2>1, <2>2, <2>3, InputFixes DEF Progress
  <2> QED BY <1>0, <2>1, <2>2, <2>3 DEF Progress
<1>10. CASE UNCHANGED vars
  <2>1. UNCHANGED <<request, order, files, version, stage, writing, code, todo>>
    BY <1>10 DEF vars
  <2>2. ASSUME NEW i \in DOMAIN Stages, i = stage', writing'
        PROVE  Requested(i)' /\ todo' \subseteq Keys(Stages[i])'
    BY <2>1, <2>2, InputFixes DEF Progress
  <2> QED BY <1>0, <2>1, <2>2 DEF Progress
<1> QED BY <1>1, <1>2, <1>3, <1>4, <1>5, <1>6, <1>7, <1>8, <1>9, <1>10 DEF Next

-----------------------------------------------------------------------------
(***************************************************************************)
(* What has been written.  Live: a run is in progress or has succeeded.    *)
(* Begun: an output that the run has written, perhaps over another.        *)
(***************************************************************************)
Live == stage > 0 \/ code = "ok"
At == IF stage > 0 THEN stage ELSE Len(Stages) + 1

Begun(i, key) ==
  /\ Requested(i) /\ key \in Keys(Stages[i])
  /\ i < At \/ (i = At /\ writing /\ key \notin todo)

(* Where the run has written an output there is what it has written there   *)
(* last.                                                                    *)
Standing(i, key) ==
  \E j \in DOMAIN Stages : \E other \in Keys(Stages[j]) :
    /\ i <= j /\ Begun(j, other)
    /\ Path(Stages[j], other) = Path(Stages[i], key)
    /\ Path(Stages[j], other) \in DOMAIN disk
    /\ disk[Path(Stages[j], other)] = Content(Stages[j], other)

Outputs ==
  Live => /\ version = edits
          /\ \A i \in DOMAIN Stages : \A key \in Keys(Stages[i]) : Begun(i, key) => Standing(i, key)

LEMMA OutputsInit == Init => Outputs
BY DEF Init, Outputs, Live

(* A step that leaves the run's input and what it has written as they are,  *)
(* and counts nothing as written that was not.                              *)
LEMMA OutputsKept ==
  ASSUME Outputs, Live, UNCHANGED <<request, order, files, version, edits, disk>>,
         \A i \in DOMAIN Stages : \A key : Begun(i, key)' <=> Begun(i, key)
  PROVE  Outputs'
<1>1. ASSUME NEW i \in DOMAIN Stages, NEW key \in Keys(Stages[i])', Begun(i, key)'
      PROVE  Standing(i, key)'
  <2>1. Standing(i, key)
    BY <1>1, InputFixes DEF Outputs
  <2> QED BY InputFixes, <2>1 DEF Standing
<1> QED BY <1>1 DEF Outputs

(* What stands after one more output has been written. *)
LEMMA OutputsWritten ==
  ASSUME Progress, Outputs, NEW at \in DOMAIN Stages, at = stage, NEW key \in todo, Write(key)
  PROVE  Outputs'
<1>1. /\ UNCHANGED <<request, order, files, version, edits, stage, writing, code>>
      /\ disk' = Put(Path(Stages[at], key), Content(Stages[at], key)) /\ todo' = todo \ {key}
  BY DEF Write
<1>2. /\ writing /\ key \in Keys(Stages[at]) /\ Requested(at) /\ stage > 0
      /\ At = at /\ At' = at /\ Live
  BY <1>1, StageNames DEF Progress, At, Live
<1>3. /\ \A s : Keys(s)' = Keys(s)
      /\ \A s, k : Path(s, k)' = Path(s, k) /\ Content(s, k)' = Content(s, k)
      /\ \A i : Requested(i)' = Requested(i)
  BY <1>1, InputFixes
<1>4. PICK here, text : here = Path(Stages[at], key) /\ text = Content(Stages[at], key)
  OBVIOUS
<1>5. /\ here \in DOMAIN disk' /\ disk'[here] = text /\ DOMAIN disk \subseteq DOMAIN disk'
      /\ \A p \in DOMAIN disk : p # here => disk'[p] = disk[p]
  BY <1>1, <1>4 DEF Put
<1>6. \A i \in DOMAIN Stages : \A k : Begun(i, k)' => Begun(i, k) \/ (i = at /\ k = key)
  BY <1>1, <1>2, <1>3 DEF Begun
<1>7. Begun(at, key)'
  BY <1>1, <1>2, <1>3 DEF Begun
<1>8. \A i \in DOMAIN Stages : \A k : Begun(i, k) => Begun(i, k)' /\ i <= at
  BY <1>1, <1>2, <1>3, StageNames DEF Begun
<1>9. ASSUME NEW i \in DOMAIN Stages, NEW k \in Keys(Stages[i])', Begun(i, k)'
      PROVE  Standing(i, k)'
  <2>1. CASE Path(Stages[i], k) = here
    <3>1. i <= at
      BY <1>6, <1>8, <1>9, StageNames
    <3>2. Path(Stages[at], key)' = here /\ Content(Stages[at], key)' = text /\ Path(Stages[i], k)' = here
      BY <1>3, <1>4, <2>1
    <3> QED BY <1>2, <1>3, <1>5, <1>7, <3>1, <3>2 DEF Standing
  <2>2. CASE Path(Stages[i], k) # here
    <3>1. Begun(i, k) /\ k \in Keys(Stages[i])
      BY <1>3, <1>4, <1>6, <1>9, <2>2
    <3>2. PICK j \in DOMAIN Stages : \E other \in Keys(Stages[j]) :
            /\ i <= j /\ Begun(j, other)
            /\ Path(Stages[j], other) = Path(Stages[i], k)
            /\ Path(Stages[j], other) \in DOMAIN disk
            /\ disk[Path(Stages[j], other)] = Content(Stages[j], other)
      BY <1>2, <3>1 DEF Outputs, Standing
    <3>3. PICK other \in Keys(Stages[j]) :
            /\ i <= j /\ Begun(j, other)
            /\ Path(Stages[j], other) = Path(Stages[i], k)
            /\ Path(Stages[j], other) \in DOMAIN disk
            /\ disk[Path(Stages[j], other)] = Content(Stages[j], other)
      BY <3>2
    <3>4. /\ Path(Stages[j], other)' = Path(Stages[j], other) /\ Path(Stages[i], k)' = Path(Stages[i], k)
          /\ Content(Stages[j], other)' = Content(Stages[j], other) /\ other \in Keys(Stages[j])'
          /\ Begun(j, other)'
      BY <1>3, <1>8, <3>3
    <3>5. /\ Path(Stages[j], other) \in DOMAIN disk'
          /\ disk'[Path(Stages[j], other)] = Content(Stages[j], other)
      BY <1>5, <2>2, <3>3
    <3> QED BY <3>3, <3>4, <3>5 DEF Standing
  <2> QED BY <2>1, <2>2
<1>10. version' = edits'
  BY <1>1, <1>2 DEF Outputs
<1> QED BY <1>9, <1>10 DEF Outputs

LEMMA OutputsStep ==
  ASSUME Progress, Outputs, [Next]_vars
  PROVE  Outputs'
<1>0. /\ stage \in 0 .. 6 /\ DOMAIN Stages = 1 .. 5 /\ Len(Stages) = 5
  BY StageNames DEF Progress
<1>a. ~Live' => Outputs'
  BY DEF Outputs
<1>1. CASE Edit
  <2>1. stage' = 0 /\ code' = "none"
    BY <1>1 DEF Edit
  <2> QED BY <1>a, <2>1 DEF Live
<1>2. CASE Skip
  <2>1. /\ stage' = stage + 1 /\ stage \in 1 .. 5 /\ writing = FALSE /\ writing' = FALSE /\ ~Requested(stage)
        /\ UNCHANGED <<request, order, files, version, edits, disk>>
    BY <1>0, <1>2 DEF Skip, Progress
  <2>2. Live /\ At = stage /\ At' = stage + 1
    BY <2>1 DEF Live, At
  <2>3. \A i \in DOMAIN Stages : \A key : Begun(i, key)' <=> Begun(i, key)
    <3> SUFFICES ASSUME NEW i \in DOMAIN Stages, NEW key
                 PROVE  Begun(i, key)' <=> Begun(i, key)
      OBVIOUS
    <3>1. Requested(i) => i # stage
      BY <2>1
    <3>2. Requested(i) => (i < At' <=> i < At)
      BY <1>0, <2>1, <2>2, <3>1
    <3>3. Requested(i)' = Requested(i) /\ Keys(Stages[i])' = Keys(Stages[i])
      BY <2>1, InputFixes
    <3> QED BY <2>1, <3>2, <3>3 DEF Begun
  <2> QED BY <2>1, <2>2, <2>3, OutputsKept
<1>3. CASE Generate
  <2>1. /\ stage' = stage /\ stage \in 1 .. 5 /\ writing = FALSE /\ todo' = Keys(Stages[stage])
        /\ UNCHANGED <<request, order, files, version, edits, disk>>
    BY <1>0, <1>3 DEF Generate, Progress
  <2>2. Live /\ At = stage /\ At' = stage
    BY <2>1 DEF Live, At
  <2>3. \A i \in DOMAIN Stages : \A key : Begun(i, key)' <=> Begun(i, key)
    <3> SUFFICES ASSUME NEW i \in DOMAIN Stages, NEW key
                 PROVE  Begun(i, key)' <=> Begun(i, key)
      OBVIOUS
    <3>1. Requested(i)' = Requested(i) /\ Keys(Stages[i])' = Keys(Stages[i])
      BY <2>1, InputFixes
    <3>2. i = stage /\ key \in Keys(Stages[i]) => key \in todo'
      BY <2>1
    <3> QED BY <2>1, <2>2, <3>1, <3>2 DEF Begun
  <2> QED BY <2>1, <2>2, <2>3, OutputsKept
<1>4. CASE EndStage
  <2>1. /\ stage' = stage + 1 /\ stage \in 1 .. 5 /\ writing = TRUE /\ writing' = FALSE /\ todo = {}
        /\ UNCHANGED <<request, order, files, version, edits, disk>>
    BY <1>0, <1>4 DEF EndStage, Progress
  <2>2. Live /\ At = stage /\ At' = stage + 1
    BY <2>1 DEF Live, At
  <2>3. \A i \in DOMAIN Stages : \A key : Begun(i, key)' <=> Begun(i, key)
    <3> SUFFICES ASSUME NEW i \in DOMAIN Stages, NEW key
                 PROVE  Begun(i, key)' <=> Begun(i, key)
      OBVIOUS
    <3>1. Requested(i)' = Requested(i) /\ Keys(Stages[i])' = Keys(Stages[i])
      BY <2>1, InputFixes
    <3>2. i < At' <=> i < At \/ i = At
      BY <1>0, <2>1, <2>2
    <3> QED BY <2>1, <2>2, <3>1, <3>2 DEF Begun
  <2> QED BY <2>1, <2>2, <2>3, OutputsKept
<1>5. CASE Fail
  <2>1. stage' = 0 /\ code' = "error"
    BY <1>5 DEF Fail
  <2> QED BY <1>a, <2>1 DEF Live
<1>6. CASE Finish
  <2>1. /\ stage = 6 /\ stage' = 0 /\ code' = "ok" /\ writing' = writing /\ todo' = todo
        /\ UNCHANGED <<request, order, files, version, edits, disk>>
    BY <1>0, <1>6 DEF Finish
  <2>2. Live /\ At = 6 /\ At' = 6
    BY <1>0, <2>1 DEF Live, At
  <2>3. \A i \in DOMAIN Stages : \A key : Begun(i, key)' <=> Begun(i, key)
    BY <2>1, <2>2, InputFixes DEF Begun
  <2> QED BY <2>1, <2>2, <2>3, OutputsKept
<1>7. ASSUME NEW req \in Requests, Accept(req) PROVE Outputs'
  <2>1. stage' = 1 /\ writing' = FALSE /\ version' = edits /\ edits' = edits
    BY <1>7 DEF Accept
  <2>2. At' = 1
    BY <2>1 DEF At
  <2>3. \A i \in DOMAIN Stages : \A key : ~Begun(i, key)'
    BY <1>0, <2>1, <2>2 DEF Begun
  <2> QED BY <2>1, <2>3 DEF Outputs
<1>8. ASSUME NEW req \in Requests, Refuse(req) PROVE Outputs'
  <2>1. stage' = 0 /\ code' = "error"
    BY <1>8 DEF Refuse, Begin
  <2> QED BY <1>a, <2>1 DEF Live
<1>9. ASSUME NEW key \in todo, Write(key) PROVE Outputs'
  <2>1. stage \in DOMAIN Stages
    BY <1>0, <1>9 DEF Progress
  <2>2. PICK at \in DOMAIN Stages : at = stage
    BY <2>1
  <2> QED BY <1>9, <2>2, OutputsWritten
<1>10. CASE UNCHANGED vars
  <2>1. /\ UNCHANGED <<request, order, files, version, edits, disk>>
        /\ UNCHANGED <<stage, code, writing, todo>>
    BY <1>10 DEF vars
  <2>2. Live' = Live /\ At' = At
    BY <2>1 DEF Live, At
  <2>3. \A i \in DOMAIN Stages : \A key : Begun(i, key)' <=> Begun(i, key)
    BY <2>1, <2>2, InputFixes DEF Begun
  <2> QED BY <1>a, <2>1, <2>2, <2>3, OutputsKept
<1> QED BY <1>1, <1>2, <1>3, <1>4, <1>5, <1>6, <1>7, <1>8, <1>9, <1>10 DEF Next

LEMMA WholeBecauseWritten ==
  ASSUME Progress, Outputs
  PROVE  SuccessIsWhole
<1> SUFFICES ASSUME code = "ok", NEW i \in DOMAIN Stages, NEW k \in DOMAIN order,
                    Requested(i), i = 1 => request.imports \/ order[k] \in Roots(request)
             PROVE  LET n == order[k]
                        key == IF i = 1 THEN <<>> ELSE Key(n)
                        path == Path(Stages[i], key)
                    IN  /\ path \in DOMAIN disk
                        /\ disk[path].whole /\ disk[path].version = edits
                        /\ n \in disk[path].files
                        /\ LastWriter(i, path, key) => disk[path].by = Stages[i]
  BY DEF SuccessIsWhole
<1> DEFINE n == order[k]
           key == IF i = 1 THEN <<>> ELSE Key(n)
           path == Path(Stages[i], key)
<1>1. DOMAIN Stages = 1 .. 5 /\ Len(Stages) = 5 /\ Stages[1] = "set" /\ \A j \in 2 .. 5 : Stages[j] # "set"
  BY StageNames
<1>2. stage = 0 /\ At = 6 /\ Live /\ version = edits
  BY <1>1 DEF Progress, At, Live, Outputs
<1>3. key \in Keys(Stages[i])
  BY <1>1 DEF Keys
<1>4. Begun(i, key)
  BY <1>1, <1>2, <1>3 DEF Begun
<1>5. PICK j \in DOMAIN Stages : \E other \in Keys(Stages[j]) :
        /\ i <= j /\ Begun(j, other)
        /\ Path(Stages[j], other) = path
        /\ Path(Stages[j], other) \in DOMAIN disk
        /\ disk[Path(Stages[j], other)] = Content(Stages[j], other)
  BY <1>2, <1>3, <1>4 DEF Outputs, Standing
<1>6. PICK other \in Keys(Stages[j]) :
        /\ i <= j /\ Begun(j, other)
        /\ Path(Stages[j], other) = path
        /\ path \in DOMAIN disk
        /\ disk[path] = Content(Stages[j], other)
  BY <1>5
<1>7. CASE i = 1
  <2>1. j = 1
    <3>1. CASE j # 1
      <4>1. Stages[j] # "set" /\ Stages[i] = "set"
        BY <1>1, <1>7, <3>1
      <4>2. <<request.out[Stages[j]], other, Suffix(Stages[j])>> = <<request.out[Stages[i]]>>
        BY <1>6, <4>1 DEF Path
      <4>3. Len(<<request.out[Stages[j]], other, Suffix(Stages[j])>>) = 3
            /\ Len(<<request.out[Stages[i]]>>) = 1
        OBVIOUS
      <4> QED BY <4>2, <4>3
    <3> QED BY <3>1
  <2>2. n \in Kept
    BY <1>7 DEF Kept, Range
  <2> QED BY <1>1, <1>2, <1>6, <1>7, <2>1, <2>2 DEF Content, Generated
<1>8. CASE i # 1
  <2>1. Stages[i] # "set" /\ Stages[j] # "set"
    BY <1>1, <1>6, <1>8
  <2>2. <<request.out[Stages[j]], other, Suffix(Stages[j])>> = <<request.out[Stages[i]], key, Suffix(Stages[i])>>
    BY <1>6, <2>1 DEF Path
  <2>3. other = key /\ key = Key(n)
    BY <1>8, <2>2
  <2>4. n \in Generated(Stages[j], other)
    BY <2>1, <2>3 DEF Generated, Range
  <2>5. LastWriter(i, path, key) => j = i
    BY <1>1, <1>6, <2>3 DEF LastWriter, Begun
  <2> QED BY <1>2, <1>6, <2>4, <2>5 DEF Content
<1> QED BY <1>7, <1>8

(***************************************************************************)
(* main.rs, run: exit code 0 means that every requested output holds every *)
(* file of the analysed set, untorn and from the current sources: for any  *)
(* sources, requests and earlier runs, killed ones included.               *)
(***************************************************************************)
THEOREM SuccessMeansWhole == Spec => []SuccessIsWhole
<1>1. Init => Progress /\ Outputs
  BY ProgressInit, OutputsInit
<1>2. Progress /\ Outputs /\ [Next]_vars => Progress' /\ Outputs'
  BY ProgressStep, OutputsStep
<1>3. Progress /\ Outputs => SuccessIsWhole
  BY WholeBecauseWritten
<1> QED BY <1>1, <1>2, <1>3, PTL DEF Spec

-----------------------------------------------------------------------------
(***************************************************************************)
(* The files of the arguments.                                             *)
(***************************************************************************)

(* The analysis of a run's arguments found a file for the name of each.    *)
RootsHeld ==
  stage > 0 => request \in Requests /\ \A n \in Roots(request) : Resolvable(n)

LEMMA RootsHeldInit == Init => RootsHeld
<1>1. Init => stage = 0
  BY DEF Init
<1> QED BY <1>1 DEF RootsHeld

LEMMA RootsHeldStep ==
  ASSUME Progress, RootsHeld, [Next]_vars
  PROVE  RootsHeld'
<1>0. stage \in 0 .. 6
  BY StageNames DEF Progress
<1>a. ASSUME stage > 0, UNCHANGED <<request, tree>> PROVE RootsHeld'
  BY <1>a DEF RootsHeld, Roots, Resolvable, Holding
<1>b. ASSUME stage' = 0 PROVE RootsHeld'
  BY <1>b DEF RootsHeld
<1>1. CASE Edit
  <2>1. stage' = 0
    BY <1>1 DEF Edit
  <2> QED BY <1>b, <2>1
<1>2. CASE Skip
  BY <1>0, <1>2, <1>a, StageNames DEF Skip
<1>3. CASE Generate
  BY <1>0, <1>3, <1>a, StageNames DEF Generate
<1>4. CASE EndStage
  BY <1>0, <1>4, <1>a, StageNames DEF EndStage, Progress
<1>5. CASE Fail
  BY <1>5, <1>b DEF Fail
<1>6. CASE Finish
  BY <1>6, <1>b DEF Finish
<1>7. ASSUME NEW req \in Requests, Accept(req) PROVE RootsHeld'
  <2>1. PICK names \in LoadOrders(Roots(req)) : TRUE
    BY <1>7 DEF Accept
  <2>2. request' = req /\ tree' = tree
    BY <1>7 DEF Accept
  <2>3. \A n \in Roots(req) : Resolvable(n)
    BY <2>1 DEF LoadOrders, LoadsInOrder, Range
  <2>4. \A n \in Roots(request)' : Resolvable(n)'
    BY <2>2, <2>3 DEF Roots, Resolvable, Holding
  <2> QED BY <2>2, <2>4 DEF RootsHeld
<1>8. ASSUME NEW req \in Requests, Refuse(req) PROVE RootsHeld'
  BY <1>8, <1>b DEF Refuse, Begin
<1>9. ASSUME NEW key \in todo, Write(key) PROVE RootsHeld'
  <2>1. stage > 0 /\ UNCHANGED <<request, tree>>
    BY <1>0, <1>9, StageNames DEF Progress, Write
  <2> QED BY <1>a, <2>1
<1>10. CASE UNCHANGED vars
  BY <1>10 DEF vars, RootsHeld, Roots, Resolvable, Holding
<1> QED BY <1>1, <1>2, <1>3, <1>4, <1>5, <1>6, <1>7, <1>8, <1>9, <1>10 DEF Next

(* Joined to the include path it was cut from, a name is the path again.   *)
LEMMA RelativeJoins ==
  ASSUME NEW arg \in PathName, NEW k \in DOMAIN Includes, IsPrefix(Includes[k], arg)
  PROVE  \E j \in DOMAIN Includes :
           /\ j <= k /\ IsPrefix(Includes[j], arg) /\ Includes[j] \o RelativeName(arg) = arg
<1> DEFINE around == {i \in DOMAIN Includes : IsPrefix(Includes[i], arg)}
           j == FirstOf(around)
<1>1. Includes \in Seq(PathName) /\ DOMAIN Includes = 1 .. Len(Includes) /\ Len(Includes) \in Nat
  BY CommandAssumption, LenProperties
<1>2. around \subseteq Nat /\ k \in around
  BY <1>1
<1>3. j \in around /\ j <= k
  BY <1>2, FirstIsLeast
<1>4. Includes[j] \in PathName
  BY <1>1, <1>3
<1>5. RelativeName(arg) = SubSeq(arg, Len(Includes[j]) + 1, Len(arg))
  BY <1>3 DEF RelativeName
<1> HIDE DEF j
<1>6. PICK len \in Nat : len = Len(Includes[j])
  BY <1>4, LenProperties DEF PathName
<1>7. Len(arg) \in Nat /\ len <= Len(arg) /\ SubSeq(arg, 1, len) = Includes[j]
  <2>1. IsPrefix(Includes[j], arg)
    BY <1>3
  <2>2. SubSeq(Includes[j], 1, len) = Includes[j]
    BY <1>4, <1>6, SubSeqFull DEF PathName
  <2> QED BY <1>6, <2>1, <2>2, LenProperties DEF IsPrefix, PathName
<1>8. SubSeq(arg, 1, len) \o SubSeq(arg, len + 1, Len(arg)) = SubSeq(arg, 1, Len(arg))
  <2>1. 1 \in 1 .. (Len(arg) + 1) /\ len \in (1 - 1) .. Len(arg) /\ Len(arg) \in len .. Len(arg)
    BY <1>6, <1>7
  <2> QED BY <2>1, ConcatAdjacentSubSeq DEF PathName
<1>9. SubSeq(arg, 1, Len(arg)) = arg
  BY SubSeqFull DEF PathName
<1> QED BY <1>3, <1>5, <1>6, <1>7, <1>8, <1>9

LEMMA ArgumentsFound ==
  ASSUME RootsHeld
  PROVE  RootsAreArguments
<1> SUFFICES ASSUME stage > 0, NEW i \in DOMAIN request.args, request.args[i] \in DOMAIN tree,
                    NEW k \in DOMAIN Includes, IsPrefix(Includes[k], request.args[i]),
                    Located(RelativeName(request.args[i])) # request.args[i]
             PROVE  \E h \in DOMAIN Includes :
                      /\ \E j \in DOMAIN Includes : j > h /\ IsPrefix(Includes[j], request.args[i])
                      /\ Includes[h] \o RelativeName(request.args[i]) \in DOMAIN tree
  BY DEF RootsAreArguments
<1> DEFINE arg == request.args[i]
           name == RelativeName(arg)
<1>1. request.args \in Seq(PathName)
  BY CommandAssumption DEF RootsHeld
<1>2. arg \in PathName
  BY <1>1
<1>3. PICK j \in DOMAIN Includes : j <= k /\ IsPrefix(Includes[j], arg) /\ Includes[j] \o name = arg
  BY <1>2, RelativeJoins
<1>4. j \in Holding(name)
  BY <1>3 DEF Holding
<1>5. Holding(name) \subseteq Nat
  <2>1. DOMAIN Includes = 1 .. Len(Includes) /\ Len(Includes) \in Nat
    BY CommandAssumption, LenProperties
  <2> QED BY <2>1 DEF Holding
<1>6. PICK h : h = FirstOf(Holding(name))
  OBVIOUS
<1>7. h \in Holding(name) /\ h <= j
  BY <1>4, <1>5, <1>6, FirstIsLeast
<1>8. Located(name) = Includes[h] \o name
  BY <1>6 DEF Located
<1>9. h # j
  BY <1>3, <1>8
<1>10. h \in DOMAIN Includes /\ Includes[h] \o name \in DOMAIN tree
  BY <1>7 DEF Holding
<1>11. j > h
  BY <1>4, <1>5, <1>7, <1>9
<1> QED BY <1>3, <1>10, <1>11

(***************************************************************************)
(* relative_proto_path and FsResolver::resolve: for any include paths and  *)
(* any arguments, a run that goes on has compiled the files it was given,  *)
(* but for those outside and those hidden by an earlier include path.      *)
(***************************************************************************)
THEOREM RootsAreGiven == Spec => []RootsAreArguments
<1>1. Init => Progress /\ RootsHeld
  BY ProgressInit, RootsHeldInit
<1>2. Progress /\ RootsHeld /\ [Next]_vars => Progress' /\ RootsHeld'
  BY ProgressStep, RootsHeldStep
<1>3. RootsHeld => RootsAreArguments
  BY ArgumentsFound
<1> QED BY <1>1, <1>2, <1>3, PTL DEF Spec

-----------------------------------------------------------------------------
(***************************************************************************)
(* The owners of a number.                                                 *)
(***************************************************************************)

(* Two ranges that both hold a number meet. *)
LEMMA SharedMeans ==
  ASSUME NEW r \in RangeType, NEW s \in RangeType, NEW n \in Int, InRange(n, r), InRange(n, s)
  PROVE  Meet(r, s)
BY DEF RangeType, InRange, Meet

LEMMA MessageParts ==
  ASSUME NEW msg, IsMessage(msg)
  PROVE  /\ DOMAIN msg.fields \subseteq Nat
         /\ DOMAIN msg.reserved \subseteq Nat /\ \A i \in DOMAIN msg.reserved : msg.reserved[i] \in RangeType
         /\ DOMAIN msg.extensions \subseteq Nat
         /\ \A i \in DOMAIN msg.extensions : msg.extensions[i] \in RangeType
<1>1. /\ DOMAIN msg.fields = 1 .. Len(msg.fields) /\ Len(msg.fields) \in Nat
      /\ DOMAIN msg.reserved = 1 .. Len(msg.reserved) /\ Len(msg.reserved) \in Nat
      /\ DOMAIN msg.extensions = 1 .. Len(msg.extensions) /\ Len(msg.extensions) \in Nat
  BY LenProperties DEF IsMessage
<1>2. \A i \in DOMAIN msg.reserved : msg.reserved[i] \in RangeType
  BY ElementOfSeq DEF IsMessage
<1>3. \A i \in DOMAIN msg.extensions : msg.extensions[i] \in RangeType
  BY ElementOfSeq DEF IsMessage
<1> QED BY <1>1, <1>2, <1>3

(* No two fields, no two ranges of a kind. *)
LEMMA OneOfItsKind ==
  ASSUME NEW seq, DOMAIN seq \subseteq Nat, NEW n \in Int,
         \A i \in DOMAIN seq : seq[i] \in RangeType, NoOverlaps(seq),
         NEW i \in DOMAIN seq, NEW j \in DOMAIN seq, InRange(n, seq[i]), InRange(n, seq[j])
  PROVE  i = j
<1>1. Meet(seq[i], seq[j]) /\ Meet(seq[j], seq[i])
  BY SharedMeans
<1>2. ~(i < j) /\ ~(j < i)
  BY <1>1 DEF NoOverlaps
<1> QED BY <1>2

LEMMA ValidOwnsOnce ==
  ASSUME NEW msg, IsMessage(msg), NEW proto3, ValidMessage(msg, proto3), NEW n \in Int
  PROVE  OwnedOnce(msg, n)
<1>1. ValidFields(msg, proto3) /\ ValidRanges(msg, proto3)
  BY DEF ValidMessage
<1>2. ASSUME NEW i \in DOMAIN msg.fields, NEW j \in DOMAIN msg.fields,
             msg.fields[i].number = msg.fields[j].number
      PROVE  i = j
  <2>1. Distinct([k \in DOMAIN msg.fields |-> msg.fields[k].number])
    BY <1>1 DEF ValidFields
  <2>2. i \in Nat /\ j \in Nat
    BY MessageParts
  <2>3. ~(i < j) /\ ~(j < i)
    BY <1>2, <2>1 DEF Distinct
  <2> QED BY <2>2, <2>3
<1>3. ASSUME NEW i \in DOMAIN msg.reserved, NEW j \in DOMAIN msg.reserved,
             InRange(n, msg.reserved[i]), InRange(n, msg.reserved[j])
      PROVE  i = j
  BY <1>1, <1>3, MessageParts, OneOfItsKind DEF ValidRanges
<1>4. ASSUME NEW i \in DOMAIN msg.extensions, NEW j \in DOMAIN msg.extensions,
             InRange(n, msg.extensions[i]), InRange(n, msg.extensions[j])
      PROVE  i = j
  BY <1>1, <1>4, MessageParts, OneOfItsKind DEF ValidRanges
<1>5. ASSUME NEW i \in DOMAIN msg.fields, msg.fields[i].number = n, NEW j \in DOMAIN msg.reserved
      PROVE  ~InRange(n, msg.reserved[j])
  BY <1>1, <1>5 DEF ValidFields, ValidField, ValidNumber
<1>6. ASSUME NEW i \in DOMAIN msg.fields, msg.fields[i].number = n, NEW j \in DOMAIN msg.extensions
      PROVE  ~InRange(n, msg.extensions[j])
  BY <1>1, <1>6 DEF ValidRanges
<1>7. ASSUME NEW i \in DOMAIN msg.extensions, InRange(n, msg.extensions[i]),
             NEW j \in DOMAIN msg.reserved
      PROVE  ~InRange(n, msg.reserved[j])
  <2>1. ~Meet(msg.extensions[i], msg.reserved[j])
    BY <1>1 DEF ValidRanges, NoCrossOverlaps
  <2> QED BY <1>7, <2>1, MessageParts, SharedMeans
<1>8. ASSUME NEW o \in Owners(msg, n), NEW p \in Owners(msg, n)
      PROVE  o = p
  <2>1. ASSUME NEW x \in Owners(msg, n)
        PROVE  \/ \E i \in DOMAIN msg.fields : x = <<"field", i>> /\ msg.fields[i].number = n
               \/ \E i \in DOMAIN msg.reserved : x = <<"reserved", i>> /\ InRange(n, msg.reserved[i])
               \/ \E i \in DOMAIN msg.extensions :
                     x = <<"extension", i>> /\ InRange(n, msg.extensions[i])
    BY DEF Owners
  <2>2. CASE \E i \in DOMAIN msg.fields : o = <<"field", i>> /\ msg.fields[i].number = n
    <3>1. \E i \in DOMAIN msg.fields : p = <<"field", i>> /\ msg.fields[i].number = n
      BY <1>5, <1>6, <2>1, <2>2
    <3> QED BY <1>2, <2>2, <3>1
  <2>3. CASE \E i \in DOMAIN msg.reserved : o = <<"reserved", i>> /\ InRange(n, msg.reserved[i])
    <3>1. \E i \in DOMAIN msg.reserved : p = <<"reserved", i>> /\ InRange(n, msg.reserved[i])
      BY <1>5, <1>7, <2>1, <2>3
    <3> QED BY <1>3, <2>3, <3>1
  <2>4. CASE \E i \in DOMAIN msg.extensions : o = <<"extension", i>> /\ InRange(n, msg.extensions[i])
    <3>1. \E i \in DOMAIN msg.extensions : p = <<"extension", i>> /\ InRange(n, msg.extensions[i])
      BY <1>6, <1>7, <2>1, <2>4
    <3> QED BY <1>4, <2>4, <3>1
  <2> QED BY <2>1, <2>2, <2>3, <2>4
<1> QED BY <1>8 DEF OwnedOnce

(* into_descriptor_set only writes labels. *)
LEMMA NormalizedMessages ==
  ASSUME NEW file, IsFile(file), NEW i \in DOMAIN Normalized(file).messages
  PROVE  /\ i \in DOMAIN file.messages
         /\ Normalized(file).messages[i].mapEntry = file.messages[i].mapEntry
         /\ \A n : Owners(Normalized(file).messages[i], n) = Owners(file.messages[i], n)
<1>1. "messages" \in DOMAIN file /\ "extensions" \in DOMAIN file
  BY DEF IsFile
<1>2. Normalized(file).messages =
        [k \in DOMAIN file.messages |-> [file.messages[k] EXCEPT !.fields = Labelled(file.messages[k].fields)]]
  BY <1>1 DEF Normalized
<1>3. i \in DOMAIN file.messages /\ IsMessage(file.messages[i])
  BY <1>2 DEF IsFile
<1> DEFINE old == file.messages[i]
           new == Normalized(file).messages[i]
<1>4. new = [old EXCEPT !.fields = Labelled(old.fields)]
  BY <1>2, <1>3
<1>5. {"fields", "reserved", "extensions", "mapEntry"} \subseteq DOMAIN old
  BY <1>3 DEF IsMessage
<1>6. /\ new.mapEntry = old.mapEntry /\ new.reserved = old.reserved
      /\ new.extensions = old.extensions /\ new.fields = Labelled(old.fields)
  BY <1>4, <1>5
<1>7. /\ DOMAIN new.fields = DOMAIN old.fields
      /\ \A k \in DOMAIN old.fields : new.fields[k].number = old.fields[k].number
  <2>1. \A k \in DOMAIN old.fields : "number" \in DOMAIN old.fields[k] /\ "label" \in DOMAIN old.fields[k]
    BY <1>3 DEF IsMessage, IsField
  <2> QED BY <1>6, <2>1 DEF Labelled
<1> HIDE DEF old, new
<1>8. ASSUME NEW n PROVE Owners(new, n) = Owners(old, n)
  <2>1. {k \in DOMAIN new.fields : new.fields[k].number = n} = {k \in DOMAIN old.fields : old.fields[k].number = n}
    BY <1>7
  <2> QED BY <1>6, <2>1 DEF Owners
<1> QED BY <1>3, <1>6, <1>8 DEF old, new

(* Every file that can be read is one the parser hands over. *)
Sources == \A p \in DOMAIN tree : IsFile(tree[p])

LEMMA SourcesInit == Init => Sources
BY CommandAssumption DEF Init, Sources

LEMMA SourcesStep ==
  ASSUME Sources, [Next]_vars
  PROVE  Sources'
<1>1. CASE Edit
  <2>1. PICK p \in DOMAIN tree : \E f \in Drafts(tree[p]) : IsFile(f) /\ tree' = [tree EXCEPT ![p] = f]
    BY <1>1 DEF Edit
  <2>2. PICK f \in Drafts(tree[p]) : IsFile(f) /\ tree' = [tree EXCEPT ![p] = f]
    BY <2>1
  <2> QED BY <2>2 DEF Sources
<1>2. CASE UNCHANGED tree
  BY <1>2 DEF Sources
<1> QED BY <1>1, <1>2 DEF Next, Skip, Generate, EndStage, Fail, Finish, Accept, Refuse, Write, vars

(* What is located is one of the user's files. *)
LEMMA LocatedIsThere ==
  ASSUME NEW name, Holding(name) # {}
  PROVE  Located(name) \in DOMAIN tree
<1>1. DOMAIN Includes = 1 .. Len(Includes) /\ Len(Includes) \in Nat
  BY CommandAssumption, LenProperties
<1>2. Holding(name) \subseteq Nat
  BY <1>1 DEF Holding
<1>3. FirstOf(Holding(name)) \in Holding(name)
  BY <1>2, FirstIsLeast
<1> QED BY <1>3 DEF Holding, Located

(* What a name stands for is a file, the user's or an embedded one. *)
LEMMA SourceIsFile ==
  ASSUME Sources, NEW name, Resolvable(name)
  PROVE  IsFile(Source(name))
<1>1. CASE Holding(name) # {}
  BY <1>1, LocatedIsThere DEF Source, Sources
<1>2. CASE Holding(name) = {}
  BY <1>2, CommandAssumption DEF Source, Resolvable
<1> QED BY <1>1, <1>2

LEMMA AcceptedOwnOnce ==
  ASSUME Sources, NEW req, Accept(req)
  PROVE  NumbersOwnedOnce'
<1>1. PICK names \in LoadOrders(Roots(req)) :
        Analyzes(names) /\ files' = [n \in Range(names) |-> Normalized(Loaded(names)[n])]
  BY DEF Accept
<1>2. \A i \in DOMAIN names : Resolvable(names[i])
  BY <1>1 DEF LoadOrders, LoadsInOrder
<1>3. DOMAIN Loaded(names) = Range(names)
  BY DEF Loaded
<1>4. ASSUME NEW n \in Range(names)
      PROVE  IsFile(Loaded(names)[n]) /\ ValidFile(Loaded(names)[n])
  <2>1. IsFile(Source(n))
    BY <1>2, SourceIsFile DEF Range
  <2>2. Loaded(names)[n] = Source(n)
    BY DEF Loaded
  <2>3. ValidFile(Loaded(names)[n])
    BY <1>1, <1>3 DEF Analyzes, ValidAll
  <2> QED BY <2>1, <2>2, <2>3
<1>5. ASSUME NEW f \in DOMAIN files', NEW i \in DOMAIN files'[f].messages,
             ~files'[f].messages[i].mapEntry, NEW n \in 0 .. MaxFieldNumber
      PROVE  OwnedOnce(files'[f].messages[i], n)
  <2> DEFINE file == Loaded(names)[f]
  <2>1. f \in Range(names) /\ files'[f] = Normalized(file)
    BY <1>1
  <2>2. IsFile(file) /\ ValidFile(file)
    BY <1>4, <2>1
  <2> HIDE DEF file
  <2>3. /\ i \in DOMAIN file.messages /\ ~file.messages[i].mapEntry
        /\ Owners(files'[f].messages[i], n) = Owners(file.messages[i], n)
    BY <1>5, <2>1, <2>2, NormalizedMessages
  <2>4. IsMessage(file.messages[i]) /\ ValidMessage(file.messages[i], IsProto3(file))
    BY <2>2, <2>3 DEF IsFile, ValidFile
  <2>5. n \in Int
    OBVIOUS
  <2>6. OwnedOnce(file.messages[i], n)
    BY <2>4, <2>5, ValidOwnsOnce
  <2> QED BY <2>3, <2>6 DEF OwnedOnce
<1> QED BY <1>5 DEF NumbersOwnedOnce

LEMMA OwnedOnceStep ==
  ASSUME Progress, Sources, NumbersOwnedOnce, [Next]_vars
  PROVE  NumbersOwnedOnce'
<1>0. stage \in 0 .. 6
  BY StageNames DEF Progress
<1>a. ASSUME stage > 0, files' = files PROVE NumbersOwnedOnce'
  BY <1>a DEF NumbersOwnedOnce
<1>b. ASSUME stage' = 0 PROVE NumbersOwnedOnce'
  BY <1>b DEF NumbersOwnedOnce
<1>1. CASE Edit
  <2>1. stage' = 0
    BY <1>1 DEF Edit
  <2> QED BY <1>b, <2>1
<1>2. CASE Skip
  BY <1>0, <1>2, <1>a, StageNames DEF Skip
<1>3. CASE Generate
  BY <1>0, <1>3, <1>a, StageNames DEF Generate
<1>4. CASE EndStage
  BY <1>0, <1>4, <1>a, StageNames DEF EndStage, Progress
<1>5. CASE Fail
  BY <1>5, <1>b DEF Fail
<1>6. CASE Finish
  BY <1>6, <1>b DEF Finish
<1>7. ASSUME NEW req \in Requests, Accept(req) PROVE NumbersOwnedOnce'
  BY <1>7, AcceptedOwnOnce
<1>8. ASSUME NEW req \in Requests, Refuse(req) PROVE NumbersOwnedOnce'
  BY <1>8, <1>b DEF Refuse, Begin
<1>9. ASSUME NEW key \in todo, Write(key) PROVE NumbersOwnedOnce'
  <2>1. stage > 0 /\ files' = files
    BY <1>0, <1>9, StageNames DEF Progress, Write
  <2> QED BY <1>a, <2>1
<1>10. CASE UNCHANGED vars
  BY <1>10 DEF vars, NumbersOwnedOnce
<1> QED BY <1>1, <1>2, <1>3, <1>4, <1>5, <1>6, <1>7, <1>8, <1>9, <1>10 DEF Next

(***************************************************************************)
(* validate.rs: whatever an author does to the files and in whatever order *)
(* they are compiled, a run goes on only with messages in which a number   *)
(* has one owner among fields, reserved ranges and extension ranges.       *)
(***************************************************************************)
THEOREM NumbersHaveOneOwner == Spec => []NumbersOwnedOnce
<1>1. Init => Progress /\ Sources /\ NumbersOwnedOnce
  BY ProgressInit, SourcesInit DEF Init, NumbersOwnedOnce
<1>2. Progress /\ Sources /\ NumbersOwnedOnce /\ [Next]_vars => Progress' /\ Sources' /\ NumbersOwnedOnce'
  BY ProgressStep, SourcesStep, OwnedOnceStep
<1> QED BY <1>1, <1>2, PTL DEF Spec

-----------------------------------------------------------------------------
(***************************************************************************)
(* The order of fields and of reserved ranges.                             *)
(***************************************************************************)

(* g is f with elements exchanged in pairs. *)
Rearranged(f, g) ==
  /\ DOMAIN f \subseteq Nat /\ DOMAIN g = DOMAIN f
  /\ \E s \in [DOMAIN f -> DOMAIN f] : \A k \in DOMAIN f : s[s[k]] = k /\ g[k] = f[s[k]]

LEMMA RearrangedBack ==
  ASSUME NEW f, NEW g, Rearranged(f, g)
  PROVE  Rearranged(g, f)
<1>1. PICK s \in [DOMAIN f -> DOMAIN f] : \A k \in DOMAIN f : s[s[k]] = k /\ g[k] = f[s[k]]
  BY DEF Rearranged
<1>2. \A k \in DOMAIN f : f[k] = g[s[k]]
  BY <1>1
<1> QED BY <1>1, <1>2 DEF Rearranged

LEMMA RearrangedSelf ==
  ASSUME NEW f, DOMAIN f \subseteq Nat
  PROVE  Rearranged(f, f)
<1> DEFINE s == [k \in DOMAIN f |-> k]
<1>1. s \in [DOMAIN f -> DOMAIN f] /\ \A k \in DOMAIN f : s[s[k]] = k /\ f[k] = f[s[k]]
  OBVIOUS
<1> QED BY <1>1 DEF Rearranged

LEMMA SwappedRearranged ==
  ASSUME NEW f, DOMAIN f = 1 .. Len(f), Len(f) \in Nat, NEW i \in 1 .. (Len(f) - 1)
  PROVE  Rearranged(f, Swapped(f, i))
<1> DEFINE s == [k \in DOMAIN f |-> IF k = i THEN i + 1 ELSE IF k = i + 1 THEN i ELSE k]
<1>1. i \in DOMAIN f /\ i + 1 \in DOMAIN f /\ i # i + 1 /\ DOMAIN f \subseteq Nat
  OBVIOUS
<1>2. s \in [DOMAIN f -> DOMAIN f] /\ \A k \in DOMAIN f : s[s[k]] = k
  BY <1>1
<1>3. DOMAIN Swapped(f, i) = DOMAIN f /\ \A k \in DOMAIN f : Swapped(f, i)[k] = f[s[k]]
  BY <1>1 DEF Swapped
<1> HIDE DEF s
<1> QED BY <1>1, <1>2, <1>3 DEF Rearranged

(* What is said of every element, and of every two of them. *)
LEMMA RearrangedElements ==
  ASSUME NEW f, NEW g, Rearranged(f, g)
  PROVE  /\ \A k \in DOMAIN g : \E h \in DOMAIN f : g[k] = f[h]
         /\ \A k, l \in DOMAIN g : k # l =>
               \E h, m \in DOMAIN f : h # m /\ g[k] = f[h] /\ g[l] = f[m]
<1>1. PICK s \in [DOMAIN f -> DOMAIN f] : \A k \in DOMAIN f : s[s[k]] = k /\ g[k] = f[s[k]]
  BY DEF Rearranged
<1>2. \A k, l \in DOMAIN f : k # l => s[k] # s[l]
  BY <1>1
<1> QED BY <1>1, <1>2 DEF Rearranged

(* Distinct and NoOverlaps speak of two positions, whichever comes first.  *)
LEMMA DistinctMeans ==
  ASSUME NEW f, DOMAIN f \subseteq Nat
  PROVE  Distinct(f) <=> \A i, j \in DOMAIN f : i # j => f[i] # f[j]
BY DEF Distinct

LEMMA NoOverlapsMeans ==
  ASSUME NEW f, DOMAIN f \subseteq Nat
  PROVE  NoOverlaps(f) <=> \A i, j \in DOMAIN f : i # j => ~Meet(f[i], f[j])
<1>1. \A r, s : Meet(r, s) <=> Meet(s, r)
  BY DEF Meet
<1>2. \A i, j \in DOMAIN f : i # j => i < j \/ j < i
  OBVIOUS
<1>3. \A i, j \in DOMAIN f : i < j => i # j
  OBVIOUS
<1> QED BY <1>1, <1>2, <1>3, Zenon DEF NoOverlaps

(* A JSON name used twice has a first use. *)
LEMMA FirstUse ==
  ASSUME NEW fields, DOMAIN fields \subseteq Nat, NEW i \in DOMAIN fields,
         \A k \in DOMAIN fields : 1 .. k \subseteq DOMAIN fields
  PROVE  \E first \in DOMAIN fields :
           /\ fields[first].json = fields[i].json
           /\ \A j \in DOMAIN fields : fields[j].json = fields[i].json => first <= j
           /\ \A j \in 1 .. (first - 1) : fields[j].json # fields[first].json
<1> DEFINE uses == {k \in DOMAIN fields : fields[k].json = fields[i].json}
<1>1. PICK first \in uses : \A y \in uses : first <= y
  BY LeastNatural
<1>2. \A j \in 1 .. (first - 1) : j \in DOMAIN fields /\ j < first
  BY <1>1
<1> QED BY <1>1, <1>2

LEMMA JsonDistinct ==
  ASSUME NEW fields, DOMAIN fields \subseteq Nat, \A k \in DOMAIN fields : 1 .. k \subseteq DOMAIN fields
  PROVE  NoJsonConflicts(fields, TRUE) <=>
           \A i, j \in DOMAIN fields : i # j => fields[i].json # fields[j].json
<1>1. ASSUME NoJsonConflicts(fields, TRUE), NEW i \in DOMAIN fields, NEW j \in DOMAIN fields,
             i # j, fields[i].json = fields[j].json
      PROVE  FALSE
  <2>1. PICK first \in DOMAIN fields :
           /\ fields[first].json = fields[i].json
           /\ \A k \in DOMAIN fields : fields[k].json = fields[i].json => first <= k
           /\ \A k \in 1 .. (first - 1) : fields[k].json # fields[first].json
    BY FirstUse
  <2>2. PICK other \in {i, j} : other # first
    BY <1>1
  <2>3. other \in DOMAIN fields /\ fields[other].json = fields[first].json /\ first < other
    BY <1>1, <2>1, <2>2
  <2> QED BY <1>1, <2>1, <2>3 DEF NoJsonConflicts
<1>2. ASSUME \A i, j \in DOMAIN fields : i # j => fields[i].json # fields[j].json
      PROVE  NoJsonConflicts(fields, TRUE)
  <2>1. \A i, j \in DOMAIN fields : i < j => i # j
    OBVIOUS
  <2> QED BY <1>2, <2>1 DEF NoJsonConflicts
<1> QED BY <1>1, <1>2

LEMMA JsonCustom ==
  ASSUME NEW fields, DOMAIN fields \subseteq Nat, \A k \in DOMAIN fields : 1 .. k \subseteq DOMAIN fields,
         ~HidesConflict(fields)
  PROVE  NoJsonConflicts(fields, FALSE) <=>
           \A i, j \in DOMAIN fields :
              i # j /\ fields[i].json = fields[j].json => ~(Custom(fields[i]) /\ Custom(fields[j]))
<1>1. ASSUME NoJsonConflicts(fields, FALSE), NEW i \in DOMAIN fields, NEW j \in DOMAIN fields,
             i # j, fields[i].json = fields[j].json, Custom(fields[i]), Custom(fields[j])
      PROVE  FALSE
  <2>1. PICK first \in DOMAIN fields :
           /\ fields[first].json = fields[i].json
           /\ \A k \in DOMAIN fields : fields[k].json = fields[i].json => first <= k
           /\ \A k \in 1 .. (first - 1) : fields[k].json # fields[first].json
    BY FirstUse
  <2>2. PICK other \in {i, j} : other # first
    BY <1>1
  <2>3. /\ other \in DOMAIN fields /\ fields[other].json = fields[first].json /\ first < other
        /\ Custom(fields[other])
    BY <1>1, <2>1, <2>2
  <2>4. Custom(fields[first])
    <3>1. i < j \/ j < i
      BY <1>1
    <3> QED BY <1>1, <2>1, <3>1 DEF HidesConflict
  <2> QED BY <1>1, <2>1, <2>3, <2>4 DEF NoJsonConflicts
<1>2. ASSUME \A i, j \in DOMAIN fields :
                i # j /\ fields[i].json = fields[j].json => ~(Custom(fields[i]) /\ Custom(fields[j]))
      PROVE  NoJsonConflicts(fields, FALSE)
  <2>1. \A i, j \in DOMAIN fields : i < j => i # j
    OBVIOUS
  <2> QED BY <1>2, <2>1 DEF NoJsonConflicts
<1> QED BY <1>1, <1>2

LEMMA HidesConflictMoves ==
  ASSUME NEW f, NEW g, Rearranged(f, g), HidesConflict(g)
  PROVE  HidesConflict(f)
<1>1. PICK s \in [DOMAIN f -> DOMAIN f] : \A k \in DOMAIN f : s[s[k]] = k /\ g[k] = f[s[k]]
  BY DEF Rearranged
<1>2. DOMAIN g = DOMAIN f /\ DOMAIN f \subseteq Nat
  BY DEF Rearranged
<1>3. PICK i \in DOMAIN f, j \in DOMAIN f, k \in DOMAIN f :
        /\ i < j /\ g[i].json = g[j].json /\ g[j].json = g[k].json
        /\ Custom(g[i]) /\ Custom(g[j]) /\ ~Custom(g[k])
  BY <1>2 DEF HidesConflict
<1>4. /\ s[i] \in DOMAIN f /\ s[j] \in DOMAIN f /\ s[k] \in DOMAIN f
      /\ g[i] = f[s[i]] /\ g[j] = f[s[j]] /\ g[k] = f[s[k]] /\ s[i] # s[j]
  BY <1>1, <1>2, <1>3
<1>5. s[i] < s[j] \/ s[j] < s[i]
  BY <1>2, <1>4
<1> QED BY <1>3, <1>4, <1>5 DEF HidesConflict

(* The same message with its fields and its reserved ranges rearranged. *)
Reordered(msg, other) ==
  /\ Rearranged(msg.fields, other.fields) /\ Rearranged(msg.reserved, other.reserved)
  /\ other.path = msg.path /\ other.reservedNames = msg.reservedNames
  /\ other.extensions = msg.extensions /\ other.oneofs = msg.oneofs /\ other.options = msg.options
  /\ other.messageSet = msg.messageSet

LEMMA ReorderedFields ==
  ASSUME NEW msg, NEW other, Reordered(msg, other), NEW proto3, ValidFields(msg, proto3)
  PROVE  ValidFields(other, proto3)
<1>1. Rearranged(msg.fields, other.fields) /\ Rearranged(msg.reserved, other.reserved)
  BY DEF Reordered
<1>2. DOMAIN other.fields = DOMAIN msg.fields /\ DOMAIN msg.fields \subseteq Nat
  BY <1>1 DEF Rearranged
<1>3. Distinct(NamesOf(other.fields))
  <2>1. \A i, j \in DOMAIN msg.fields : i # j => msg.fields[i].name # msg.fields[j].name
    BY <1>2, DistinctMeans DEF ValidFields, NamesOf
  <2>2. \A i, j \in DOMAIN other.fields : i # j => other.fields[i].name # other.fields[j].name
    BY <1>1, <2>1, RearrangedElements
  <2> QED BY <1>2, <2>2, DistinctMeans DEF NamesOf
<1>4. Distinct([i \in DOMAIN other.fields |-> other.fields[i].number])
  <2>1. \A i, j \in DOMAIN msg.fields : i # j => msg.fields[i].number # msg.fields[j].number
    BY <1>2, DistinctMeans DEF ValidFields
  <2>2. \A i, j \in DOMAIN other.fields : i # j => other.fields[i].number # other.fields[j].number
    BY <1>1, <2>1, RearrangedElements
  <2> QED BY <1>2, <2>2, DistinctMeans
<1>5. ASSUME NEW i \in DOMAIN other.fields
      PROVE  ValidField(other, other.fields[i], proto3)
  <2>1. PICK h \in DOMAIN msg.fields : other.fields[i] = msg.fields[h]
    BY <1>1, RearrangedElements
  <2>2. ValidField(msg, msg.fields[h], proto3)
    BY DEF ValidFields
  <2>3. \A k \in DOMAIN other.reserved : ~InRange(msg.fields[h].number, other.reserved[k])
    BY <1>1, <2>2, RearrangedElements DEF ValidField, ValidNumber
  <2>4. other.reservedNames = msg.reservedNames
    BY DEF Reordered
  <2> QED BY <2>1, <2>2, <2>3, <2>4 DEF ValidField, ValidNumber
<1> QED BY <1>3, <1>4, <1>5 DEF ValidFields

LEMMA ReorderedRanges ==
  ASSUME NEW msg, NEW other, Reordered(msg, other), NEW proto3, ValidRanges(msg, proto3)
  PROVE  ValidRanges(other, proto3)
<1>1. /\ Rearranged(msg.fields, other.fields) /\ Rearranged(msg.reserved, other.reserved)
      /\ other.extensions = msg.extensions
  BY DEF Reordered
<1>2. DOMAIN other.reserved = DOMAIN msg.reserved /\ DOMAIN msg.reserved \subseteq Nat
  BY <1>1 DEF Rearranged
<1>3. NoOverlaps(other.reserved)
  <2>1. \A i, j \in DOMAIN msg.reserved : i # j => ~Meet(msg.reserved[i], msg.reserved[j])
    BY <1>2, NoOverlapsMeans DEF ValidRanges
  <2>2. \A i, j \in DOMAIN other.reserved : i # j => ~Meet(other.reserved[i], other.reserved[j])
    BY <1>1, <2>1, RearrangedElements
  <2> QED BY <1>2, <2>2, NoOverlapsMeans
<1>4. \A i \in DOMAIN other.reserved : other.reserved[i].start < other.reserved[i].end
  BY <1>1, RearrangedElements DEF ValidRanges
<1>5. NoCrossOverlaps(other.extensions, other.reserved)
  BY <1>1, RearrangedElements DEF ValidRanges, NoCrossOverlaps
<1>6. \A i \in DOMAIN other.fields, j \in DOMAIN other.extensions :
         ~InRange(other.fields[i].number, other.extensions[j])
  BY <1>1, RearrangedElements DEF ValidRanges
<1> QED BY <1>1, <1>3, <1>4, <1>5, <1>6 DEF ValidRanges

LEMMA ReorderedJson ==
  ASSUME NEW f, NEW g, Rearranged(f, g), \A k \in DOMAIN f : 1 .. k \subseteq DOMAIN f,
         NEW proto3 \in BOOLEAN, g = f \/ proto3 \/ ~HidesConflict(f), NoJsonConflicts(f, proto3)
  PROVE  NoJsonConflicts(g, proto3)
<1>1. DOMAIN g = DOMAIN f /\ DOMAIN f \subseteq Nat
  BY DEF Rearranged
<1>2. CASE proto3 = TRUE
  <2>1. \A i, j \in DOMAIN f : i # j => f[i].json # f[j].json
    BY <1>1, <1>2, JsonDistinct
  <2>2. \A i, j \in DOMAIN g : i # j => g[i].json # g[j].json
    BY <2>1, RearrangedElements
  <2> QED BY <1>1, <1>2, <2>2, JsonDistinct
<1>3. CASE proto3 = FALSE /\ ~HidesConflict(f)
  <2>1. \A i, j \in DOMAIN f : i # j /\ f[i].json = f[j].json => ~(Custom(f[i]) /\ Custom(f[j]))
    BY <1>1, <1>3, JsonCustom
  <2>2. \A i, j \in DOMAIN g : i # j /\ g[i].json = g[j].json => ~(Custom(g[i]) /\ Custom(g[j]))
    BY <2>1, RearrangedElements
  <2>3. ~HidesConflict(g)
    BY <1>3, HidesConflictMoves
  <2> QED BY <1>1, <1>3, <2>2, <2>3, JsonCustom
<1> QED BY <1>2, <1>3

LEMMA ReorderedOneofs ==
  ASSUME NEW msg, NEW other, Reordered(msg, other), OneofsFilled(msg)
  PROVE  OneofsFilled(other)
<1>1. other.oneofs = msg.oneofs /\ Rearranged(other.fields, msg.fields)
  BY RearrangedBack DEF Reordered
<1>2. \A k \in DOMAIN msg.fields : \E h \in DOMAIN other.fields : msg.fields[k] = other.fields[h]
  BY <1>1, RearrangedElements
<1> SUFFICES ASSUME NEW i \in DOMAIN msg.oneofs
             PROVE  \E j \in DOMAIN other.fields :
                      /\ other.fields[j].oneof \in 1 .. i
                      /\ msg.oneofs[other.fields[j].oneof] = msg.oneofs[i]
                      /\ \A k \in 1 .. (other.fields[j].oneof - 1) : msg.oneofs[k] # msg.oneofs[i]
  BY <1>1 DEF OneofsFilled
<1>3. PICK j \in DOMAIN msg.fields :
        /\ msg.fields[j].oneof \in 1 .. i
        /\ msg.oneofs[msg.fields[j].oneof] = msg.oneofs[i]
        /\ \A k \in 1 .. (msg.fields[j].oneof - 1) : msg.oneofs[k] # msg.oneofs[i]
  BY DEF OneofsFilled
<1>4. PICK h \in DOMAIN other.fields : msg.fields[j] = other.fields[h]
  BY <1>2
<1> QED BY <1>3, <1>4

LEMMA ReorderedValid ==
  ASSUME NEW msg, NEW other, Reordered(msg, other),
         \A k \in DOMAIN msg.fields : 1 .. k \subseteq DOMAIN msg.fields,
         NEW proto3 \in BOOLEAN, other.fields = msg.fields \/ proto3 \/ ~HidesConflict(msg.fields),
         ValidMessage(msg, proto3)
  PROVE  ValidMessage(other, proto3)
<1>1. ValidFields(other, proto3) /\ ValidRanges(other, proto3) /\ OneofsFilled(other)
  BY ReorderedFields, ReorderedRanges, ReorderedOneofs DEF ValidMessage
<1>2. ~LegacyJson(other) => NoJsonConflicts(other.fields, proto3)
  <2>1. LegacyJson(other) => LegacyJson(msg)
    BY DEF Reordered, LegacyJson
  <2>2. LegacyJson(msg) => LegacyJson(other)
    BY DEF Reordered, LegacyJson
  <2>3. Rearranged(msg.fields, other.fields)
    BY DEF Reordered
  <2> QED BY <2>1, <2>2, <2>3, ReorderedJson DEF ValidMessage
<1>3. Len(other.path) > 1 => NoExplicitEntry(other)
  BY DEF Reordered, NoExplicitEntry, ValidMessage
<1>4. proto3 => ~other.messageSet
  BY DEF Reordered, ValidMessage
<1> QED BY <1>1, <1>2, <1>3, <1>4 DEF ValidMessage

(* Both ways: the rearranged message rearranges back. *)
LEMMA ReorderedSame ==
  ASSUME NEW msg, NEW other, Reordered(msg, other),
         \A k \in DOMAIN msg.fields : 1 .. k \subseteq DOMAIN msg.fields,
         NEW proto3 \in BOOLEAN, other.fields = msg.fields \/ proto3 \/ ~HidesConflict(msg.fields)
  PROVE  ValidMessage(other, proto3) <=> ValidMessage(msg, proto3)
<1>1. ValidMessage(msg, proto3) => ValidMessage(other, proto3)
  BY ReorderedValid
<1>2. Reordered(other, msg)
  BY RearrangedBack DEF Reordered
<1>3. \A k \in DOMAIN other.fields : 1 .. k \subseteq DOMAIN other.fields
  BY DEF Reordered, Rearranged
<1>4. ~HidesConflict(msg.fields) => ~HidesConflict(other.fields)
  BY HidesConflictMoves DEF Reordered
<1>5. ValidMessage(other, proto3) => ValidMessage(msg, proto3)
  BY <1>2, <1>3, <1>4, ReorderedValid
<1> QED BY <1>1, <1>5

LEMMA OrderIsFree ==
  ASSUME Sources
  PROVE  OrderFree
<1> SUFFICES ASSUME NEW p \in DOMAIN tree, NEW m \in DOMAIN tree[p].messages
             PROVE  LET msg == tree[p].messages[m]
                        Same(other) == ValidMessage(other, IsProto3(tree[p])) <=> ValidMessage(msg, IsProto3(tree[p]))
                    IN  /\ ~(~IsProto3(tree[p]) /\ HidesConflict(msg.fields)) =>
                              \A i \in 1 .. (Len(msg.fields) - 1) :
                                  Same([msg EXCEPT !.fields = Swapped(msg.fields, i)])
                        /\ \A i \in 1 .. (Len(msg.reserved) - 1) :
                              Same([msg EXCEPT !.reserved = Swapped(msg.reserved, i)])
  BY DEF OrderFree
<1>1. PICK msg : msg = tree[p].messages[m]
  OBVIOUS
<1>2. PICK proto3 \in BOOLEAN : proto3 <=> IsProto3(tree[p])
  BY DEF IsProto3
<1>3. IsMessage(msg)
  BY <1>1 DEF Sources, IsFile
<1>4. /\ DOMAIN msg.fields = 1 .. Len(msg.fields) /\ Len(msg.fields) \in Nat
      /\ DOMAIN msg.reserved = 1 .. Len(msg.reserved) /\ Len(msg.reserved) \in Nat
  BY <1>3, LenProperties DEF IsMessage
<1>5. \A k \in DOMAIN msg.fields : 1 .. k \subseteq DOMAIN msg.fields
  BY <1>4
<1>6. Rearranged(msg.fields, msg.fields) /\ Rearranged(msg.reserved, msg.reserved)
  BY <1>4, RearrangedSelf
<1>7. ASSUME proto3 \/ ~HidesConflict(msg.fields), NEW i \in 1 .. (Len(msg.fields) - 1)
      PROVE  ValidMessage([msg EXCEPT !.fields = Swapped(msg.fields, i)], proto3) <=> ValidMessage(msg, proto3)
  <2>1. PICK g : g = Swapped(msg.fields, i)
    OBVIOUS
  <2>2. Rearranged(msg.fields, g)
    BY <1>4, <2>1, SwappedRearranged
  <2>3. PICK other : other = [msg EXCEPT !.fields = g]
    OBVIOUS
  <2>4. Reordered(msg, other)
    BY <1>3, <1>6, <2>2, <2>3 DEF IsMessage, Reordered
  <2>5. ValidMessage(other, proto3) <=> ValidMessage(msg, proto3)
    BY <1>5, <1>7, <2>4, ReorderedSame
  <2> QED BY <2>1, <2>3, <2>5
<1>8. ASSUME NEW i \in 1 .. (Len(msg.reserved) - 1)
      PROVE  ValidMessage([msg EXCEPT !.reserved = Swapped(msg.reserved, i)], proto3) <=> ValidMessage(msg, proto3)
  <2>1. PICK g : g = Swapped(msg.reserved, i)
    OBVIOUS
  <2>2. Rearranged(msg.reserved, g)
    BY <1>4, <2>1, SwappedRearranged
  <2>3. PICK other : other = [msg EXCEPT !.reserved = g]
    OBVIOUS
  <2>4. Reordered(msg, other) /\ other.fields = msg.fields
    BY <1>3, <1>6, <2>2, <2>3 DEF IsMessage, Reordered
  <2>5. ValidMessage(other, proto3) <=> ValidMessage(msg, proto3)
    BY <1>5, <2>4, ReorderedSame
  <2> QED BY <2>1, <2>3, <2>5
<1>9. proto3 = IsProto3(tree[p])
  BY <1>2 DEF IsProto3
<1> QED BY <1>1, <1>7, <1>8, <1>9

(***************************************************************************)
(* validate_message, validate_json_name_conflicts: whether a message of    *)
(* any file is accepted does not depend on the order of two neighbouring   *)
(* fields or reserved ranges, but for a conflict that proto2 hides.        *)
(***************************************************************************)
THEOREM OrderDoesNotMatter == Spec => []OrderFree
<1>1. Init => Sources
  BY SourcesInit
<1>2. Sources /\ [Next]_vars => Sources'
  BY SourcesStep
<1>3. Sources => OrderFree
  BY OrderIsFree
<1> QED BY <1>1, <1>2, <1>3, PTL DEF Spec
=============================================================================
