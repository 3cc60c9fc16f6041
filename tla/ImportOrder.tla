----------------------------- MODULE ImportOrder -----------------------------
(***************************************************************************)
(* What loading promises, without saying how: the files reachable from the *)
(* roots are put in some order in which imports come first, until all are  *)
(* there; an error is returned only when the input gives a reason for one. *)
(***************************************************************************)
EXTENDS Integers, Sequences, Functions

CONSTANT File

VARIABLES
  imports,    \* file -> set of files it imports
  wanted,     \* the root files
  broken,     \* files that cannot be found or parsed
  clash,      \* pairs of files with declarations that may not meet
  order,      \* the files placed so far
  outcome     \* "running", "loaded" or "error"

input == <<imports, wanted, broken, clash>>
vars == <<imports, wanted, broken, clash, order, outcome>>

Closed(S) == \A f \in S : imports[f] \subseteq S

(* The files a set of files leads to: in every closed set that contains it. *)
From(W) == {f \in File : \A S \in SUBSET File : W \subseteq S /\ Closed(S) => f \in S}
Reachable == From(wanted)

Cyclic == \E f \in Reachable : f \in From(imports[f])

Init ==
  /\ imports \in [File -> SUBSET File]
  /\ wanted \in SUBSET File
  /\ broken \in SUBSET File
  /\ clash \in SUBSET (File \X File)
  /\ order = <<>>
  /\ outcome = "running"

Place(f) ==
  /\ outcome = "running"
  /\ f \in Reachable \ (Range(order) \cup broken)
  /\ imports[f] \subseteq Range(order)
  /\ order' = Append(order, f)
  /\ UNCHANGED <<input, outcome>>

Finish ==
  /\ outcome = "running"
  /\ Range(order) = Reachable
  /\ outcome' = "loaded"
  /\ UNCHANGED <<input, order>>

GiveUp ==
  /\ outcome = "running"
  /\ \/ Reachable \cap broken # {}
     \/ Cyclic
     \/ clash \cap (Reachable \X Reachable) # {}
  /\ outcome' = "error"
  /\ UNCHANGED <<input, order>>

Next == (\E f \in File : Place(f)) \/ Finish \/ GiveUp

Spec == Init /\ [][Next]_vars
=============================================================================
