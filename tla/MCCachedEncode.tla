--------------------------- MODULE MCCachedEncode ---------------------------
(***************************************************************************)
(* A root with a plain field and a map value, the former with a map value  *)
(* of its own; own sizes on both sides of the one-byte prefix limit.       *)
(***************************************************************************)
EXTENDS CachedEncode, TLC

CONSTANTS r, a, b, c, t1, t2

Nodes == {r, a, b, c}
TreeKids == r :> <<a, b>> @@ a :> <<c>> @@ b :> <<>> @@ c :> <<>>
TreeMapValues == {b, c}

(* r -> a -> b, both through maps. *)
ChainNodes == {r, a, b}
ChainKids == r :> <<a>> @@ a :> <<b>> @@ b :> <<>>
ChainMapValues == {a, b}

TwoSizes == {0, 127}

TwoThreads == {t1, t2}
OneThread == {t1}
SymmetricThreads == Permutations(TwoThreads)
=============================================================================
