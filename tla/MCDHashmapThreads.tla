------------------------- MODULE MCDHashmapThreads -------------------------
(***************************************************************************)
(* Two keys of one byte, values of one byte, Copies objects for each.      *)
(* Plugins are those whose keys share one value that never changes, have   *)
(* one each, or such that "b" may get another value at any time.           *)
(***************************************************************************)
EXTENDS DHashmapThreads, TLC

CONSTANTS Copies, Val

MCKey == {"a", "b"}
MCObj == Val \X (1..Copies)
MCContent == [o \in MCObj |-> o[1]]
MCKeyBytes == [S \in SUBSET MCKey |-> Cardinality(S)]
MCObjBytes == [S \in SUBSET MCObj |-> Cardinality(S)]

MCSources ==
  {[k \in MCKey |-> {"x"}],
   [k \in MCKey |-> IF k = "a" THEN {"x"} ELSE {"y"}],
   [k \in MCKey |-> IF k = "a" THEN {"x"} ELSE Val]}

Readers == Permutations(Reader)
=============================================================================
