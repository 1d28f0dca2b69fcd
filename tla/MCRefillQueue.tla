--------------------------- MODULE MCRefillQueue ---------------------------
(***************************************************************************)
(* Three workers, more keys than the queue may hold, keys of one to three  *)
(* bytes and the empty key, which a plugin may normalize a request to.     *)
(***************************************************************************)
EXTENDS RefillQueue

MCKey == {"", "a", "bb", "ccc"}
MCKeyLen == [k \in MCKey |-> CASE k = "" -> 0 [] k = "a" -> 1 [] k = "bb" -> 2 [] k = "ccc" -> 3]
=============================================================================
