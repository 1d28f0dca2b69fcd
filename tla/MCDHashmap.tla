----------------------------- MODULE MCDHashmap -----------------------------
(***************************************************************************)
(* A small store for TLC: three keys of one or two bytes, another spelling *)
(* that the plugin normalizes to the first, values of zero to two bytes    *)
(* and Copies heap objects for each of them.  It takes three keys for a    *)
(* value to be replaced at one key by that of another while a third still  *)
(* has it.                                                                 *)
(***************************************************************************)
EXTENDS DHashmap, FiniteSetsExt

CONSTANT Copies

MCKey == {"a", "A", "bb", "c"}
MCNormalize == [k \in MCKey |-> IF k = "A" THEN "a" ELSE k]

MCObj == {"", "x", "yy"} \X (1..Copies)
MCContent == [o \in MCObj |-> o[1]]

Length(s) == CASE s = "" -> 0
               [] s \in {"a", "A", "c", "x"} -> 1
               [] s \in {"bb", "yy"} -> 2

MCKeyBytes == [S \in SUBSET MCKey |-> MapThenSumSet(Length, S)]
ObjLength(o) == Length(o[1])
MCObjBytes == [S \in SUBSET MCObj |-> MapThenSumSet(ObjLength, S)]
=============================================================================
