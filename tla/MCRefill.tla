------------------------------ MODULE MCRefill ------------------------------
(***************************************************************************)
(* Instances of Refill for TLC.  Keys and values are one byte long, but    *)
(* for the empty key and the long value "yyy"; the plugin of the instance  *)
(* normalizes "A" to "a".                                                  *)
(***************************************************************************)
EXTENDS Refill, FiniteSetsExt

CONSTANTS
  Asked,    \* the keys of the instance
  Stored,   \* its values
  Copies    \* heap objects per value

MCNormalize == [k \in Asked |-> IF k = "A" THEN "a" ELSE k]

MCObj == Stored \X (1..Copies)
MCContent == [o \in MCObj |-> o[1]]
Length(s) == CASE s = "" -> 0 [] s = "yyy" -> 3 [] OTHER -> 1
MCKeyBytes == [S \in SUBSET Asked |-> MapThenSumSet(Length, S)]
MCObjBytes == [S \in SUBSET MCObj |-> MapThenSumSet(LAMBDA o : Length(o[1]), S)]

\* A source that always has the same value for a key, one that has two for
\* one of the keys, and one whose values change at will.
FixedSource == [k \in Asked |-> IF k = "b" THEN {"y"} ELSE {"x"}]
MixedSource == [k \in Asked |-> IF k = "b" THEN {"x", "y"} ELSE {"x"}]
ChangingSource == [k \in Asked |-> Stored]
=============================================================================
