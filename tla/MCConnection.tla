---------------------------- MODULE MCConnection ----------------------------
(***************************************************************************)
(* Clients that send any six characters of a small alphabet, read in       *)
(* pieces of up to three bytes, and a few longer sessions.  "g" is the     *)
(* command get, "s" is stats, "l" is log_level and "q" is quit; letters    *)
(* are keys as well, and "g" is the only key with a value.                 *)
(***************************************************************************)
EXTENDS Connection

CONSTANT StreamLength

MCCharacter == {"g", "s", "l", "q", "a", " ", CR, LF}
MCSpace == " "
MCGet == <<"g">>
MCStats == <<"s">>
MCLogLevel == <<"l">>
MCQuit == <<"q">>
MCFilled == {<<"g">>}

Sessions ==
  {<<"g", " ", "g", " ", " ", "a", " ", "g", CR, LF, "s", CR, LF>>,
   <<"l", " ", "a", CR, LF, "l", CR, CR, LF, "l", CR, LF, "s", CR, LF>>,
   <<"s", " ", CR, LF, CR, LF, "q", CR, LF, "g", CR, LF>>}

MCStreams == [1..StreamLength -> {"g", "q", " ", CR, LF}] \cup Sessions
=============================================================================
