------------------------------ MODULE Command ------------------------------
(***************************************************************************)
(* A line of the text protocol taken apart (command.cpp) and what the      *)
(* server replies to it (worker.cpp, storage.cpp).  A line is a sequence   *)
(* of characters; a reply is a sequence of items, each one a line or two   *)
(* of text: <<"VALUE", key>>, <<"STAT">>, <<"OK">>, <<"ERROR">>, <<"END">>.*)
(***************************************************************************)
EXTENDS Integers, Sequences, SequencesExt

CONSTANTS
  Space,                                 \* the character that separates words
  GetName, StatsName, LogLevelName, QuitName,
  Filled                                 \* the keys with a non-empty value

\* Adjacent separators count as one; one at an end of the line makes an
\* empty word.
WordStarts(s) ==
  {1} \cup {i + 1 : i \in {j \in 1..Len(s) :
                             s[j] = Space /\ (j = Len(s) \/ s[j + 1] # Space)}}

WordEnds(s) ==
  {Len(s)} \cup {i - 1 : i \in {j \in 1..Len(s) :
                                  s[j] = Space /\ (j = 1 \/ s[j - 1] # Space)}}

Words(s) ==
  LET first == SetToSortSeq(WordStarts(s), <)
      last  == SetToSortSeq(WordEnds(s), <)
  IN  [n \in 1..Len(first) |-> SubSeq(s, first[n], last[n])]

name(args_) == Head(args_)
argc(args_) == Len(args_) - 1

\* get_val: one item for each argument that has a value.
Values(args) ==
  FlattenSeq([n \in 1..Len(args) |->
                IF args[n] \in Filled THEN << <<"VALUE", args[n]>> >> ELSE <<>>])

\* An unknown command, and an empty one, leave the response empty.
Answer(args_) ==
  CASE name(args_) = GetName      -> Values(Tail(args_))
    [] name(args_) = StatsName    -> << <<"STAT">> >>
    [] name(args_) = LogLevelName -> << <<IF argc(args_) = 1 THEN "OK" ELSE "ERROR">> >>
    [] OTHER                      -> <<>>

Reply(line) == Append(Answer(Words(line)), <<"END">>)

IsQuit(line) == name(Words(line)) = QuitName
=============================================================================
