----------------------------- MODULE Connection -----------------------------
(***************************************************************************)
(* One connection: the handler Worker::on_read (worker.cpp) and the        *)
(* CommandTokenizer it feeds (command_tokenizer.cpp).  The strand and the  *)
(* single outstanding read keep a connection's handlers one after another, *)
(* so the only other party is the client, who may leave at any time.       *)
(*                                                                         *)
(* Offsets count from 1.  A read takes any non-empty piece of what the     *)
(* client has sent that fits the buffer.                                   *)
(***************************************************************************)
EXTENDS Command, FiniteSets

CONSTANTS
  CR, LF,
  Character,
  Streams,   \* what a client may send over the whole connection
  BufferSize

ASSUME CharacterAssumption == CR # LF /\ Streams \subseteq Seq(Character)
ASSUME BufferAssumption == BufferSize \in Nat \ {0}

VARIABLES
  stream,      \* what this client sends
  taken,       \* how many bytes of it have been read
  remainder_,  \* CommandTokenizer: what is not tokenized yet
  token_, offset_,  \* the iterator; its remainder_ is NULL iff offset_ = NPos
  pc,          \* where on_read is; "reading" when the next one is awaited
  replies,     \* the responses written
  client       \* "here" or "gone"

iterator == <<token_, offset_>>
vars == <<stream, taken, remainder_, iterator, pc, replies, client>>

NPos == 0
NoToken == <<>>

received == SubSeq(stream, 1, taken)

Init ==
  /\ stream \in Streams
  /\ taken = 0
  /\ remainder_ = <<>>
  /\ token_ = NoToken /\ offset_ = NPos
  /\ pc = "reading"
  /\ replies = <<>>
  /\ client = "here"

-----------------------------------------------------------------------------
(* CommandTokenizer.                                                        *)

\* Mutant: a line may also end in the last byte alone.
FindLoose(s, from) ==
  LET ends == {p \in from..Len(s) : s[p] = CR}
  IN  IF ends = {} THEN NPos ELSE CHOOSE p \in ends : \A q \in ends : p <= q

\* std::string::find("\r\n", from)
Find(s, from) ==
  LET ends == {p \in from..(Len(s) - 1) : s[p] = CR /\ s[p + 1] = LF}
  IN  IF ends = {} THEN NPos ELSE CHOOSE p \in ends : \A q \in ends : p <= q

AtEnd == offset_ = NPos

\* The iterator moves to the line of s that starts at from, if it is complete.
Extract(s, from) ==
  /\ Find(s, from) # NPos
  /\ token_' = SubSeq(s, from, Find(s, from) - 1)
  /\ offset_' = Find(s, from) + 2
  /\ remainder_' = s

\* iterator(remainder): the text stays as it is if it has no complete line.
Begin(s) ==
  \/ Extract(s, 1)
  \/ /\ Find(s, 1) = NPos
     /\ token_' = NoToken /\ offset_' = NPos
     /\ remainder_' = s

\* Mutant: the lines that were handled stay in the text.
NextTokenKeepsLines ==
  \/ Extract(remainder_, offset_)
  \/ /\ Find(remainder_, offset_) = NPos
     /\ token_' = NoToken /\ offset_' = NPos
     /\ UNCHANGED remainder_

\* Mutant: the text that follows the last line is dropped.
NextTokenDropsRest ==
  \/ Extract(remainder_, offset_)
  \/ /\ Find(remainder_, offset_) = NPos
     /\ token_' = NoToken /\ offset_' = NPos
     /\ remainder_' = <<>>

\* operator ++: the text is shortened only when its last line was passed.
NextToken ==
  \/ Extract(remainder_, offset_)
  \/ /\ Find(remainder_, offset_) = NPos
     /\ token_' = NoToken /\ offset_' = NPos
     /\ remainder_' = SubSeq(remainder_, offset_, Len(remainder_))

-----------------------------------------------------------------------------
(* Worker::on_read.                                                         *)

\* Mutant: the buffer is appended whole, beyond what was transferred.
OnReadWholeBuffer(n) ==
  /\ pc = "reading"
  /\ n \in 1..BufferSize /\ taken + n <= Len(stream)
  /\ taken' = taken + n
  /\ Begin(remainder_ \o SubSeq(stream, taken + 1, taken + BufferSize))
  /\ pc' = "loop"
  /\ UNCHANGED <<stream, replies, client>>

OnRead(n) ==
  /\ pc = "reading"
  /\ n \in 1..BufferSize /\ taken + n <= Len(stream)
  /\ taken' = taken + n
  /\ Begin(remainder_ \o SubSeq(stream, taken + 1, taken + n))
  /\ pc' = "loop"
  /\ UNCHANGED <<stream, replies, client>>

\* The client closed the connection, or it broke: no read is awaited any more.
OnReadError ==
  /\ pc = "reading"
  /\ client = "gone"
  /\ pc' = "closed"
  /\ UNCHANGED <<stream, taken, remainder_, iterator, replies, client>>

OnQuit ==
  /\ pc = "loop" /\ ~ AtEnd
  /\ IsQuit(token_)
  /\ pc' = "closed"
  /\ UNCHANGED <<stream, taken, remainder_, iterator, replies, client>>

\* The command is executed and its response written before the next line.
OnCommand ==
  /\ pc = "loop" /\ ~ AtEnd
  /\ ~ IsQuit(token_)
  /\ replies' = Append(replies, Reply(token_))
  /\ NextToken
  /\ UNCHANGED <<stream, taken, pc, client>>

\* The write throws out of the handler, and out of the thread that runs it:
\* the process is terminated.
OnWriteError ==
  /\ pc = "loop" /\ ~ AtEnd
  /\ ~ IsQuit(token_)
  /\ client = "gone"
  /\ pc' = "terminated"
  /\ UNCHANGED <<stream, taken, remainder_, iterator, replies, client>>

\* Mutant: the next read is started only if the text was used up.
AwaitReadWhenEmpty ==
  /\ pc = "loop" /\ AtEnd /\ remainder_ = <<>>
  /\ pc' = "reading"
  /\ UNCHANGED <<stream, taken, remainder_, iterator, replies, client>>

AwaitRead ==
  /\ pc = "loop" /\ AtEnd
  /\ pc' = "reading"
  /\ UNCHANGED <<stream, taken, remainder_, iterator, replies, client>>

Worker ==
  \/ \E n \in 1..BufferSize : OnRead(n)
  \/ OnReadError \/ OnQuit \/ OnCommand \/ OnWriteError \/ AwaitRead

Leave ==
  /\ client = "here"
  /\ client' = "gone"
  /\ UNCHANGED <<stream, taken, remainder_, iterator, pc, replies>>

Next == Worker \/ Leave

\* Threads run the handlers that are ready; the client reads its replies.
Spec == Init /\ [][Next]_vars /\ WF_vars(Worker)

-----------------------------------------------------------------------------

Open == pc \in {"reading", "loop"}

Lines == INSTANCE LineProtocol WITH open <- Open

\* Every variable stays in its range; the iterator never points outside the
\* text it walks over.
TypeOK ==
  /\ stream \in Streams
  /\ taken \in 0..Len(stream)
  /\ offset_ \in {NPos} \cup 3..(Len(remainder_) + 1)
  /\ pc \in {"reading", "loop", "closed", "terminated"}
  /\ client \in {"here", "gone"}

\* The replies are those to the complete lines received, in order and once
\* each, and the connection ends only on quit or when the client has left,
\* however the bytes were cut into reads.
ImplementsLines == Lines!Spec

\* Between two reads the tokenizer holds what was received after the last
\* complete line, and nothing else (the remainder() of its tests).
RemainderIsRest == pc = "reading" => remainder_ = Lines!Rest(received)

\* Every line the client sent is answered in the end, unless the client says
\* quit or leaves.
AllAnswered ==
  <>(\/ client = "gone" \/ pc = "closed"
     \/ taken = Len(stream) /\ Len(replies) = Len(Lines!Lines(stream)))
=============================================================================
