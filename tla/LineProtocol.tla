---------------------------- MODULE LineProtocol ----------------------------
(***************************************************************************)
(* What the server promises to a client: every complete line it receives   *)
(* is answered, in order and once, up to a line that says quit, and the    *)
(* connection is not given up for any other reason than the client's       *)
(* leaving.  How the bytes were cut into pieces plays no part.             *)
(***************************************************************************)
EXTENDS Integers, Sequences, FiniteSets, SequencesExt

CONSTANTS
  CR, LF,
  Reply(_),  \* what a line is answered with
  IsQuit(_)

VARIABLES
  received,  \* the bytes that have arrived
  replies,   \* the replies that were sent
  open,      \* the server has not ended the connection
  client     \* "here" or "gone"

linesVars == <<received, replies, open, client>>

LineEnds(s) == {p \in 1..(Len(s) - 1) : s[p] = CR /\ s[p + 1] = LF}

\* Where the n-th complete line of s ends, and where it starts.
Rank(s, p) == Cardinality({q \in LineEnds(s) : q <= p})
End(s, n) == CHOOSE p \in LineEnds(s) : Rank(s, p) = n
Start(s, n) == IF n = 1 THEN 1 ELSE End(s, n - 1) + 2

\* The complete lines of s, and what follows the last of them.
Lines(s) ==
  [n \in 1..Cardinality(LineEnds(s)) |-> SubSeq(s, Start(s, n), End(s, n) - 1)]

Rest(s) == SubSeq(s, Start(s, Cardinality(LineEnds(s)) + 1), Len(s))

Pending == SubSeq(Lines(received), Len(replies) + 1, Len(Lines(received)))

Init == received = <<>> /\ replies = <<>> /\ open = TRUE /\ client = "here"

Receive ==
  /\ open = TRUE
  /\ IsStrictPrefix(received, received')
  /\ UNCHANGED <<replies, open, client>>

Serve ==
  /\ open = TRUE
  /\ Pending # <<>> /\ ~ IsQuit(Head(Pending))
  /\ replies' = Append(replies, Reply(Head(Pending)))
  /\ UNCHANGED <<received, open, client>>

Quit ==
  /\ open = TRUE
  /\ Pending # <<>> /\ IsQuit(Head(Pending))
  /\ open' = FALSE
  /\ UNCHANGED <<received, replies, client>>

Leave == client = "here" /\ client' = "gone" /\ UNCHANGED <<received, replies, open>>

GiveUp ==
  /\ client = "gone" /\ open = TRUE
  /\ open' = FALSE
  /\ UNCHANGED <<received, replies, client>>

Next == Receive \/ Serve \/ Quit \/ Leave \/ GiveUp

Spec == Init /\ [][Next]_linesVars
=============================================================================
