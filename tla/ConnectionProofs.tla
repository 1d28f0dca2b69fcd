-------------------------- MODULE ConnectionProofs --------------------------
(***************************************************************************)
(* Proofs about Connection, for any alphabet, any streams and any size of  *)
(* the buffer: the tokenizer hands out every complete line once and in     *)
(* order, however the bytes were cut into reads.                           *)
(*                                                                         *)
(* The argument counts the line ends before a position of what was         *)
(* received.  A walk of the tokenizer from a position where a line starts  *)
(* finds the next line end, or that there is none.                         *)
(***************************************************************************)
EXTENDS Connection, FiniteSetTheorems, SequenceTheorems, WellFoundedInduction, TLAPS

Ends(s) == Lines!LineEnds(s)

\* How many lines of s end before position b.
Before(s, b) == Cardinality({q \in Ends(s) : q < b})

\* A line of s starts after position b.
LineStart(s, b) == b = 0 \/ b - 1 \in Ends(s)

-----------------------------------------------------------------------------
(* Sets of positions.                                                       *)

NatLess == {p \in Nat \X Nat : p[1] < p[2]}

\* A set of naturals that is not empty has a least element.
LEMMA Least ==
  ASSUME NEW T, T \subseteq Nat, T # {}
  PROVE  \E m \in T : \A n \in T : m <= n
<1>1. IsWellFoundedOn(NatLess, Nat)
  BY NatLessThanWellFounded DEF OpToRel, NatLess
<1>2. PICK m \in T : \A n \in T : <<n, m>> \notin NatLess
  BY <1>1, WFMin
<1>3. \A i, j \in Nat : i < j => <<i, j>> \in NatLess
  BY DEF NatLess
<1>4. m \in Nat /\ \A n \in T : n \in Nat
  OBVIOUS
<1>5. \A n \in T : ~ (n < m)
  BY <1>2, <1>3, <1>4
<1> QED
  BY <1>4, <1>5

\* The protocol counts as this module does.
LEMMA SameCardinality == \A S : Lines!Cardinality(S) = Cardinality(S)
  BY Zenon DEF Lines!Cardinality, Cardinality

\* Line ends are positions of the text, and no two of them touch.
LEMMA EndsFacts ==
  ASSUME NEW s \in Seq(Character)
  PROVE  /\ Ends(s) = {p \in 1..(Len(s) - 1) : s[p] = CR /\ s[p + 1] = LF}
         /\ IsFiniteSet(Ends(s)) /\ Cardinality(Ends(s)) \in Nat
         /\ \A p \in Ends(s) : p + 1 \notin Ends(s)
<1>1. Ends(s) = {p \in 1..(Len(s) - 1) : s[p] = CR /\ s[p + 1] = LF}
  BY DEF Ends, Lines!LineEnds
<1>2. IsFiniteSet(1..(Len(s) - 1)) /\ Ends(s) \subseteq 1..(Len(s) - 1)
  BY <1>1, FS_Interval
<1>3. \A p \in Ends(s) : p + 1 \notin Ends(s)
  BY <1>1, CharacterAssumption
<1> QED
  BY <1>1, <1>2, <1>3, FS_Subset, FS_CardinalityType

\* A line end is followed by a position.
LEMMA EndsRange ==
  ASSUME NEW s \in Seq(Character)
  PROVE  \A p \in Ends(s) : p \in Nat /\ 0 < p /\ p < Len(s)
BY EndsFacts

\* The parts of the set of line ends are finite, and counted.
LEMMA Counts ==
  ASSUME NEW s \in Seq(Character), NEW A, A \subseteq Ends(s)
  PROVE  /\ IsFiniteSet(A) /\ Cardinality(A) \in Nat /\ Cardinality(A) <= Cardinality(Ends(s))
         /\ \A q \in Ends(s) \ A : Cardinality(A \cup {q}) = Cardinality(A) + 1
<1>1. IsFiniteSet(A) /\ Cardinality(A) <= Cardinality(Ends(s))
  BY EndsFacts, FS_Subset
<1> QED
  BY <1>1, FS_CardinalityType, FS_AddElement

\* Each line end has a rank of its own, so End finds it.
LEMMA EndOfRank ==
  ASSUME NEW s \in Seq(Character), NEW e \in Ends(s)
  PROVE  /\ Lines!Rank(s, e) \in 1..Cardinality(Ends(s))
         /\ Lines!End(s, Lines!Rank(s, e)) = e
<1> DEFINE Upto(p) == {q \in Ends(s) : q <= p}
<1>1. \A p : Lines!Rank(s, p) = Cardinality(Upto(p))
  BY SameCardinality, Zenon DEF Lines!Rank, Ends
<1>2. ASSUME NEW p \in Ends(s), NEW q \in Ends(s), p < q
      PROVE  Cardinality(Upto(p)) < Cardinality(Upto(q))
  <2>1. Upto(p) \cup {q} \subseteq Upto(q) /\ q \in Ends(s) \ Upto(p) /\ Upto(p) \subseteq Ends(s)
        /\ Upto(q) \subseteq Ends(s)
    BY <1>2, EndsFacts
  <2> HIDE DEF Upto
  <2>2. IsFiniteSet(Upto(q)) /\ Cardinality(Upto(p) \cup {q}) = Cardinality(Upto(p)) + 1
        /\ Cardinality(Upto(p)) \in Nat /\ Cardinality(Upto(q)) \in Nat
    BY <2>1, Counts
  <2>3. Cardinality(Upto(p) \cup {q}) <= Cardinality(Upto(q))
    BY <2>1, <2>2, FS_Subset
  <2> QED
    BY <2>2, <2>3
<1>3. Cardinality(Upto(e)) \in 1..Cardinality(Ends(s))
  <2>1. Upto(e) \subseteq Ends(s) /\ e \in Upto(e)
    BY EndsFacts
  <2> HIDE DEF Upto
  <2>2. IsFiniteSet(Upto(e)) /\ Cardinality(Upto(e)) \in Nat
        /\ Cardinality(Upto(e)) <= Cardinality(Ends(s))
    BY <2>1, Counts
  <2>3. Cardinality(Upto(e)) # 0
    BY <2>1, <2>2, FS_EmptySet
  <2> QED
    BY <2>2, <2>3, EndsFacts
<1>4. \A p \in Ends(s) : Cardinality(Upto(p)) = Cardinality(Upto(e)) => p = e
  <2>1. \A p \in Ends(s) : p \in Int /\ Cardinality(Upto(p)) \in Nat
    BY EndsFacts, Counts
  <2> HIDE DEF Upto
  <2> QED
    BY <1>2, <2>1
<1> HIDE DEF Upto
<1>5. \A p \in Ends(s) : Lines!Rank(s, p) = Lines!Rank(s, e) => p = e
  BY <1>1, <1>4
<1> QED
  BY <1>1, <1>3, <1>5 DEF Lines!End, Ends

\* Where a line starts, the lines before it are counted by its start.
LEMMA StartOfLine ==
  ASSUME NEW s \in Seq(Character), NEW b \in Nat, LineStart(s, b)
  PROVE  /\ Before(s, b) \in Nat
         /\ Lines!Start(s, Before(s, b) + 1) = b + 1
         /\ b \notin Ends(s)
<1>1. CASE b = 0
  <2>1. {q \in Ends(s) : q < b} = {} /\ b \notin Ends(s)
    BY <1>1, EndsFacts
  <2>2. Before(s, b) = 0
    BY <2>1, FS_EmptySet, Zenon DEF Before
  <2> QED
    BY <1>1, <2>1, <2>2 DEF Lines!Start
<1>2. CASE b # 0
  <2>1. b - 1 \in Ends(s) /\ b \notin Ends(s)
    BY <1>2, EndsFacts DEF LineStart
  <2>2. {q \in Ends(s) : q < b} = {q \in Ends(s) : q <= b - 1}
    BY EndsFacts
  <2>3. Before(s, b) = Lines!Rank(s, b - 1)
    BY <2>2, SameCardinality, Zenon DEF Before, Lines!Rank, Ends
  <2>4. Before(s, b) \in Nat \ {0} /\ Lines!End(s, Before(s, b)) = b - 1
    BY <2>1, <2>3, EndOfRank, EndsFacts
  <2>5. Before(s, b) + 1 # 1 /\ (Before(s, b) + 1) - 1 = Before(s, b)
    BY <2>4
  <2> QED
    BY <2>1, <2>4, <2>5 DEF Lines!Start
<1> QED
  BY <1>1, <1>2

\* The next line end after the start of a line ends the next line.
LEMMA NextLine ==
  ASSUME NEW s \in Seq(Character), NEW b \in Nat, LineStart(s, b),
         NEW e \in Ends(s), b < e, \A r \in Ends(s) : ~ (b < r /\ r < e)
  PROVE  /\ Before(s, b) + 1 \in 1..Cardinality(Ends(s))
         /\ Lines!Lines(s)[Before(s, b) + 1] = SubSeq(s, b + 1, e - 1)
         /\ Before(s, e + 1) = Before(s, b) + 1
         /\ LineStart(s, e + 1)
<1> DEFINE A == {q \in Ends(s) : q < b}
<1>1. {q \in Ends(s) : q <= e} = A \cup {e} /\ {q \in Ends(s) : q < e + 1} = A \cup {e}
      /\ A \subseteq Ends(s) /\ e \in Ends(s) \ A
  <2>1. b \notin Ends(s) /\ \A q \in Ends(s) : q \in Nat
    BY StartOfLine, EndsRange
  <2>2. \A q \in Ends(s) : (q <= e <=> q < b \/ q = e) /\ (q < e + 1 <=> q < b \/ q = e)
    BY <2>1
  <2> QED
    BY <2>1, <2>2
<1>2. Before(s, b) = Cardinality(A)
  BY DEF Before
<1> HIDE DEF A
<1>3. Cardinality(A \cup {e}) = Cardinality(A) + 1 /\ Cardinality(A) \in Nat
  BY <1>1, Counts
<1>4. Lines!Rank(s, e) = Cardinality(A \cup {e}) /\ Before(s, e + 1) = Cardinality(A \cup {e})
  BY <1>1, SameCardinality, Zenon DEF Before, Lines!Rank, Ends
<1>5. Before(s, b) + 1 \in 1..Cardinality(Ends(s)) /\ Lines!End(s, Before(s, b) + 1) = e
  BY <1>2, <1>3, <1>4, EndOfRank
<1>6. Before(s, b) + 1 \in 1..Lines!Cardinality(Lines!LineEnds(s))
  BY <1>5, SameCardinality, Zenon DEF Ends
<1>7. Lines!Lines(s)[Before(s, b) + 1] = SubSeq(s, b + 1, e - 1)
  <2>1. Lines!Start(s, Before(s, b) + 1) = b + 1
    BY StartOfLine
  <2>2. \A n \in 1..Lines!Cardinality(Lines!LineEnds(s)) :
          Lines!Lines(s)[n] = SubSeq(s, Lines!Start(s, n), Lines!End(s, n) - 1)
    BY DEF Lines!Lines
  <2> QED
    BY <1>5, <1>6, <2>1, <2>2, Zenon
<1>8. LineStart(s, e + 1)
  BY EndsFacts DEF LineStart
<1> QED
  BY <1>2, <1>3, <1>4, <1>5, <1>7, <1>8

\* Where no line ends any more, the lines have been counted and the rest begins.
LEMMA LastLine ==
  ASSUME NEW s \in Seq(Character), NEW b \in Nat, LineStart(s, b),
         \A r \in Ends(s) : ~ b < r
  PROVE  /\ \A r \in Ends(s) : r < b
         /\ Before(s, b) = Cardinality(Ends(s))
         /\ Lines!Rest(s) = SubSeq(s, b + 1, Len(s))
<1>1. \A r \in Ends(s) : r < b
  BY StartOfLine, EndsFacts
<1>2. {q \in Ends(s) : q < b} = Ends(s)
  BY <1>1
<1>3. Before(s, b) = Cardinality(Ends(s)) /\ Before(s, b) = Lines!Cardinality(Lines!LineEnds(s))
  BY <1>2, SameCardinality, Zenon DEF Before, Ends
<1>4. Lines!Rest(s) = SubSeq(s, b + 1, Len(s))
  BY <1>3, StartOfLine, Zenon DEF Lines!Rest
<1> QED
  BY <1>1, <1>3, <1>4

-----------------------------------------------------------------------------
(* The tokenizer.                                                           *)

\* std::string::find returns the first line end from a position, or none.
LEMMA FindIs ==
  ASSUME NEW r \in Seq(Character), NEW from \in Nat \ {0}
  PROVE  \/ Find(r, from) = NPos /\ \A p \in Ends(r) : p < from
         \/ /\ Find(r, from) \in Ends(r) /\ from <= Find(r, from)
            /\ \A p \in Ends(r) : ~ (from <= p /\ p < Find(r, from))
<1> DEFINE E == {p \in from..(Len(r) - 1) : r[p] = CR /\ r[p + 1] = LF}
<1>1. Find(r, from) = IF E = {} THEN NPos ELSE CHOOSE p \in E : \A q \in E : p <= q
  BY DEF Find
<1>2. \A p : p \in E <=> p \in Ends(r) /\ from <= p
  BY EndsFacts
<1>3. E \subseteq Nat
  OBVIOUS
<1> HIDE DEF E
<1>4. CASE E = {}
  BY <1>1, <1>2, <1>4, EndsFacts
<1>5. CASE E # {}
  <2>1. \E m \in E : \A n \in E : m <= n
    BY <1>3, <1>5, Least
  <2>2. Find(r, from) \in E /\ \A n \in E : Find(r, from) <= n
    BY <1>1, <1>5, <2>1
  <2> QED
    BY <1>2, <1>3, <2>2, EndsFacts
<1> QED
  BY <1>4, <1>5

\* A part of a sequence, by its elements.
LEMMA Part ==
  ASSUME NEW s \in Seq(Character), NEW i \in Nat, NEW j \in i..Len(s)
  PROVE  /\ SubSeq(s, i + 1, j) \in Seq(Character) /\ Len(SubSeq(s, i + 1, j)) = j - i
         /\ \A l \in 1..(j - i) : SubSeq(s, i + 1, j)[l] = s[i + l]
<1>1. \A l \in (i + 1)..j : s[l] \in Character
  <2>1. \A l \in (i + 1)..j : l \in 1..Len(s)
    OBVIOUS
  <2> QED
    BY <2>1, ElementOfSeq
<1>2. /\ SubSeq(s, i + 1, j) \in Seq(Character)
      /\ Len(SubSeq(s, i + 1, j)) = IF i + 1 <= j THEN j - (i + 1) + 1 ELSE 0
      /\ \A l \in 1..(j - (i + 1) + 1) : SubSeq(s, i + 1, j)[l] = s[(i + 1) + l - 1]
  <2> DEFINE m == i + 1
  <2>1. m \in Int /\ j \in Int /\ \A l \in m..j : s[l] \in Character
    BY <1>1
  <2> HIDE DEF m
  <2>2. /\ SubSeq(s, m, j) \in Seq(Character)
        /\ Len(SubSeq(s, m, j)) = IF m <= j THEN j - m + 1 ELSE 0
        /\ \A l \in 1..(j - m + 1) : SubSeq(s, m, j)[l] = s[m + l - 1]
    BY <2>1, SubSeqProperties
  <2> QED
    BY <2>2, Zenon DEF m
<1>3. j - (i + 1) + 1 = j - i /\ (~ i + 1 <= j => j - i = 0)
      /\ \A l \in 1..(j - i) : (i + 1) + l - 1 = i + l
  OBVIOUS
<1> QED
  BY <1>2, <1>3, Zenon

\* A line end of the text that is left is one of what was received.
LEMMA EndsOfRest ==
  ASSUME NEW s \in Seq(Character), NEW b \in 0..Len(s), NEW p \in Nat \ {0}
  PROVE  p \in Ends(SubSeq(s, b + 1, Len(s))) <=> b + p \in Ends(s)
<1> DEFINE r == SubSeq(s, b + 1, Len(s))
<1>1. r \in Seq(Character) /\ Len(r) = Len(s) - b /\ \A i \in 1..Len(r) : r[i] = s[b + i]
  <2>1. b \in Nat /\ Len(s) \in b..Len(s)
    OBVIOUS
  <2> QED
    BY <2>1, Part
<1> HIDE DEF r
<1>2. p \in Ends(r) <=> p \in 1..(Len(r) - 1) /\ r[p] = CR /\ r[p + 1] = LF
  <2>1. Ends(r) = {q \in 1..(Len(r) - 1) : r[q] = CR /\ r[q + 1] = LF}
    BY <1>1, EndsFacts
  <2> QED
    BY <2>1
<1>3. b + p \in Ends(s) <=> b + p \in 1..(Len(s) - 1) /\ s[b + p] = CR /\ s[b + p + 1] = LF
  <2>1. Ends(s) = {q \in 1..(Len(s) - 1) : s[q] = CR /\ s[q + 1] = LF}
    BY EndsFacts
  <2> QED
    BY <2>1
<1>4. p \in 1..(Len(r) - 1) => r[p] = s[b + p] /\ r[p + 1] = s[b + p + 1]
  BY <1>1
<1> QED
  <2>1. p \in 1..(Len(r) - 1) <=> b + p \in 1..(Len(s) - 1)
    BY <1>1
  <2>2. p \in Ends(r) <=> b + p \in Ends(s)
    BY <1>2, <1>3, <1>4, <2>1
  <2> QED
    BY <2>2 DEF r

\* No line of s ends after position c, where its rest starts.
Passed(s, c) ==
  /\ \A p \in Ends(s) : p < c
  /\ Before(s, c) = Cardinality(Ends(s))
  /\ Lines!Rest(s) = SubSeq(s, c + 1, Len(s))

\* Line m + 1 of s is the one from position from of the text r that starts after position
\* b of s, and f is where it ends in r.
Found(s, b, r, from, f, m) ==
  /\ f + 2 \in 3..(Len(r) + 1)
  /\ b + (f + 2) - 2 \in Ends(s)
  /\ Before(s, b + (f + 2) - 1) = m + 1
  /\ m + 1 \in 1..Cardinality(Ends(s))
  /\ SubSeq(r, from, f - 1) = Lines!Lines(s)[m + 1]
  /\ SubSeq(r, from, f - 1) \in Seq(Character)

\* From the start of a line, the tokenizer finds that line, or that none is complete.
LEMMA Scan ==
  ASSUME NEW s \in Seq(Character), NEW b \in 0..Len(s), NEW r, r = SubSeq(s, b + 1, Len(s)),
         NEW from \in 1..(Len(r) + 1), NEW c, c = b + from - 1, LineStart(s, c)
  PROVE  /\ Find(r, from) = NPos => Passed(s, c)
         /\ Find(r, from) # NPos => Found(s, b, r, from, Find(r, from), Before(s, c))
<1> DEFINE f == Find(r, from)
<1>1. r \in Seq(Character) /\ Len(r) = Len(s) - b /\ c \in Nat /\ from \in Nat \ {0}
      /\ c + 1 = b + from
  OBVIOUS
<1>2. \A p \in Nat \ {0} : p \in Ends(r) <=> b + p \in Ends(s)
  BY EndsOfRest
<1>3. \A q \in Ends(s) : c < q => q - b \in Nat \ {0} /\ q - b \in Ends(r) /\ from <= q - b
                                  /\ q = b + (q - b)
  <2>1. \A q \in Ends(s) : q \in Int /\ (c < q => q - b \in Nat \ {0} /\ q = b + (q - b) /\ from <= q - b)
    BY EndsRange
  <2> QED
    BY <1>2, <2>1
<1>4. \A p \in Ends(r) : p \in Nat \ {0} /\ p < Len(r)
  <2>1. r \in Seq(Character)
    BY <1>1
  <2>2. \A p \in Ends(r) : p \in Nat /\ 0 < p /\ p < Len(r)
    BY <2>1, EndsRange, Zenon
  <2> QED
    BY <2>2
<1>5. CASE f = NPos /\ \A p \in Ends(r) : p < from
  <2>1. \A q \in Ends(s) : ~ c < q
    BY <1>1, <1>3, <1>4, <1>5
  <2>2. Passed(s, c)
    BY <1>1, <2>1, LastLine DEF Passed
  <2> QED
    BY <1>5, <2>2
<1>6. CASE f \in Ends(r) /\ from <= f /\ \A p \in Ends(r) : ~ (from <= p /\ p < f)
  <2>1. f \in from..(Len(r) - 1) /\ b + f \in Ends(s) /\ c < b + f
    <3> HIDE DEF f
    <3>1. f \in Nat \ {0} /\ f < Len(r) /\ from <= f
      BY <1>4, <1>6
    <3>2. Len(r) \in Nat
      BY <1>1
    <3> QED
      BY <1>2, <1>6, <3>1, <3>2
  <2>2. \A q \in Ends(s) : ~ (c < q /\ q < b + f)
    <3>1. ASSUME NEW q \in Ends(s), c < q, q < b + f
          PROVE  FALSE
      <4>1. q - b \in Ends(r) /\ from <= q - b /\ q - b < f
        BY <1>3, <1>4, <1>6, <3>1, EndsFacts
      <4> QED
        BY <1>6, <4>1
    <3> QED
      BY <3>1
  <2>3. /\ Before(s, c) + 1 \in 1..Cardinality(Ends(s))
        /\ Lines!Lines(s)[Before(s, c) + 1] = SubSeq(s, c + 1, b + f - 1)
        /\ Before(s, b + f + 1) = Before(s, c) + 1
    <3> HIDE DEF f
    <3>1. PICK e : e = b + f
      OBVIOUS
    <3>2. e \in Ends(s) /\ c < e /\ (\A q \in Ends(s) : ~ (c < q /\ q < e)) /\ c \in Nat
      BY <1>1, <2>1, <2>2, <3>1
    <3>3. /\ Before(s, c) + 1 \in 1..Cardinality(Ends(s))
          /\ Lines!Lines(s)[Before(s, c) + 1] = SubSeq(s, c + 1, e - 1)
          /\ Before(s, e + 1) = Before(s, c) + 1
      BY <3>2, NextLine
    <3>4. e + 1 = b + f + 1 /\ e - 1 = b + f - 1
      <4>1. f \in Int /\ b \in Int
        BY <2>1, <1>1
      <4> QED
        BY <3>1, <4>1
    <3>5. Before(s, b + f + 1) = Before(s, e + 1)
      BY <3>4, Zenon
    <3>6. SubSeq(s, c + 1, b + f - 1) = SubSeq(s, c + 1, e - 1)
      BY <3>4, Zenon
    <3> QED
      BY <3>3, <3>5, <3>6, Zenon
  <2>4. SubSeq(r, from, f - 1) = SubSeq(s, c + 1, b + f - 1)
    <3>1. from \in Int /\ f \in Int /\ f - 1 <= Len(r)
      BY <1>1, <2>1
    <3> HIDE DEF f
    <3> QED
      BY <1>1, <3>1
  <2>5. /\ f + 2 \in 3..(Len(r) + 1) /\ b + (f + 2) - 2 = b + f /\ b + (f + 2) - 1 = b + f + 1
        /\ f # NPos /\ f - 1 \in 0..Len(r) /\ from - 1 \in Nat
    <3> HIDE DEF f
    <3>1. f \in Nat \ {0} /\ from \in Nat /\ from <= f /\ f <= Len(r) - 1 /\ Len(r) \in Nat
      BY <1>1, <2>1
    <3> QED
      BY <1>1, <3>1 DEF NPos
  <2>6. SubSeq(r, from, f - 1) \in Seq(Character)
    <3> HIDE DEF f
    <3>4. from \in Nat \ {0} /\ Len(r) \in Nat /\ f - 1 \in 0..Len(r)
      BY <1>1, <2>5
    <3>1. \A i \in from..(f - 1) : i \in 1..Len(r)
      BY <3>4
    <3>2. \A i \in from..(f - 1) : r[i] \in Character
      BY <1>1, <3>1, ElementOfSeq
    <3>3. from \in Int /\ f - 1 \in Int
      BY <3>4
    <3> QED
      BY <3>2, <3>3, SubSeqProperties
  <2> HIDE DEF f
  <2>7. Found(s, b, r, from, f, Before(s, c))
    BY <2>1, <2>3, <2>4, <2>5, <2>6, Zenon DEF Found
  <2> QED
    BY <2>5, <2>7 DEF f
<1>7. \/ f = NPos /\ \A p \in Ends(r) : p < from
      \/ f \in Ends(r) /\ from <= f /\ \A p \in Ends(r) : ~ (from <= p /\ p < f)
  BY <1>1, FindIs
<1> QED
  BY <1>5, <1>6, <1>7

-----------------------------------------------------------------------------
(* The invariant.                                                           *)

base == taken - Len(remainder_)
k == Len(replies)

\* What is not tokenized is the end of what was received.
TextInv ==
  /\ TypeOK
  /\ remainder_ \in Seq(Character) /\ Len(remainder_) <= taken
  /\ remainder_ = SubSeq(received, base + 1, taken)
  /\ token_ \in Seq(Character)
  /\ replies \in Seq({Reply(l) : l \in Seq(Character)})
  /\ pc = "reading" => AtEnd

\* Past the last token all lines are answered, and a line starts where the text does.
PassedInv ==
  AtEnd =>
    /\ LineStart(received, base)
    /\ \A p \in Ends(received) : p < base
    /\ k = Before(received, base)
    /\ k = Cardinality(Ends(received))
    /\ remainder_ = Lines!Rest(received)

\* A token is the first line that is not answered, and it ends before the offset.
TokenInv ==
  ~ AtEnd =>
    /\ base + offset_ - 2 \in Ends(received)
    /\ Before(received, base + offset_ - 1) = k + 1
    /\ k + 1 \in 1..Cardinality(Ends(received))
    /\ token_ = Lines!Lines(received)[k + 1]

IInv == TextInv /\ PassedInv /\ TokenInv

\* What was received is a sequence of the length read.
LEMMA ReceivedFacts ==
  ASSUME TypeOK
  PROVE  /\ stream \in Seq(Character) /\ received \in Seq(Character) /\ Len(received) = taken
         /\ \A i \in 1..taken : received[i] = stream[i]
<1>1. stream \in Seq(Character) /\ taken \in 0..Len(stream)
  BY CharacterAssumption DEF TypeOK
<1> QED
  BY <1>1 DEF received

\* More text has the ends of the text before, and none of the new ones is before its end.
LEMMA EndsOfMore ==
  ASSUME NEW s \in Seq(Character), NEW t \in Seq(Character), Len(s) <= Len(t),
         \A i \in 1..Len(s) : s[i] = t[i]
  PROVE  /\ Ends(s) \subseteq Ends(t)
         /\ \A p \in Ends(t) : p \in Ends(s) \/ Len(s) <= p
<1>1. Ends(s) = {q \in 1..(Len(s) - 1) : s[q] = CR /\ s[q + 1] = LF}
  BY EndsFacts
<1>2. Ends(t) = {q \in 1..(Len(t) - 1) : t[q] = CR /\ t[q + 1] = LF}
  BY EndsFacts
<1>3. Len(s) \in Nat /\ Len(t) \in Nat
  OBVIOUS
<1>4. ASSUME NEW q \in 1..(Len(s) - 1)
      PROVE  q \in 1..(Len(t) - 1) /\ s[q] = t[q] /\ s[q + 1] = t[q + 1]
  BY <1>3
<1>5. Ends(s) \subseteq Ends(t)
  BY <1>1, <1>2, <1>4
<1>6. ASSUME NEW p \in Ends(t), ~ Len(s) <= p
      PROVE  p \in Ends(s)
  <2>1. p \in 1..(Len(s) - 1) /\ t[p] = CR /\ t[p + 1] = LF
    BY <1>2, <1>3, <1>6
  <2> QED
    BY <1>1, <1>4, <2>1
<1> QED
  BY <1>5, <1>6

\* The invariant holds initially.
LEMMA InitHolds == Init => IInv
<1> SUFFICES ASSUME Init PROVE IInv
  OBVIOUS
<1>1. stream \in Seq(Character) /\ Len(stream) \in Nat /\ taken = 0 /\ remainder_ = <<>>
      /\ token_ = <<>> /\ replies = <<>>
  BY CharacterAssumption DEF Init, NoToken
<1>2. TypeOK
  BY <1>1 DEF Init, TypeOK, NPos
<1>3. received \in Seq(Character) /\ Len(received) = 0
  BY <1>1 DEF received
<1>9. received = <<>> /\ Len(remainder_) = 0 /\ Len(replies) = 0
  BY <1>1, <1>3
<1>10. base = 0 /\ k = 0
  <2>1. \A n : n = 0 => taken - n = 0
    BY <1>1
  <2> QED
    BY <1>9, <2>1, Zenon DEF base, k
<1>4. TextInv
  <2>1. SubSeq(received, base + 1, taken) = <<>>
    BY <1>1, <1>3, <1>10
  <2>2. /\ remainder_ \in Seq(Character) /\ Len(remainder_) <= taken /\ token_ \in Seq(Character)
        /\ replies \in Seq({Reply(l) : l \in Seq(Character)})
    BY <1>1, <1>9
  <2> QED
    BY <1>1, <1>2, <2>1, <2>2 DEF TextInv, Init, AtEnd
<1>5. Ends(received) = {}
  <2>1. \A p \in Ends(received) : p \in Nat /\ 0 < p /\ p < 0
    BY <1>3, EndsRange
  <2> QED
    BY <2>1
<1>6. base \in Nat /\ LineStart(received, base) /\ \A r \in Ends(received) : ~ base < r
  BY <1>5, <1>10 DEF LineStart
<1>7. Before(received, base) = Cardinality(Ends(received))
      /\ Lines!Rest(received) = SubSeq(received, base + 1, Len(received))
  BY <1>3, <1>6, LastLine
<1>8. Lines!Rest(received) = <<>> /\ Cardinality(Ends(received)) = 0
  BY <1>3, <1>5, <1>7, <1>10, FS_EmptySet
<1> QED
  BY <1>1, <1>4, <1>5, <1>6, <1>7, <1>8, <1>10 DEF IInv, PassedInv, TokenInv, AtEnd, Init

\* The end of a prefix of u is a part of u.
LEMMA EndOfPrefix ==
  ASSUME NEW u \in Seq(Character), NEW a \in 0..Len(u), NEW b \in 0..a
  PROVE  SubSeq(SubSeq(u, 1, a), b + 1, a) = SubSeq(u, b + 1, a)
<1>1. CASE b = a
  BY <1>1, SubSeqEmpty
<1>2. CASE b # a
  <2>1. 1 \in 1..Len(u) /\ a \in 1..Len(u) /\ b + 1 \in 1..(a - 1 + 1) /\ a \in 1..(a - 1 + 1)
    BY <1>2
  <2>2. SubSeq(SubSeq(u, 1, a), b + 1, a) = SubSeq(u, 1 + (b + 1) - 1, 1 + a - 1)
    BY <2>1, SubSeqOfSubSeq
  <2>3. 1 + (b + 1) - 1 = b + 1 /\ 1 + a - 1 = a
    OBVIOUS
  <2> QED
    BY <2>2, <2>3, Zenon
<1> QED
  BY <1>1, <1>2

\* The end of the end of s is an end of s.
LEMMA EndOfEnd ==
  ASSUME NEW s \in Seq(Character), NEW b \in 0..Len(s), NEW o \in 1..(Len(s) - b + 1)
  PROVE  SubSeq(SubSeq(s, b + 1, Len(s)), o, Len(s) - b) = SubSeq(s, b + o, Len(s))
<1>1. CASE o = Len(s) - b + 1
  BY <1>1, SubSeqEmpty
<1>2. CASE o # Len(s) - b + 1
  <2> DEFINE l == Len(s)
             n == l - b
  <2>1. l \in Nat /\ b + 1 \in 1..l /\ l \in 1..l /\ o \in 1..(l - (b + 1) + 1)
        /\ n \in 1..(l - (b + 1) + 1) /\ (b + 1) + o - 1 = b + o /\ (b + 1) + n - 1 = l
    BY <1>2
  <2> HIDE DEF n
  <2>2. SubSeq(SubSeq(s, b + 1, l), o, n) = SubSeq(s, (b + 1) + o - 1, (b + 1) + n - 1)
    BY <2>1, SubSeqOfSubSeq
  <2> QED
    BY <2>1, <2>2, Zenon DEF n
<1> QED
  BY <1>1, <1>2

\* Reading n bytes more extends the text by what it is appended.
LEMMA Extends ==
  ASSUME NEW u \in Seq(Character), NEW a \in 0..Len(u), NEW b \in 0..a,
         NEW n \in Nat, a + n <= Len(u)
  PROVE  SubSeq(SubSeq(u, 1, a), b + 1, a) \o SubSeq(u, a + 1, a + n)
           = SubSeq(SubSeq(u, 1, a + n), b + 1, a + n)
<1>1. SubSeq(SubSeq(u, 1, a), b + 1, a) = SubSeq(u, b + 1, a)
  BY EndOfPrefix
<1> DEFINE c == a + n
<1>2. c \in 0..Len(u) /\ b \in 0..c
  OBVIOUS
<1>3. b + 1 \in 1..(Len(u) + 1) /\ a \in ((b + 1) - 1)..Len(u) /\ c \in a..Len(u)
  OBVIOUS
<1> HIDE DEF c
<1>4. SubSeq(SubSeq(u, 1, c), b + 1, c) = SubSeq(u, b + 1, c)
  BY <1>2, EndOfPrefix
<1>5. SubSeq(u, b + 1, a) \o SubSeq(u, a + 1, c) = SubSeq(u, b + 1, c)
  BY <1>3, ConcatAdjacentSubSeq
<1> QED
  BY <1>1, <1>4, <1>5, Zenon DEF c

\* A read extends the text by what it appends to what is not tokenized.
LEMMA ReadExtends ==
  ASSUME IInv, NEW n \in 1..BufferSize, OnRead(n),
         NEW r, r = remainder_ \o SubSeq(stream, taken + 1, taken + n)
  PROVE  /\ r \in Seq(Character) /\ Len(r) = Len(remainder_) + n
         /\ r = SubSeq(received', base + 1, taken + n)
         /\ received' \in Seq(Character) /\ Len(received') = taken + n
         /\ \A i \in 1..Len(received) : received[i] = received'[i]
         /\ taken' = taken + n /\ taken + n <= Len(stream) /\ stream' = stream
<1>1. /\ stream \in Seq(Character) /\ taken \in 0..Len(stream) /\ n \in Nat \ {0}
      /\ remainder_ \in Seq(Character) /\ Len(remainder_) <= taken
      /\ remainder_ = SubSeq(received, base + 1, taken)
      /\ received \in Seq(Character) /\ Len(received) = taken
      /\ \A i \in 1..taken : received[i] = stream[i]
  <2>1. TypeOK /\ TextInv
    BY DEF IInv, TextInv
  <2>2. stream \in Seq(Character) /\ received \in Seq(Character) /\ Len(received) = taken
        /\ \A i \in 1..taken : received[i] = stream[i]
    BY <2>1, ReceivedFacts
  <2>3. taken \in 0..Len(stream)
    BY <2>1 DEF TypeOK
  <2>4. n \in Nat \ {0}
    BY BufferAssumption
  <2> QED
    BY <2>1, <2>2, <2>3, <2>4 DEF TextInv
<1>2. taken' = taken + n /\ taken + n <= Len(stream) /\ stream' = stream
  BY DEF OnRead
<1>3. received' = SubSeq(stream, 1, taken + n)
  BY <1>2, Zenon DEF received
<1>4. received' \in Seq(Character) /\ Len(received') = taken + n
      /\ \A i \in 1..(taken + n) : received'[i] = stream[i]
  <2> DEFINE m == taken + n
  <2>1. m \in 0..Len(stream)
    BY <1>1, <1>2
  <2> HIDE DEF m
  <2>2. received' = SubSeq(stream, 0 + 1, m) /\ m - 0 = m /\ \A i \in 1..m : 0 + i = i
    BY <1>3, <2>1 DEF m
  <2>3. /\ SubSeq(stream, 0 + 1, m) \in Seq(Character) /\ Len(SubSeq(stream, 0 + 1, m)) = m - 0
        /\ \A i \in 1..(m - 0) : SubSeq(stream, 0 + 1, m)[i] = stream[0 + i]
    <3>1. stream \in Seq(Character) /\ 0 \in Nat
      BY <1>1
    <3> QED
      BY <2>1, <3>1, Part
  <2> QED
    BY <2>2, <2>3 DEF m
<1>5. base \in 0..taken
  BY <1>1 DEF base
<1>6. SubSeq(SubSeq(stream, 1, taken), base + 1, taken) \o SubSeq(stream, taken + 1, taken + n)
        = SubSeq(SubSeq(stream, 1, taken + n), base + 1, taken + n)
  <2>1. n \in Nat /\ stream \in Seq(Character) /\ taken \in 0..Len(stream)
    BY <1>1
  <2> QED
    BY <1>2, <1>5, <2>1, Extends
<1>7. r = SubSeq(received', base + 1, taken + n)
  BY <1>1, <1>3, <1>6, Zenon DEF received
<1>8. r \in Seq(Character) /\ Len(r) = Len(remainder_) + n
  <2>1. SubSeq(stream, taken + 1, taken + n) \in Seq(Character)
        /\ Len(SubSeq(stream, taken + 1, taken + n)) = n
    <3> DEFINE m == taken + n
    <3>1. stream \in Seq(Character) /\ taken \in Nat /\ m \in taken..Len(stream) /\ m - taken = n
      BY <1>1, <1>2
    <3> HIDE DEF m
    <3>2. SubSeq(stream, taken + 1, m) \in Seq(Character)
          /\ Len(SubSeq(stream, taken + 1, m)) = m - taken
      BY <3>1, Part
    <3> QED
      BY <3>1, <3>2 DEF m
  <2> DEFINE q == SubSeq(stream, taken + 1, taken + n)
  <2>2. r = remainder_ \o q /\ q \in Seq(Character) /\ Len(q) = n
    BY <2>1
  <2> HIDE DEF q
  <2>3. remainder_ \in Seq(Character) /\ q \in Seq(Character)
    BY <1>1, <2>2
  <2>4. remainder_ \o q \in Seq(Character) /\ Len(remainder_ \o q) = Len(remainder_) + Len(q)
    BY <2>3, ConcatProperties
  <2> QED
    BY <2>2, <2>4
<1>9. \A i \in 1..Len(received) : received[i] = received'[i]
  <2>1. Len(received) = taken /\ taken \in Nat /\ n \in Nat
        /\ \A i \in 1..taken : received[i] = stream[i]
    BY <1>1
  <2>2. \A i \in 1..Len(received) : i \in 1..taken /\ i \in 1..(taken + n)
    BY <2>1
  <2> QED
    BY <1>4, <2>1, <2>2
<1> QED
  BY <1>2, <1>4, <1>7, <1>8, <1>9, Zenon

\* A read keeps the invariant.
LEMMA ReadKeeps ==
  ASSUME IInv, NEW n \in 1..BufferSize, OnRead(n)
  PROVE  IInv'
<1> DEFINE r == remainder_ \o SubSeq(stream, taken + 1, taken + n)
           s == received
           t == received'
<1>1. /\ r \in Seq(Character) /\ Len(r) = Len(remainder_) + n
      /\ r = SubSeq(t, base + 1, taken + n)
      /\ t \in Seq(Character) /\ Len(t) = taken + n
      /\ \A i \in 1..Len(s) : s[i] = t[i]
      /\ taken' = taken + n /\ taken + n <= Len(stream) /\ stream' = stream
  BY ReadExtends
<1>2. /\ s \in Seq(Character) /\ Len(s) = taken /\ taken \in Nat /\ n \in Nat \ {0}
      /\ Len(remainder_) \in Nat /\ base \in 0..taken /\ base + Len(remainder_) = taken
  <2>1. TypeOK /\ remainder_ \in Seq(Character) /\ Len(remainder_) <= taken
    BY DEF IInv, TextInv
  <2>2. s \in Seq(Character) /\ Len(s) = taken /\ taken \in Nat
    BY <2>1, ReceivedFacts DEF TypeOK
  <2>3. n \in Nat \ {0}
    BY BufferAssumption
  <2> QED
    BY <2>1, <2>2, <2>3 DEF base
<1>3. LineStart(s, base) /\ (\A p \in Ends(s) : p < base) /\ k = Cardinality(Ends(s))
  BY DEF IInv, TextInv, PassedInv, OnRead
<1>4. Begin(r) /\ pc' = "loop" /\ replies' = replies /\ client' = client
  BY DEF OnRead
<1> HIDE DEF r, s, t
<1>5. Ends(s) \subseteq Ends(t) /\ \A p \in Ends(t) : p \in Ends(s) \/ Len(s) <= p
  <2>1. Len(s) <= Len(t)
    BY <1>1, <1>2
  <2> QED
    BY <1>1, <1>2, <2>1, EndsOfMore
<1>6. {q \in Ends(t) : q < base} = Ends(s)
  <2>1. \A q \in Ends(t) : q \in Nat
    BY <1>1, EndsRange
  <2> QED
    BY <1>2, <1>3, <1>5, <2>1
<1>7. k = Before(t, base)
  BY <1>3, <1>6, Zenon DEF Before
<1>8. LineStart(t, base)
  BY <1>3, <1>5 DEF LineStart
<1>9. base' = base /\ k' = k /\ remainder_' = r
  <2>1. remainder_' = r
    BY <1>4 DEF Begin, Extract
  <2>2. base' = (taken + n) - Len(r)
    BY <1>1, <2>1, Zenon DEF base
  <2>3. (taken + n) - Len(r) = taken - Len(remainder_)
    BY <1>1, <1>2
  <2>4. k' = k
    BY <1>4 DEF k
  <2> QED
    BY <2>1, <2>2, <2>3, <2>4 DEF base
<1>10. /\ base \in 0..Len(t) /\ 1 \in 1..(Len(r) + 1) /\ base = base + 1 - 1
       /\ r = SubSeq(t, base + 1, Len(t))
  <2>1. Len(t) = taken + n /\ r = SubSeq(t, base + 1, taken + n) /\ Len(r) \in Nat
        /\ taken \in Nat /\ n \in Nat /\ base \in 0..taken
    BY <1>1, <1>2
  <2> QED
    BY <2>1
<1>11. r \in Seq(Character) /\ Len(r) <= taken' /\ received' = t
       /\ r = SubSeq(t, base' + 1, taken')
  BY <1>1, <1>2, <1>9 DEF t
<1>12. taken' \in 0..Len(stream') /\ stream' \in Streams /\ client' \in {"here", "gone"}
       /\ replies \in Seq({Reply(l) : l \in Seq(Character)})
  BY <1>1, <1>2, <1>4 DEF IInv, TextInv, TypeOK
<1>13. CASE Extract(r, 1)
  <2>1. token_' = SubSeq(r, 1, Find(r, 1) - 1) /\ offset_' = Find(r, 1) + 2 /\ Find(r, 1) # NPos
    BY <1>13 DEF Extract
  <2>2. /\ Find(r, 1) + 2 \in 3..(Len(r) + 1)
        /\ base + (Find(r, 1) + 2) - 2 \in Ends(t)
        /\ Before(t, base + (Find(r, 1) + 2) - 1) = k + 1
        /\ k + 1 \in 1..Cardinality(Ends(t))
        /\ SubSeq(r, 1, Find(r, 1) - 1) = Lines!Lines(t)[k + 1]
        /\ SubSeq(r, 1, Find(r, 1) - 1) \in Seq(Character)
    <3>1. Found(t, base, r, 1, Find(r, 1), Before(t, base))
      BY <1>1, <1>8, <1>10, <2>1, Scan
    <3>2. Found(t, base, r, 1, Find(r, 1), k)
      BY <1>7, <3>1, Zenon
    <3> QED
      BY <3>2, Zenon DEF Found
  <2>3. TypeOK'
    BY <1>4, <1>9, <1>12, <2>1, <2>2 DEF TypeOK
  <2>4. TextInv'
    BY <1>4, <1>9, <1>11, <1>12, <2>1, <2>2, <2>3 DEF TextInv, AtEnd
  <2>5. TokenInv'
    BY <1>9, <1>11, <2>1, <2>2, Zenon DEF TokenInv
  <2>6. PassedInv'
    BY <2>1, <2>2 DEF PassedInv, AtEnd, NPos
  <2> QED
    BY <2>4, <2>5, <2>6 DEF IInv
<1>14. CASE Find(r, 1) = NPos /\ token_' = NoToken /\ offset_' = NPos
  <2>1. /\ \A p \in Ends(t) : p < base
        /\ Before(t, base) = Cardinality(Ends(t))
        /\ Lines!Rest(t) = SubSeq(t, base + 1, Len(t))
    <3>1. t \in Seq(Character)
      BY <1>1
    <3>2. Passed(t, base)
      BY <1>8, <1>10, <1>14, <3>1, Scan
    <3> QED
      BY <3>2, Zenon DEF Passed
  <2>2. TypeOK'
    BY <1>4, <1>9, <1>12, <1>14 DEF TypeOK
  <2>3. TextInv'
    BY <1>4, <1>9, <1>11, <1>12, <1>14, <2>2 DEF TextInv, NoToken, AtEnd
  <2>4. PassedInv'
    BY <1>7, <1>8, <1>9, <1>10, <1>11, <2>1, Zenon DEF PassedInv
  <2>5. TokenInv'
    BY <1>14 DEF TokenInv, AtEnd
  <2> QED
    BY <2>3, <2>4, <2>5 DEF IInv
<1> QED
  BY <1>4, <1>13, <1>14 DEF Begin

\* A command answers the line of its token, and the next line is looked for after it.
LEMMA CommandKeeps ==
  ASSUME IInv, OnCommand
  PROVE  IInv'
<1> DEFINE t == received
           c == base + offset_ - 1
<1>1. /\ ~ AtEnd /\ replies' = Append(replies, Reply(token_)) /\ NextToken
      /\ stream' = stream /\ taken' = taken /\ pc' = pc /\ client' = client /\ pc = "loop"
  BY DEF OnCommand
<1>2. TypeOK /\ TextInv /\ TokenInv
  BY DEF IInv, TextInv
<1>3. /\ t \in Seq(Character) /\ Len(t) = taken /\ taken \in Nat
      /\ Len(remainder_) \in Nat /\ base \in 0..taken /\ base + Len(remainder_) = taken
      /\ remainder_ \in Seq(Character) /\ remainder_ = SubSeq(t, base + 1, taken)
      /\ token_ \in Seq(Character) /\ replies \in Seq({Reply(l) : l \in Seq(Character)})
      /\ k \in Nat
  <2>1. TypeOK /\ remainder_ \in Seq(Character) /\ Len(remainder_) <= taken
    BY <1>2 DEF TextInv
  <2>2. t \in Seq(Character) /\ Len(t) = taken /\ taken \in Nat
    BY <2>1, ReceivedFacts DEF TypeOK
  <2>3. base \in 0..taken /\ base + Len(remainder_) = taken
    BY <2>1, <2>2 DEF base
  <2> QED
    BY <1>2, <2>1, <2>2, <2>3 DEF TextInv, k
<1>4. offset_ \in 3..(Len(remainder_) + 1)
  BY <1>1, <1>2 DEF TypeOK, AtEnd
<1>5. c \in 0..taken /\ c - 1 = base + offset_ - 2 /\ c + 1 = base + offset_ /\ 0 < offset_
  BY <1>3, <1>4
<1>6. /\ c - 1 \in Ends(t) /\ Before(t, c) = k + 1
      /\ k + 1 \in 1..Cardinality(Ends(t)) /\ token_ = Lines!Lines(t)[k + 1]
  BY <1>1, <1>2, <1>5 DEF TokenInv
<1>7. received' = t
  BY <1>1 DEF received
<1>8. k' = k + 1 /\ replies' \in Seq({Reply(l) : l \in Seq(Character)})
  BY <1>1, <1>3 DEF k
<1>9. LineStart(t, c)
  BY <1>6 DEF LineStart
<1> HIDE DEF t, c
<1>10. offset_ \in 1..(Len(remainder_) + 1) /\ c = base + offset_ - 1
       /\ base \in 0..Len(t) /\ remainder_ = SubSeq(t, base + 1, Len(t))
  BY <1>3, <1>4 DEF c
<1>11. CASE Extract(remainder_, offset_)
  <2> DEFINE f == Find(remainder_, offset_)
  <2>1. /\ token_' = SubSeq(remainder_, offset_, f - 1) /\ offset_' = f + 2 /\ f # NPos
        /\ remainder_' = remainder_
    BY <1>11 DEF Extract
  <2>2. /\ f + 2 \in 3..(Len(remainder_) + 1)
        /\ base + (f + 2) - 2 \in Ends(t)
        /\ Before(t, base + (f + 2) - 1) = (k + 1) + 1
        /\ (k + 1) + 1 \in 1..Cardinality(Ends(t))
        /\ SubSeq(remainder_, offset_, f - 1) = Lines!Lines(t)[(k + 1) + 1]
        /\ SubSeq(remainder_, offset_, f - 1) \in Seq(Character)
    <3>1. t \in Seq(Character) /\ f # NPos
      BY <1>3, <2>1
    <3>2. Found(t, base, remainder_, offset_, f, Before(t, c))
      BY <1>9, <1>10, <3>1, Scan
    <3>3. Found(t, base, remainder_, offset_, f, k + 1)
      BY <1>6, <3>2, Zenon
    <3> QED
      BY <3>3, Zenon DEF Found
  <2> HIDE DEF f
  <2>3. base' = base
    BY <1>1, <2>1 DEF base
  <2>4. TypeOK'
    BY <1>1, <1>2, <2>1, <2>2 DEF TypeOK
  <2>5. TextInv'
    BY <1>1, <1>2, <1>3, <1>7, <1>8, <2>1, <2>2, <2>3, <2>4 DEF TextInv, AtEnd
  <2>6. TokenInv'
    BY <1>7, <1>8, <2>1, <2>2, <2>3, Zenon DEF TokenInv
  <2>7. PassedInv'
    BY <2>1, <2>2 DEF PassedInv, AtEnd, NPos
  <2> QED
    BY <2>5, <2>6, <2>7 DEF IInv
<1>12. CASE /\ Find(remainder_, offset_) = NPos /\ token_' = NoToken /\ offset_' = NPos
            /\ remainder_' = SubSeq(remainder_, offset_, Len(remainder_))
  <2>1. /\ \A p \in Ends(t) : p < c
        /\ Before(t, c) = Cardinality(Ends(t))
        /\ Lines!Rest(t) = SubSeq(t, c + 1, Len(t))
    <3>1. t \in Seq(Character)
      BY <1>3
    <3> QED
      BY <1>9, <1>10, <1>12, <3>1, Scan DEF Passed
  <2>2. remainder_' \in Seq(Character) /\ Len(remainder_') = Len(remainder_) - (offset_ - 1)
    BY <1>3, <1>4, <1>12
  <2>3. base' = c
    <3>1. base' = taken - Len(remainder_')
      BY <1>1 DEF base
    <3> QED
      BY <1>3, <1>4, <2>2, <3>1 DEF c
  <2>4. remainder_' = SubSeq(t, c + 1, taken)
    <3>1. offset_ \in 1..(Len(t) - base + 1) /\ Len(remainder_) = Len(t) - base
          /\ Len(t) = taken
      BY <1>3, <1>4 DEF t
    <3>2. SubSeq(SubSeq(t, base + 1, Len(t)), offset_, Len(t) - base) = SubSeq(t, base + offset_, Len(t))
      BY <1>3, <1>10, <3>1, EndOfEnd
    <3> QED
      BY <1>5, <1>10, <1>12, <3>1, <3>2, Zenon
  <2>5. TypeOK'
    BY <1>1, <1>2, <1>12 DEF TypeOK
  <2>6. TextInv'
    <3>1. Len(remainder_') <= taken
      BY <1>3, <1>4, <2>2
    <3>2. AtEnd' /\ token_' \in Seq(Character)
      BY <1>12 DEF AtEnd, NoToken
    <3> QED
      BY <1>1, <1>7, <1>8, <2>2, <2>3, <2>4, <2>5, <3>1, <3>2, Zenon DEF TextInv
  <2>7. PassedInv'
    <3>1. Len(t) = taken
      BY <1>3 DEF t
    <3> QED
      BY <1>6, <1>7, <1>8, <1>9, <2>1, <2>3, <2>4, <3>1, Zenon DEF PassedInv
  <2>8. TokenInv'
    BY <1>12 DEF TokenInv, AtEnd
  <2> QED
    BY <2>6, <2>7, <2>8 DEF IInv
<1> QED
  BY <1>1, <1>11, <1>12 DEF NextToken

\* The other steps leave the text, the iterator and the replies alone.
LEMMA OthersKeep ==
  ASSUME IInv, UNCHANGED <<stream, taken, remainder_, iterator, replies>>,
         pc' \in {"reading", "loop", "closed", "terminated"}, client' \in {"here", "gone"},
         pc' = "reading" => AtEnd
  PROVE  IInv'
<1>1. /\ stream' = stream /\ taken' = taken /\ remainder_' = remainder_ /\ token_' = token_
      /\ offset_' = offset_ /\ replies' = replies
  BY DEF iterator
<1>2. received' = received /\ base' = base /\ k' = k /\ (AtEnd <=> AtEnd')
  BY <1>1 DEF received, base, k, AtEnd
<1>3. TypeOK'
  BY <1>1 DEF IInv, TextInv, TypeOK
<1>4. TextInv'
  BY <1>1, <1>2, <1>3, Zenon DEF IInv, TextInv
<1>5. PassedInv' /\ TokenInv'
  BY <1>1, <1>2, Zenon DEF IInv, PassedInv, TokenInv
<1> QED
  BY <1>4, <1>5 DEF IInv

\* Every step keeps the invariant.
LEMMA NextKeeps == IInv /\ [Next]_vars => IInv'
<1> SUFFICES ASSUME IInv, [Next]_vars PROVE IInv'
  OBVIOUS
<1>1. pc \in {"reading", "loop", "closed", "terminated"} /\ client \in {"here", "gone"}
      /\ (pc = "reading" => AtEnd)
  BY DEF IInv, TextInv, TypeOK
<1>2. ASSUME NEW n \in 1..BufferSize, OnRead(n) PROVE IInv'
  BY <1>2, ReadKeeps
<1>3. CASE OnReadError
  BY <1>1, <1>3, OthersKeep DEF OnReadError
<1>4. CASE OnQuit
  BY <1>1, <1>4, OthersKeep DEF OnQuit
<1>5. CASE OnCommand
  BY <1>5, CommandKeeps
<1>6. CASE OnWriteError
  BY <1>1, <1>6, OthersKeep DEF OnWriteError
<1>7. CASE AwaitRead
  BY <1>1, <1>7, OthersKeep DEF AwaitRead
<1>8. CASE Leave
  BY <1>1, <1>8, OthersKeep DEF Leave
<1>9. CASE UNCHANGED vars
  BY <1>1, <1>9, OthersKeep DEF vars
<1> QED
  BY <1>2, <1>3, <1>4, <1>5, <1>6, <1>7, <1>8, <1>9 DEF Next, Worker

\* The invariant holds in every state.
LEMMA Invariant == Spec => []IInv
<1>1. Init => IInv
  BY InitHolds
<1>2. IInv /\ [Next]_vars => IInv'
  BY NextKeeps
<1> QED
  BY <1>1, <1>2, PTL DEF Spec

\* Every variable of a connection stays in its range: the iterator of CommandTokenizer
\* never points outside the text it walks over, whatever the client sends.
THEOREM TypeCorrect == Spec => []TypeOK
<1>1. IInv => TypeOK
  BY DEF IInv, TextInv
<1> QED
  BY <1>1, Invariant, PTL

\* Between two reads the tokenizer holds exactly what was received after the last
\* complete line, for any cutting of the bytes and any size of the buffer.
THEOREM RestIsKept == Spec => []RemainderIsRest
<1>1. IInv => RemainderIsRest
  BY Zenon DEF IInv, TextInv, PassedInv, RemainderIsRest
<1> QED
  BY <1>1, Invariant, PTL

-----------------------------------------------------------------------------
(* The connection keeps the promise of the line protocol.                   *)

\* The complete lines are a sequence, with a line for each line end.
LEMMA LinesAreCounted ==
  ASSUME NEW s \in Seq(Character)
  PROVE  \E S : Lines!Lines(s) \in Seq(S) /\ Len(Lines!Lines(s)) = Cardinality(Ends(s))
<1> DEFINE L == Lines!Lines(s)
           N == Cardinality(Ends(s))
           S == {L[n] : n \in 1..N}
<1>1. N \in Nat
  BY EndsFacts
<1>2. Lines!Cardinality(Lines!LineEnds(s)) = N
  BY SameCardinality, Zenon DEF Ends
<1>3. L = [n \in 1..N |-> SubSeq(s, Lines!Start(s, n), Lines!End(s, n) - 1)]
  BY <1>2, Zenon DEF Lines!Lines
<1> HIDE DEF L, N
<1>4. L \in [1..N -> S]
  <2>1. DOMAIN L = 1..N /\ L = [n \in 1..N |-> L[n]]
    BY <1>3, Zenon
  <2> QED
    BY <2>1
<1>5. L \in Seq(S) /\ Len(L) = N
  BY <1>1, <1>4
<1> QED
  BY <1>5, Zenon DEF L, N

\* While there is a token, it is the line that is due.
LEMMA TokenIsDue ==
  ASSUME IInv, ~ AtEnd
  PROVE  Lines!Pending # <<>> /\ Head(Lines!Pending) = token_
<1>1. received \in Seq(Character)
  BY ReceivedFacts DEF IInv, TextInv
<1> DEFINE L == Lines!Lines(received)
<1>2. PICK S : L \in Seq(S) /\ Len(L) = Cardinality(Ends(received))
  BY <1>1, LinesAreCounted
<1>3. k + 1 \in 1..Len(L) /\ token_ = L[k + 1]
  BY <1>2 DEF IInv, TokenInv
<1> HIDE DEF L
<1>4. Len(L) \in (k + 1)..Len(L)
  BY <1>2, <1>3
<1>5. Head(SubSeq(L, k + 1, Len(L))) = L[k + 1]
  BY <1>2, <1>3, <1>4, HeadTailOfSubSeq
<1>6. SubSeq(L, k + 1, Len(L)) # <<>>
  <2> DEFINE P == SubSeq(L, k + 1, Len(L))
  <2>1. Len(P) = Len(L) - k /\ Len(L) - k # 0
    <3>1. Len(L) \in Nat /\ k + 1 \in 1..Len(L) /\ k \in Nat
      BY <1>2, <1>3 DEF k, IInv, TextInv
    <3>2. \A i \in (k + 1)..Len(L) : i \in 1..Len(L)
      BY <3>1
    <3>3. Len(P) = IF k + 1 <= Len(L) THEN Len(L) - (k + 1) + 1 ELSE 0
      <4>1. \A i \in (k + 1)..Len(L) : L[i] \in S
        BY <1>2, <3>2, ElementOfSeq
      <4> QED
        BY <3>1, <4>1, SubSeqProperties
    <3> QED
      BY <3>1, <3>3
  <2>2. Len(<<>>) = 0
    OBVIOUS
  <2> HIDE DEF P
  <2>3. P # <<>>
    BY <2>1, <2>2
  <2> QED
    BY <2>3 DEF P
<1> QED
  BY <1>3, <1>5, <1>6, Zenon DEF Lines!Pending, L, k

\* A read is a Receive of the protocol.
LEMMA ReadReceives ==
  ASSUME IInv, NEW n \in 1..BufferSize, OnRead(n)
  PROVE  Lines!Receive
<1>1. /\ received' \in Seq(Character) /\ Len(received') = taken + n
      /\ received \in Seq(Character) /\ Len(received) = taken
      /\ \A i \in 1..Len(received) : received[i] = received'[i]
  BY ReadExtends, ReceivedFacts DEF IInv, TextInv
<1>2. taken \in Nat /\ n \in Nat \ {0}
  <2>1. received \in Seq(Character) /\ Len(received) = taken
    BY <1>1
  <2> QED
    BY <2>1, BufferAssumption
<1> DEFINE s == received
           t == received'
<1>3. s # t
  BY <1>1, <1>2
<1>4. s = SubSeq(t, 1, Len(s))
  <2> HIDE DEF s, t
  <2>1. s \in Seq(Character) /\ t \in Seq(Character) /\ Len(s) \in Nat /\ Len(s) <= Len(t)
        /\ \A i \in 1..Len(s) : s[i] = t[i]
    BY <1>1, <1>2 DEF s, t
  <2>2. SubSeq(t, 1, Len(s)) \in Seq(Character) /\ Len(SubSeq(t, 1, Len(s))) = Len(s)
        /\ \A i \in 1..Len(s) : SubSeq(t, 1, Len(s))[i] = t[i]
    BY <2>1
  <2> QED
    BY <2>1, <2>2, SeqEqual
<1>5. Lines!IsStrictPrefix(received, received')
  BY <1>1, <1>2, <1>3, <1>4 DEF Lines!IsStrictPrefix, Lines!IsPrefix
<1> QED
  BY <1>5 DEF OnRead, Lines!Receive, Open

\* Every step is one of the protocol, or leaves what it speaks of alone.
LEMMA NextImplements ==
  IInv /\ [Next]_vars => [Lines!Next]_(Lines!linesVars)
<1> SUFFICES ASSUME IInv, [Next]_vars PROVE [Lines!Next]_(Lines!linesVars)
  OBVIOUS
<1>1. ASSUME NEW n \in 1..BufferSize, OnRead(n) PROVE Lines!Receive
  BY <1>1, ReadReceives
<1>2. CASE OnReadError
  <2>1. received' = received
    BY <1>2 DEF OnReadError, received
  <2>2. Lines!GiveUp
    BY <1>2, <2>1 DEF OnReadError, Lines!GiveUp, Open
  <2> QED
    BY <2>2 DEF Lines!Next
<1>3. CASE OnQuit
  <2>1. received' = received
    BY <1>3 DEF OnQuit, received
  <2>2. Lines!Quit
    BY <1>3, <2>1, TokenIsDue DEF OnQuit, Lines!Quit, Open
  <2> QED
    BY <2>2 DEF Lines!Next
<1>4. CASE OnCommand
  <2>1. received' = received
    BY <1>4 DEF OnCommand, received
  <2>2. Lines!Serve
    BY <1>4, <2>1, TokenIsDue DEF OnCommand, Lines!Serve, Open
  <2> QED
    BY <2>2 DEF Lines!Next
<1>5. CASE OnWriteError
  <2>1. received' = received
    BY <1>5 DEF OnWriteError, received
  <2>2. Lines!GiveUp
    BY <1>5, <2>1 DEF OnWriteError, Lines!GiveUp, Open
  <2> QED
    BY <2>2 DEF Lines!Next
<1>6. CASE AwaitRead
  BY <1>6 DEF AwaitRead, received, Open, Lines!linesVars
<1>7. CASE Leave
  <2>1. received' = received
    BY <1>7 DEF Leave, received
  <2>2. Lines!Leave
    BY <1>7, <2>1 DEF Leave, Lines!Leave, Open
  <2> QED
    BY <2>2 DEF Lines!Next
<1>8. CASE UNCHANGED vars
  BY <1>8 DEF vars, received, Open, Lines!linesVars
<1> QED
  BY <1>1, <1>2, <1>3, <1>4, <1>5, <1>6, <1>7, <1>8 DEF Next, Worker, Lines!Next

\* The handler of Worker::on_read and its CommandTokenizer implement the line protocol:
\* every complete line is answered, in order and once, up to a quit, and the connection is
\* given up only when the client has left, for any streams and any size of the buffer.
THEOREM LinesImplemented == Spec => ImplementsLines
<1>1. Init => Lines!Init
  <2> SUFFICES ASSUME Init PROVE Lines!Init
    OBVIOUS
  <2>1. stream \in Seq(Character) /\ taken = 0
    BY CharacterAssumption DEF Init
  <2>2. received = <<>>
    BY <2>1 DEF received
  <2> QED
    BY <2>2 DEF Init, Lines!Init, Open
<1>2. IInv /\ [Next]_vars => [Lines!Next]_(Lines!linesVars)
  BY NextImplements
<1> QED
  BY <1>1, <1>2, Invariant, PTL DEF Spec, ImplementsLines, Lines!Spec
=============================================================================
