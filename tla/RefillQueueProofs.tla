------------------------- MODULE RefillQueueProofs -------------------------
(***************************************************************************)
(* Proofs about RefillQueue, for any number of workers, any keys and any   *)
(* limit.                                                                  *)
(***************************************************************************)
EXTENDS RefillQueue, FiniteSetTheorems, SequenceTheorems, TLAPS

-----------------------------------------------------------------------------
(* Type correctness.                                                        *)

\* Counting modulo 2^w stays within the word.
LEMMA WordArithmetic ==
  /\ 0 \in 0..(Word - 1) /\ 0 \in 0..(Uint - 1)
  /\ \A n \in Int : n % Word \in 0..(Word - 1)
  /\ \A n \in Int : n % Uint \in 0..(Uint - 1)
<1>1. Word \in Nat \ {0} /\ Uint \in Nat \ {0}
  BY LimitAssumption
<1> QED
  BY <1>1

\* The queue, its byte counter and the workers of push_key keep their types.
THEOREM TypeCorrect == Spec => []TypeOK
<1>1. Init => TypeOK
  <2> SUFFICES ASSUME Init
               PROVE  TypeOK
    OBVIOUS
  <2>1. queue_ \in Seq(Key)
    BY EmptySeq DEF Init
  <2>2. /\ curr_size_ \in 0..(Word - 1) /\ queue_stat \in 0..(Uint - 1)
        /\ size \in [Worker -> 0..(Uint - 1)]
    BY WordArithmetic DEF Init
  <2>3. /\ step \in [Worker -> {"idle", "push", "report"}]
        /\ arg \in [Worker -> Key \cup {EmptyKey}]
        /\ \A w \in Worker : step[w] # "push"
    BY DEF Init
  <2>4. taking \in BOOLEAN /\ key \in Key \cup {EmptyKey}
    BY DEF Init
  <2> QED
    BY <2>1, <2>2, <2>3, <2>4 DEF TypeOK
<1>2. TypeOK /\ [Next]_vars => TypeOK'
  <2> SUFFICES ASSUME TypeOK, [Next]_vars
               PROVE  TypeOK'
    OBVIOUS
  <2> USE DEF TypeOK, queueVars, workerVars
  <2>1. ASSUME NEW w \in Worker, NEW k \in Key, CheckRoom(w, k)
        PROVE  TypeOK'
    BY <2>1 DEF CheckRoom
  <2>2. ASSUME NEW w \in Worker, Push(w)
        PROVE  TypeOK'
    <3>1. arg[w] \in Key
      BY <2>2 DEF Push
    <3>2. queue_' \in Seq(Key)
      <4>1. CASE arg[w] \in Range(queue_)
        BY <2>2, <4>1 DEF Push, Enqueue
      <4>2. CASE arg[w] \notin Range(queue_)
        <5>1. queue_' = Append(queue_, arg[w])
          BY <2>2, <4>2 DEF Push, Enqueue
        <5> QED
          BY <3>1, <5>1
      <4> QED
        BY <4>1, <4>2
    <3>3. curr_size_ + KeyLen[arg[w]] \in Int
      BY <3>1, KeyLenAssumption, LimitAssumption
    <3>4. curr_size_' \in 0..(Word - 1)
      BY <2>2, <3>3, WordArithmetic DEF Push, Enqueue
    <3>5. Len(queue_') % Uint \in 0..(Uint - 1)
      BY <3>2, WordArithmetic
    <3> QED
      BY <2>2, <3>2, <3>4, <3>5 DEF Push
  <2>3. ASSUME NEW w \in Worker, Report(w)
        PROVE  TypeOK'
    <3>1. 0 \in 0..(Uint - 1)
      BY WordArithmetic
    <3> QED
      BY <2>3, <3>1 DEF Report
  <2>4. CASE SeeNonEmpty
    BY <2>4 DEF SeeNonEmpty
  <2>5. CASE Pop
    <3>1. CASE queue_ = <<>>
      BY <2>5, <3>1 DEF Pop, Dequeue
    <3>2. CASE queue_ # <<>>
      <4>1. Head(queue_) \in Key /\ Tail(queue_) \in Seq(Key)
        BY <3>2
      <4>2. curr_size_ - KeyLen[Head(queue_)] \in Int
        BY <4>1, KeyLenAssumption, LimitAssumption
      <4>3. (curr_size_ - KeyLen[Head(queue_)]) % Word \in 0..(Word - 1)
        BY <4>2, WordArithmetic
      <4> QED
        BY <2>5, <3>2, <4>1, <4>3 DEF Pop, Dequeue
    <3> QED
      BY <3>1, <3>2
  <2>6. CASE Decline
    BY <2>6 DEF Decline
  <2>7. CASE UNCHANGED vars
    BY <2>7 DEF vars
  <2> QED
    BY <2>1, <2>2, <2>3, <2>4, <2>5, <2>6, <2>7 DEF Next
<1> QED
  BY <1>1, <1>2, PTL DEF Spec

-----------------------------------------------------------------------------
(* A worker that has seen room will push: it holds a place in advance.  The *)
(* inductive invariant counts these places together with the queued keys.   *)

\* The workers between the size check of push_key and the push.
Admitted == {w \in Worker : step[w] = "push"}

\* The last worker admitted saw a free place; the others hold one each.
PlacesBound ==
  Len(queue_) + Cardinality(Admitted) <= MaxQueue + Cardinality(Worker) - 1

\* At most all the workers are admitted at once.
LEMMA AdmittedFinite ==
  /\ IsFiniteSet(Admitted) /\ Cardinality(Admitted) \in Nat
  /\ Cardinality(Worker) \in Nat \ {0}
  /\ Cardinality(Admitted) <= Cardinality(Worker)
<1>1. IsFiniteSet(Admitted) /\ Cardinality(Admitted) <= Cardinality(Worker)
  BY WorkerAssumption, FS_Subset DEF Admitted
<1>2. Cardinality(Worker) \in Nat /\ Cardinality(Worker) # 0
  BY WorkerAssumption, FS_CardinalityType, FS_EmptySet
<1> QED
  BY <1>1, <1>2, FS_CardinalityType

\* A worker that checks is not one of those already admitted.
LEMMA AdmittedGrows ==
  ASSUME NEW w \in Worker, step[w] = "idle", TypeOK,
         step' = [step EXCEPT ![w] = "push"]
  PROVE  /\ Cardinality(Admitted') = Cardinality(Admitted) + 1
         /\ Cardinality(Admitted) <= Cardinality(Worker) - 1
<1>1. Admitted' = Admitted \cup {w} /\ w \notin Admitted
  BY DEF Admitted, TypeOK
<1>2. Cardinality(Admitted') = Cardinality(Admitted) + 1
  BY <1>1, AdmittedFinite, FS_AddElement
<1>3. Admitted' \subseteq Worker
  BY DEF Admitted
<1>4. Cardinality(Admitted') <= Cardinality(Worker)
  BY <1>3, WorkerAssumption, FS_Subset
<1> QED
  BY <1>2, <1>4, AdmittedFinite

\* A push gives its place up.
LEMMA AdmittedShrinks ==
  ASSUME NEW w \in Worker, step[w] = "push", TypeOK,
         step' = [step EXCEPT ![w] = "report"]
  PROVE  Cardinality(Admitted') = Cardinality(Admitted) - 1
<1>1. Admitted' = Admitted \ {w} /\ w \in Admitted
  BY DEF Admitted, TypeOK
<1> QED
  BY <1>1, AdmittedFinite, FS_RemoveElement

\* Every step keeps the places within the bound.
LEMMA PlacesStep == TypeOK /\ PlacesBound /\ [Next]_vars => PlacesBound'
<1> SUFFICES ASSUME TypeOK, PlacesBound, [Next]_vars
             PROVE  PlacesBound'
  OBVIOUS
<1>0. /\ Len(queue_) \in Nat /\ MaxQueue \in Nat
      /\ Cardinality(Admitted) \in Nat /\ Cardinality(Worker) \in Nat
  BY LimitAssumption, AdmittedFinite DEF TypeOK
<1> USE DEF queueVars, workerVars
<1>1. ASSUME NEW w \in Worker, NEW k \in Key, CheckRoom(w, k)
      PROVE  PlacesBound'
  <2>1. CASE HasRoom
    <3>1. Cardinality(Admitted') = Cardinality(Admitted) + 1
          /\ Cardinality(Admitted) <= Cardinality(Worker) - 1
      BY <1>1, <2>1, AdmittedGrows DEF CheckRoom
    <3>2. Len(queue_) <= MaxQueue - 1
      BY <1>0, <2>1 DEF HasRoom
    <3> QED
      BY <1>0, <1>1, <3>1, <3>2 DEF PlacesBound, CheckRoom
  <2>2. CASE ~ HasRoom
    BY <1>1, <2>2 DEF CheckRoom, PlacesBound, Admitted
  <2> QED
    BY <2>1, <2>2
<1>2. ASSUME NEW w \in Worker, Push(w)
      PROVE  PlacesBound'
  <2>1. Cardinality(Admitted') = Cardinality(Admitted) - 1
    BY <1>2, AdmittedShrinks DEF Push
  <2>2. arg[w] \in Key
    BY <1>2 DEF Push, TypeOK
  <2>3. Len(queue_') \in Nat /\ Len(queue_') <= Len(queue_) + 1
    BY <1>0, <1>2, <2>2 DEF Push, Enqueue, TypeOK
  <2> QED
    BY <1>0, <2>1, <2>3 DEF PlacesBound
<1>3. ASSUME NEW w \in Worker, Report(w)
      PROVE  PlacesBound'
  <2>1. Admitted' = Admitted
    BY <1>3 DEF Report, Admitted, TypeOK
  <2> QED
    BY <1>3, <2>1 DEF PlacesBound, Report
<1>4. CASE SeeNonEmpty \/ Decline
  BY <1>4 DEF SeeNonEmpty, Decline, PlacesBound, Admitted
<1>5. CASE Pop
  <2>1. Len(queue_') \in Nat /\ Len(queue_') <= Len(queue_)
    BY <1>0, <1>5 DEF Pop, Dequeue, TypeOK
  <2>2. Admitted' = Admitted
    BY <1>5 DEF Pop, Admitted
  <2> QED
    BY <1>0, <2>1, <2>2 DEF PlacesBound
<1>6. CASE UNCHANGED vars
  BY <1>6 DEF vars, PlacesBound, Admitted
<1> QED
  BY <1>1, <1>2, <1>3, <1>4, <1>5, <1>6 DEF Next

\* The queue outgrows its limit by less than the number of workers, although
\* push_key checks and pushes in two critical sections.
THEOREM Bounded == Spec => []QueueBound
<1>1. Init => PlacesBound
  <2> SUFFICES ASSUME Init
               PROVE  PlacesBound
    OBVIOUS
  <2>1. Admitted = {}
    BY DEF Init, Admitted
  <2>2. Cardinality(Admitted) = 0
    BY <2>1, FS_EmptySet
  <2> QED
    BY <2>2, AdmittedFinite, LimitAssumption DEF Init, PlacesBound
<1>2. TypeOK /\ PlacesBound => QueueBound
  BY AdmittedFinite, LimitAssumption DEF TypeOK, PlacesBound, QueueBound
<1> QED
  BY <1>1, <1>2, PlacesStep, TypeCorrect, PTL DEF Spec

-----------------------------------------------------------------------------
(* A key waits at most once, and the only consumer never pops in vain.      *)

\* The queue's find looks at every key, so it decides membership.
LEMMA AppendKeepsDistinct ==
  ASSUME NEW q \in Seq(Key), NEW k \in Key, k \notin Range(q),
         \A i, j \in 1..Len(q) : q[i] = q[j] => i = j
  PROVE  LET r == Append(q, k)
         IN  \A i, j \in 1..Len(r) : r[i] = r[j] => i = j
BY DEF Range

\* Neither does taking the first key make two others equal.
LEMMA TailKeepsDistinct ==
  ASSUME NEW q \in Seq(Key), q # <<>>,
         \A i, j \in 1..Len(q) : q[i] = q[j] => i = j
  PROVE  LET r == Tail(q)
         IN  \A i, j \in 1..Len(r) : r[i] = r[j] => i = j
OBVIOUS

\* Every step keeps the queued keys distinct.
LEMMA DistinctStep == TypeOK /\ NoDuplicates /\ [Next]_vars => NoDuplicates'
<1> SUFFICES ASSUME TypeOK, NoDuplicates, [Next]_vars
             PROVE  NoDuplicates'
  OBVIOUS
<1>1. CASE queue_' = queue_
  BY <1>1 DEF NoDuplicates
<1>2. ASSUME NEW w \in Worker, Push(w)
      PROVE  NoDuplicates'
  <2>1. arg[w] \in Key
    BY <1>2 DEF Push, TypeOK
  <2>2. CASE arg[w] \in Range(queue_)
    BY <1>1, <1>2, <2>2 DEF Push, Enqueue, queueVars
  <2>3. CASE arg[w] \notin Range(queue_)
    <3>1. queue_' = Append(queue_, arg[w])
      BY <1>2, <2>3 DEF Push, Enqueue
    <3> QED
      BY <2>1, <2>3, <3>1, AppendKeepsDistinct DEF NoDuplicates, TypeOK
  <2> QED
    BY <2>2, <2>3
<1>3. CASE Pop
  <2>1. CASE queue_ = <<>>
    BY <1>1, <1>3, <2>1 DEF Pop, Dequeue, queueVars
  <2>2. CASE queue_ # <<>>
    <3>1. queue_' = Tail(queue_)
      BY <1>3, <2>2 DEF Pop, Dequeue
    <3> QED
      BY <2>2, <3>1, TailKeepsDistinct DEF NoDuplicates, TypeOK
  <2> QED
    BY <2>1, <2>2
<1>4. \/ queue_' = queue_
      \/ Pop
      \/ \E w \in Worker : Push(w)
  BY DEF Next, vars, queueVars, CheckRoom, Report, SeeNonEmpty, Decline
<1> QED
  BY <1>1, <1>2, <1>3, <1>4

\* A key that is asked for again while it waits is not queued twice.
THEOREM Distinct == Spec => []NoDuplicates
<1>1. Init => NoDuplicates
  BY DEF Init, NoDuplicates
<1> QED
  BY <1>1, DistinctStep, TypeCorrect, PTL DEF Spec

\* Between the filler's look at the size and its pop, others only add keys.
THEOREM PopsAKey == Spec => []PopFindsKey
<1>1. Init => PopFindsKey
  BY DEF Init, PopFindsKey
<1>2. TypeOK /\ PopFindsKey /\ [Next]_vars => PopFindsKey'
  <2> SUFFICES ASSUME TypeOK, PopFindsKey, [Next]_vars
               PROVE  PopFindsKey'
    OBVIOUS
  <2>1. ASSUME NEW w \in Worker, Push(w)
        PROVE  PopFindsKey'
    <3>1. arg[w] \in Key
      BY <2>1 DEF Push, TypeOK
    <3>2. queue_ # <<>> => queue_' # <<>>
      BY <2>1, <3>1 DEF Push, Enqueue, queueVars, TypeOK
    <3> QED
      BY <2>1, <3>2 DEF Push, PopFindsKey
  <2>2. CASE Pop \/ Decline
    BY <2>2 DEF Pop, Decline, PopFindsKey
  <2>3. CASE SeeNonEmpty
    BY <2>3 DEF SeeNonEmpty, PopFindsKey, queueVars
  <2>4. ASSUME NEW w \in Worker, NEW k \in Key, CheckRoom(w, k) \/ Report(w)
        PROVE  PopFindsKey'
    BY <2>4 DEF CheckRoom, Report, PopFindsKey, queueVars
  <2>5. ASSUME NEW w \in Worker, Report(w)
        PROVE  PopFindsKey'
    BY <2>5 DEF Report, PopFindsKey, queueVars
  <2>6. CASE UNCHANGED vars
    BY <2>6 DEF vars, queueVars, PopFindsKey
  <2> QED
    BY <2>1, <2>2, <2>3, <2>4, <2>5, <2>6 DEF Next
<1> QED
  BY <1>1, <1>2, TypeCorrect, PTL DEF Spec
=============================================================================
