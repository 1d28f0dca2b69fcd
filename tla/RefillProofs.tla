---------------------------- MODULE RefillProofs ----------------------------
(***************************************************************************)
(* Proofs about Refill, for any workers, keys, values, plugin and limits:  *)
(* its threads use store and queue as DHashmap and RefillQueue say, and    *)
(* no key is served another key's value.                                   *)
(***************************************************************************)
EXTENDS Refill, SequenceTheorems, TLAPS

-----------------------------------------------------------------------------
(* What the threads hand to each other.  A key on its way from a get to an  *)
(* add is a normalized one all along, and the filler keeps no empty key.    *)

NormalKey == {Normalize[r] : r \in Key}
FilledKey == NormalKey \ {EmptyKey}

HandedOver ==
  /\ missed \in [Worker -> NormalKey \cup {Nothing}]
  /\ step \in [Worker -> {"idle", "push", "report"}]
  /\ arg \in [Worker -> NormalKey \cup {EmptyKey}]
  /\ \A w \in Worker : step[w] = "push" => arg[w] \in NormalKey
  /\ queue_ \in Seq(NormalKey)
  /\ keys \in Seq(FilledKey)
  /\ vals \in Seq(Store!Value)

\* Normalized keys are keys.
LEMMA NormalKeys == NormalKey \subseteq Key
BY PluginAssumption DEF NormalKey

\* Taking the first element off a sequence leaves the others in place.
LEMMA TailIndex ==
  ASSUME NEW S, NEW s \in Seq(S), s # <<>>
  PROVE  /\ Head(s) = s[1] /\ Head(s) \in S
         /\ Tail(s) \in Seq(S) /\ Len(s) \in Nat \ {0} /\ Len(Tail(s)) = Len(s) - 1
         /\ \A i \in 1..(Len(s) - 1) : Tail(s)[i] = s[i + 1]
BY HeadTailProperties

\* Appending an element leaves the others in place.
LEMMA AppendIndex ==
  ASSUME NEW S, NEW s \in Seq(S), NEW e \in S
  PROVE  /\ Append(s, e) \in Seq(S) /\ Len(Append(s, e)) = Len(s) + 1
         /\ \A i \in 1..Len(s) : Append(s, e)[i] = s[i]
BY AppendProperties

\* What get_vals leaves is a sequence of values, no longer than the keys.
LEMMA AnswersType ==
  ASSUME keys \in Seq(FilledKey), NEW v \in Answers
  PROVE  /\ v \in Seq(Store!Value) /\ Len(v) <= Len(keys)
         /\ \A i \in 1..Len(v) : v[i] \in Source[keys[i]]
<1>1. PICK m \in 0..Len(keys) : v \in [1..m -> Store!Value]
  BY DEF Answers, BoundedSeq, SeqOf
<1>2. Len(keys) \in Nat
  BY LenProperties
<1>3. m \in Nat /\ m <= Len(keys)
  BY <1>1, <1>2
<1>4. v \in Seq(Store!Value) /\ Len(v) = m
  BY <1>1, <1>3, IsASeq, LenProperties
<1> QED
  BY <1>3, <1>4 DEF Answers

\* No step of the filler or the workers breaks the chain.
LEMMA HandedOverStep == HandedOver /\ [Next]_vars => HandedOver'
<1> SUFFICES ASSUME HandedOver, [Next]_vars
             PROVE  HandedOver'
  OBVIOUS
<1> USE DEF HandedOver
<1>1. ASSUME NEW w \in Worker, NEW raw \in Key, LookUp(w, raw)
      PROVE  HandedOver'
  <2>1. missed' \in [Worker -> NormalKey \cup {Nothing}]
    BY <1>1 DEF LookUp, NormalKey
  <2> QED
    BY <1>1, <2>1 DEF LookUp, queueVars, fillerVars
<1>2. ASSUME NEW w \in Worker, PushKey(w)
      PROVE  HandedOver'
  <2>0. UNCHANGED <<keys, vals>>
    BY <1>2 DEF PushKey, fillerVars
  <2>1. CASE missed[w] # Nothing /\ Queue!CheckRoom(w, missed[w])
             /\ missed' = [missed EXCEPT ![w] = Nothing]
    BY <2>0, <2>1 DEF Queue!CheckRoom, Queue!queueVars
  <2>2. CASE Queue!Push(w) /\ UNCHANGED missed
    <3>1. queue_' \in Seq(NormalKey)
      <4>1. queue_' = queue_ \/ queue_' = Append(queue_, arg[w])
        BY <2>2 DEF Queue!Push, Queue!Enqueue, Queue!queueVars
      <4>2. arg[w] \in NormalKey
        BY <2>2 DEF Queue!Push
      <4>3. Append(queue_, arg[w]) \in Seq(NormalKey)
        BY <4>2, AppendIndex, Zenon
      <4> QED
        BY ONLY <4>1, <4>3, queue_ \in Seq(NormalKey)
    <3> QED
      BY <2>0, <2>2, <3>1 DEF Queue!Push
  <2>3. CASE Queue!Report(w) /\ UNCHANGED missed
    BY <2>0, <2>3 DEF Queue!Report, Queue!queueVars
  <2> QED
    BY <1>2, <2>1, <2>2, <2>3 DEF PushKey
<1>3. CASE OnExpirate \/ Shutdown \/ Tick \/ UNCHANGED vars
  BY <1>3 DEF OnExpirate, Shutdown, Tick, vars, queueVars, fillerVars
<1>4. ASSUME Filler, TopOfLoop \/ CheckFull \/ ExpirateFirst \/ EndDrain \/ Sleep
                       \/ FindNoRoom \/ MakeRoom
      PROVE  HandedOver'
  BY <1>4 DEF Filler, TopOfLoop, CheckFull, ExpirateFirst, EndDrain, Sleep, FindNoRoom,
              MakeRoom, Goto, StartRound, queueVars
<1>5. ASSUME Filler, SeeKey \/ DeclineKey
      PROVE  HandedOver'
  BY <1>5 DEF Filler, SeeKey, DeclineKey, Goto, fillerVars, Queue!SeeNonEmpty, Queue!Decline,
              Queue!queueVars, Queue!workerVars
<1>6. ASSUME Filler, TakeKey
      PROVE  HandedOver'
  <2>1. UNCHANGED <<missed, step, arg, vals>>
    BY <1>6 DEF Filler, TakeKey, Queue!Pop, Queue!workerVars
  <2>2. queue_' \in Seq(NormalKey) /\ key' \in NormalKey \cup {EmptyKey}
    <3>1. CASE queue_ = <<>>
      BY <1>6, <3>1 DEF TakeKey, Queue!Pop, Queue!Dequeue, Queue!queueVars
    <3>2. CASE queue_ # <<>>
      <4>1. key' = Head(queue_) /\ queue_' = Tail(queue_)
        BY <1>6, <3>2 DEF TakeKey, Queue!Pop, Queue!Dequeue
      <4> QED
        BY <3>2, <4>1, TailIndex
    <3> QED
      BY <3>1, <3>2
  <2>3. keys' \in Seq(FilledKey)
    <3>1. CASE key' = EmptyKey
      BY <1>6, <3>1 DEF TakeKey
    <3>2. CASE key' # EmptyKey
      <4>1. keys' = Append(keys, key') /\ key' \in FilledKey
        BY <1>6, <2>2, <3>2 DEF TakeKey, FilledKey
      <4> QED
        BY <4>1, AppendIndex, Zenon
    <3> QED
      BY <3>1, <3>2
  <2> QED
    BY <2>1, <2>2, <2>3
<1>7. ASSUME Filler, Fetch
      PROVE  HandedOver'
  <2>1. vals' \in Seq(Store!Value)
    BY <1>7, AnswersType DEF Fetch
  <2> QED
    BY <1>7, <2>1 DEF Filler, Fetch, queueVars
<1>8. ASSUME Filler, StoreItem
      PROVE  HandedOver'
  <2>1. keys' \in Seq(FilledKey) /\ vals' \in Seq(Store!Value)
    BY <1>8, TailIndex DEF StoreItem
  <2> QED
    BY <1>8, <2>1 DEF Filler, StoreItem, queueVars
<1>9. ASSUME Filler, EndStore
      PROVE  HandedOver'
  <2>1. keys' \in Seq(FilledKey) /\ vals' \in Seq(Store!Value)
    BY <1>9, EmptySeq DEF EndStore
  <2> QED
    BY <1>9, <2>1 DEF Filler, EndStore, queueVars
<1> QED
  BY <1>1, <1>2, <1>3, <1>4, <1>5, <1>6, <1>7, <1>8, <1>9 DEF Next, Filler

\* Keys on their way from a miss to the store are normalized, and the filler holds
\* no empty one.
THEOREM HandedOverHolds == Spec => []HandedOver
<1>1. Init => HandedOver
  BY EmptySeq DEF Init, HandedOver, Queue!Init
<1> QED
  BY <1>1, HandedOverStep, PTL DEF Spec

-----------------------------------------------------------------------------
(* Refinement: every step of the threads is a step of the store or leaves   *)
(* it alone, and the same for the queue.                                    *)

\* The filler stores the next value for the next key.
NextItem ==
  /\ keys # <<>> /\ vals # <<>>
  /\ Store!AddItem(Head(keys), Head(vals))
  /\ keys' = Tail(keys) /\ vals' = Tail(vals)

\* How a step uses the store.
LEMMA StoreSteps ==
  ASSUME [Next]_vars
  PROVE  \/ \E raw \in Key : Store!Get(raw)
         \/ Store!Expirate \/ Store!Tick \/ NextItem
         \/ UNCHANGED storeVars
<1>1. CASE Filler
  BY <1>1 DEF Filler, TopOfLoop, CheckFull, ExpirateFirst, SeeKey, EndDrain, DeclineKey, TakeKey,
              Fetch, Sleep, StoreItem, FindNoRoom, MakeRoom, EndStore, NextItem
<1>2. CASE UNCHANGED vars
  BY <1>2 DEF vars
<1>3. ASSUME NEW w \in Worker, (\E raw \in Key : LookUp(w, raw)) \/ PushKey(w)
      PROVE  (\E raw \in Key : Store!Get(raw)) \/ UNCHANGED storeVars
  BY <1>3 DEF LookUp, PushKey
<1>4. CASE OnExpirate \/ Shutdown \/ Tick
  BY <1>4 DEF OnExpirate, Shutdown, Tick
<1> QED
  BY <1>1, <1>2, <1>3, <1>4 DEF Next

\* What the filler adds is a value, for a normalized key.
LEMMA StoreNext == HandedOver /\ [Next]_vars => [Store!Next]_(Store!vars)
<1> SUFFICES ASSUME HandedOver, [Next]_vars
             PROVE  Store!Next \/ UNCHANGED Store!vars
  OBVIOUS
<1>1. CASE \E raw \in Key : Store!Get(raw)
  BY <1>1 DEF Store!Next
<1>2. CASE Store!Expirate \/ Store!Tick
  BY <1>2 DEF Store!Next
<1>3. CASE NextItem
  <2>1. Head(keys) \in NormalKey /\ Head(vals) \in Store!Value
    BY <1>3, TailIndex DEF NextItem, HandedOver, FilledKey
  <2>2. PICK r \in Key : Head(keys) = Normalize[r]
    BY <2>1 DEF NormalKey
  <2>3. Store!AddItem(Normalize[r], Head(vals))
    BY <1>3, <2>2 DEF NextItem
  <2> QED
    BY <2>1, <2>3 DEF Store!Next
<1>4. CASE UNCHANGED storeVars
  BY <1>4 DEF storeVars, Store!vars, Store!stats
<1> QED
  BY <1>1, <1>2, <1>3, <1>4, StoreSteps

\* Workers, filler and signals together use the store as DHashmap allows.
THEOREM StoreImplemented == Spec => ImplementsStore
<1>1. Init => Store!Init
  BY DEF Init
<1> QED
  BY <1>1, StoreNext, HandedOverHolds, PTL DEF Spec, ImplementsStore, Store!Spec

\* What the workers push is a key, and only the filler pops.
LEMMA QueueNext == HandedOver /\ [Next]_vars => [Queue!Next]_(Queue!vars)
<1> SUFFICES ASSUME HandedOver, [Next]_vars
             PROVE  Queue!Next \/ UNCHANGED Queue!vars
  OBVIOUS
<1>1. CASE UNCHANGED queueVars
  BY <1>1 DEF queueVars, Queue!vars, Queue!queueVars, Queue!workerVars
<1>2. CASE Filler
  <2>1. CASE SeeKey \/ DeclineKey \/ TakeKey
    BY <2>1 DEF SeeKey, DeclineKey, TakeKey, Queue!Next
  <2>2. CASE ~ (SeeKey \/ DeclineKey \/ TakeKey)
    BY <1>1, <1>2, <2>2 DEF Filler, TopOfLoop, CheckFull, ExpirateFirst, EndDrain, Fetch, Sleep,
                            StoreItem, FindNoRoom, MakeRoom, EndStore
  <2> QED
    BY <2>1, <2>2
<1>3. ASSUME NEW w \in Worker, PushKey(w)
      PROVE  Queue!Next
  <2>1. CASE missed[w] # Nothing /\ Queue!CheckRoom(w, missed[w])
    <3>1. missed[w] \in Key
      BY <2>1, NormalKeys DEF HandedOver
    <3> QED
      BY <2>1, <3>1 DEF Queue!Next
  <2>2. CASE Queue!Push(w) \/ Queue!Report(w)
    BY <2>2 DEF Queue!Next
  <2> QED
    BY <1>3, <2>1, <2>2 DEF PushKey
<1>4. ASSUME NEW w \in Worker, NEW raw \in Key, LookUp(w, raw)
      PROVE  UNCHANGED queueVars
  BY <1>4 DEF LookUp
<1>5. CASE OnExpirate \/ Shutdown \/ Tick \/ UNCHANGED vars
  BY <1>1, <1>5 DEF OnExpirate, Shutdown, Tick, vars
<1> QED
  BY <1>1, <1>2, <1>3, <1>4, <1>5 DEF Next

\* They use the queue as RefillQueue allows.
THEOREM QueueImplemented == Spec => ImplementsQueue
<1>1. Init => Queue!Init
  BY DEF Init
<1> QED
  BY <1>1, QueueNext, HandedOverHolds, PTL DEF Spec, ImplementsQueue, Queue!Spec

-----------------------------------------------------------------------------
(* Values and their keys.                                                   *)

\* Keys and values are taken off together, so the pairing by position holds.
LEMMA MatchStep == HandedOver /\ AnswersMatchKeys /\ [Next]_vars => AnswersMatchKeys'
<1> SUFFICES ASSUME HandedOver, AnswersMatchKeys, [Next]_vars
             PROVE  AnswersMatchKeys'
  OBVIOUS
<1>0. keys \in Seq(FilledKey) /\ vals \in Seq(Store!Value) /\ Len(keys) \in Nat /\ Len(vals) \in Nat
  BY LenProperties DEF HandedOver
<1>1. CASE UNCHANGED <<keys, vals>>
  BY <1>1 DEF AnswersMatchKeys
<1>2. CASE Filler /\ TakeKey
  <2>1. vals' = vals /\ (keys' = keys \/ keys' = Append(keys, key'))
    BY <1>2 DEF TakeKey
  <2>2. CASE keys' = Append(keys, key')
    <3>1. key' \in NormalKey \cup {EmptyKey} /\ keys \in Seq(NormalKey \cup {EmptyKey})
      <4>1. key' = EmptyKey \/ (queue_ # <<>> /\ key' = Head(queue_))
        BY <1>2 DEF TakeKey, Queue!Pop, Queue!Dequeue
      <4> QED
        BY <4>1, TailIndex, <1>0 DEF HandedOver, FilledKey
    <3>2. Len(keys') = Len(keys) + 1 /\ \A i \in 1..Len(keys) : keys'[i] = keys[i]
      BY <2>2, <3>1, AppendIndex
    <3> QED
      BY <1>0, <2>1, <3>2 DEF AnswersMatchKeys
  <2> QED
    BY <1>1, <2>1, <2>2
<1>3. CASE Filler /\ Fetch
  BY <1>0, <1>3, AnswersType DEF Fetch, AnswersMatchKeys
<1>4. CASE Filler /\ StoreItem
  <2>1. keys # <<>> /\ vals # <<>> /\ keys' = Tail(keys) /\ vals' = Tail(vals)
    BY <1>4 DEF StoreItem
  <2>2. /\ Len(keys') = Len(keys) - 1 /\ \A i \in 1..(Len(keys) - 1) : keys'[i] = keys[i + 1]
        /\ Len(vals') = Len(vals) - 1 /\ \A i \in 1..(Len(vals) - 1) : vals'[i] = vals[i + 1]
    BY <1>0, <2>1, TailIndex
  <2>3. Len(vals') <= Len(keys')
    BY <1>0, <2>2 DEF AnswersMatchKeys
  <2>4. ASSUME NEW i \in 1..Len(vals')
        PROVE  vals'[i] \in Source[keys'[i]]
    <3>1. i \in 1..(Len(vals) - 1) /\ i \in 1..(Len(keys) - 1) /\ i + 1 \in 1..Len(vals)
      BY <1>0, <2>2, <2>3
    <3>2. vals[i + 1] \in Source[keys[i + 1]]
      BY <3>1 DEF AnswersMatchKeys
    <3> QED
      BY <2>2, <3>1, <3>2
  <2> QED
    BY <2>3, <2>4 DEF AnswersMatchKeys
<1>5. CASE Filler /\ EndStore
  <2>1. Len(keys') = 0 /\ Len(vals') = 0
    BY <1>5, EmptySeq DEF EndStore
  <2> QED
    BY <2>1 DEF AnswersMatchKeys
<1>6. CASE Filler /\ ~ (TakeKey \/ Fetch \/ StoreItem \/ EndStore)
  BY <1>1, <1>6 DEF Filler, TopOfLoop, CheckFull, ExpirateFirst, SeeKey, EndDrain, DeclineKey,
                    Sleep, FindNoRoom, MakeRoom, Goto, StartRound, fillerVars
<1>7. CASE ~ Filler
  BY <1>1, <1>7 DEF Next, LookUp, PushKey, OnExpirate, Shutdown, Tick, vars, fillerVars
<1> QED
  BY <1>2, <1>3, <1>4, <1>5, <1>6, <1>7

\* Whatever batches are left over, cut short or answered in part, values stay with
\* the keys they were fetched for.
THEOREM Matched == Spec => []AnswersMatchKeys
<1>1. Init => AnswersMatchKeys
  <2> SUFFICES ASSUME Init
               PROVE  AnswersMatchKeys
    OBVIOUS
  <2>1. Len(keys) = 0 /\ Len(vals) = 0
    BY EmptySeq DEF Init
  <2> QED
    BY <2>1 DEF AnswersMatchKeys
<1> QED
  BY <1>1, MatchStep, HandedOverHolds, PTL DEF Spec

\* The entries are a function, and what is in memory are objects.
StoreShape == value_ \in [Key -> Obj \cup {Nil}] /\ values_ \subseteq Obj

\* An add changes the value of its key only, to the one that is added.
LEMMA AddChanges ==
  ASSUME StoreShape, NEW k \in Key, NEW v, Store!Add(k, v)
  PROVE  /\ StoreShape'
         /\ \A j \in Key : value_'[j] = value_[j] \/ (j = k /\ Content[value_'[j]] = v)
<1>1. Store!Find(v) \subseteq Obj /\ Store!Fresh(v) \subseteq Obj
  BY DEF StoreShape, Store!Find, Store!Fresh
<1>2. \A o \in Store!Find(v) \cup Store!Fresh(v) : Content[o] = v
  BY DEF Store!Find, Store!Fresh
<1>3. CASE Store!AddKnownValue(k, v)
  <2>1. PICK o \in Store!Find(v) :
          Store!AddReplace(k, o) \/ Store!AddSame(k, o) \/ Store!AddKey(k, o)
    BY <1>3 DEF Store!AddKnownValue
  <2>2. values_' \subseteq values_
    BY <2>1 DEF Store!AddReplace, Store!AddSame, Store!AddKey, Store!vars
  <2>3. value_' = value_ \/ value_' = [value_ EXCEPT ![k] = o]
    BY <2>1 DEF Store!AddReplace, Store!AddSame, Store!AddKey, Store!Insert, Store!vars
  <2> QED
    BY <1>1, <1>2, <2>2, <2>3 DEF StoreShape
<1>4. CASE Store!AddNewValue(k, v)
  <2>1. PICK o \in Store!Fresh(v) : Store!AddRenew(k, o) \/ Store!AddPair(k, o)
    BY <1>4 DEF Store!AddNewValue
  <2>2. values_' = values_ \cup {o} /\ (value_' = value_ \/ value_' = [value_ EXCEPT ![k] = o])
    BY <2>1 DEF Store!AddRenew, Store!AddPair, Store!Insert
  <2> QED
    BY <1>1, <1>2, <2>2 DEF StoreShape
<1> QED
  BY <1>3, <1>4 DEF Store!Add

\* Nothing else gives a key a value.
LEMMA OthersDrop ==
  ASSUME StoreShape, \/ \E raw \in Key : Store!Get(raw)
                     \/ Store!Expirate \/ Store!Tick \/ UNCHANGED storeVars
  PROVE  StoreShape' /\ \A j \in Key : value_'[j] \in {value_[j], Nil}
<1>1. CASE \E raw \in Key : Store!Get(raw)
  BY <1>1 DEF StoreShape, Store!Get, Store!GetNormalized, Store!GetMissing,
              Store!GetUnknownValue, Store!GetFresh, Store!GetStale
<1>2. CASE Store!Expirate
  BY <1>2 DEF StoreShape, Store!Expirate, Store!Evict, Store!ExpirateFault
<1>3. CASE Store!Tick \/ UNCHANGED storeVars
  BY <1>3 DEF StoreShape, Store!Tick, storeVars
<1> QED
  BY <1>1, <1>2, <1>3

\* The invariant of the next two theorems.
Owned == StoreShape /\ ServesOwnValues /\ EmptyKeyNotStored

\* A step of any thread keeps both, as only an add gives a key a value, its own.
LEMMA OwnedStep == HandedOver /\ AnswersMatchKeys /\ Owned /\ [Next]_vars => Owned'
<1> SUFFICES ASSUME HandedOver, AnswersMatchKeys, Owned, [Next]_vars
             PROVE  Owned'
  OBVIOUS
<1>1. CASE NextItem
  <2> DEFINE k == Head(keys)
             v == Head(vals)
  <2>1. k = keys[1] /\ k \in FilledKey /\ v = vals[1] /\ Len(vals) \in Nat \ {0}
    BY <1>1, TailIndex DEF NextItem, HandedOver
  <2>2. v \in Source[k]
    BY <2>1 DEF AnswersMatchKeys
  <2>3. k \in Key /\ k # EmptyKey
    BY <2>1, NormalKeys DEF FilledKey
  <2>4. Store!Add(k, v)
    BY <1>1 DEF NextItem, Store!AddItem
  <2>5. /\ StoreShape'
        /\ \A j \in Key : value_'[j] = value_[j] \/ (j = k /\ Content[value_'[j]] = v)
    BY <2>3, <2>4, AddChanges DEF Owned
  <2> HIDE DEF k, v
  <2> QED
    BY <2>2, <2>3, <2>5 DEF Owned, ServesOwnValues, EmptyKeyNotStored, Store!Keys
<1>2. ASSUME \/ \E raw \in Key : Store!Get(raw)
             \/ Store!Expirate \/ Store!Tick \/ UNCHANGED storeVars
      PROVE  Owned'
  <2>1. StoreShape' /\ \A j \in Key : value_'[j] \in {value_[j], Nil}
    BY <1>2, OthersDrop DEF Owned
  <2> QED
    BY <2>1 DEF Owned, ServesOwnValues, EmptyKeyNotStored, Store!Keys
<1> QED
  BY <1>1, <1>2, StoreSteps

\* So both hold in every run of the threads together.
LEMMA OwnedHolds == Spec => []Owned
<1>1. Init => Owned
  BY DEF Init, Store!Init, Owned, StoreShape, ServesOwnValues, EmptyKeyNotStored, Store!Keys
<1> QED
  BY <1>1, OwnedStep, HandedOverHolds, Matched, PTL DEF Spec

\* No key is ever served a value that the source did not give for it, for any plugin
\* that keeps the order of its answers.
THEOREM OwnValues == Spec => []ServesOwnValues
<1>1. Owned => ServesOwnValues
  BY DEF Owned
<1> QED
  BY <1>1, OwnedHolds, PTL

\* The empty key is never stored, although it may be asked for and queued.
THEOREM EmptyKeyStaysOut == Spec => []EmptyKeyNotStored
<1>1. Owned => EmptyKeyNotStored
  BY DEF Owned
<1> QED
  BY <1>1, OwnedHolds, PTL

-----------------------------------------------------------------------------
(* What is proved of DHashmap and of RefillQueue is true of the store and   *)
(* of the queue that the threads share.                                     *)

StoreProofs == INSTANCE DHashmapProofs
QueueProofs == INSTANCE RefillQueueProofs WITH KeyLen <- LengthOf

\* The store of DHashmapProofs is the one of Refill: the same definitions.
LEMMA SameStore == Store!Spec => StoreProofs!Spec
<1>1. Store!Init => StoreProofs!Init
  BY DEF Store!Init, StoreProofs!Init
<1>2. Store!vars = StoreProofs!vars
  BY DEF Store!vars, StoreProofs!vars, Store!stats, StoreProofs!stats
<1>3. Store!Next => StoreProofs!Next
  BY Zenon
     DEF Store!Next, StoreProofs!Next, Store!Get, StoreProofs!Get,
         Store!GetNormalized, StoreProofs!GetNormalized, Store!GetMissing, StoreProofs!GetMissing,
         Store!GetUnknownValue, StoreProofs!GetUnknownValue, Store!GetFresh, StoreProofs!GetFresh,
         Store!GetStale, StoreProofs!GetStale, Store!CountGet, StoreProofs!CountGet,
         Store!Find, StoreProofs!Find, Store!Live, StoreProofs!Live, Store!Keys, StoreProofs!Keys,
         Store!IsFresh, StoreProofs!IsFresh, Store!Running, StoreProofs!Running,
         Store!AddItem, StoreProofs!AddItem, Store!HasRoom, StoreProofs!HasRoom,
         Store!Add, StoreProofs!Add, Store!AddKnownValue, StoreProofs!AddKnownValue,
         Store!AddNewValue, StoreProofs!AddNewValue, Store!Fresh, StoreProofs!Fresh,
         Store!AddRenew, StoreProofs!AddRenew, Store!AddPair, StoreProofs!AddPair,
         Store!AddKey, StoreProofs!AddKey, Store!AddSame, StoreProofs!AddSame,
         Store!AddReplace, StoreProofs!AddReplace, Store!Insert, StoreProofs!Insert,
         Store!Last, StoreProofs!Last, Store!SoleReferrer, StoreProofs!SoleReferrer,
         Store!Referrers, StoreProofs!Referrers, Store!Value, StoreProofs!Value,
         Store!Expirate, StoreProofs!Expirate, Store!Evict, StoreProofs!Evict,
         Store!ExpirateFault, StoreProofs!ExpirateFault, Store!IsPrefix, StoreProofs!IsPrefix,
         Store!LoopStopsAfter, StoreProofs!LoopStopsAfter, Store!Freed, StoreProofs!Freed,
         Store!ReadStats, StoreProofs!ReadStats, Store!GetDeleted, StoreProofs!GetDeleted,
         Store!GetGets, StoreProofs!GetGets, Store!GetUpdates, StoreProofs!GetUpdates,
         Store!StorageUnchanged, StoreProofs!StorageUnchanged, Store!Tick, StoreProofs!Tick,
         Store!stats, StoreProofs!stats, Store!vars, StoreProofs!vars,
         Store!Cardinality, StoreProofs!Cardinality
<1>4. [Store!Next]_(Store!vars) => [StoreProofs!Next]_(StoreProofs!vars)
  <2>1. UNCHANGED Store!vars => UNCHANGED StoreProofs!vars
    BY DEF Store!vars, StoreProofs!vars, Store!stats, StoreProofs!stats
  <2> QED
    BY <1>3, <2>1
<1> QED
  BY <1>1, <1>4, PTL DEF Store!Spec, StoreProofs!Spec

\* So is the queue of RefillQueueProofs.
LEMMA SameQueue == Queue!Spec => QueueProofs!Spec
<1>1. Queue!Init => QueueProofs!Init
  BY DEF Queue!Init, QueueProofs!Init
<1>2. Queue!Next => QueueProofs!Next
  BY DEF Queue!Next, QueueProofs!Next, Queue!CheckRoom, QueueProofs!CheckRoom,
         Queue!Push, QueueProofs!Push, Queue!Report, QueueProofs!Report,
         Queue!SeeNonEmpty, QueueProofs!SeeNonEmpty, Queue!Pop, QueueProofs!Pop,
         Queue!Decline, QueueProofs!Decline, Queue!HasRoom, QueueProofs!HasRoom,
         Queue!Enqueue, QueueProofs!Enqueue, Queue!Dequeue, QueueProofs!Dequeue,
         Queue!queueVars, QueueProofs!queueVars, Queue!workerVars, QueueProofs!workerVars,
         Queue!Range, QueueProofs!Range
<1>3. UNCHANGED Queue!vars => UNCHANGED QueueProofs!vars
  BY DEF Queue!vars, QueueProofs!vars, Queue!queueVars, QueueProofs!queueVars,
         Queue!workerVars, QueueProofs!workerVars
<1>4. [Queue!Next]_(Queue!vars) => [QueueProofs!Next]_(QueueProofs!vars)
  BY <1>2, <1>3
<1> QED
  BY <1>1, <1>4, PTL DEF Queue!Spec, QueueProofs!Spec

\* The assumptions of DHashmap hold of the store.
LEMMA StoreAssumptions ==
  /\ StoreProofs!IsFiniteSet(Key) /\ Nil \notin Obj /\ Normalize \in [Key -> Key]
  /\ StoreProofs!IsMeasure(KeyBytes, Key) /\ StoreProofs!IsMeasure(ObjBytes, Obj)
  /\ {TTL, ExpSize, MaxStorage, MaxTime} \subseteq Nat /\ {Word, Uint} \subseteq Nat \ {0}
  /\ \A k \in Key, o \in Obj : MaxStorage + KeyBytes[{k}] + ObjBytes[{o}] < Word
<1>1. StoreProofs!IsFiniteSet(Key)
  BY StoreAssumption DEF IsFiniteSet, StoreProofs!IsFiniteSet
<1>2. StoreProofs!IsMeasure(KeyBytes, Key) /\ StoreProofs!IsMeasure(ObjBytes, Obj)
  BY StoreAssumption, Zenon DEF Store!IsMeasure, StoreProofs!IsMeasure
<1> QED
  BY <1>1, <1>2, PluginAssumption, StoreAssumption, Zenon

\* Those of RefillQueue hold of the queue.
LEMMA QueueAssumptions ==
  /\ QueueProofs!IsFiniteSet(Worker) /\ Worker # {}
  /\ LengthOf \in [Key -> Nat]
  /\ MaxQueue \in Nat /\ {Word, Uint} \subseteq Nat \ {0}
<1>1. QueueProofs!IsFiniteSet(Worker)
  BY QueueAssumption DEF IsFiniteSet, QueueProofs!IsFiniteSet
<1>2. KeyBytes \in [SUBSET Key -> Nat]
  BY StoreAssumption DEF Store!IsMeasure
<1>3. LengthOf \in [Key -> Nat]
  BY <1>2 DEF LengthOf
<1> QED
  BY <1>1, <1>3, QueueAssumption, StoreAssumption, Zenon

\* Whatever the threads do, the store keeps what DHashmap promises: equal values are one
\* object, no get aborts, and storage_size covers what is stored and stays below its bound.
THEOREM StoreHolds ==
  Spec => [](/\ Store!TypeOK /\ Store!OneObjectPerValue /\ Store!GetNeverAborts
             /\ Store!NeverUndercounts /\ Store!StorageBound)
<1>1. Spec => StoreProofs!Spec
  BY StoreImplemented, SameStore DEF ImplementsStore
<1>2. StoreProofs!Spec => []StoreProofs!TypeOK
  BY StoreAssumptions, StoreProofs!TypeCorrect
<1>3. StoreProofs!Spec => []StoreProofs!OneObjectPerValue
  BY StoreAssumptions, StoreProofs!OneObject
<1>4. StoreProofs!Spec => []StoreProofs!GetNeverAborts
  BY StoreAssumptions, StoreProofs!NoAbort
<1>5. StoreProofs!Spec => []StoreProofs!NeverUndercounts
  BY StoreAssumptions, StoreProofs!Account
<1>6. StoreProofs!Spec => []StoreProofs!StorageBound
  BY StoreAssumptions, StoreProofs!Limited
<1>7. StoreProofs!TypeOK => Store!TypeOK
  BY DEF StoreProofs!TypeOK, Store!TypeOK, StoreProofs!Keys, Store!Keys
<1>8. StoreProofs!OneObjectPerValue => Store!OneObjectPerValue
  BY DEF StoreProofs!OneObjectPerValue, Store!OneObjectPerValue, StoreProofs!Live, Store!Live,
         StoreProofs!Keys, Store!Keys
<1>9. StoreProofs!GetNeverAborts => Store!GetNeverAborts
  BY DEF StoreProofs!GetNeverAborts, Store!GetNeverAborts, StoreProofs!Find, Store!Find,
         StoreProofs!Live, Store!Live, StoreProofs!Keys, Store!Keys
<1>10. StoreProofs!NeverUndercounts => Store!NeverUndercounts
  BY DEF StoreProofs!NeverUndercounts, Store!NeverUndercounts, StoreProofs!Bytes, Store!Bytes,
         StoreProofs!Live, Store!Live, StoreProofs!Keys, Store!Keys
<1>11. StoreProofs!StorageBound => Store!StorageBound
  BY DEF StoreProofs!StorageBound, Store!StorageBound
<1> QED
  BY <1>1, <1>2, <1>3, <1>4, <1>5, <1>6, <1>7, <1>8, <1>9, <1>10, <1>11, PTL

\* And the queue what RefillQueue promises: it stays near its limit, holds no key twice, and
\* gives the filler a key whenever it said that it had one.
THEOREM QueueHolds ==
  Spec => [](Queue!TypeOK /\ Queue!QueueBound /\ Queue!NoDuplicates /\ Queue!PopFindsKey)
<1>1. Spec => QueueProofs!Spec
  BY QueueImplemented, SameQueue DEF ImplementsQueue
<1>2. QueueProofs!Spec => []QueueProofs!TypeOK
  BY QueueAssumptions, QueueProofs!TypeCorrect
<1>3. QueueProofs!Spec => []QueueProofs!QueueBound
  BY QueueAssumptions, QueueProofs!Bounded
<1>4. QueueProofs!Spec => []QueueProofs!NoDuplicates
  BY QueueAssumptions, QueueProofs!Distinct
<1>5. QueueProofs!Spec => []QueueProofs!PopFindsKey
  BY QueueAssumptions, QueueProofs!PopsAKey
<1>6. QueueProofs!TypeOK => Queue!TypeOK
  BY DEF QueueProofs!TypeOK, Queue!TypeOK
<1>7. QueueProofs!QueueBound => Queue!QueueBound
  BY DEF QueueProofs!QueueBound, Queue!QueueBound, QueueProofs!Cardinality, Queue!Cardinality
<1>8. QueueProofs!NoDuplicates => Queue!NoDuplicates
  BY DEF QueueProofs!NoDuplicates, Queue!NoDuplicates
<1>9. QueueProofs!PopFindsKey => Queue!PopFindsKey
  BY Zenon DEF QueueProofs!PopFindsKey, Queue!PopFindsKey
<1> QED
  BY <1>1, <1>2, <1>3, <1>4, <1>5, <1>6, <1>7, <1>8, <1>9, PTL

-----------------------------------------------------------------------------
(* The filler's own variables.                                              *)

\* In a round the filler looks for a key only while it may take one more.
RoundOK ==
  /\ is_alive_ \in BOOLEAN
  /\ pc \in {"top", "full?", "expirate", "drain", "fetch", "store", "makeRoom", "stopped"}
  /\ t \in 0..MaxFill
  /\ Len(keys) <= MaxBatch
  /\ taking \in BOOLEAN /\ (taking => pc = "drain" /\ t > 0)

\* Sequences up to a length.
LEMMA InBoundedSeq ==
  ASSUME NEW S, NEW T, T \subseteq S, NEW s \in Seq(T), NEW n \in Nat, Len(s) <= n
  PROVE  s \in BoundedSeq(S, n)
<1>1. Len(s) \in 0..n /\ s \in [1..Len(s) -> S]
  BY LenProperties
<1> QED
  BY <1>1 DEF BoundedSeq, SeqOf

\* No step of the filler outgrows its batch or its round.
LEMMA RoundStep == HandedOver /\ RoundOK /\ [Next]_vars => RoundOK'
<1> SUFFICES ASSUME HandedOver, RoundOK, [Next]_vars
             PROVE  RoundOK'
  OBVIOUS
<1> USE DEF RoundOK
<1>0. keys \in Seq(FilledKey) /\ Len(keys) \in Nat /\ MaxFill \in Nat \ {0} /\ MaxBatch \in Nat
  BY LenProperties, FillAssumption DEF HandedOver
<1>1. ASSUME NEW w \in Worker, (\E raw \in Key : LookUp(w, raw)) \/ PushKey(w)
      PROVE  RoundOK'
  BY <1>1 DEF LookUp, PushKey, queueVars, fillerVars, Queue!CheckRoom, Queue!Push, Queue!Report
<1>2. CASE OnExpirate \/ Shutdown \/ Tick \/ UNCHANGED vars
  <2>1. UNCHANGED <<fillerVars, taking>>
    BY <1>2, Zenon DEF OnExpirate, Shutdown, Tick, vars, queueVars, fillerVars
  <2>2. is_alive_' \in BOOLEAN
    BY <1>2, Zenon DEF OnExpirate, Shutdown, Tick, vars
  <2> QED
    BY <2>1, <2>2 DEF fillerVars
<1>3. ASSUME Filler, TopOfLoop \/ EndDrain \/ Sleep \/ FindNoRoom \/ MakeRoom
      PROVE  RoundOK'
  BY <1>3 DEF Filler, TopOfLoop, EndDrain, Sleep, FindNoRoom, MakeRoom, Goto, queueVars
<1>4. ASSUME Filler, CheckFull \/ ExpirateFirst
      PROVE  RoundOK'
  BY <1>0, <1>4 DEF Filler, CheckFull, ExpirateFirst, Goto, StartRound, queueVars
<1>5. ASSUME Filler, SeeKey \/ DeclineKey
      PROVE  RoundOK'
  BY <1>0, <1>5 DEF Filler, SeeKey, DeclineKey, Goto, fillerVars, Queue!SeeNonEmpty, Queue!Decline
<1>6. ASSUME Filler, TakeKey
      PROVE  RoundOK'
  <2>1. taking /\ taking' = FALSE /\ t' = t - 1 /\ UNCHANGED <<is_alive_, pc>> /\ Len(keys) < MaxBatch
    BY <1>6 DEF Filler, TakeKey, Queue!Pop
  <2>2. t' \in 0..MaxFill
    BY <1>0, <2>1
  <2>3. keys' = keys \/ keys' = Append(keys, key')
    BY <1>6 DEF TakeKey
  <2>4. Len(Append(keys, key')) = Len(keys) + 1
    <3>1. keys \in Seq(FilledKey \cup {key'}) /\ key' \in FilledKey \cup {key'}
      BY <1>0
    <3> QED
      BY <3>1, AppendIndex
  <2>5. Len(keys') <= MaxBatch
    BY <1>0, <2>1, <2>3, <2>4
  <2> QED
    BY <2>1, <2>2, <2>5
<1>7. ASSUME Filler, Fetch
      PROVE  RoundOK'
  BY <1>7 DEF Filler, Fetch, queueVars
<1>8. ASSUME Filler, StoreItem
      PROVE  RoundOK'
  <2>1. Len(keys') = Len(keys) - 1
    BY <1>0, <1>8, TailIndex DEF StoreItem
  <2> QED
    BY <1>0, <1>8, <2>1 DEF Filler, StoreItem, queueVars
<1>9. ASSUME Filler, EndStore
      PROVE  RoundOK'
  <2>1. Len(keys') = 0
    BY <1>9, EmptySeq DEF EndStore
  <2> QED
    BY <1>0, <1>9, <2>1 DEF Filler, EndStore, queueVars
<1> QED
  BY <1>1, <1>2, <1>3, <1>4, <1>5, <1>6, <1>7, <1>8, <1>9 DEF Next, Filler

\* Every variable of the threads, the store and the queue stays in its range, and the filler
\* takes no more keys in a round than it set out to.
THEOREM TypeCorrect == Spec => []TypeOK
<1>1. Init => RoundOK
  <2> SUFFICES ASSUME Init
               PROVE  RoundOK
    OBVIOUS
  <2>1. is_alive_ \in BOOLEAN /\ taking \in BOOLEAN
    BY Zenon DEF Init, Queue!Init
  <2>2. pc = "top" /\ t = 0 /\ ~ taking /\ Len(keys) = 0
    BY EmptySeq DEF Init, Queue!Init
  <2> QED
    BY <2>1, <2>2, FillAssumption DEF RoundOK
<1>2. HandedOver /\ RoundOK /\ AnswersMatchKeys /\ Store!TypeOK /\ Queue!TypeOK => TypeOK
  <2> SUFFICES ASSUME HandedOver, RoundOK, AnswersMatchKeys, Store!TypeOK, Queue!TypeOK
               PROVE  TypeOK
    OBVIOUS
  <2>1. /\ keys \in Seq(FilledKey) /\ vals \in Seq(Store!Value)
        /\ Len(keys) \in Nat /\ Len(vals) \in Nat
    BY LenProperties DEF HandedOver
  <2>2. MaxBatch \in Nat /\ Len(keys) <= MaxBatch /\ Len(vals) <= MaxBatch
    BY <2>1, FillAssumption DEF RoundOK, AnswersMatchKeys
  <2>3. keys \in BoundedSeq(Key, MaxBatch)
    BY <2>1, <2>2, InBoundedSeq, NormalKeys DEF FilledKey
  <2>4. vals \in BoundedSeq(Store!Value, MaxBatch)
    BY <2>1, <2>2, InBoundedSeq
  <2>5. missed \in [Worker -> Key \cup {Nothing}]
    BY NormalKeys DEF HandedOver
  <2> QED
    BY <2>3, <2>4, <2>5 DEF TypeOK, RoundOK
<1> QED
  BY <1>1, <1>2, RoundStep, HandedOverHolds, Matched, StoreHolds, QueueHolds, PTL DEF Spec
=============================================================================
