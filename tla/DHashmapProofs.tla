--------------------------- MODULE DHashmapProofs ---------------------------
(***************************************************************************)
(* Proofs about DHashmap, for any finite set of keys, any objects, lengths *)
(* and limits.                                                             *)
(***************************************************************************)
EXTENDS DHashmap, FiniteSetTheorems, TLAPS

-----------------------------------------------------------------------------
(* Arithmetic of sizes.                                                     *)

\* Counting modulo 2^w stays within the word, and does nothing below it.
LEMMA WordArithmetic ==
  /\ Word \in Nat \ {0} /\ Uint \in Nat \ {0}
  /\ 0 \in 0..(Word - 1) /\ 0 \in 0..(Uint - 1)
  /\ \A n \in Int : n % Word \in 0..(Word - 1)
  /\ \A n \in Int : n % Uint \in 0..(Uint - 1)
  /\ \A n \in 0..(Word - 1) : n % Word = n
<1>1. Word \in Nat \ {0} /\ Uint \in Nat \ {0}
  BY SizeAssumption
<1> QED
  BY <1>1

\* Lengths are natural numbers.
LEMMA BytesAreNat ==
  /\ \A S \in SUBSET Key : KeyBytes[S] \in Nat
  /\ \A S \in SUBSET Obj : ObjBytes[S] \in Nat
BY MeasureAssumption DEF IsMeasure

\* Taking a part away takes away its bytes.
LEMMA KeyBytesSplit ==
  ASSUME NEW S \in SUBSET Key, NEW E \in SUBSET S
  PROVE  KeyBytes[S \ E] = KeyBytes[S] - KeyBytes[E]
<1>1. (S \ E) \cap E = {} /\ (S \ E) \cup E = S
  OBVIOUS
<1>2. KeyBytes[S] = KeyBytes[S \ E] + KeyBytes[E]
  <2>1. \A A, B \in SUBSET Key : A \cap B = {} => KeyBytes[A \cup B] = KeyBytes[A] + KeyBytes[B]
    BY MeasureAssumption, Zenon DEF IsMeasure
  <2>2. S \ E \in SUBSET Key /\ E \in SUBSET Key
    OBVIOUS
  <2>3. KeyBytes[(S \ E) \cup E] = KeyBytes[S \ E] + KeyBytes[E]
    BY <1>1, <2>1, <2>2, Zenon
  <2> QED
    BY <1>1, <2>3, Zenon
<1> QED
  BY <1>2, BytesAreNat

\* The same for the values.
LEMMA ObjBytesSplit ==
  ASSUME NEW S \in SUBSET Obj, NEW E \in SUBSET S
  PROVE  ObjBytes[S \ E] = ObjBytes[S] - ObjBytes[E]
<1>1. (S \ E) \cap E = {} /\ (S \ E) \cup E = S
  OBVIOUS
<1>2. ObjBytes[S] = ObjBytes[S \ E] + ObjBytes[E]
  <2>1. \A A, B \in SUBSET Obj : A \cap B = {} => ObjBytes[A \cup B] = ObjBytes[A] + ObjBytes[B]
    BY MeasureAssumption, Zenon DEF IsMeasure
  <2>2. S \ E \in SUBSET Obj /\ E \in SUBSET Obj
    OBVIOUS
  <2>3. ObjBytes[(S \ E) \cup E] = ObjBytes[S \ E] + ObjBytes[E]
    BY <1>1, <2>1, <2>2, Zenon
  <2> QED
    BY <1>1, <2>3, Zenon
<1> QED
  BY <1>2, BytesAreNat

-----------------------------------------------------------------------------
(* Type correctness.                                                        *)

\* The values of the keys are heap objects.
LEMMA LiveObjects == TypeOK => Live \subseteq Obj
BY DEF TypeOK, Live, Keys

\* Freed is a number of bytes.
LEMMA FreedIsNat ==
  ASSUME TypeOK, NEW E \in SUBSET Keys
  PROVE  Freed(E) \in Nat
<1>1. E \in SUBSET Key
  BY DEF Keys
<1>2. {o \in Live : Referrers(o) \subseteq E} \in SUBSET Obj
  BY LiveObjects
<1> QED
  BY <1>1, <1>2, BytesAreNat DEF Freed

\* An insertion adds at most one key and one live object.
LEMMA InsertType ==
  ASSUME TypeOK, NEW k \in Key, NEW o \in Obj, Insert(k, o)
  PROVE  /\ Keys' = Keys \cup {k}
         /\ Live' \subseteq Live \cup {o}
         /\ value_' \in [Key -> Obj \cup {Nil}]
         /\ ttl_' \in [Key -> 0..MaxTime]
         /\ index_' \subseteq Keys' \X Keys'
<1>1. Keys' = Keys \cup {k}
  BY ObjAssumption DEF TypeOK, Insert, Keys
<1>2. value_' \in [Key -> Obj \cup {Nil}] /\ ttl_' \in [Key -> 0..MaxTime]
  BY DEF TypeOK, Insert
<1>3. index_' \subseteq Keys' \X Keys'
  BY <1>1 DEF TypeOK, Insert, Last
<1>4. Live' \subseteq Live \cup {o}
  BY <1>1 DEF TypeOK, Insert, Live, Keys
<1> QED
  BY <1>1, <1>2, <1>3, <1>4

\* Every operation keeps the types.
LEMMA TypeStep == TypeOK /\ [Next]_vars => TypeOK'
<1> SUFFICES ASSUME TypeOK, [Next]_vars
             PROVE  TypeOK'
  OBVIOUS
<1>0. storage_size \in Int /\ gets_ \in Int /\ updates_ \in Int /\ deleted_ \in Int
  BY WordArithmetic DEF TypeOK
<1>1. ASSUME NEW k \in Key, GetNormalized(k)
      PROVE  TypeOK'
  <2>1. gets_' \in 0..(Uint - 1)
    <3>1. gets_' = (gets_ + 1) % Uint
      BY <1>1 DEF GetNormalized, GetMissing, GetUnknownValue, GetFresh, GetStale, CountGet
    <3>2. gets_ + 1 \in Int
      BY <1>0
    <3> QED
      BY <3>1, <3>2, WordArithmetic
  <2>2. CASE GetMissing(k) \/ GetUnknownValue(k)
    BY <2>1, <2>2 DEF TypeOK, Keys, GetMissing, GetUnknownValue
  <2>3. CASE GetFresh(k)
    BY <2>1, <2>3 DEF TypeOK, Keys, GetFresh
  <2>4. CASE GetStale(k)
    <3>1. updates_' \in 0..(Uint - 1)
      BY <1>0, <2>4, WordArithmetic DEF GetStale
    <3> QED
      BY <2>1, <2>4, <3>1 DEF TypeOK, Keys, GetStale
  <2> QED
    BY <1>1, <2>2, <2>3, <2>4 DEF GetNormalized
<1>2. ASSUME NEW k \in Key, NEW o \in Obj, AddReplace(k, o)
      PROVE  TypeOK'
  <2>1. value_[k] \in Obj
    BY <1>2 DEF AddReplace, Keys, TypeOK
  <2>2. storage_size' \in 0..(Word - 1)
    <3>1. storage_size - ObjBytes[{value_[k]}] \in Int
      BY <1>0, <2>1, BytesAreNat
    <3>2. CASE SoleReferrer(k)
      BY <1>2, <3>1, <3>2, WordArithmetic DEF AddReplace
    <3>3. CASE ~ SoleReferrer(k)
      BY <1>2, <3>3 DEF AddReplace, TypeOK
    <3> QED
      BY <3>2, <3>3
  <2>3. values_' \subseteq Obj
    BY <1>2 DEF AddReplace, TypeOK
  <2> QED
    BY <1>2, <2>2, <2>3, InsertType DEF AddReplace, TypeOK, stats
<1>3. ASSUME NEW k \in Key, NEW o \in Obj, AddKey(k, o)
      PROVE  TypeOK'
  <2>1. storage_size' \in 0..(Word - 1)
    <3>1. storage_size + KeyBytes[{k}] \in Int
      BY <1>0, BytesAreNat
    <3> QED
      BY <1>3, <3>1, WordArithmetic DEF AddKey
  <2> QED
    BY <1>3, <2>1, InsertType DEF AddKey, TypeOK, stats
<1>4. ASSUME NEW k \in Key, NEW o \in Obj, AddRenew(k, o)
      PROVE  TypeOK'
  <2>1. storage_size' \in 0..(Word - 1)
    <3>1. storage_size + ObjBytes[{o}] \in Int
      BY <1>0, BytesAreNat
    <3> QED
      BY <1>4, <3>1, WordArithmetic DEF AddRenew
  <2> QED
    BY <1>4, <2>1 DEF AddRenew, TypeOK, Keys, stats
<1>5. ASSUME NEW k \in Key, NEW o \in Obj, AddPair(k, o)
      PROVE  TypeOK'
  <2>1. storage_size' \in 0..(Word - 1)
    <3>1. storage_size + KeyBytes[{k}] + ObjBytes[{o}] \in Int
      BY <1>0, BytesAreNat
    <3> QED
      BY <1>5, <3>1, WordArithmetic DEF AddPair
  <2> QED
    BY <1>5, <2>1, InsertType DEF AddPair, TypeOK, stats
<1>6. ASSUME NEW E \in SUBSET Keys, Evict(E)
      PROVE  TypeOK'
  <2>1. storage_size' \in 0..(Word - 1)
    <3>1. storage_size - Freed(E) \in Int
      BY <1>0, FreedIsNat
    <3> QED
      BY <1>6, <3>1, WordArithmetic DEF Evict
  <2>2. IsFiniteSet(E) /\ Cardinality(E) \in Nat
    BY KeyAssumption, FS_Subset, FS_CardinalityType DEF Keys
  <2>3. deleted_' \in 0..(Uint - 1)
    <3>1. deleted_ + Cardinality(E) \in Int
      BY <1>0, <2>2
    <3> QED
      BY <1>6, <3>1, WordArithmetic DEF Evict
  <2>4. value_' \in [Key -> Obj \cup {Nil}] /\ values_' \subseteq Obj
    BY <1>6 DEF Evict, TypeOK
  <2>5. ttl_' \in [Key -> 0..MaxTime]
    BY <1>6, SizeAssumption DEF Evict, TypeOK
  <2>6. index_' \subseteq Keys' \X Keys'
    BY <1>6 DEF Evict, TypeOK, Keys
  <2> QED
    BY <1>6, <2>1, <2>3, <2>4, <2>5, <2>6 DEF Evict, TypeOK
<1>7. CASE ExpirateFault
  BY <1>7 DEF ExpirateFault, TypeOK, Keys, stats
<1>8. CASE ReadStats
  <2>1. {gets_', updates_', deleted_'} \subseteq 0..(Uint - 1) /\ StorageUnchanged
    BY <1>8, WordArithmetic DEF ReadStats, GetDeleted, GetGets, GetUpdates, TypeOK
  <2>2. Keys' = Keys
    BY <2>1 DEF StorageUnchanged, Keys
  <2> QED
    BY <2>1, <2>2, Zenon DEF StorageUnchanged, TypeOK
<1>9. CASE Tick
  BY <1>9, SizeAssumption DEF Tick, TypeOK, Keys, stats
<1>10. CASE UNCHANGED vars
  BY <1>10 DEF vars, stats, TypeOK, Keys
<1>11. ASSUME NEW r \in Key, NEW v \in Value, AddItem(Normalize[r], v)
       PROVE  TypeOK'
  <2>1. Normalize[r] \in Key
    BY NormalizeAssumption
  <2>2. Find(v) \subseteq Obj /\ Fresh(v) \subseteq Obj
    BY DEF TypeOK, Find, Fresh
  <2>3. \/ \E o \in Obj : \/ AddReplace(Normalize[r], o) \/ AddKey(Normalize[r], o)
                          \/ AddRenew(Normalize[r], o) \/ AddPair(Normalize[r], o)
        \/ UNCHANGED vars
    BY <1>11, <2>2 DEF AddItem, Add, AddKnownValue, AddNewValue, AddSame
  <2> QED
    BY <2>1, <2>3, <1>2, <1>3, <1>4, <1>5, <1>10
<1>12. ASSUME NEW r \in Key, Get(r)
       PROVE  TypeOK'
  BY <1>1, <1>12, NormalizeAssumption DEF Get
<1> QED
  BY <1>6, <1>7, <1>8, <1>9, <1>10, <1>11, <1>12 DEF Next, Expirate

\* Keys, values, ttl index, sizes and counters keep their types through every
\* operation of the map.
THEOREM TypeCorrect == Spec => []TypeOK
<1>1. Init => TypeOK
  <2> SUFFICES ASSUME Init
               PROVE  TypeOK
    OBVIOUS
  <2>1. Keys = {}
    BY DEF Init, Keys
  <2> QED
    BY <2>1, WordArithmetic, SizeAssumption DEF Init, TypeOK
<1> QED
  BY <1>1, TypeStep, PTL DEF Spec

-----------------------------------------------------------------------------
(* The ways a step can change what is stored.                               *)

\* An add of a value in memory finds its object; a new value finds none.
ReplaceStep(k, o) == o \in Find(Content[o]) /\ AddReplace(k, o)
KeyStep(k, o) == o \in Find(Content[o]) /\ AddKey(k, o)
RenewStep(k, o) == Find(Content[o]) = {} /\ o \in Fresh(Content[o]) /\ AddRenew(k, o)
PairStep(k, o) == Find(Content[o]) = {} /\ o \in Fresh(Content[o]) /\ AddPair(k, o)

AddStep ==
  \E k \in Key, o \in Obj :
    \/ ReplaceStep(k, o) \/ KeyStep(k, o) \/ RenewStep(k, o) \/ PairStep(k, o)

EvictStep == \E E \in SUBSET Keys : Evict(E)

\* What gets, faults, statistics and the clock leave alone.
Untouched == UNCHANGED <<value_, index_, values_, storage_size>>

\* A step adds while there is room, evicts, or leaves the store alone.
LEMMA StoreSteps ==
  ASSUME TypeOK, [Next]_vars
  PROVE  \/ (storage_size < MaxStorage /\ AddStep)
         \/ EvictStep
         \/ Untouched
<1>1. ASSUME NEW r \in Key, NEW v \in Value, AddItem(Normalize[r], v)
      PROVE  (storage_size < MaxStorage /\ AddStep) \/ Untouched
  <2> DEFINE k == Normalize[r]
  <2>1. k \in Key
    BY NormalizeAssumption
  <2>2. storage_size < MaxStorage /\ Add(k, v)
    BY <1>1 DEF AddItem, HasRoom
  <2>3. CASE AddKnownValue(k, v)
    <3>1. PICK o \in Find(v) : AddReplace(k, o) \/ AddSame(k, o) \/ AddKey(k, o)
      BY <2>3 DEF AddKnownValue
    <3>2. o \in Obj /\ Content[o] = v
      BY DEF Find, TypeOK
    <3>3. AddSame(k, o) => Untouched
      BY DEF AddSame, vars, Untouched
    <3> QED
      BY <2>1, <2>2, <3>1, <3>2, <3>3 DEF AddStep, ReplaceStep, KeyStep
  <2>4. CASE AddNewValue(k, v)
    <3>1. PICK o \in Fresh(v) : AddRenew(k, o) \/ AddPair(k, o)
      BY <2>4 DEF AddNewValue
    <3>2. o \in Obj /\ Content[o] = v
      BY DEF Fresh
    <3>3. Find(Content[o]) = {}
      BY <2>4, <3>2 DEF AddNewValue
    <3> QED
      BY <2>1, <2>2, <3>1, <3>2, <3>3 DEF AddStep, RenewStep, PairStep
  <2> QED
    BY <2>2, <2>3, <2>4 DEF Add
<1>2. ASSUME NEW r \in Key, Get(r)
      PROVE  Untouched
  BY <1>2 DEF Get, GetNormalized, GetMissing, GetUnknownValue, GetFresh, GetStale, Untouched
<1>3. CASE Expirate
  BY <1>3 DEF Expirate, ExpirateFault, EvictStep, Untouched
<1>4. CASE ReadStats \/ Tick \/ UNCHANGED vars
  BY <1>4 DEF ReadStats, GetDeleted, GetGets, GetUpdates, StorageUnchanged, Tick, vars, Untouched
<1> QED
  BY <1>1, <1>2, <1>3, <1>4 DEF Next

-----------------------------------------------------------------------------
(* Sharing.  That get finds the value of every key among the weak           *)
(* references is not inductive by itself: a replacement erases references   *)
(* by content, so it takes OneObjectPerValue to know that it erases no      *)
(* other one than the one whose last key goes.                              *)

RefsStored == \A k \in Keys : value_[k] \in values_

Sharing == RefsStored /\ OneObjectPerValue

\* The value of a key is live, and nothing else is.
LEMMA LiveValues ==
  /\ \A k \in Keys : value_[k] \in Live
  /\ \A o \in Live : \E k \in Keys : o = value_[k]
BY DEF Live

\* Under Sharing, looking a live object up by its content finds that object.
LEMMA FindsItself ==
  ASSUME Sharing, NEW o \in Live
  PROVE  Find(Content[o]) = {o}
<1>1. o \in values_
  BY LiveValues DEF Sharing, RefsStored
<1> QED
  BY <1>1 DEF Sharing, OneObjectPerValue, Find

\* Every step keeps equal values shared and their references known.
LEMMA SharingStep == TypeOK /\ Sharing /\ [Next]_vars => Sharing'
<1> SUFFICES ASSUME TypeOK, Sharing, [Next]_vars
             PROVE  Sharing'
  OBVIOUS
<1>1. ASSUME NEW k \in Key, NEW o \in Obj, ReplaceStep(k, o)
      PROVE  Sharing'
  <2>1. Insert(k, o) /\ k \in Keys /\ value_[k] # o /\ o \in Live /\ o \in values_
    BY <1>1 DEF ReplaceStep, AddReplace, Find
  <2>2. Keys' = Keys /\ \A j \in Keys : value_'[j] = IF j = k THEN o ELSE value_[j]
    BY <2>1, InsertType DEF Insert, TypeOK, Keys
  <2>3. Live' \subseteq Live
    BY <2>1, InsertType
  <2>4. OneObjectPerValue'
    BY <2>3 DEF Sharing, OneObjectPerValue
  <2>5. CASE SoleReferrer(k)
    <3>1. values_' = values_ \ {value_[k]}
      BY <1>1, <2>1, <2>5, FindsItself, LiveValues DEF ReplaceStep, AddReplace
    <3>2. \A j \in Keys : j # k => value_[j] # value_[k]
      BY <2>1, <2>5 DEF SoleReferrer, Referrers
    <3> QED
      BY <2>1, <2>2, <2>4, <3>1, <3>2 DEF Sharing, RefsStored
  <2>6. CASE ~ SoleReferrer(k)
    <3>1. values_' = values_
      BY <1>1, <2>6 DEF ReplaceStep, AddReplace
    <3> QED
      BY <2>1, <2>2, <2>4, <3>1 DEF Sharing, RefsStored
  <2> QED
    BY <2>5, <2>6
<1>2. ASSUME NEW k \in Key, NEW o \in Obj, KeyStep(k, o)
      PROVE  Sharing'
  <2>1. Insert(k, o) /\ o \in Live /\ o \in values_ /\ values_' = values_
    BY <1>2 DEF KeyStep, AddKey, Find
  <2>2. Keys' = Keys \cup {k} /\ Live' \subseteq Live
    BY <2>1, InsertType
  <2>3. \A j \in Keys' : value_'[j] = IF j = k THEN o ELSE value_[j]
    BY <2>1, <2>2 DEF Insert, TypeOK, Keys
  <2> QED
    BY <2>1, <2>2, <2>3 DEF Sharing, RefsStored, OneObjectPerValue
<1>3. ASSUME NEW k \in Key, NEW o \in Obj, RenewStep(k, o)
      PROVE  Sharing'
  BY <1>3 DEF RenewStep, AddRenew, Sharing, RefsStored, OneObjectPerValue, Live, Keys
<1>4. ASSUME NEW k \in Key, NEW o \in Obj, PairStep(k, o)
      PROVE  Sharing'
  <2>1. Insert(k, o) /\ values_' = values_ \cup {o} /\ Find(Content[o]) = {}
    BY <1>4 DEF PairStep, AddPair
  <2>2. Keys' = Keys \cup {k} /\ Live' \subseteq Live \cup {o}
    BY <2>1, InsertType
  <2>3. \A j \in Keys' : value_'[j] = IF j = k THEN o ELSE value_[j]
    BY <2>1, <2>2 DEF Insert, TypeOK, Keys
  <2>4. \A p \in Live : Content[p] # Content[o]
    BY <2>1, LiveValues DEF Find, Sharing, RefsStored
  <2> QED
    BY <2>1, <2>2, <2>3, <2>4 DEF Sharing, RefsStored, OneObjectPerValue
<1>5. ASSUME NEW E \in SUBSET Keys, Evict(E)
      PROVE  Sharing'
  <2>1. Keys' = Keys \ E
    BY <1>5 DEF Evict, TypeOK, Keys
  <2>2. \A k \in Keys' : value_'[k] = value_[k]
    BY <1>5, <2>1 DEF Evict, Keys
  <2>3. Live' \subseteq Live
    BY <2>1, <2>2 DEF Live
  <2>4. RefsStored'
    BY <1>5, <2>1, <2>2 DEF Evict, Sharing, RefsStored
  <2> QED
    BY <2>3, <2>4 DEF Sharing, OneObjectPerValue
<1>6. CASE Untouched
  BY <1>6 DEF Untouched, Sharing, RefsStored, OneObjectPerValue, Live, Keys
<1> QED
  BY <1>1, <1>2, <1>3, <1>4, <1>5, <1>6, StoreSteps DEF AddStep, EvictStep

\* The inductive invariant of the two theorems below: every value of a key is
\* among the weak references, and equal values are one object.
THEOREM SharingHolds == Spec => []Sharing
<1>1. Init => Sharing
  BY DEF Init, Sharing, RefsStored, OneObjectPerValue, Live, Keys
<1> QED
  BY <1>1, SharingStep, TypeCorrect, PTL DEF Spec

\* Equal values are one object, whatever is added, replaced and evicted.
THEOREM OneObject == Spec => []OneObjectPerValue
<1>1. Sharing => OneObjectPerValue
  BY DEF Sharing
<1> QED
  BY <1>1, SharingHolds, PTL

\* The abort in get is unreachable as long as operations do not overlap.
THEOREM NoAbort == Spec => []GetNeverAborts
<1> DEFINE Found == \A k \in Keys : Find(Content[value_[k]]) # {}
           Alive == halt # "abort"
<1>1. Sharing => Found
  BY LiveValues, FindsItself
<1>2. Init => Alive
  BY DEF Init
<1>3. Found /\ Alive /\ [Next]_vars => Alive'
  <2> SUFFICES ASSUME Found, Alive, [Next]_vars
               PROVE  Alive'
    OBVIOUS
  <2>1. ASSUME NEW k \in Key, GetNormalized(k)
        PROVE  halt' = halt
    BY <2>1 DEF GetNormalized, GetMissing, GetUnknownValue, GetFresh, GetStale
  <2>2. ASSUME NEW r \in Key, Get(r)
        PROVE  halt' = halt
    BY <2>1, <2>2, NormalizeAssumption DEF Get
  <2>3. ASSUME NEW r \in Key, NEW v \in Value, AddItem(r, v)
        PROVE  halt' = halt
    BY <2>3 DEF AddItem, Add, AddKnownValue, AddNewValue, AddReplace, AddSame, AddKey,
                AddRenew, AddPair, vars
  <2>4. CASE Expirate
    BY <2>4 DEF Expirate, Evict, ExpirateFault
  <2>5. CASE ReadStats \/ Tick \/ UNCHANGED vars
    BY <2>5 DEF ReadStats, GetDeleted, GetGets, GetUpdates, StorageUnchanged, Tick, vars
  <2> QED
    BY <2>2, <2>3, <2>4, <2>5, NormalizeAssumption DEF Next
<1>4. Found /\ Alive => GetNeverAborts
  BY DEF GetNeverAborts
<1> QED
  BY <1>1, <1>2, <1>3, <1>4, SharingHolds, PTL DEF Spec

-----------------------------------------------------------------------------
(* Accounting.  storage_size is unsigned: the subtractions of replacement   *)
(* and eviction are safe because what they subtract is part of Bytes.       *)

\* Fewer values have no more bytes.
LEMMA ObjBytesGrow ==
  ASSUME NEW S \in SUBSET Obj, NEW T \in SUBSET S
  PROVE  ObjBytes[T] <= ObjBytes[S]
<1>1. ObjBytes[S \ T] = ObjBytes[S] - ObjBytes[T] /\ S \ T \in SUBSET Obj
  BY ObjBytesSplit
<1> QED
  BY <1>1, BytesAreNat

\* Taking away some of the stored bytes does not wrap.
LEMMA SubtractStored ==
  ASSUME TypeOK, NEW n \in Nat, n <= storage_size
  PROVE  (storage_size - n) % Word = storage_size - n
<1>1. storage_size - n \in 0..(Word - 1)
  BY WordArithmetic DEF TypeOK
<1> QED
  BY <1>1, WordArithmetic

\* Adding an entry while there is room does not wrap.
LEMMA AddWithRoom ==
  ASSUME TypeOK, storage_size < MaxStorage, NEW k \in Key, NEW o \in Obj
  PROVE  /\ (storage_size + KeyBytes[{k}]) % Word = storage_size + KeyBytes[{k}]
         /\ (storage_size + ObjBytes[{o}]) % Word = storage_size + ObjBytes[{o}]
         /\ (storage_size + KeyBytes[{k}] + ObjBytes[{o}]) % Word
              = storage_size + KeyBytes[{k}] + ObjBytes[{o}]
<1>1. KeyBytes[{k}] \in Nat /\ ObjBytes[{o}] \in Nat /\ storage_size \in Nat
  BY BytesAreNat DEF TypeOK
<1>2. MaxStorage \in Nat /\ MaxStorage + KeyBytes[{k}] + ObjBytes[{o}] < Word
  BY WordAssumption, SizeAssumption
<1>3. /\ storage_size + KeyBytes[{k}] \in 0..(Word - 1)
      /\ storage_size + ObjBytes[{o}] \in 0..(Word - 1)
      /\ storage_size + KeyBytes[{k}] + ObjBytes[{o}] \in 0..(Word - 1)
  BY <1>1, <1>2, SizeAssumption
<1> QED
  BY <1>3, WordArithmetic

\* What is stored is made of keys and objects.
LEMMA BytesParts ==
  TypeOK => /\ Keys \in SUBSET Key /\ Live \in SUBSET Obj
            /\ KeyBytes[Keys] \in Nat /\ ObjBytes[Live] \in Nat
            /\ storage_size \in Nat
<1>1. Keys \in SUBSET Key
  BY DEF Keys
<1> QED
  BY <1>1, LiveObjects, BytesAreNat DEF TypeOK

\* An addition of the bytes of what is new keeps the account.
LEMMA MeasureOfUnion ==
  /\ \A S \in SUBSET Key, k \in Key : KeyBytes[S \cup {k}] <= KeyBytes[S] + KeyBytes[{k}]
  /\ \A S \in SUBSET Obj, o \in Obj : ObjBytes[S \cup {o}] <= ObjBytes[S] + ObjBytes[{o}]
<1>1. ASSUME NEW S \in SUBSET Key, NEW k \in Key
      PROVE  KeyBytes[S \cup {k}] <= KeyBytes[S] + KeyBytes[{k}]
  <2>1. CASE k \in S
    <3>1. S \cup {k} = S
      BY <2>1
    <3>2. KeyBytes[S \cup {k}] = KeyBytes[S]
      BY <3>1, Zenon
    <3>3. KeyBytes[S] \in Nat /\ KeyBytes[{k}] \in Nat
      BY BytesAreNat
    <3> QED
      BY <3>2, <3>3
  <2>2. CASE k \notin S
    <3>1. S \cap {k} = {} /\ {k} \in SUBSET Key
      BY <2>2
    <3>2. KeyBytes[S \cup {k}] = KeyBytes[S] + KeyBytes[{k}]
      BY <3>1, MeasureAssumption DEF IsMeasure
    <3>3. KeyBytes[S] \in Nat /\ KeyBytes[{k}] \in Nat
      BY BytesAreNat
    <3> QED
      BY <3>2, <3>3
  <2> QED
    BY <2>1, <2>2
<1>2. ASSUME NEW S \in SUBSET Obj, NEW o \in Obj
      PROVE  ObjBytes[S \cup {o}] <= ObjBytes[S] + ObjBytes[{o}]
  <2>1. CASE o \in S
    <3>1. S \cup {o} = S
      BY <2>1
    <3>2. ObjBytes[S \cup {o}] = ObjBytes[S]
      BY <3>1, Zenon
    <3>3. ObjBytes[S] \in Nat /\ ObjBytes[{o}] \in Nat
      BY BytesAreNat
    <3> QED
      BY <3>2, <3>3
  <2>2. CASE o \notin S
    <3>1. S \cap {o} = {} /\ {o} \in SUBSET Obj
      BY <2>2
    <3>2. ObjBytes[S \cup {o}] = ObjBytes[S] + ObjBytes[{o}]
      BY <3>1, MeasureAssumption DEF IsMeasure
    <3>3. ObjBytes[S] \in Nat /\ ObjBytes[{o}] \in Nat
      BY BytesAreNat
    <3> QED
      BY <3>2, <3>3
  <2> QED
    BY <2>1, <2>2
<1> QED
  BY <1>1, <1>2

\* Every step adds at least what it stores and subtracts what it releases.
LEMMA AccountStep ==
  TypeOK /\ TypeOK' /\ NeverUndercounts /\ [Next]_vars => NeverUndercounts'
<1> SUFFICES ASSUME TypeOK, TypeOK', NeverUndercounts, [Next]_vars
             PROVE  NeverUndercounts'
  OBVIOUS
<1> USE DEF NeverUndercounts, Bytes
<1>0. /\ Keys \in SUBSET Key /\ Live \in SUBSET Obj
      /\ KeyBytes[Keys] \in Nat /\ ObjBytes[Live] \in Nat /\ storage_size \in Nat
      /\ Keys' \in SUBSET Key /\ Live' \in SUBSET Obj
      /\ KeyBytes[Keys'] \in Nat /\ ObjBytes[Live'] \in Nat
  <2>1. Keys' \in SUBSET Key
    BY DEF Keys
  <2>2. Live' \in SUBSET Obj
    BY DEF Live, Keys, TypeOK
  <2> QED
    BY <2>1, <2>2, BytesParts, BytesAreNat
<1>1. ASSUME NEW k \in Key, NEW o \in Obj, ReplaceStep(k, o)
      PROVE  NeverUndercounts'
  <2> DEFINE old == value_[k]
  <2>1. Insert(k, o) /\ k \in Keys /\ old # o /\ o \in Live /\ old \in Live
    BY <1>1, LiveValues DEF ReplaceStep, AddReplace, Find
  <2>2. Keys' = Keys /\ Live' \subseteq Live
    <3>1. Keys' = Keys \cup {k} /\ Live' \subseteq Live \cup {o}
      BY <2>1, InsertType
    <3> QED
      BY <2>1, <3>1
  <2>3. CASE SoleReferrer(k)
    <3>1. Live' \subseteq Live \ {old}
      <4>1. \A j \in Keys : value_'[j] # old
        BY <2>1, <2>3 DEF SoleReferrer, Referrers, Insert, TypeOK, Keys
      <4> QED
        BY <2>2, <4>1 DEF Live
    <3>2. ObjBytes[Live \ {old}] = ObjBytes[Live] - ObjBytes[{old}]
      BY <1>0, <2>1, ObjBytesSplit
    <3>3. ObjBytes[Live'] <= ObjBytes[Live \ {old}]
      BY <1>0, <3>1, ObjBytesGrow
    <3>4. ObjBytes[{old}] \in Nat /\ ObjBytes[Live \ {old}] \in Nat
      BY <1>0, <2>1, BytesAreNat
    <3>5. storage_size' = storage_size - ObjBytes[{old}]
      <4>1. ObjBytes[{old}] <= storage_size
        BY <1>0, <3>2, <3>4
      <4>2. storage_size' = (storage_size - ObjBytes[{old}]) % Word
        BY <1>1, <2>3 DEF ReplaceStep, AddReplace
      <4> QED
        BY <3>4, <4>1, <4>2, SubtractStored
    <3> QED
      BY <1>0, <2>2, <3>2, <3>3, <3>4, <3>5
  <2>4. CASE ~ SoleReferrer(k)
    <3>1. storage_size' = storage_size
      BY <1>1, <2>4 DEF ReplaceStep, AddReplace
    <3>2. ObjBytes[Live'] <= ObjBytes[Live]
      BY <1>0, <2>2, ObjBytesGrow
    <3> QED
      BY <1>0, <2>2, <3>1, <3>2
  <2> QED
    BY <2>3, <2>4
<1>2. ASSUME storage_size < MaxStorage, NEW k \in Key, NEW o \in Obj, KeyStep(k, o)
      PROVE  NeverUndercounts'
  <2>1. Insert(k, o) /\ o \in Live
    BY <1>2 DEF KeyStep, AddKey, Find
  <2>2. Keys' = Keys \cup {k} /\ Live' \subseteq Live
    BY <2>1, InsertType
  <2>3. storage_size' = storage_size + KeyBytes[{k}]
    BY <1>2, AddWithRoom DEF KeyStep, AddKey
  <2>4. KeyBytes[Keys'] <= KeyBytes[Keys] + KeyBytes[{k}] /\ KeyBytes[{k}] \in Nat
    BY <1>0, <2>2, MeasureOfUnion, BytesAreNat
  <2>5. ObjBytes[Live'] <= ObjBytes[Live]
    BY <1>0, <2>2, ObjBytesGrow
  <2> QED
    BY <1>0, <2>3, <2>4, <2>5
<1>3. ASSUME storage_size < MaxStorage, NEW k \in Key, NEW o \in Obj, RenewStep(k, o)
      PROVE  NeverUndercounts'
  <2>1. Keys' = Keys /\ Live' = Live
    BY <1>3 DEF RenewStep, AddRenew, Keys, Live
  <2>2. storage_size' = storage_size + ObjBytes[{o}] /\ ObjBytes[{o}] \in Nat
    BY <1>3, AddWithRoom, BytesAreNat DEF RenewStep, AddRenew
  <2> QED
    BY <1>0, <2>1, <2>2
<1>4. ASSUME storage_size < MaxStorage, NEW k \in Key, NEW o \in Obj, PairStep(k, o)
      PROVE  NeverUndercounts'
  <2>1. Insert(k, o)
    BY <1>4 DEF PairStep, AddPair
  <2>2. Keys' = Keys \cup {k} /\ Live' \subseteq Live \cup {o}
    BY <2>1, InsertType
  <2>3. storage_size' = storage_size + KeyBytes[{k}] + ObjBytes[{o}]
    BY <1>4, AddWithRoom DEF PairStep, AddPair
  <2>4. KeyBytes[Keys'] <= KeyBytes[Keys] + KeyBytes[{k}] /\ KeyBytes[{k}] \in Nat
    BY <1>0, <2>2, MeasureOfUnion, BytesAreNat
  <2>5. ObjBytes[Live'] <= ObjBytes[Live \cup {o}] /\ Live \cup {o} \in SUBSET Obj
    BY <1>0, <2>2, ObjBytesGrow
  <2>6. ObjBytes[Live \cup {o}] <= ObjBytes[Live] + ObjBytes[{o}]
        /\ ObjBytes[{o}] \in Nat /\ ObjBytes[Live \cup {o}] \in Nat
    BY <1>0, <2>5, MeasureOfUnion, BytesAreNat
  <2> QED
    BY <1>0, <2>3, <2>4, <2>5, <2>6
<1>5. ASSUME NEW E \in SUBSET Keys, Evict(E)
      PROVE  NeverUndercounts'
  <2> DEFINE Gone == {o \in Live : Referrers(o) \subseteq E}
  <2>1. Keys' = Keys \ E /\ \A k \in Keys' : value_'[k] = value_[k]
    BY <1>5 DEF Evict, TypeOK, Keys
  <2>2. Live' \subseteq Live \ Gone
    BY <2>1 DEF Live, Referrers
  <2>3. KeyBytes[Keys'] = KeyBytes[Keys] - KeyBytes[E] /\ KeyBytes[E] \in Nat
    BY <1>0, <2>1, KeyBytesSplit, BytesAreNat
  <2>4. Gone \in SUBSET Live
    OBVIOUS
  <2>5. ObjBytes[Live \ Gone] = ObjBytes[Live] - ObjBytes[Gone] /\ ObjBytes[Gone] \in Nat
        /\ ObjBytes[Live \ Gone] \in Nat
    BY <1>0, <2>4, ObjBytesSplit, BytesAreNat
  <2>6. ObjBytes[Live'] <= ObjBytes[Live \ Gone]
    BY <1>0, <2>2, ObjBytesGrow
  <2>7. Freed(E) = KeyBytes[E] + ObjBytes[Gone]
    BY DEF Freed
  <2>8. storage_size' = storage_size - Freed(E)
    <3>1. Freed(E) \in Nat /\ Freed(E) <= storage_size
      BY <1>0, <2>3, <2>5, <2>7
    <3> QED
      BY <1>5, <3>1, SubtractStored DEF Evict
  <2> QED
    BY <1>0, <2>3, <2>5, <2>6, <2>7, <2>8
<1>6. CASE Untouched
  BY <1>6 DEF Untouched, Live, Keys
<1> QED
  BY <1>1, <1>2, <1>3, <1>4, <1>5, <1>6, StoreSteps DEF AddStep, EvictStep

\* Whatever leaks, storage_size covers what is stored: the limit of add_item
\* is on the safe side and no subtraction ever wraps.
THEOREM Account == Spec => []NeverUndercounts
<1>1. Init => NeverUndercounts
  <2> SUFFICES ASSUME Init
               PROVE  NeverUndercounts
    OBVIOUS
  <2>1. Keys = {} /\ Live = {} /\ storage_size = 0
    BY DEF Init, Keys, Live
  <2>2. KeyBytes[{}] = 0 /\ ObjBytes[{}] = 0
    <3>1. KeyBytes[{} \cup {}] = KeyBytes[{}] + KeyBytes[{}]
          /\ ObjBytes[{} \cup {}] = ObjBytes[{}] + ObjBytes[{}]
      BY MeasureAssumption DEF IsMeasure
    <3>2. {} \cup {} = {}
      OBVIOUS
    <3>3. KeyBytes[{}] \in Nat /\ ObjBytes[{}] \in Nat
      BY BytesAreNat
    <3>4. KeyBytes[{}] = KeyBytes[{}] + KeyBytes[{}] /\ ObjBytes[{}] = ObjBytes[{}] + ObjBytes[{}]
      BY <3>1, <3>2
    <3>5. \A n \in Nat : n = n + n => n = 0
      OBVIOUS
    <3> QED
      BY ONLY <3>3, <3>4, <3>5
  <2> QED
    BY <2>1, <2>2 DEF NeverUndercounts, Bytes
<1> QED
  BY <1>1, AccountStep, TypeCorrect, PTL DEF Spec

-----------------------------------------------------------------------------
(* The limit.  It takes the account to see that replacement and eviction    *)
(* make storage_size smaller, where a wrap would make it enormous.          *)

\* What an eviction frees is part of what is accounted for.
LEMMA FreedIsStored ==
  ASSUME TypeOK, NeverUndercounts, NEW E \in SUBSET Keys
  PROVE  Freed(E) \in Nat /\ Freed(E) <= storage_size
<1> DEFINE Gone == {o \in Live : Referrers(o) \subseteq E}
<1>1. KeyBytes[Keys \ E] = KeyBytes[Keys] - KeyBytes[E]
      /\ KeyBytes[Keys \ E] \in Nat /\ KeyBytes[E] \in Nat
  BY BytesParts, KeyBytesSplit, BytesAreNat
<1>2. Gone \in SUBSET Live
  OBVIOUS
<1>3. ObjBytes[Live \ Gone] = ObjBytes[Live] - ObjBytes[Gone]
      /\ ObjBytes[Live \ Gone] \in Nat /\ ObjBytes[Gone] \in Nat
  BY <1>2, BytesParts, ObjBytesSplit, BytesAreNat
<1>4. Freed(E) = KeyBytes[E] + ObjBytes[Gone]
  BY DEF Freed
<1> QED
  BY <1>1, <1>3, <1>4, BytesParts DEF NeverUndercounts, Bytes

\* So is the value of an entry.
LEMMA ValueIsStored ==
  ASSUME TypeOK, NeverUndercounts, NEW k \in Keys
  PROVE  ObjBytes[{value_[k]}] \in Nat /\ ObjBytes[{value_[k]}] <= storage_size
<1>1. {value_[k]} \in SUBSET Live /\ Live \in SUBSET Obj
  BY LiveValues, BytesParts
<1>2. ObjBytes[{value_[k]}] <= ObjBytes[Live]
  BY <1>1, ObjBytesGrow
<1>3. ObjBytes[{value_[k]}] \in Nat
  BY <1>1, BytesAreNat
<1> QED
  BY <1>2, <1>3, BytesParts DEF NeverUndercounts, Bytes

\* An add starts below the limit and counts at most one entry; nothing else counts.
LEMMA BoundStep ==
  TypeOK /\ NeverUndercounts /\ StorageBound /\ [Next]_vars => StorageBound'
<1> SUFFICES ASSUME TypeOK, NeverUndercounts, StorageBound, [Next]_vars
             PROVE  StorageBound'
  OBVIOUS
<1>0. storage_size \in Nat /\ MaxStorage \in Nat
  BY BytesParts, SizeAssumption
<1>1. ASSUME storage_size < MaxStorage, NEW k \in Key, NEW o \in Obj,
             \/ ReplaceStep(k, o) \/ KeyStep(k, o) \/ RenewStep(k, o) \/ PairStep(k, o)
      PROVE  StorageBound'
  <2>1. KeyBytes[{k}] \in Nat /\ ObjBytes[{o}] \in Nat
    BY BytesAreNat
  <2>2. ASSUME ReplaceStep(k, o)
        PROVE  storage_size' <= storage_size
    <3>1. CASE SoleReferrer(k)
      <4>1. k \in Keys /\ storage_size' = (storage_size - ObjBytes[{value_[k]}]) % Word
        BY <2>2, <3>1 DEF ReplaceStep, AddReplace
      <4>2. ObjBytes[{value_[k]}] \in Nat /\ ObjBytes[{value_[k]}] <= storage_size
        BY <4>1, ValueIsStored
      <4>3. storage_size' = storage_size - ObjBytes[{value_[k]}]
        BY <4>1, <4>2, SubtractStored
      <4> QED
        BY <1>0, <4>2, <4>3
    <3>2. CASE ~ SoleReferrer(k)
      BY <1>0, <2>2, <3>2 DEF ReplaceStep, AddReplace
    <3> QED
      BY <3>1, <3>2
  <2>3. storage_size' \in Nat /\ storage_size' <= storage_size + KeyBytes[{k}] + ObjBytes[{o}]
    <3>1. ASSUME KeyStep(k, o)
          PROVE  storage_size' = storage_size + KeyBytes[{k}]
      BY <1>1, <3>1, AddWithRoom DEF KeyStep, AddKey
    <3>2. ASSUME RenewStep(k, o)
          PROVE  storage_size' = storage_size + ObjBytes[{o}]
      BY <1>1, <3>2, AddWithRoom DEF RenewStep, AddRenew
    <3>3. ASSUME PairStep(k, o)
          PROVE  storage_size' = storage_size + KeyBytes[{k}] + ObjBytes[{o}]
      BY <1>1, <3>3, AddWithRoom DEF PairStep, AddPair
    <3>4. storage_size' \in Nat
      BY TypeStep DEF TypeOK
    <3> QED
      BY <1>0, <1>1, <2>1, <2>2, <3>1, <3>2, <3>3, <3>4
  <2>4. storage_size' < MaxStorage + KeyBytes[{k}] + ObjBytes[{o}]
    BY <1>0, <1>1, <2>1, <2>3
  <2> QED
    BY <2>4 DEF StorageBound
<1>2. ASSUME NEW E \in SUBSET Keys, Evict(E)
      PROVE  StorageBound'
  <2>1. Freed(E) \in Nat /\ Freed(E) <= storage_size
    BY FreedIsStored
  <2>2. storage_size' = storage_size - Freed(E)
    BY <1>2, <2>1, SubtractStored DEF Evict
  <2>3. ASSUME storage_size' > 0
        PROVE  \E k \in Key, o \in Obj :
                 storage_size' < MaxStorage + KeyBytes[{k}] + ObjBytes[{o}]
    <3>1. storage_size > 0
      BY <1>0, <2>1, <2>2, <2>3
    <3>2. PICK k \in Key, o \in Obj :
            storage_size < MaxStorage + KeyBytes[{k}] + ObjBytes[{o}]
      BY <3>1 DEF StorageBound
    <3>3. KeyBytes[{k}] \in Nat /\ ObjBytes[{o}] \in Nat
      BY BytesAreNat
    <3>4. storage_size' < MaxStorage + KeyBytes[{k}] + ObjBytes[{o}]
      BY <1>0, <2>1, <2>2, <3>2, <3>3
    <3> QED
      BY <3>4
  <2> QED
    BY <2>3 DEF StorageBound
<1>3. CASE Untouched
  BY <1>3 DEF Untouched, StorageBound
<1> QED
  BY <1>1, <1>2, <1>3, StoreSteps DEF AddStep, EvictStep

\* However operations follow each other, and whatever leaks, storage_size exceeds
\* the limit by less than one entry.
THEOREM Limited == Spec => []StorageBound
<1>1. Init => StorageBound
  BY DEF Init, StorageBound
<1> QED
  BY <1>1, BoundStep, TypeCorrect, Account, PTL DEF Spec

-----------------------------------------------------------------------------
(* What storage_size covers beyond what is stored.                          *)

\* A step either adds and subtracts exactly what it stores and releases, or it counts
\* a value that an add allocates for a key that keeps the one it has.
LEMMA LeakStep ==
  ASSUME TypeOK, TypeOK', NeverUndercounts, [Next]_vars, Overcount' # Overcount
  PROVE  /\ Overcount' > Overcount
         /\ value_' = value_
         /\ \E k \in Keys : ttl_'[k] = now
<1> USE DEF Overcount, Bytes
<1>0. /\ Keys \in SUBSET Key /\ Live \in SUBSET Obj
      /\ KeyBytes[Keys] \in Nat /\ ObjBytes[Live] \in Nat /\ storage_size \in Nat
  BY BytesParts
<1>1. ASSUME NEW k \in Key, NEW o \in Obj, ReplaceStep(k, o)
      PROVE  FALSE
  <2> DEFINE old == value_[k]
  <2>1. /\ Insert(k, o) /\ k \in Keys /\ old # o /\ o \in Live /\ old \in Live
        /\ value_' = [value_ EXCEPT ![k] = o]
    BY <1>1, LiveValues DEF ReplaceStep, AddReplace, Find, Insert
  <2>2. Keys' = Keys
    BY <2>1, InsertType
  <2>3. \A j \in Keys : value_'[j] = IF j = k THEN o ELSE value_[j]
    BY <2>1 DEF TypeOK, Keys
  <2>4. Live \ {old} \subseteq Live' /\ Live' \subseteq Live
    <3>1. Live' = {value_'[j] : j \in Keys}
      BY <2>2 DEF Live
    <3>2. ASSUME NEW p \in Live, p # old PROVE p \in Live'
      <4>1. PICK j \in Keys : p = value_[j]
        BY LiveValues
      <4>2. j # k /\ value_'[j] = p
        BY <2>3, <3>2, <4>1
      <4> QED
        BY <3>1, <4>2
    <3>3. ASSUME NEW p \in Live' PROVE p \in Live
      <4>1. PICK j \in Keys : p = value_'[j]
        BY <3>1
      <4> QED
        BY <2>1, <2>3, <4>1, LiveValues
    <3> QED
      BY <3>2, <3>3
  <2>5. CASE SoleReferrer(k)
    <3>1. Live' = Live \ {old}
      <4>1. \A j \in Keys : value_'[j] # old
        BY <2>1, <2>3, <2>5 DEF SoleReferrer, Referrers
      <4>2. old \notin Live'
        BY <2>2, <4>1 DEF Live
      <4> QED
        BY <2>4, <4>2
    <3>2. ObjBytes[Live'] = ObjBytes[Live] - ObjBytes[{old}]
      <4>1. ObjBytes[Live \ {old}] = ObjBytes[Live] - ObjBytes[{old}]
        BY <1>0, <2>1, ObjBytesSplit
      <4> QED
        BY <3>1, <4>1, Zenon
    <3>3. ObjBytes[{old}] \in Nat /\ storage_size' = storage_size - ObjBytes[{old}]
      <4>1. ObjBytes[{old}] \in Nat /\ ObjBytes[{old}] <= storage_size
        BY <2>1, ValueIsStored
      <4>2. storage_size' = (storage_size - ObjBytes[{old}]) % Word
        BY <1>1, <2>5 DEF ReplaceStep, AddReplace
      <4> QED
        BY <4>1, <4>2, SubtractStored
    <3> QED
      BY <1>0, <2>2, <3>2, <3>3
  <2>6. CASE ~ SoleReferrer(k)
    <3>1. Live' = Live
      <4>1. PICK j \in Keys : value_[j] = old /\ j # k
        BY <2>1, <2>6 DEF SoleReferrer, Referrers
      <4>2. value_'[j] = old
        BY <2>3, <4>1
      <4>3. old \in Live'
        BY <2>2, <4>2 DEF Live
      <4> QED
        BY <2>4, <4>3
    <3>2. storage_size' = storage_size
      BY <1>1, <2>6 DEF ReplaceStep, AddReplace
    <3>3. KeyBytes[Keys'] = KeyBytes[Keys] /\ ObjBytes[Live'] = ObjBytes[Live]
      BY <2>2, <3>1, Zenon
    <3> QED
      BY <3>2, <3>3
  <2> QED
    BY <2>5, <2>6
<1>2. ASSUME storage_size < MaxStorage, NEW k \in Key, NEW o \in Obj,
             KeyStep(k, o) \/ PairStep(k, o)
      PROVE  FALSE
  <2>1. Insert(k, o) /\ k \notin Keys
    BY <1>2 DEF KeyStep, AddKey, PairStep, AddPair
  <2>2. Keys' = Keys \cup {k} /\ Live' = Live \cup {o}
    <3>1. Keys' = Keys \cup {k} /\ Live' \subseteq Live \cup {o}
      BY <2>1, InsertType
    <3>2. value_'[k] = o /\ \A j \in Keys : value_'[j] = value_[j]
      BY <2>1 DEF Insert, TypeOK, Keys
    <3>3. Live' = {value_'[j] : j \in Keys \cup {k}}
      BY <3>1 DEF Live
    <3>4. o \in Live' /\ \A p \in Live : p \in Live'
      BY <3>2, <3>3, LiveValues
    <3> QED
      BY <3>1, <3>4
  <2>3. KeyBytes[Keys'] = KeyBytes[Keys] + KeyBytes[{k}] /\ KeyBytes[{k}] \in Nat
    <3>1. Keys \cap {k} = {} /\ {k} \in SUBSET Key
      BY <2>1
    <3>2. KeyBytes[Keys \cup {k}] = KeyBytes[Keys] + KeyBytes[{k}]
      BY <1>0, <3>1, MeasureAssumption DEF IsMeasure
    <3> QED
      BY <2>2, <3>1, <3>2, BytesAreNat
  <2>4. CASE KeyStep(k, o)
    <3>1. Live' = Live
      BY <2>2, <2>4 DEF KeyStep, Find
    <3>2. ObjBytes[Live'] = ObjBytes[Live]
      BY <3>1, Zenon
    <3>3. storage_size' = storage_size + KeyBytes[{k}]
      BY <1>2, <2>4, AddWithRoom DEF KeyStep, AddKey
    <3> QED
      BY <1>0, <2>3, <3>2, <3>3
  <2>5. CASE PairStep(k, o)
    <3>1. o \notin Live
      BY <2>5 DEF PairStep, Fresh
    <3>2. ObjBytes[Live'] = ObjBytes[Live] + ObjBytes[{o}] /\ ObjBytes[{o}] \in Nat
      <4>1. Live \cap {o} = {} /\ {o} \in SUBSET Obj
        BY <3>1
      <4>2. ObjBytes[Live \cup {o}] = ObjBytes[Live] + ObjBytes[{o}]
        BY <1>0, <4>1, MeasureAssumption DEF IsMeasure
      <4> QED
        BY <2>2, <4>1, <4>2, BytesAreNat
    <3>3. storage_size' = storage_size + KeyBytes[{k}] + ObjBytes[{o}]
      BY <1>2, <2>5, AddWithRoom DEF PairStep, AddPair
    <3> QED
      BY <1>0, <2>3, <3>2, <3>3
  <2> QED
    BY <1>2, <2>4, <2>5
<1>3. ASSUME storage_size < MaxStorage, NEW k \in Key, NEW o \in Obj, RenewStep(k, o)
      PROVE  Overcount' > Overcount /\ value_' = value_ /\ \E j \in Keys : ttl_'[j] = now
  <2>1. k \in Keys /\ value_' = value_ /\ ttl_'[k] = now
    BY <1>3 DEF RenewStep, AddRenew, TypeOK
  <2>2. KeyBytes[Keys'] = KeyBytes[Keys] /\ ObjBytes[Live'] = ObjBytes[Live]
    BY <2>1 DEF Keys, Live
  <2>3. storage_size' = storage_size + ObjBytes[{o}] /\ ObjBytes[{o}] \in Nat
    BY <1>3, AddWithRoom, BytesAreNat DEF RenewStep, AddRenew
  <2>4. ObjBytes[{o}] # 0
    BY <1>0, <2>2, <2>3
  <2>5. Overcount' > Overcount
    BY <1>0, <2>2, <2>3, <2>4
  <2> QED
    BY <2>1, <2>5
<1>4. ASSUME NEW E \in SUBSET Keys, Evict(E)
      PROVE  FALSE
  <2> DEFINE Gone == {o \in Live : Referrers(o) \subseteq E}
  <2>1. Keys' = Keys \ E /\ \A k \in Keys' : value_'[k] = value_[k]
    BY <1>4 DEF Evict, TypeOK, Keys
  <2>2. Live' = Live \ Gone
    <3>1. Live' \subseteq Live \ Gone
      BY <2>1 DEF Live, Referrers
    <3>2. ASSUME NEW p \in Live, p \notin Gone PROVE p \in Live'
      <4>1. PICK j \in Keys : value_[j] = p /\ j \notin E
        BY <3>2 DEF Referrers
      <4> QED
        BY <2>1, <4>1 DEF Live
    <3> QED
      BY <3>1, <3>2
  <2>3. KeyBytes[Keys'] = KeyBytes[Keys] - KeyBytes[E] /\ KeyBytes[E] \in Nat
    BY <1>0, <2>1, KeyBytesSplit, BytesAreNat
  <2>4. Gone \in SUBSET Live
    OBVIOUS
  <2>5. ObjBytes[Live'] = ObjBytes[Live] - ObjBytes[Gone] /\ ObjBytes[Gone] \in Nat
    <3>1. ObjBytes[Live \ Gone] = ObjBytes[Live] - ObjBytes[Gone] /\ ObjBytes[Gone] \in Nat
      BY <1>0, <2>4, ObjBytesSplit, BytesAreNat
    <3> QED
      BY <2>2, <3>1, Zenon
  <2>6. Freed(E) = KeyBytes[E] + ObjBytes[Gone]
    BY DEF Freed
  <2>7. storage_size' = storage_size - Freed(E)
    BY <1>4, FreedIsStored, SubtractStored DEF Evict
  <2> QED
    BY <1>0, <2>3, <2>5, <2>6, <2>7
<1>5. ~ Untouched
  BY DEF Untouched, Live, Keys
<1> QED
  BY <1>1, <1>2, <1>3, <1>4, <1>5, StoreSteps DEF AddStep, EvictStep

\* The surplus of storage_size over what is stored never shrinks, and grows only when an
\* add allocates a value for a key that keeps the one it has (the branch of DHashmap::add
\* that finds the key and not the value): replacement and eviction are exact.
THEOREM LeaksAreRenewals == Spec => LeaksOnlyOnRenewal
<1>1. TypeOK /\ TypeOK' /\ NeverUndercounts /\ [Next]_vars
        => [Overcount' # Overcount =>
              /\ Overcount' > Overcount
              /\ value_' = value_
              /\ \E k \in Keys : ttl_'[k] = now]_vars
  BY LeakStep
<1> QED
  BY <1>1, TypeCorrect, Account, PTL DEF Spec, LeaksOnlyOnRenewal

-----------------------------------------------------------------------------
(* How an expired entry becomes fresh.                                      *)

\* An entry is stamped only by an insertion, a renewal or a get that finds it fresh.
LEMMA StampSteps ==
  ASSUME TypeOK, [Next]_vars, NEW k \in Keys, ~ IsFresh(k)
  PROVE  \/ \E o \in Obj : ReplaceStep(k, o) \/ RenewStep(k, o)
         \/ k \notin Keys'
         \/ ttl_'[k] = ttl_[k] /\ now' >= now
<1>0. now \in Nat /\ k \in Key /\ MaxTime \in Nat
  BY SizeAssumption DEF TypeOK, Keys
<1>1. ASSUME NEW j \in Key, GetNormalized(j)
      PROVE  ttl_'[k] = ttl_[k] /\ now' >= now
  BY <1>0, <1>1 DEF GetNormalized, GetMissing, GetUnknownValue, GetFresh, GetStale, TypeOK
<1>2. ASSUME NEW r \in Key, Get(r)
      PROVE  ttl_'[k] = ttl_[k] /\ now' >= now
  BY <1>1, <1>2, NormalizeAssumption DEF Get
<1>3. ASSUME NEW j \in Key, NEW o \in Obj, Insert(j, o) \/ AddRenew(j, o), j # k, now' = now
      PROVE  ttl_'[k] = ttl_[k] /\ now' >= now
  BY <1>0, <1>3 DEF Insert, AddRenew, TypeOK
<1>4. ASSUME NEW r \in Key, NEW v \in Value, AddItem(Normalize[r], v)
      PROVE  \/ \E o \in Obj : ReplaceStep(k, o) \/ RenewStep(k, o)
             \/ ttl_'[k] = ttl_[k] /\ now' >= now
  <2> DEFINE j == Normalize[r]
  <2>1. j \in Key /\ Add(j, v)
    BY <1>4, NormalizeAssumption DEF AddItem
  <2> HIDE DEF j
  <2>2. ASSUME NEW o \in Find(v), AddReplace(j, o) \/ AddSame(j, o) \/ AddKey(j, o)
        PROVE  \/ \E p \in Obj : ReplaceStep(k, p) \/ RenewStep(k, p)
               \/ ttl_'[k] = ttl_[k] /\ now' >= now
    <3>1. o \in Obj /\ o \in Find(Content[o])
      BY DEF Find, TypeOK
    <3>2. CASE AddReplace(j, o)
      <4>1. CASE j = k
        BY <3>1, <3>2, <4>1 DEF ReplaceStep
      <4>2. CASE j # k
        BY <1>3, <2>1, <3>1, <3>2, <4>2 DEF AddReplace
      <4> QED
        BY <4>1, <4>2
    <3>3. CASE AddSame(j, o)
      BY <1>0, <3>3 DEF AddSame, vars
    <3>4. CASE AddKey(j, o)
      BY <1>3, <2>1, <3>1, <3>4 DEF AddKey
    <3> QED
      BY <2>2, <3>2, <3>3, <3>4
  <2>3. ASSUME Find(v) = {}, NEW o \in Fresh(v), AddRenew(j, o) \/ AddPair(j, o)
        PROVE  \/ \E p \in Obj : ReplaceStep(k, p) \/ RenewStep(k, p)
               \/ ttl_'[k] = ttl_[k] /\ now' >= now
    <3>1. o \in Obj /\ Content[o] = v
      BY DEF Fresh
    <3>2. CASE AddRenew(j, o)
      <4>1. CASE j = k
        BY <2>3, <3>1, <3>2, <4>1 DEF RenewStep
      <4>2. CASE j # k
        BY <1>3, <2>1, <3>1, <3>2, <4>2 DEF AddRenew
      <4> QED
        BY <4>1, <4>2
    <3>3. CASE AddPair(j, o)
      BY <1>3, <2>1, <3>1, <3>3 DEF AddPair
    <3> QED
      BY <2>3, <3>2, <3>3
  <2> QED
    BY <2>1, <2>2, <2>3 DEF Add, AddKnownValue, AddNewValue
<1>5. CASE Expirate
  <2>1. CASE ExpirateFault
    BY <1>0, <2>1 DEF ExpirateFault
  <2>2. ASSUME NEW E \in SUBSET Keys, Evict(E)
        PROVE  k \notin Keys' \/ (ttl_'[k] = ttl_[k] /\ now' >= now)
    BY <1>0, <2>2 DEF Evict, Keys
  <2> QED
    BY <1>5, <2>1, <2>2 DEF Expirate
<1>6. CASE ReadStats \/ Tick \/ UNCHANGED vars
  BY <1>0, <1>6 DEF ReadStats, GetDeleted, GetGets, GetUpdates, StorageUnchanged, Tick, vars
<1> QED
  BY <1>2, <1>4, <1>5, <1>6 DEF Next

\* Such an add brings another value for the key, or a value nobody has.
LEMMA RefillStep ==
  ASSUME TypeOK, Sharing, [Next]_vars, NEW k \in Keys, ~ IsFresh(k), Hit(k)'
  PROVE  \/ Content[value_'[k]] # Content[value_[k]]
         \/ \E o \in values_' \ values_ : Content[o] # Content[value_[k]]
<1>0. k \in Key /\ value_[k] \in Live
  BY LiveValues DEF Keys
<1>1. ASSUME NEW o \in Obj, ReplaceStep(k, o)
      PROVE  Content[value_'[k]] # Content[value_[k]]
  <2>1. o \in Live /\ value_[k] # o /\ value_'[k] = o
    BY <1>0, <1>1 DEF ReplaceStep, AddReplace, Find, Insert, TypeOK
  <2> QED
    BY <1>0, <2>1 DEF Sharing, OneObjectPerValue
<1>2. ASSUME NEW o \in Obj, RenewStep(k, o)
      PROVE  o \in values_' \ values_ /\ Content[o] # Content[value_[k]]
  <2>1. o \in values_' \ values_ /\ Find(Content[o]) = {}
    BY <1>2 DEF RenewStep, AddRenew, Fresh
  <2>2. Find(Content[value_[k]]) # {}
    BY <1>0, FindsItself
  <2> QED
    BY <2>1, <2>2
<1>3. ~ (ttl_'[k] = ttl_[k] /\ now' >= now)
  <2>1. now' < ttl_'[k] + TTL /\ ~ now < ttl_[k] + TTL
    BY DEF Hit, IsFresh
  <2>2. now \in Nat /\ ttl_[k] \in Nat /\ TTL \in Nat /\ now' \in Nat
    BY <1>0, SizeAssumption, TypeStep DEF TypeOK
  <2> QED
    BY <2>1, <2>2
<1>4. k \in Keys'
  BY DEF Hit
<1> QED
  BY <1>1, <1>2, <1>3, <1>4, StampSteps

\* No sequence of gets, evictions and clock ticks makes an expired entry fresh, nor does a
\* refill with the value it has: only an add that changes its value, or one that allocates
\* another value, for any keys, plugins and limits.
THEOREM ExpiredStayExpired == Spec => ExpiredNeedsRefill
<1>1. TypeOK /\ Sharing /\ [Next]_vars
        => [\A k \in Keys : ~ IsFresh(k) /\ Hit(k)' =>
              \/ Content[value_'[k]] # Content[value_[k]]
              \/ \E o \in values_' \ values_ : Content[o] # Content[value_[k]]]_vars
  BY RefillStep
<1> QED
  BY <1>1, TypeCorrect, SharingHolds, PTL DEF Spec, ExpiredNeedsRefill
=============================================================================
