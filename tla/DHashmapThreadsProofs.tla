----------------------- MODULE DHashmapThreadsProofs -----------------------
(***************************************************************************)
(* Proofs about DHashmapThreads, for any number of readers, any finite set *)
(* of keys, any objects and any plugins: readers that run in the middle of *)
(* a writer do not break the sharing of values, and with plugins that      *)
(* never change a value they never find a reference missing.               *)
(*                                                                         *)
(* Whether values_.find can find an object depends on who holds it, so the *)
(* argument is about the references that can be locked (Known): what a     *)
(* reader does can only make them fewer, and a writer adds one only with a *)
(* value that none of them has.                                            *)
(***************************************************************************)
EXTENDS DHashmapThreads, FiniteSetTheorems, SequenceTheorems, TLAPS

Held == {temp[r] : r \in Reader}

\* The weak references that can be locked: values_.find finds only these.
Known == values_ \cap Alive

Adding == {"count", "eraseValue", "eraseKey", "reinsert", "insertKey", "renew",
           "insertValue", "insertPair"}

\* The ttl index lists no key twice; a sweep erases an entry it has seen.
OrderOnce ==
  /\ order_ \in Seq(Key)
  /\ \A i, j \in 1..Len(order_) : order_[i] = order_[j] => i = j
  /\ wpc = "erase" => order_ # <<>>

\* An iterator is at an entry that exists, or knows nothing of its end.
NodeInv ==
  \A r \in Reader :
    /\ node[r] \in Keys \cup {Nil, "freed"}
    /\ rpc[r] \in {"hash", "compare", "copy"} => node[r] \in Keys \cup {"freed"}
    /\ rpc[r] = "compare" /\ halt = "no" => temp[r] \in Obj

\* What the searches of add said of the key still holds: no other writer is inside.
KeyInv ==
  /\ wpc \in {"count", "eraseValue", "eraseKey", "renew"} => wkey \in Keys
  /\ wpc \in {"reinsert", "insertKey", "insertValue", "insertPair"} => wkey \in Key \ Keys
  /\ wpc \in Adding => wobj \in Obj

\* A value is made known before its key is, and forgotten after its last key
\* is, but for the moment between the two erases of a replacement.
RefsStored ==
  \A k \in Keys : value_[k] \in values_ \/ (wpc = "eraseKey" /\ sole /\ k = wkey)

OneObject == \A o, p \in Known : Content[o] = Content[p] => o = p

\* What the searches of add said of the value: it is known and the only one of its
\* content, or nobody has it yet.
ValueInv ==
  /\ wpc \in {"count", "eraseValue", "eraseKey", "reinsert", "insertKey", "insertPair"} =>
       wobj \in values_ /\ \A o \in Known : Content[o] = Content[wobj] => o = wobj
  /\ wpc \in {"renew", "insertValue"} =>
       wobj \notin Alive /\ \A o \in Known : Content[o] # Content[wobj]
  /\ wpc \in {"count", "eraseValue"} => Content[value_[wkey]] # Content[wobj]

\* A use count of one is the entry's own.
SoleInv == wpc = "eraseValue" /\ sole => \A k \in Keys : value_[k] = value_[wkey] => k = wkey

Sharing == NodeInv /\ KeyInv /\ RefsStored /\ OneObject /\ ValueInv /\ SoleInv

-----------------------------------------------------------------------------
(* Counting.                                                                *)

\* An object is in use if an entry or a reader holds it.
LEMMA AliveIs == Alive = {o \in Obj : o \in LiveByKey \cup Held}
<1>1. ASSUME NEW o \in Obj
      PROVE  UseCount(o) > 0 <=> o \in LiveByKey \cup Held
  <2> DEFINE A == Referrers(o)
             B == {r \in Reader : temp[r] = o}
  <2>1. IsFiniteSet(A) /\ IsFiniteSet(B)
    <3>1. A \subseteq Key /\ B \subseteq Reader
      BY DEF Referrers, Keys
    <3> QED
      BY <3>1, KeyAssumption, ThreadAssumption, FS_Subset
  <2>2. (A # {} <=> o \in LiveByKey) /\ (B # {} <=> o \in Held)
    BY DEF Referrers, LiveByKey, Held
  <2>3. UseCount(o) = Cardinality(A) + Cardinality(B)
    BY DEF UseCount
  <2> HIDE DEF A, B
  <2>4. Cardinality(A) \in Nat /\ Cardinality(B) \in Nat
        /\ (Cardinality(A) = 0 <=> A = {}) /\ (Cardinality(B) = 0 <=> B = {})
    BY <2>1, FS_CardinalityType, FS_EmptySet
  <2> QED
    BY <2>2, <2>3, <2>4
<1> QED
  BY <1>1 DEF Alive

\* An entry whose value has one use is its only one.
LEMMA SoleUse ==
  ASSUME NEW k \in Keys, UseCount(value_[k]) = 1
  PROVE  \A j \in Keys : value_[j] = value_[k] => j = k
<1> DEFINE o == value_[k]
           A == Referrers(o)
           B == {r \in Reader : temp[r] = o}
<1>1. IsFiniteSet(A) /\ IsFiniteSet(B) /\ k \in A
  <2>1. A \subseteq Key /\ B \subseteq Reader /\ k \in A
    BY DEF Referrers, Keys
  <2> QED
    BY <2>1, KeyAssumption, ThreadAssumption, FS_Subset
<1>2. Cardinality(A) + Cardinality(B) = 1
  BY DEF UseCount
<1>3. \A j \in Keys : value_[j] = o => j \in A
  BY DEF Referrers
<1> HIDE DEF A, B
<1>4. Cardinality(A) \in Nat /\ Cardinality(B) \in Nat /\ Cardinality(A) # 0
  BY <1>1, FS_CardinalityType, FS_EmptySet
<1>5. Cardinality(A) = 1
  BY <1>2, <1>4
<1>6. \E x : A = {x}
  BY <1>1, <1>5, FS_Singleton
<1> QED
  BY <1>1, <1>3, <1>6

\* The values of the keys, and what is found by content.
LEMMA FindIs ==
  /\ \A v : Find(v) = {o \in Known : Content[o] = v}
  /\ \A v : \A o \in Find(v) : o \in values_ /\ o \in Alive /\ o \in Known /\ Content[o] = v
BY DEF Find, Known

\* The sequence s lists the keys in T, once each.
Lists(s, T) ==
  /\ s \in Seq(Key) /\ \A i, j \in 1..Len(s) : s[i] = s[j] => i = j
  /\ ToSet(s) = T /\ Len(s) = Cardinality(T)

\* One more key at the end of the order.
LEMMA AppendOnce ==
  ASSUME NEW s, NEW T, Lists(s, T), IsFiniteSet(T), NEW k \in Key, k \notin T
  PROVE  Lists(Append(s, k), T \cup {k})
<1>0. /\ s \in Seq(Key) /\ \A i, j \in 1..Len(s) : s[i] = s[j] => i = j
      /\ ToSet(s) = T /\ Len(s) = Cardinality(T)
  BY DEF Lists
<1> DEFINE u == Append(s, k)
<1>1. u \in Seq(Key) /\ Len(u) = Len(s) + 1 /\ u[Len(s) + 1] = k
      /\ \A i \in 1..Len(s) : u[i] = s[i]
  BY <1>0
<1>2. \A i \in 1..Len(s) : s[i] \in T
  BY <1>0 DEF ToSet
<1>3. \A x \in T : \E i \in 1..Len(s) : x = s[i]
  BY <1>0 DEF ToSet
<1> HIDE DEF u
<1>4. \A i \in 1..Len(u) : i \in 1..Len(s) \/ i = Len(s) + 1
  BY <1>1
<1>5. \A i, j \in 1..Len(u) : u[i] = u[j] => i = j
  BY <1>0, <1>1, <1>2, <1>4
<1>6. ToSet(u) = T \cup {k}
  <2>1. ToSet(u) = {u[i] : i \in 1..Len(u)}
    BY <1>1 DEF ToSet
  <2>2. \A i \in 1..Len(u) : u[i] \in T \cup {k}
    BY <1>1, <1>2, <1>4
  <2>3. \A i \in 1..Len(s) : i \in 1..Len(u)
    BY <1>1
  <2>4. \A x \in T \cup {k} : \E i \in 1..Len(u) : x = u[i]
    BY <1>1, <1>3, <2>3
  <2> QED
    BY <2>1, <2>2, <2>4
<1>7. Cardinality(T \cup {k}) = Cardinality(T) + 1
  BY FS_AddElement
<1>8. Lists(u, T \cup {k})
  BY <1>0, <1>1, <1>5, <1>6, <1>7 DEF Lists
<1> QED
  BY <1>8 DEF u

\* One key less.
LEMMA RemoveOnce ==
  ASSUME NEW s, NEW T, Lists(s, T), IsFiniteSet(T), NEW n \in 1..Len(s)
  PROVE  Lists(RemoveAt(s, n), T \ {s[n]})
<1>0. /\ s \in Seq(Key) /\ \A i, j \in 1..Len(s) : s[i] = s[j] => i = j
      /\ ToSet(s) = T /\ Len(s) = Cardinality(T)
  BY DEF Lists
<1>9. PICK u : u = RemoveAt(s, n)
  OBVIOUS
<1>1. /\ u \in Seq(Key) /\ Len(u) = Len(s) - 1
      /\ \A i \in 1..(Len(s) - 1) : u[i] = IF i < n THEN s[i] ELSE s[i + 1]
  <2>1. PICK a : a = SubSeq(s, 1, n - 1)
    OBVIOUS
  <2>2. PICK b : b = SubSeq(s, n + 1, Len(s))
    OBVIOUS
  <2>3. a \in Seq(Key) /\ Len(a) = n - 1 /\ \A i \in 1..(n - 1) : a[i] = s[i]
    BY <1>0, <2>1
  <2>4. b \in Seq(Key) /\ Len(b) = Len(s) - n /\ \A i \in 1..(Len(s) - n) : b[i] = s[n + i]
    BY <1>0, <2>2
  <2>5. u = a \o b
    BY <1>9, <2>1, <2>2 DEF RemoveAt
  <2>6. /\ a \o b \in Seq(Key) /\ Len(a \o b) = Len(a) + Len(b)
        /\ \A i \in 1..(Len(a) + Len(b)) : (a \o b)[i] = IF i <= Len(a) THEN a[i] ELSE b[i - Len(a)]
    <3>1. a \in Seq(Key) /\ b \in Seq(Key)
      BY <2>3, <2>4
    <3> QED
      BY <3>1, ConcatProperties
  <2>7. Len(a) + Len(b) = Len(s) - 1
    BY <1>0, <2>3, <2>4
  <2>8. ASSUME NEW i \in 1..(Len(s) - 1)
        PROVE  (a \o b)[i] = IF i < n THEN s[i] ELSE s[i + 1]
    <3>1. CASE i < n
      BY <2>3, <2>6, <2>7, <3>1
    <3>2. CASE ~ i < n
      <4>1. i - Len(a) \in 1..(Len(s) - n) /\ n + (i - Len(a)) = i + 1 /\ ~ i <= Len(a)
        BY <1>0, <2>3, <3>2
      <4> QED
        BY <2>4, <2>6, <2>7, <3>2, <4>1
    <3> QED
      BY <3>1, <3>2
  <2> QED
    BY <2>5, <2>6, <2>7, <2>8
<1>2. \A i \in 1..Len(u) : i \in 1..Len(s) /\ i + 1 \in 1..Len(s) /\ i \in Int /\ i \in 1..(Len(s) - 1)
  BY <1>0, <1>1
<1>3. \A i, j \in 1..Len(u) : u[i] = u[j] => i = j
  <2> SUFFICES ASSUME NEW i \in 1..Len(u), NEW j \in 1..Len(u), u[i] = u[j] PROVE i = j
    OBVIOUS
  <2>1. i \in Int /\ j \in Int
    BY <1>2
  <2>2. CASE i < n /\ j < n
    BY <1>0, <1>1, <1>2, <2>2
  <2>3. CASE ~ i < n /\ ~ j < n
    <3>1. i + 1 = j + 1
      BY <1>0, <1>1, <1>2, <2>3
    <3> QED
      BY <2>1, <3>1
  <2>4. CASE i < n /\ ~ j < n
    <3>1. i = j + 1
      BY <1>0, <1>1, <1>2, <2>4
    <3> QED
      BY <2>1, <2>4, <3>1
  <2>5. CASE ~ i < n /\ j < n
    <3>1. i + 1 = j
      BY <1>0, <1>1, <1>2, <2>5
    <3> QED
      BY <2>1, <2>5, <3>1
  <2> QED
    BY <2>2, <2>3, <2>4, <2>5
<1>4. ToSet(u) = T \ {s[n]}
  <2>1. ToSet(u) = {u[i] : i \in 1..Len(u)} /\ T = {s[i] : i \in 1..Len(s)}
    <3>1. u \in Seq(Key)
      BY <1>1
    <3>2. s \in Seq(Key) /\ T = ToSet(s)
      BY <1>0
    <3> QED
      BY <3>1, <3>2 DEF ToSet
  <2>2. ASSUME NEW i \in 1..Len(u)
        PROVE  u[i] \in T \ {s[n]}
    <3>1. \A j \in 1..Len(s) : j # n => s[j] \in T /\ s[j] # s[n]
      BY <1>0, <2>1
    <3>2. CASE i < n
      <4>1. u[i] = s[i] /\ i \in 1..Len(s) /\ i # n
        BY <1>0, <1>1, <1>2, <3>2
      <4> QED
        BY <3>1, <4>1
    <3>3. CASE ~ i < n
      <4>1. u[i] = s[i + 1] /\ i + 1 \in 1..Len(s) /\ i + 1 # n
        BY <1>0, <1>1, <1>2, <3>3
      <4> QED
        BY <3>1, <4>1
    <3> QED
      BY <3>2, <3>3
  <2>3. ASSUME NEW x \in T, x # s[n]
        PROVE  \E i \in 1..Len(u) : x = u[i]
    <3>1. PICK j \in 1..Len(s) : x = s[j]
      BY <2>1
    <3>2. CASE j < n
      <4>1. j \in 1..Len(u) /\ j \in 1..(Len(s) - 1)
        BY <1>0, <1>1, <3>2
      <4> QED
        BY <1>1, <3>1, <3>2, <4>1
    <3>3. CASE n < j
      <4>1. j - 1 \in 1..Len(u) /\ j - 1 \in 1..(Len(s) - 1) /\ ~ j - 1 < n /\ (j - 1) + 1 = j
        BY <1>0, <1>1, <3>3
      <4>2. u[j - 1] = s[j]
        BY <1>1, <4>1
      <4> QED
        BY <3>1, <4>1, <4>2
    <3>4. j # n
      BY <2>3, <3>1
    <3> QED
      BY <3>2, <3>3, <3>4
  <2>4. ToSet(u) \subseteq T \ {s[n]}
    BY <2>1, <2>2
  <2>5. T \ {s[n]} \subseteq ToSet(u)
    BY <2>1, <2>3
  <2> QED
    BY <2>4, <2>5
<1>5. s[n] \in T
  BY <1>0 DEF ToSet
<1>6. Cardinality(T \ {s[n]}) = Cardinality(T) - 1
  BY <1>5, FS_RemoveElement
<1>7. Lists(u, T \ {s[n]})
  BY <1>0, <1>1, <1>3, <1>4, <1>6 DEF Lists
<1> QED
  BY <1>9, <1>7

-----------------------------------------------------------------------------
(* What plugins that never change a value add to it.                        *)

Fixed == \A k \in Key : \A v, w \in source[k] : v = w

\* No value is ever replaced, and a value that a reader looks up stays known as long as
\* the reader holds it.
FixedInv ==
  Fixed =>
    /\ wpc \notin {"count", "eraseValue", "eraseKey", "reinsert"}
    /\ \A k \in Keys : Content[value_[k]] \in source[k]
    /\ wpc \in Adding => Content[wobj] \in source[wkey]
    /\ \A r \in Reader : rpc[r] = "compare" => temp[r] \in values_
    /\ halt # "abort"

IInv == TypeOK /\ OrderOnce /\ Sharing /\ FixedInv

-----------------------------------------------------------------------------
(* Type correctness, step by step.                                          *)

\* The type invariant and the order of the index hold at first, and all the rest with them.
LEMMA InitHolds == ASSUME Init PROVE IInv
<1> USE DEF Init
<1>1. Keys = {}
  BY DEF Keys
<1>2. TypeOK
  <2>1. ToSet(order_) = {} /\ Len(order_) = 0 /\ Cardinality(Keys) = 0
    BY <1>1, FS_EmptySet DEF ToSet
  <2>2. 0 \in 0..(Word - 1)
    BY WordAssumption
  <2>3. storage_size \in 0..(Word - 1) /\ freed \in Nat
    BY <2>2
  <2>4. /\ value_ \in [Key -> Obj \cup {Nil}] /\ rkey \in [Reader -> Key \cup {Nil}]
        /\ node \in [Reader -> Key \cup {Nil, "freed"}] /\ temp \in [Reader -> Obj \cup {Nil}]
        /\ rpc \in [Reader -> {"idle", "share", "find", "hash", "compare", "copy", "update", "unlock"}]
    OBVIOUS
  <2> QED
    BY <1>1, <2>1, <2>3, <2>4 DEF TypeOK, Nobody
<1>3. OrderOnce
  BY DEF OrderOnce
<1>4. Known = {}
  BY DEF Known
<1>5. NodeInv /\ KeyInv /\ RefsStored /\ SoleInv
  BY <1>1 DEF NodeInv, KeyInv, RefsStored, SoleInv, Adding
<1>6. OneObject /\ ValueInv
  BY <1>4 DEF OneObject, ValueInv
<1>7. FixedInv
  BY <1>1 DEF FixedInv, Adding
<1> QED
  BY <1>2, <1>3, <1>5, <1>6, <1>7 DEF IInv, Sharing

\* A length modulo 2^w is below 2^w.
LEMMA ModWord == ASSUME NEW n \in Int PROVE n % Word \in 0..(Word - 1)
<1>1. Word \in Nat /\ Word > 0
  BY WordAssumption
<1> QED
  BY <1>1

\* The entry of a key goes: what is left of the keys and of the order, and no iterator is at it.
LEMMA Erased ==
  ASSUME TypeOK, OrderOnce, NodeInv, NEW k \in Keys, EraseKey(k), UNCHANGED <<rpc, temp, halt>>
  PROVE  /\ value_' \in [Key -> Obj \cup {Nil}] /\ Keys' = Keys \ {k}
         /\ \A j \in Keys \ {k} : value_'[j] = value_[j]
         /\ ToSet(order_') = Keys' /\ Len(order_') = Cardinality(Keys')
         /\ order_' \in Seq(Key) /\ \A i, j \in 1..Len(order_') : order_'[i] = order_'[j] => i = j
         /\ node' \in [Reader -> Key \cup {Nil, "freed"}] /\ NodeInv'
<1>1. value_ \in [Key -> Obj \cup {Nil}] /\ value_' = [value_ EXCEPT ![k] = Nil] /\ k \in Key
  BY DEF TypeOK, EraseKey, Keys
<1>2. Keys' = Keys \ {k} /\ \A j \in Keys \ {k} : value_'[j] = value_[j]
  BY <1>1 DEF Keys
<1>3. PICK i \in 1..Len(order_) : order_[i] = k /\ order_' = RemoveAt(order_, i)
  BY DEF EraseKey
<1>4. IsFiniteSet(Keys)
  <2>1. Keys \subseteq Key
    BY DEF Keys
  <2> QED
    BY <2>1, KeyAssumption, FS_Subset
<1>5. Lists(order_, Keys)
  BY DEF OrderOnce, TypeOK, Lists
<1>6. Lists(order_', Keys')
  <2>1. Lists(RemoveAt(order_, i), Keys \ {order_[i]})
    BY <1>4, <1>5, RemoveOnce
  <2> QED
    BY <1>2, <1>3, <2>1
<1>7. node' = [r \in Reader |-> IF node[r] = k THEN "freed" ELSE node[r]]
  BY DEF EraseKey
<1>8. node' \in [Reader -> Key \cup {Nil, "freed"}]
  BY <1>7 DEF TypeOK
<1>9. NodeInv'
  BY <1>2, <1>7 DEF NodeInv
<1> QED
  BY <1>1, <1>2, <1>3, <1>6, <1>8, <1>9 DEF Lists

\* The entry of a key comes: the key is the last in the order.
LEMMA Inserted ==
  ASSUME TypeOK, OrderOnce, NodeInv, wkey \in Key \ Keys, wobj \in Obj, InsertKey,
         UNCHANGED <<node, rpc, temp, halt>>
  PROVE  /\ value_' \in [Key -> Obj \cup {Nil}] /\ Keys' = Keys \cup {wkey}
         /\ value_'[wkey] = wobj /\ \A j \in Keys : value_'[j] = value_[j]
         /\ ToSet(order_') = Keys' /\ Len(order_') = Cardinality(Keys')
         /\ order_' \in Seq(Key) /\ \A i, j \in 1..Len(order_') : order_'[i] = order_'[j] => i = j
         /\ NodeInv'
<1>1. value_ \in [Key -> Obj \cup {Nil}] /\ value_' = [value_ EXCEPT ![wkey] = wobj]
  BY DEF TypeOK, InsertKey
<1>2. Keys' = Keys \cup {wkey} /\ value_'[wkey] = wobj /\ \A j \in Keys : value_'[j] = value_[j]
  BY <1>1, ObjAssumption DEF Keys
<1>3. order_' = Append(order_, wkey)
  BY DEF InsertKey
<1>4. IsFiniteSet(Keys)
  <2>1. Keys \subseteq Key
    BY DEF Keys
  <2> QED
    BY <2>1, KeyAssumption, FS_Subset
<1>5. Lists(order_, Keys)
  BY DEF OrderOnce, TypeOK, Lists
<1>6. Lists(order_', Keys')
  <2>1. Lists(Append(order_, wkey), Keys \cup {wkey})
    BY <1>4, <1>5, AppendOnce
  <2> QED
    BY <1>2, <1>3, <2>1
<1>7. NodeInv'
  BY <1>2 DEF NodeInv
<1> QED
  BY <1>1, <1>2, <1>6, <1>7 DEF Lists

-----------------------------------------------------------------------------
(* Readers only let go.                                                     *)

\* In the next state, too, an object is in use if an entry or a reader holds it.
LEMMA AliveNext == (Alive = {o \in Obj : o \in LiveByKey \cup Held})'
BY AliveIs, PTL

\* Entries hold objects, and these are in use.
LEMMA EntriesAlive ==
  ASSUME TypeOK
  PROVE  \A k \in Keys : value_[k] \in Obj /\ value_[k] \in Alive
<1>1. \A k \in Keys : value_[k] \in Obj
  BY DEF TypeOK, Keys
<1>2. \A k \in Keys : value_[k] \in LiveByKey
  BY DEF LiveByKey
<1> QED
  BY <1>1, <1>2, AliveIs

\* What a reader has locked is in use.
LEMMA LockedAlive == ASSUME NEW r \in Reader, temp[r] \in Obj PROVE temp[r] \in Alive
<1>1. temp[r] \in Held
  BY DEF Held
<1> QED
  BY <1>1, AliveIs

\* A step after which readers hold no object that nobody held before keeps the sharing.
LEMMA FewerKeepSharing ==
  ASSUME Sharing, UNCHANGED <<storeVars, writerVars>>, Held' \subseteq Held \cup LiveByKey \cup {Nil}
  PROVE  KeyInv' /\ RefsStored' /\ OneObject' /\ ValueInv' /\ SoleInv' /\ Keys' = Keys
         /\ Known' \subseteq Known
<1>1. /\ value_' = value_ /\ values_' = values_ /\ wpc' = wpc /\ wkey' = wkey /\ wobj' = wobj
      /\ sole' = sole
  BY DEF storeVars, writerVars
<1>2. Keys' = Keys
  BY <1>1 DEF Keys
<1>3. LiveByKey' = LiveByKey
  BY <1>1, <1>2 DEF LiveByKey
<1>4. Alive' \subseteq Alive
  BY <1>3, AliveIs, AliveNext, ObjAssumption
<1>5. Known' \subseteq Known
  BY <1>1, <1>4 DEF Known
<1>6. KeyInv' /\ RefsStored' /\ SoleInv'
  BY <1>1, <1>2 DEF Sharing, KeyInv, RefsStored, SoleInv
<1>7. OneObject'
  BY <1>5 DEF Sharing, OneObject
<1>8. ValueInv'
  BY <1>1, <1>4, <1>5 DEF Sharing, ValueInv
<1> QED
  BY <1>2, <1>5, <1>6, <1>7, <1>8

\* A step of get changes what the reader knows, and nothing of the store or the writer.
LEMMA GetFrame ==
  ASSUME NEW r \in Reader, Get(r)
  PROVE  UNCHANGED <<storeVars, writerVars, upgradable>>
BY DEF Get, CountGet, LockSharable, FindKey, HashValue, CompareValue, CopyValue, ReadFreed,
       CountUpdate, UnlockSharable

\* Types, the iterators and what fixed values add, over a step of get.
LEMMA GetKeeps ==
  ASSUME IInv, halt = "no", NEW r \in Reader, Get(r), UNCHANGED source
  PROVE  /\ rpc' \in [Reader -> {"idle", "share", "find", "hash", "compare", "copy", "update", "unlock"}]
         /\ rkey' \in [Reader -> Key \cup {Nil}]
         /\ node' \in [Reader -> Key \cup {Nil, "freed"}]
         /\ temp' \in [Reader -> Obj \cup {Nil}]
         /\ sharable' \subseteq Reader
         /\ halt' \in {"no", "abort", "fault"}
         /\ Held' \subseteq Held \cup LiveByKey \cup {Nil}
         /\ NodeInv'
         /\ Fixed => halt' # "abort" /\ \A q \in Reader : rpc'[q] = "compare" => temp'[q] \in values_
<1> DEFINE Steps == /\ rpc' \in [Reader -> {"idle", "share", "find", "hash", "compare", "copy", "update", "unlock"}]
                    /\ rkey' \in [Reader -> Key \cup {Nil}]
                    /\ node' \in [Reader -> Key \cup {Nil, "freed"}]
                    /\ temp' \in [Reader -> Obj \cup {Nil}]
                    /\ sharable' \subseteq Reader
                    /\ halt' \in {"no", "abort", "fault"}
           Holds == \A q \in Reader : temp'[q] \in Held \cup LiveByKey \cup {Nil}
           Knows == Fixed => halt' # "abort" /\ \A q \in Reader : rpc'[q] = "compare" => temp'[q] \in values_
<1>1. /\ rpc \in [Reader -> {"idle", "share", "find", "hash", "compare", "copy", "update", "unlock"}]
      /\ rkey \in [Reader -> Key \cup {Nil}] /\ node \in [Reader -> Key \cup {Nil, "freed"}]
      /\ temp \in [Reader -> Obj \cup {Nil}] /\ sharable \subseteq Reader
  BY DEF IInv, TypeOK
<1>2. NodeInv /\ Keys \subseteq Key /\ \A q \in Reader : temp[q] \in Held
  BY DEF IInv, Sharing, Keys, Held
<1>3. Keys' = Keys
  BY GetFrame DEF storeVars, Keys
<1>4. Fixed => \A q \in Reader : rpc[q] = "compare" => temp[q] \in values_
  BY DEF IInv, FixedInv
<1>5. ASSUME NEW k \in Key, CountGet(r, k)
      PROVE  Steps /\ Holds /\ NodeInv' /\ Knows
  BY <1>1, <1>2, <1>3, <1>4, <1>5 DEF CountGet, Advance, NodeInv
<1>6. ASSUME LockSharable(r)
      PROVE  Steps /\ Holds /\ NodeInv' /\ Knows
  BY <1>1, <1>2, <1>3, <1>4, <1>6 DEF LockSharable, Advance, NodeInv
<1>7. ASSUME FindKey(r)
      PROVE  Steps /\ Holds /\ NodeInv' /\ Knows
  BY <1>1, <1>2, <1>3, <1>4, <1>7 DEF FindKey, Advance, NodeInv
<1>8. ASSUME HashValue(r)
      PROVE  Steps /\ Holds /\ NodeInv' /\ Knows
  <2>1. node[r] \in Keys
    BY <1>2, <1>8 DEF HashValue, Advance, NodeInv
  <2>2. value_[node[r]] \in Obj /\ value_[node[r]] \in LiveByKey
    BY <2>1, EntriesAlive DEF IInv, LiveByKey
  <2>3. Fixed => value_[node[r]] \in values_
    BY <2>1 DEF IInv, Sharing, RefsStored, FixedInv
  <2> QED
    BY <1>1, <1>2, <1>3, <1>4, <1>8, <2>2, <2>3 DEF HashValue, Advance, NodeInv
<1>9. ASSUME CompareValue(r)
      PROVE  Steps /\ Holds /\ NodeInv' /\ Knows
  <2>1. rpc[r] = "compare" /\ temp[r] \in Obj
    BY <1>2, <1>9 DEF CompareValue, NodeInv
  <2>2. Fixed => temp[r] \in Find(Content[temp[r]])
    BY <1>4, <2>1, LockedAlive DEF Find
  <2> QED
    BY <1>1, <1>2, <1>3, <1>4, <1>9, <2>2 DEF CompareValue, Advance, NodeInv
<1>10. ASSUME CopyValue(r)
      PROVE  Steps /\ Holds /\ NodeInv' /\ Knows
  BY <1>1, <1>2, <1>3, <1>4, <1>10 DEF CopyValue, Advance, NodeInv
<1>11. ASSUME ReadFreed(r)
      PROVE  Steps /\ Holds /\ NodeInv' /\ Knows
  BY <1>1, <1>2, <1>3, <1>4, <1>11 DEF ReadFreed, Advance, NodeInv
<1>12. ASSUME CountUpdate(r)
      PROVE  Steps /\ Holds /\ NodeInv' /\ Knows
  BY <1>1, <1>2, <1>3, <1>4, <1>12 DEF CountUpdate, Advance, NodeInv
<1>13. ASSUME UnlockSharable(r)
      PROVE  Steps /\ Holds /\ NodeInv' /\ Knows
  BY <1>1, <1>2, <1>3, <1>4, <1>13 DEF UnlockSharable, Advance, NodeInv
<1>14. Steps /\ Holds /\ NodeInv' /\ Knows
  BY <1>5, <1>6, <1>7, <1>8, <1>9, <1>10, <1>11, <1>12, <1>13 DEF Get
<1>15. Held' \subseteq Held \cup LiveByKey \cup {Nil}
  BY <1>14 DEF Held
<1> QED
  BY <1>14, <1>15

\* A step of get keeps the invariant.
LEMMA GetStep ==
  ASSUME IInv, halt = "no", NEW r \in Reader, Get(r), UNCHANGED source
  PROVE  IInv'
<1>1. /\ value_' = value_ /\ values_' = values_ /\ order_' = order_ /\ storage_size' = storage_size
      /\ wpc' = wpc /\ wkey' = wkey /\ wobj' = wobj /\ sole' = sole /\ freed' = freed
      /\ upgradable' = upgradable /\ source' = source
  BY GetFrame DEF storeVars, writerVars
<1>2. Sharing /\ UNCHANGED <<storeVars, writerVars>>
  BY GetFrame DEF IInv
<1>3. /\ NodeInv' /\ Held' \subseteq Held \cup LiveByKey \cup {Nil}
      /\ Fixed => halt' # "abort" /\ \A q \in Reader : rpc'[q] = "compare" => temp'[q] \in values_
  BY GetKeeps
<1>4. KeyInv' /\ RefsStored' /\ OneObject' /\ ValueInv' /\ SoleInv' /\ Keys' = Keys
  BY <1>2, <1>3, FewerKeepSharing
<1>5. TypeOK'
  BY <1>1, <1>4, GetKeeps DEF IInv, TypeOK
<1>6. OrderOnce'
  BY <1>1 DEF IInv, OrderOnce
<1>7. Fixed' = Fixed
  BY <1>1 DEF Fixed
<1>8. FixedInv'
  BY <1>1, <1>3, <1>4, <1>7 DEF IInv, FixedInv
<1> QED
  BY <1>3, <1>4, <1>5, <1>6, <1>8 DEF IInv, Sharing

-----------------------------------------------------------------------------
(* Writers.  A step leaves the iterators and locks of the readers alone, but *)
(* for the iterators at an entry it erases.                                  *)

\* add has found whether the value and the key are there.
LEMMA BeginAddStep ==
  ASSUME IInv, halt = "no", UNCHANGED source, NEW k \in Key, NEW v \in source[k], BeginAdd(k, v)
  PROVE  IInv'
<1> USE DEF IInv, Sharing
<1>1. /\ value_' = value_ /\ values_' = values_ /\ order_' = order_ /\ storage_size' = storage_size
      /\ rpc' = rpc /\ rkey' = rkey /\ node' = node /\ temp' = temp /\ sharable' = sharable
      /\ halt' = halt /\ sole' = sole /\ freed' = freed /\ wkey' = k /\ wpc = "out"
      /\ upgradable' = Writer
  BY DEF BeginAdd, storeVars, readerVars, Lock
<1>2. Keys' = Keys /\ Held' = Held
  BY <1>1 DEF Keys, Held
<1>3. Alive' = Alive
  <2>1. LiveByKey' = LiveByKey
    BY <1>1, <1>2 DEF LiveByKey
  <2> QED
    BY <1>2, <2>1, AliveIs, AliveNext
<1>4. Known' = Known
  BY <1>1, <1>3 DEF Known
<1>5. Fixed' = Fixed
  BY DEF Fixed
<1>6. NodeInv' /\ RefsStored' /\ OneObject' /\ OrderOnce'
  <2>1. wpc' # "erase"
    BY DEF BeginAdd, Lock
  <2> QED
    BY <1>1, <1>2, <1>4, <2>1 DEF NodeInv, RefsStored, OneObject, OrderOnce
<1>7. \A j \in Keys : value_[j] \in Known
  BY <1>1, EntriesAlive DEF RefsStored, Known
<1>8. ASSUME NEW o \in Find(v), value_[k] # o, wobj' = o,
             wpc' = IF k \in Keys THEN "count" ELSE "insertKey"
      PROVE  IInv'
  <2>1. o \in Known /\ o \in Obj /\ Content[o] = v
    BY FindIs DEF TypeOK, Known
  <2>2. \A p \in Known : Content[p] = Content[o] => p = o
    BY <2>1 DEF OneObject
  <2>3. k \in Keys => Content[value_[k]] # Content[o]
    BY <1>7, <1>8, <2>2
  <2>4. TypeOK'
    BY <1>1, <1>2, <1>8, <2>1 DEF TypeOK
  <2>5. KeyInv'
    BY <1>1, <1>2, <1>8, <2>1 DEF KeyInv, Adding
  <2>6. ValueInv'
    BY <1>1, <1>2, <1>4, <1>8, <2>1, <2>2, <2>3 DEF ValueInv, Known
  <2>7. SoleInv'
    BY <1>8 DEF SoleInv
  <2>8. FixedInv'
    <3>1. Fixed => k \notin Keys
      BY <2>1, <2>3 DEF Fixed, FixedInv
    <3> QED
      BY <1>1, <1>2, <1>5, <1>8, <2>1, <3>1 DEF FixedInv
  <2> QED
    BY <1>6, <2>4, <2>5, <2>6, <2>7, <2>8
<1>9. ASSUME Find(v) = {}, NEW o \in Fresh(v), wobj' = o,
             wpc' = IF k \in Keys THEN "renew" ELSE "insertValue"
      PROVE  IInv'
  <2>1. o \in Obj /\ o \notin Alive /\ Content[o] = v
    BY DEF Fresh
  <2>2. \A p \in Known : Content[p] # v
    BY <1>9, FindIs
  <2>3. TypeOK'
    BY <1>1, <1>2, <1>9, <2>1 DEF TypeOK
  <2>4. KeyInv'
    BY <1>1, <1>2, <1>9, <2>1 DEF KeyInv, Adding
  <2>5. ValueInv'
    BY <1>3, <1>4, <1>9, <2>1, <2>2 DEF ValueInv
  <2>6. SoleInv'
    BY <1>9 DEF SoleInv
  <2>7. FixedInv'
    BY <1>1, <1>2, <1>5, <1>9, <2>1 DEF FixedInv
  <2> QED
    BY <1>6, <2>3, <2>4, <2>5, <2>6, <2>7
<1> QED
  BY <1>8, <1>9 DEF BeginAdd, Lock

\* The use count of the value that is replaced.
LEMMA CountUsesStep ==
  ASSUME IInv, halt = "no", UNCHANGED source, CountUses
  PROVE  IInv'
<1> USE DEF IInv, Sharing
<1>1. /\ value_' = value_ /\ values_' = values_ /\ order_' = order_ /\ storage_size' = storage_size
      /\ rpc' = rpc /\ rkey' = rkey /\ node' = node /\ temp' = temp /\ sharable' = sharable
      /\ halt' = halt /\ wkey' = wkey /\ wobj' = wobj /\ freed' = freed /\ upgradable' = upgradable
      /\ wpc = "count" /\ wpc' = "eraseValue" /\ sole' = (UseCount(value_[wkey]) = 1)
  BY DEF CountUses, storeVars, readerVars
<1>2. Keys' = Keys /\ Held' = Held
  BY <1>1 DEF Keys, Held
<1>3. Alive' = Alive
  <2>1. LiveByKey' = LiveByKey
    BY <1>1, <1>2 DEF LiveByKey
  <2> QED
    BY <1>2, <2>1, AliveIs, AliveNext
<1>4. Known' = Known
  BY <1>1, <1>3 DEF Known
<1>5. NodeInv' /\ KeyInv' /\ OneObject' /\ OrderOnce'
  BY <1>1, <1>2, <1>4 DEF NodeInv, KeyInv, OneObject, OrderOnce, Adding
<1>6. RefsStored'
  BY <1>1, <1>2 DEF RefsStored
<1>7. ValueInv'
  BY <1>1, <1>4 DEF ValueInv
<1>8. SoleInv'
  <2>1. wkey \in Keys
    BY <1>1 DEF KeyInv
  <2>2. sole' => \A j \in Keys : value_[j] = value_[wkey] => j = wkey
    BY <1>1, <2>1, SoleUse
  <2> QED
    BY <1>1, <1>2, <2>2 DEF SoleInv
<1>9. TypeOK'
  BY <1>1, <1>2 DEF TypeOK
<1>10. FixedInv'
  BY <1>1 DEF FixedInv, Fixed
<1> QED
  BY <1>5, <1>6, <1>7, <1>8, <1>9, <1>10

\* The reference to the value that is replaced: a value with one use is found
\* by no other key, so no other key's reference goes.
LEMMA EraseValueStep ==
  ASSUME IInv, halt = "no", UNCHANGED source, EraseValue
  PROVE  IInv'
<1> USE DEF IInv, Sharing
<1>1. /\ value_' = value_ /\ order_' = order_
      /\ rpc' = rpc /\ rkey' = rkey /\ node' = node /\ temp' = temp /\ sharable' = sharable
      /\ halt' = halt /\ wkey' = wkey /\ wobj' = wobj /\ freed' = freed /\ upgradable' = upgradable
      /\ wpc = "eraseValue" /\ wpc' = "eraseKey" /\ sole' = sole
  BY DEF EraseValue, readerVars
<1>2. Keys' = Keys /\ Held' = Held
  BY <1>1 DEF Keys, Held
<1>3. Alive' = Alive
  <2>1. LiveByKey' = LiveByKey
    BY <1>1, <1>2 DEF LiveByKey
  <2> QED
    BY <1>2, <2>1, AliveIs, AliveNext
<1>4. /\ values_' \subseteq values_
      /\ ~ sole => values_' = values_
      /\ sole => values_' = values_ \ Find(Content[value_[wkey]])
  BY DEF EraseValue
<1>5. Known' \subseteq Known
  BY <1>3, <1>4 DEF Known
<1>6. wkey \in Keys /\ wobj \in Obj
  BY <1>1 DEF KeyInv, Adding
<1>7. \A j \in Keys : value_[j] \in Known
  BY <1>1, EntriesAlive DEF RefsStored, Known
<1>8. ASSUME NEW j \in Keys, j # wkey, sole
      PROVE  value_[j] \in values_'
  <2>1. value_[j] # value_[wkey]
    BY <1>1, <1>6, <1>8 DEF SoleInv
  <2>2. Content[value_[j]] # Content[value_[wkey]]
    BY <1>6, <1>7, <2>1 DEF OneObject
  <2> QED
    BY <1>4, <1>7, <1>8, <2>2, FindIs DEF Known
<1>9. RefsStored'
  BY <1>1, <1>2, <1>4, <1>7, <1>8 DEF RefsStored, Known
<1>10. NodeInv' /\ KeyInv' /\ OneObject' /\ OrderOnce' /\ SoleInv'
  BY <1>1, <1>2, <1>5 DEF NodeInv, KeyInv, OneObject, OrderOnce, SoleInv, Adding
<1>11. ValueInv'
  <2>1. wobj \in values_ /\ \A o \in Known : Content[o] = Content[wobj] => o = wobj
    BY <1>1 DEF ValueInv
  <2>2. Content[value_[wkey]] # Content[wobj]
    BY <1>1 DEF ValueInv
  <2>3. wobj \in values_'
    BY <1>4, <2>1, <2>2, FindIs
  <2> QED
    BY <1>1, <1>5, <2>1, <2>3 DEF ValueInv
<1>12. TypeOK'
  <2>1. storage_size' \in 0..(Word - 1)
    <3>1. CASE sole
      <4>1. value_[wkey] \in Obj
        BY <1>6, EntriesAlive
      <4>2. storage_size - ObjBytes[{value_[wkey]}] \in Int
        BY <4>1, BytesAssumption DEF TypeOK
      <4> QED
        BY <3>1, <4>2, ModWord DEF EraseValue
    <3>2. CASE ~ sole
      BY <3>2 DEF EraseValue, TypeOK
    <3> QED
      BY <3>1, <3>2
  <2> QED
    BY <1>1, <1>2, <1>4, <2>1 DEF TypeOK
<1>13. FixedInv'
  BY <1>1 DEF FixedInv, Fixed
<1> QED
  BY <1>9, <1>10, <1>11, <1>12, <1>13

\* An entry is erased: its object may come out of use, and none comes into use.
LEMMA EraseKeySharing ==
  ASSUME IInv, NEW k \in Keys, EraseKey(k), UNCHANGED <<values_, rpc, temp, halt>>
  PROVE  /\ Alive' \subseteq Alive /\ Known' \subseteq Known /\ OneObject'
         /\ (\A j \in Keys \ {k} : value_[j] \in values_) => (\A j \in Keys' : value_'[j] \in values_')
<1>1. Keys' = Keys \ {k} /\ \A j \in Keys \ {k} : value_'[j] = value_[j]
  BY Erased DEF IInv, Sharing
<1>2. LiveByKey' \subseteq LiveByKey
  BY <1>1 DEF LiveByKey
<1>3. Held' = Held
  BY DEF Held
<1>4. Alive' \subseteq Alive
  BY <1>2, <1>3, AliveIs, AliveNext
<1>5. Known' \subseteq Known
  BY <1>4 DEF Known
<1>6. OneObject'
  BY <1>5 DEF IInv, Sharing, OneObject
<1> QED
  BY <1>1, <1>4, <1>5, <1>6

\* The entry of a replaced value.
LEMMA EraseReplacedStep ==
  ASSUME IInv, halt = "no", UNCHANGED source, EraseReplaced
  PROVE  IInv'
<1> USE DEF IInv, Sharing
<1>1. /\ values_' = values_ /\ storage_size' = storage_size /\ rpc' = rpc /\ rkey' = rkey
      /\ temp' = temp /\ sharable' = sharable /\ upgradable' = upgradable
      /\ halt' = halt /\ wkey' = wkey /\ wobj' = wobj /\ sole' = sole /\ freed' = freed
      /\ wpc = "eraseKey" /\ wpc' = "reinsert" /\ EraseKey(wkey)
  BY DEF EraseReplaced
<1>2. wkey \in Keys /\ wobj \in Obj
  BY <1>1 DEF KeyInv, Adding
<1>3. /\ value_' \in [Key -> Obj \cup {Nil}] /\ Keys' = Keys \ {wkey}
      /\ ToSet(order_') = Keys' /\ Len(order_') = Cardinality(Keys')
      /\ order_' \in Seq(Key) /\ \A i, j \in 1..Len(order_') : order_'[i] = order_'[j] => i = j
      /\ node' \in [Reader -> Key \cup {Nil, "freed"}] /\ NodeInv'
  BY <1>1, <1>2, Erased
<1>4. /\ Alive' \subseteq Alive /\ Known' \subseteq Known /\ OneObject'
      /\ (\A j \in Keys \ {wkey} : value_[j] \in values_) => (\A j \in Keys' : value_'[j] \in values_')
  BY <1>1, <1>2, EraseKeySharing
<1>5. RefsStored'
  BY <1>4 DEF RefsStored
<1>6. OrderOnce' /\ KeyInv' /\ SoleInv'
  BY <1>1, <1>2, <1>3 DEF OrderOnce, KeyInv, SoleInv, Adding, Keys
<1>7. ValueInv'
  BY <1>1, <1>4 DEF ValueInv
<1>8. TypeOK'
  BY <1>1, <1>3 DEF TypeOK
<1>9. FixedInv'
  BY <1>1 DEF FixedInv, Fixed
<1> QED
  BY <1>3, <1>4, <1>5, <1>6, <1>7, <1>8, <1>9

\* The oldest entry, in a sweep.
LEMMA EraseEntryStep ==
  ASSUME IInv, halt = "no", UNCHANGED source, EraseEntry
  PROVE  IInv'
<1> USE DEF IInv, Sharing
<1> DEFINE k == Head(order_)
<1>1. /\ values_' = values_ /\ storage_size' = storage_size /\ rpc' = rpc /\ rkey' = rkey
      /\ temp' = temp /\ sharable' = sharable /\ upgradable' = upgradable
      /\ halt' = halt /\ wkey' = wkey /\ wobj' = wobj /\ sole' = sole /\ freed' = freed
      /\ wpc = "erase" /\ wpc' = "evict" /\ EraseKey(k) /\ source' = source
  BY DEF EraseEntry
<1>2. k \in Keys
  <2>1. order_ \in Seq(Key) /\ order_ # <<>>
    BY <1>1 DEF OrderOnce
  <2>2. 1 \in 1..Len(order_) /\ k = order_[1]
    BY <2>1
  <2>3. k \in ToSet(order_)
    BY <2>2 DEF ToSet
  <2> QED
    BY <2>3 DEF TypeOK
<1> HIDE DEF k
<1>3. /\ value_' \in [Key -> Obj \cup {Nil}] /\ Keys' = Keys \ {k}
      /\ ToSet(order_') = Keys' /\ Len(order_') = Cardinality(Keys')
      /\ order_' \in Seq(Key) /\ \A i, j \in 1..Len(order_') : order_'[i] = order_'[j] => i = j
      /\ node' \in [Reader -> Key \cup {Nil, "freed"}] /\ NodeInv'
      /\ \A j \in Keys \ {k} : value_'[j] = value_[j]
  BY <1>1, <1>2, Erased
<1>4. /\ OneObject'
      /\ (\A j \in Keys \ {k} : value_[j] \in values_) => (\A j \in Keys' : value_'[j] \in values_')
  BY <1>1, <1>2, EraseKeySharing
<1>5. RefsStored'
  BY <1>1, <1>4 DEF RefsStored
<1>6. OrderOnce' /\ KeyInv' /\ SoleInv' /\ ValueInv'
  BY <1>1, <1>3 DEF OrderOnce, KeyInv, SoleInv, ValueInv, Adding
<1>7. TypeOK'
  BY <1>1, <1>3 DEF TypeOK
<1>8. FixedInv'
  BY <1>1, <1>3 DEF FixedInv, Fixed, Adding
<1> QED
  BY <1>3, <1>4, <1>5, <1>6, <1>7, <1>8

\* An entry is inserted, and its call is over: the value is known, and the only one
\* of its content.
LEMMA InsertKeyStep ==
  ASSUME IInv, halt = "no", UNCHANGED source, wpc \in {"reinsert", "insertKey", "insertPair"},
         InsertKey, Unlock, storage_size' \in 0..(Word - 1), UNCHANGED <<values_, readerVars, halt>>
  PROVE  IInv'
<1> USE DEF IInv, Sharing
<1>1. /\ values_' = values_ /\ rpc' = rpc /\ rkey' = rkey /\ node' = node
      /\ temp' = temp /\ sharable' = sharable /\ halt' = halt /\ source' = source
      /\ upgradable' = Nobody /\ wpc' = "out" /\ wkey' = Nil /\ wobj' = Nil
      /\ sole' = FALSE /\ freed' = 0
  BY DEF Unlock, readerVars
<1>2. wkey \in Key \ Keys /\ wobj \in Obj /\ wobj \in values_
      /\ \A o \in Known : Content[o] = Content[wobj] => o = wobj
  BY DEF KeyInv, ValueInv, Adding
<1>3. /\ value_' \in [Key -> Obj \cup {Nil}] /\ Keys' = Keys \cup {wkey}
      /\ value_'[wkey] = wobj /\ \A j \in Keys : value_'[j] = value_[j]
      /\ ToSet(order_') = Keys' /\ Len(order_') = Cardinality(Keys')
      /\ order_' \in Seq(Key) /\ \A i, j \in 1..Len(order_') : order_'[i] = order_'[j] => i = j
      /\ NodeInv'
  BY <1>1, <1>2, Inserted
<1>4. Known' \subseteq Known \cup {wobj}
  <2>1. LiveByKey' \subseteq LiveByKey \cup {wobj}
    BY <1>3 DEF LiveByKey
  <2>2. Held' = Held
    BY <1>1 DEF Held
  <2>3. Alive' \subseteq Alive \cup {wobj}
    BY <2>1, <2>2, AliveIs, AliveNext
  <2> QED
    BY <1>1, <2>3 DEF Known
<1>5. OneObject'
  BY <1>2, <1>4 DEF OneObject
<1>6. RefsStored'
  BY <1>1, <1>2, <1>3 DEF RefsStored
<1>7. KeyInv' /\ ValueInv' /\ SoleInv' /\ OrderOnce'
  BY <1>1, <1>3 DEF KeyInv, ValueInv, SoleInv, OrderOnce, Adding
<1>8. TypeOK'
  BY <1>1, <1>3 DEF TypeOK, Nobody
<1>9. FixedInv'
  BY <1>1, <1>2, <1>3 DEF FixedInv, Fixed, Adding
<1> QED
  BY <1>3, <1>5, <1>6, <1>7, <1>8, <1>9

\* What the three actions that insert an entry do to the size.
LEMMA InsertSteps ==
  ASSUME IInv, halt = "no", UNCHANGED source, Reinsert \/ AddKey \/ AddPair
  PROVE  IInv'
<1>1. wkey \in Key /\ wobj \in Obj /\ storage_size \in 0..(Word - 1)
  BY DEF Reinsert, AddKey, AddPair, IInv, Sharing, KeyInv, Adding, TypeOK
<1>2. KeyBytes[{wkey}] \in Nat /\ ObjBytes[{wobj}] \in Nat
  BY <1>1, BytesAssumption
<1>3. storage_size' \in 0..(Word - 1)
  <2>1. storage_size + KeyBytes[{wkey}] \in Int
        /\ storage_size + KeyBytes[{wkey}] + ObjBytes[{wobj}] \in Int
    BY <1>1, <1>2, WordAssumption
  <2> QED
    BY <1>1, <2>1, ModWord DEF Reinsert, AddKey, AddPair
<1> QED
  BY <1>3, InsertKeyStep DEF Reinsert, AddKey, AddPair

\* While the entries and what readers hold stay, so do the objects in use.
LEMMA AliveStays ==
  ASSUME UNCHANGED <<value_, temp>>
  PROVE  Alive' = Alive /\ Keys' = Keys
<1>1. Keys' = Keys /\ Held' = Held
  BY DEF Keys, Held
<1>2. LiveByKey' = LiveByKey
  BY <1>1 DEF LiveByKey
<1> QED
  BY <1>1, <1>2, AliveIs, AliveNext

\* A new value is made known, before its key or for a key that is there: nobody can
\* lock it yet.
LEMMA NewValueSteps ==
  ASSUME IInv, halt = "no", UNCHANGED source, AddRenew \/ AddValue
  PROVE  IInv'
<1> USE DEF IInv, Sharing
<1>1. /\ value_' = value_ /\ order_' = order_ /\ values_' = values_ \cup {wobj}
      /\ rpc' = rpc /\ rkey' = rkey /\ node' = node /\ temp' = temp /\ sharable' = sharable
      /\ halt' = halt /\ source' = source /\ wpc \in {"renew", "insertValue"}
  BY DEF AddRenew, AddValue, readerVars
<1>2. \/ /\ wpc' = "insertPair" /\ wpc = "insertValue" /\ wkey' = wkey /\ wobj' = wobj
         /\ sole' = sole /\ freed' = freed /\ storage_size' = storage_size /\ upgradable' = upgradable
      \/ /\ wpc' = "out" /\ wkey' = Nil /\ wobj' = Nil /\ sole' = FALSE /\ freed' = 0
         /\ storage_size' = (storage_size + ObjBytes[{wobj}]) % Word /\ upgradable' = Nobody
  BY DEF AddRenew, AddValue, Unlock
<1>3. wobj \in Obj /\ wobj \notin Alive /\ \A o \in Known : Content[o] # Content[wobj]
  BY <1>1 DEF KeyInv, ValueInv, Adding
<1>4. Alive' = Alive /\ Keys' = Keys
  BY <1>1, AliveStays
<1>5. Known' = Known
  BY <1>1, <1>3, <1>4 DEF Known
<1>6. NodeInv' /\ RefsStored' /\ OneObject'
  BY <1>1, <1>2, <1>4, <1>5 DEF NodeInv, RefsStored, OneObject
<1>7. KeyInv' /\ OrderOnce' /\ SoleInv'
  BY <1>1, <1>2, <1>4 DEF KeyInv, OrderOnce, SoleInv, Adding
<1>8. ValueInv'
  BY <1>1, <1>2, <1>3, <1>5 DEF ValueInv
<1>9. storage_size' \in 0..(Word - 1)
  <2>1. storage_size + ObjBytes[{wobj}] \in Int
    BY <1>3, BytesAssumption, WordAssumption DEF TypeOK
  <2> QED
    BY <1>2, <2>1, ModWord DEF TypeOK
<1>10. TypeOK'
  <2>1. values_' \subseteq Obj /\ ToSet(order_') = Keys' /\ Len(order_') = Cardinality(Keys')
    BY <1>1, <1>3, <1>4 DEF TypeOK
  <2>2. /\ wpc' \in {"out", "insertPair"} /\ freed' \in Nat
        /\ wkey' \in Key \cup {Nil} /\ wobj' \in Obj \cup {Nil} /\ upgradable' \in {Nobody, Writer}
    BY <1>2 DEF TypeOK
  <2>3. sole' \in BOOLEAN
    <3>1. sole \in BOOLEAN
      BY DEF TypeOK
    <3> QED
      BY <1>2, <3>1, Zenon
  <2> QED
    BY <1>1, <1>9, <2>1, <2>2, <2>3 DEF TypeOK
<1>11. FixedInv'
  BY <1>1, <1>2, <1>4 DEF FixedInv, Fixed, Adding
<1> QED
  BY <1>6, <1>7, <1>8, <1>10, <1>11

\* The steps of a sweep that only look, at the lock or at the oldest entry.
LEMMA SweepLooks ==
  ASSUME IInv, halt = "no", UNCHANGED source, BeginExpirate \/ CountEntry
  PROVE  IInv'
<1> USE DEF IInv, Sharing
<1>1. /\ value_' = value_ /\ values_' = values_ /\ order_' = order_ /\ storage_size' = storage_size
      /\ rpc' = rpc /\ rkey' = rkey /\ node' = node /\ temp' = temp /\ sharable' = sharable
      /\ halt' = halt /\ source' = source /\ wkey' = wkey /\ wobj' = wobj /\ sole' = sole
      /\ wpc' \in {"evict", "erase"} /\ wpc \in {"out", "evict"}
      /\ wpc' = "erase" => order_ # <<>>
      /\ upgradable' \in {upgradable, Writer}
  BY DEF BeginExpirate, CountEntry, Lock, storeVars, readerVars
<1>2. Alive' = Alive /\ Keys' = Keys
  BY <1>1, AliveStays
<1>3. Known' = Known
  BY <1>1, <1>2 DEF Known
<1>4. NodeInv' /\ RefsStored' /\ OneObject'
  BY <1>1, <1>2, <1>3 DEF NodeInv, RefsStored, OneObject
<1>5. KeyInv' /\ OrderOnce' /\ SoleInv' /\ ValueInv'
  BY <1>1, <1>2 DEF KeyInv, OrderOnce, SoleInv, ValueInv, Adding
<1>6. freed' \in Nat
  <2>1. CASE BeginExpirate
    BY <2>1 DEF BeginExpirate, TypeOK
  <2>2. CASE CountEntry
    <3> DEFINE k == Head(order_)
               more == IF UseCount(value_[k]) = 1 THEN ObjBytes[{value_[k]}] ELSE 0
    <3>1. k \in Keys
      <4>1. order_ \in Seq(Key) /\ order_ # <<>>
        BY <2>2 DEF OrderOnce, CountEntry
      <4>2. 1 \in 1..Len(order_) /\ k = order_[1]
        BY <4>1
      <4>3. k \in ToSet(order_)
        BY <4>2 DEF ToSet
      <4> QED
        BY <4>3 DEF TypeOK
    <3>2. freed' = freed + KeyBytes[{k}] + more
      BY <2>2 DEF CountEntry
    <3> HIDE DEF k
    <3>3. KeyBytes[{k}] \in Nat /\ ObjBytes[{value_[k]}] \in Nat
      BY <3>1, BytesAssumption, EntriesAlive DEF Keys
    <3>4. more \in Nat
      BY <3>3
    <3> HIDE DEF more
    <3>5. freed \in Nat
      BY DEF TypeOK
    <3> QED
      BY <3>2, <3>3, <3>4, <3>5
  <2> QED
    BY <2>1, <2>2
<1>7. TypeOK'
  BY <1>1, <1>2, <1>6 DEF TypeOK
<1>8. FixedInv'
  BY <1>1, <1>2 DEF FixedInv, Fixed, Adding
<1> QED
  BY <1>4, <1>5, <1>7, <1>8

\* The references that cannot be locked go: no entry has one, and no reader.
LEMMA SweepStep ==
  ASSUME IInv, halt = "no", UNCHANGED source, Sweep
  PROVE  IInv'
<1> USE DEF IInv, Sharing
<1>1. /\ value_' = value_ /\ values_' = values_ \cap Alive /\ order_' = order_
      /\ rpc' = rpc /\ rkey' = rkey /\ node' = node /\ temp' = temp /\ sharable' = sharable
      /\ halt' = halt /\ source' = source /\ wkey' = Nil /\ wobj' = Nil /\ sole' = FALSE /\ freed' = 0
      /\ wpc' = "out" /\ wpc = "evict" /\ upgradable' = Nobody
      /\ storage_size' = (storage_size - freed) % Word
  BY DEF Sweep, Unlock, readerVars
<1>2. Alive' = Alive /\ Keys' = Keys
  BY <1>1, AliveStays
<1>3. Known' = Known
  BY <1>1, <1>2 DEF Known
<1>4. RefsStored'
  BY <1>1, <1>2, EntriesAlive DEF RefsStored
<1>5. NodeInv' /\ OneObject' /\ KeyInv' /\ OrderOnce' /\ SoleInv' /\ ValueInv'
  BY <1>1, <1>2, <1>3 DEF NodeInv, OneObject, KeyInv, OrderOnce, SoleInv, ValueInv, Adding
<1>6. storage_size' \in 0..(Word - 1)
  <2>1. storage_size - freed \in Int
    BY WordAssumption DEF TypeOK
  <2> QED
    BY <1>1, <2>1, ModWord
<1>7. TypeOK'
  BY <1>1, <1>2, <1>6 DEF TypeOK, Nobody
<1>8. FixedInv'
  <2>1. ASSUME NEW r \in Reader, rpc[r] = "compare", temp[r] \in values_
        PROVE  temp[r] \in values_'
    <3>1. temp[r] \in Obj
      BY <2>1 DEF NodeInv
    <3> QED
      BY <1>1, <2>1, <3>1, LockedAlive
  <2> QED
    BY <1>1, <1>2, <2>1 DEF FixedInv, Fixed, Adding
<1> QED
  BY <1>4, <1>5, <1>7, <1>8

-----------------------------------------------------------------------------
(* The theorems.                                                            *)

\* Every step keeps the invariant.
LEMMA NextKeeps == IInv /\ [Next]_vars => IInv'
<1> SUFFICES ASSUME IInv, [Next]_vars PROVE IInv'
  OBVIOUS
<1>1. CASE UNCHANGED vars
  <2>1. /\ UNCHANGED <<source, value_, values_, storage_size, order_, upgradable, halt>>
        /\ UNCHANGED <<rpc, rkey, node, temp, sharable, wpc, wkey, wobj, sole, freed>>
    BY <1>1 DEF vars, storeVars, readerVars, writerVars
  <2>2. Alive' = Alive /\ Keys' = Keys
    BY <2>1, AliveStays
  <2>3. Known' = Known
    BY <2>1, <2>2 DEF Known
  <2>4. TypeOK' /\ OrderOnce' /\ NodeInv' /\ KeyInv'
    BY <2>1, <2>2 DEF IInv, Sharing, TypeOK, OrderOnce, NodeInv, KeyInv
  <2>5. RefsStored' /\ OneObject' /\ ValueInv' /\ SoleInv' /\ FixedInv'
    BY <2>1, <2>2, <2>3
    DEF IInv, Sharing, RefsStored, OneObject, ValueInv, SoleInv, FixedInv, Fixed
  <2> QED
    BY <2>4, <2>5 DEF IInv, Sharing
<1>2. CASE /\ halt = "no" /\ UNCHANGED source
           /\ (\E r \in Reader : Get(r)) \/ Add \/ Expirate
  <2>1. CASE \E r \in Reader : Get(r)
    BY <1>2, <2>1, GetStep
  <2>2. CASE Add
    BY <1>2, <2>2, BeginAddStep, CountUsesStep, EraseValueStep, EraseReplacedStep, InsertSteps,
       NewValueSteps DEF Add
  <2>3. CASE Expirate
    BY <1>2, <2>3, SweepLooks, EraseEntryStep, SweepStep DEF Expirate
  <2> QED
    BY <1>2, <2>1, <2>2, <2>3
<1> QED
  BY <1>1, <1>2 DEF Next

\* The invariant always holds.
THEOREM Invariance == Spec => []IInv
<1>1. Init => IInv
  BY InitHolds
<1> QED
  BY <1>1, NextKeeps, PTL DEF Spec

\* The variables keep their types, and the ttl index lists the keys once each, in the
\* middle of writers and while readers overlap them.
THEOREM TypeCorrect == Spec => []TypeOK
<1>1. IInv => TypeOK
  BY DEF IInv
<1> QED
  BY <1>1, Invariance, PTL

\* Whenever no writer is inside, values_ knows the value of every key and no two keys
\* have different objects for the same value, whatever readers hold.
THEOREM SharingHolds == Spec => []SharingKept
<1>1. IInv => SharingKept
  <2> SUFFICES ASSUME IInv, wpc = "out"
               PROVE  /\ LiveByKey \subseteq values_
                      /\ \A o, p \in LiveByKey : Content[o] = Content[p] => o = p
    BY DEF SharingKept
  <2>1. \A k \in Keys : value_[k] \in values_ /\ value_[k] \in Known
    BY EntriesAlive DEF IInv, Sharing, RefsStored, Known
  <2>2. LiveByKey \subseteq values_ /\ LiveByKey \subseteq Known
    BY <2>1 DEF LiveByKey
  <2> QED
    BY <2>2 DEF IInv, Sharing, OneObject
<1> QED
  BY <1>1, Invariance, PTL

\* With plugins that never give two values for one key, no get finds a key whose value
\* values_ does not know, at whatever step of a writer it looks.
THEOREM NoAbortFixed == Spec => []FixedValuesNeverAbort
<1>1. IInv => FixedValuesNeverAbort
  BY DEF IInv, FixedInv, Fixed, FixedValuesNeverAbort, GetNeverAborts
<1> QED
  BY <1>1, Invariance, PTL
=============================================================================
