------------------------------ MODULE DHashmap ------------------------------
(***************************************************************************)
(* The storage of swordfishd (dhashmap.hpp, dhashmap.cpp): a multi-index   *)
(* container keys_ from keys to shared values and a set values_ of weak    *)
(* references that lets equal values share one heap object.                *)
(*                                                                         *)
(* Every operation is one action here.  Operations that change the map     *)
(* exclude each other (write_scoped_lock); what can happen while a reader  *)
(* overlaps a writer is the subject of module DHashmapThreads.             *)
(*                                                                         *)
(* A heap object is an element of Obj; Content gives the immutable string  *)
(* it holds.  Lengths in bytes are given as additive measures of sets of   *)
(* keys and of objects.                                                    *)
(***************************************************************************)
EXTENDS Integers, FiniteSets

CONSTANTS
  Key,        \* keys, as requested and as stored
  Obj,        \* heap objects that may be allocated (bounds live + expired)
  Content,    \* the value each object holds
  Nil,        \* "no object": the key is not in keys_
  Normalize,  \* __normalize_key__ of the plugin, the identity without one
  KeyBytes,   \* total length of a set of keys
  ObjBytes,   \* total length of the values held by a set of objects
  TTL,        \* ttl_, in seconds
  ExpSize,    \* expirate_size: bytes one expirate() call tries to free
  MaxStorage, \* max_storage_size_ of the Storage in front of the map
  Word,       \* 2^w for the uint as which storage_size, a size_t, is read
  Uint,       \* 2^w for the statistics counters
  MaxTime     \* bound of the model: the clock stops there

\* f is an additive measure of the subsets of S: what summing lengths gives.
IsMeasure(f, S) ==
  /\ f \in [SUBSET S -> Nat]
  /\ \A A, B \in SUBSET S : A \cap B = {} => f[A \cup B] = f[A] + f[B]

ASSUME KeyAssumption == IsFiniteSet(Key)
ASSUME ObjAssumption == Nil \notin Obj
ASSUME NormalizeAssumption == Normalize \in [Key -> Key]
ASSUME MeasureAssumption == IsMeasure(KeyBytes, Key) /\ IsMeasure(ObjBytes, Obj)
ASSUME SizeAssumption ==
  /\ {TTL, ExpSize, MaxStorage, MaxTime} \subseteq Nat
  /\ {Word, Uint} \subseteq Nat \ {0}

\* The limit is below 2^w by more than an entry: storage_size, of which only the
\* value modulo 2^w is ever read, can wrap only by subtracting.
ASSUME WordAssumption ==
  \A k \in Key, o \in Obj : MaxStorage + KeyBytes[{k}] + ObjBytes[{o}] < Word

Value == {Content[o] : o \in Obj}

VARIABLES
  value_,       \* keys_: the object each key refers to, or Nil
  ttl_,         \* keys_: time of the last refresh of each key
  index_,       \* order of the ttl index, as the pairs <<earlier, later>>
  values_,      \* the weak references, to live and to expired objects
  storage_size, \* bytes accounted for
  gets_, updates_, deleted_,  \* statistics counters
  now,          \* the second_clock, assumed monotone
  halt          \* "no", or how the process died: "abort", "fault"

stats == <<gets_, updates_, deleted_>>
vars == <<value_, ttl_, index_, values_, storage_size, stats, now, halt>>

Keys == {k \in Key : value_[k] # Nil}
Live == {value_[k] : k \in Keys}
Expired == values_ \ Live
Referrers(o) == {k \in Keys : value_[k] = o}

\* Mutant: the use count is not looked at.
AnyReferrer(k) == k \in Keys

\* value_.use_count() == 1 for the entry of k
SoleReferrer(k) == Referrers(value_[k]) = {k}

\* values_.find: dhm_equal_to never matches an expired reference.
Find(v) == {o \in values_ \cap Live : Content[o] = v}

\* Objects a "new item_t(val)" may return; an expired weak reference keeps
\* the identity of its object in use.
Fresh(v) == {o \in Obj \ (Live \cup values_) : Content[o] = v}

IsFresh(k) == now < ttl_[k] + TTL
Hit(k) == k \in Keys /\ IsFresh(k)

\* Entries go in with the current time and the clock does not go back, so a
\* new entry is placed after all the others.
Last(idx, k) == {p \in idx : p[1] # k /\ p[2] # k}
                  \cup {<<j, k>> : j \in Keys \ {k}}

Init ==
  /\ value_ = [k \in Key |-> Nil]
  /\ ttl_ = [k \in Key |-> 0]
  /\ index_ = {}
  /\ values_ = {}
  /\ storage_size = 0
  /\ gets_ = 0 /\ updates_ = 0 /\ deleted_ = 0
  /\ now = 0
  /\ halt = "no"

Running == halt = "no"

-----------------------------------------------------------------------------
(* get: counts the call, looks the normalized key up, checks that its value *)
(* is known to values_, and refreshes the entry unless it has expired.      *)

CountGet == gets_' = (gets_ + 1) % Uint

GetMissing(k) ==
  /\ k \notin Keys
  /\ CountGet
  /\ UNCHANGED <<value_, ttl_, index_, values_, storage_size, updates_, deleted_, now, halt>>

GetUnknownValue(k) ==
  /\ k \in Keys
  /\ Find(Content[value_[k]]) = {}
  /\ CountGet
  /\ halt' = "abort"
  /\ UNCHANGED <<value_, ttl_, index_, values_, storage_size, updates_, deleted_, now>>

\* The entry keeps its place in the ttl index.
GetFresh(k) ==
  /\ k \in Keys
  /\ Find(Content[value_[k]]) # {}
  /\ IsFresh(k)
  /\ CountGet
  /\ ttl_' = [ttl_ EXCEPT ![k] = now]
  /\ UNCHANGED <<value_, index_, values_, storage_size, updates_, deleted_, now, halt>>

\* Mutant: an expired entry is refreshed by the get that finds it expired.
GetStaleRefreshes(k) ==
  /\ k \in Keys /\ ~ IsFresh(k)
  /\ CountGet
  /\ ttl_' = [ttl_ EXCEPT ![k] = now]
  /\ UNCHANGED <<value_, index_, values_, storage_size, updates_, deleted_, now, halt>>

\* The stale value is still returned, with result false.
GetStale(k) ==
  /\ k \in Keys
  /\ Find(Content[value_[k]]) # {}
  /\ ~ IsFresh(k)
  /\ CountGet
  /\ updates_' = (updates_ + 1) % Uint
  /\ UNCHANGED <<value_, ttl_, index_, values_, storage_size, deleted_, now, halt>>

GetNormalized(k) ==
  GetMissing(k) \/ GetUnknownValue(k) \/ GetFresh(k) \/ GetStale(k)

Get(raw) == Running /\ GetNormalized(Normalize[raw])

-----------------------------------------------------------------------------
(* Storage::add_item waits until there is room and calls DHashmap::add.     *)

\* Mutant: the entry is stamped with its deadline.
InsertDeadline(k, o) ==
  /\ value_' = [value_ EXCEPT ![k] = o]
  /\ ttl_' = [ttl_ EXCEPT ![k] = now + TTL]
  /\ index_' = Last(index_, k)

Insert(k, o) ==
  /\ value_' = [value_ EXCEPT ![k] = o]
  /\ ttl_' = [ttl_ EXCEPT ![k] = now]
  /\ index_' = Last(index_, k)

\* Mutant: the bytes of a value replaced at its last key are not given back.
AddReplaceLeaks(k, o) ==
  /\ k \in Keys /\ value_[k] # o
  /\ values_' = IF SoleReferrer(k) THEN values_ \ {value_[k]} ELSE values_
  /\ Insert(k, o)
  /\ UNCHANGED <<storage_size, stats, now, halt>>

\* The value is in memory and the key has another one: the entry is replaced,
\* and the old value goes away with its last referrer.
AddReplace(k, o) ==
  /\ k \in Keys /\ value_[k] # o
  /\ IF SoleReferrer(k)
       THEN /\ storage_size' = (storage_size - ObjBytes[{value_[k]}]) % Word
            /\ values_' = values_ \ Find(Content[value_[k]])
       ELSE UNCHANGED <<storage_size, values_>>
  /\ Insert(k, o)
  /\ UNCHANGED <<stats, now, halt>>

\* The key has that very value: nothing happens, not even a refresh.
AddSame(k, o) ==
  /\ k \in Keys /\ value_[k] = o
  /\ UNCHANGED vars

AddKey(k, o) ==
  /\ k \notin Keys
  /\ Insert(k, o)
  /\ storage_size' = (storage_size + KeyBytes[{k}]) % Word
  /\ UNCHANGED <<values_, stats, now, halt>>

\* A new value for a known key: the entry is refreshed but keeps its value;
\* the new object dies at the end of add and leaves an expired reference.
AddRenew(k, o) ==
  /\ k \in Keys
  /\ ttl_' = [ttl_ EXCEPT ![k] = now]
  /\ values_' = values_ \cup {o}
  /\ storage_size' = (storage_size + ObjBytes[{o}]) % Word
  /\ UNCHANGED <<value_, index_, stats, now, halt>>

AddPair(k, o) ==
  /\ k \notin Keys
  /\ Insert(k, o)
  /\ values_' = values_ \cup {o}
  /\ storage_size' = (storage_size + KeyBytes[{k}] + ObjBytes[{o}]) % Word
  /\ UNCHANGED <<stats, now, halt>>

AddKnownValue(k, v) ==
  \E o \in Find(v) : AddReplace(k, o) \/ AddSame(k, o) \/ AddKey(k, o)

AddNewValue(k, v) ==
  /\ Find(v) = {}
  /\ \E o \in Fresh(v) : AddRenew(k, o) \/ AddPair(k, o)

Add(k, v) == AddKnownValue(k, v) \/ AddNewValue(k, v)

\* Mutant: off by one at the limit.
HasRoomOrFull == storage_size <= MaxStorage

HasRoom == storage_size < MaxStorage

AddItem(k, v) == Running /\ HasRoom /\ Add(k, v)

-----------------------------------------------------------------------------
(* expirate: evicts a prefix of the ttl index, the shortest one that frees  *)
(* ExpSize bytes, then drops the expired references.                        *)

\* Mutant: the bytes of a value are given back with every key of it.
FreedWithKeys(E) == KeyBytes[E] + ObjBytes[{value_[k] : k \in E}]

\* A value's bytes are freed when the last of its keys goes.
Freed(E) == KeyBytes[E] + ObjBytes[{o \in Live : Referrers(o) \subseteq E}]

IsPrefix(E) == \A k \in E, j \in Keys : <<j, k>> \in index_ => j \in E

\* The loop stopped after E and not before its last element.
LoopStopsAfter(E) ==
  /\ E = Keys \/ Freed(E) >= ExpSize
  /\ \A k \in E : IsPrefix(E \ {k}) => Freed(E \ {k}) < ExpSize

\* Mutant: the sweep also drops the references of values that lost one key.
EvictDropsShared(E) ==
  /\ value_' = [k \in Key |-> IF k \in E THEN Nil ELSE value_[k]]
  /\ ttl_' = [k \in Key |-> IF k \in E THEN 0 ELSE ttl_[k]]
  /\ index_' = {p \in index_ : p[1] \notin E /\ p[2] \notin E}
  /\ values_' = values_ \cap (Live \ {value_[k] : k \in E})
  /\ storage_size' = (storage_size - Freed(E)) % Word
  /\ deleted_' = (deleted_ + Cardinality(E)) % Uint
  /\ UNCHANGED <<gets_, updates_, now, halt>>

Evict(E) ==
  /\ value_' = [k \in Key |-> IF k \in E THEN Nil ELSE value_[k]]
  /\ ttl_' = [k \in Key |-> IF k \in E THEN 0 ELSE ttl_[k]]
  /\ index_' = {p \in index_ : p[1] \notin E /\ p[2] \notin E}
  /\ values_' = values_ \cap {value_[k] : k \in Keys \ E}
  /\ storage_size' = (storage_size - Freed(E)) % Word
  /\ deleted_' = (deleted_ + Cardinality(E)) % Uint
  /\ UNCHANGED <<gets_, updates_, now, halt>>

\* The loop steps the iterator after erasing its node.  The freed node either
\* still holds its links, and the loop goes on with the next entry, or not.
ExpirateFault ==
  /\ Keys # {} /\ ExpSize > 0
  /\ halt' = "fault"
  /\ UNCHANGED <<value_, ttl_, index_, values_, storage_size, stats, now>>

Expirate ==
  /\ Running
  /\ \/ \E E \in SUBSET Keys : IsPrefix(E) /\ LoopStopsAfter(E) /\ Evict(E)
     \/ ExpirateFault

-----------------------------------------------------------------------------
(* The statistics calls that read a counter and reset it.                   *)

StorageUnchanged == UNCHANGED <<value_, ttl_, index_, values_, storage_size, now, halt>>

GetDeleted == Running /\ deleted_' = 0 /\ UNCHANGED <<gets_, updates_>> /\ StorageUnchanged
GetGets == Running /\ gets_' = 0 /\ UNCHANGED <<updates_, deleted_>> /\ StorageUnchanged
GetUpdates == Running /\ updates_' = 0 /\ UNCHANGED <<gets_, deleted_>> /\ StorageUnchanged

ReadStats == GetDeleted \/ GetGets \/ GetUpdates

Tick ==
  /\ Running
  /\ now < MaxTime
  /\ now' = now + 1
  /\ UNCHANGED <<value_, ttl_, index_, values_, storage_size, stats, halt>>

\* Only keys that come out of a get are ever filled, hence normalized ones.
Next ==
  \/ \E k \in Key : Get(k)
  \/ \E r \in Key, v \in Value : AddItem(Normalize[r], v)
  \/ Expirate
  \/ ReadStats
  \/ Tick

Spec == Init /\ [][Next]_vars

-----------------------------------------------------------------------------

\* Every variable stays in its range.
TypeOK ==
  /\ value_ \in [Key -> Obj \cup {Nil}]
  /\ ttl_ \in [Key -> 0..MaxTime]
  /\ index_ \subseteq Keys \X Keys
  /\ values_ \subseteq Obj
  /\ storage_size \in 0..(Word - 1)
  /\ {gets_, updates_, deleted_} \subseteq 0..(Uint - 1)
  /\ now \in 0..MaxTime
  /\ halt \in {"no", "abort", "fault"}

\* get never finds a key whose value values_ does not know: the LOG_CRIT
\* "value ref only in keys_!" and the abort() after it are dead code as long
\* as operations do not overlap, whatever keys came to share a value.
GetNeverAborts ==
  /\ halt # "abort"
  /\ \A k \in Keys : Find(Content[value_[k]]) # {}

\* Equal values are one heap object, through every replacement, renewal and
\* eviction: what the set of weak references is for.
OneObjectPerValue ==
  \A o, p \in Live : Content[o] = Content[p] => o = p

Bytes == KeyBytes[Keys] + ObjBytes[Live]

\* storage_size never falls below what is stored, so it never wraps below
\* zero and the limit of add_item is never silently exceeded.
NeverUndercounts == Bytes <= storage_size

\* add_item looks at the size before it adds: the store is over its limit by
\* less than one entry.
StorageBound ==
  storage_size > 0 =>
    \E k \in Key, o \in Obj : storage_size < MaxStorage + KeyBytes[{k}] + ObjBytes[{o}]

Overcount == storage_size - Bytes

\* The surplus of storage_size over what is stored never shrinks, and it
\* grows only when a value that is nowhere in memory is added for a key that
\* is already there: eviction and replacement account for exactly what they
\* release.
LeaksOnlyOnRenewal ==
  [][Overcount' # Overcount =>
       /\ Overcount' > Overcount
       /\ value_' = value_
       /\ \E k \in Keys : ttl_'[k] = now]_vars

\* An entry that has expired is served as fresh again only after an add has
\* given its key a different value, or added some value that was nowhere in
\* memory: no sequence of gets revives it, nor does a refill with the value
\* it already has.
ExpiredNeedsRefill ==
  [][\A k \in Keys : ~ IsFresh(k) /\ Hit(k)' =>
       \/ Content[value_'[k]] # Content[value_[k]]
       \/ \E o \in values_' \ values_ : Content[o] # Content[value_[k]]]_vars
=============================================================================
