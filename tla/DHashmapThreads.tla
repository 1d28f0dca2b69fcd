-------------------------- MODULE DHashmapThreads --------------------------
(***************************************************************************)
(* What DHashmap leaves out: a get that overlaps an add or an expirate.    *)
(* write_scoped_lock takes the upgradable lock of the interprocess mutex,  *)
(* which excludes other upgradable holders but no sharable one, so the     *)
(* readers of get run in the middle of writers.                            *)
(*                                                                         *)
(* A step is one operation on one container (find, insert, erase), on a    *)
(* reference count or on a lock; the operations of the containers are      *)
(* taken to be atomic.  The clock is left out: whether an entry a reader   *)
(* finds has expired is open.  Only one writer is inside at a time, the    *)
(* filler with add or expirate or a worker with expirate (on SIGUSR2).     *)
(***************************************************************************)
EXTENDS Integers, FiniteSets, Sequences, SequencesExt

CONSTANTS
  Reader,   \* the worker threads
  Key, Obj, Content, Nil, KeyBytes, ObjBytes, ExpSize, MaxStorage, Word,  \* of DHashmap
  Sources   \* the plugins: which values each may give for each key

ASSUME ThreadAssumption == IsFiniteSet(Reader)
ASSUME KeyAssumption == IsFiniteSet(Key)
ASSUME ObjAssumption == Nil \notin Obj
ASSUME BytesAssumption == KeyBytes \in [SUBSET Key -> Nat] /\ ObjBytes \in [SUBSET Obj -> Nat]
ASSUME WordAssumption == Word \in Nat \ {0}

Nobody == "nobody"
Writer == "writer"

VARIABLES
  source,      \* the plugin that is loaded
  value_, values_, storage_size, halt,   \* of DHashmap
  order_,      \* the keys in the order of the ttl index
  upgradable,  \* who holds the upgradable lock
  sharable,    \* who holds the sharable lock
  rpc, rkey,   \* where each reader is in get, and the key it looks up
  node,        \* the entry its iterator is at: a key, or "freed"
  temp,        \* the object it has locked a weak reference of
  wpc,         \* where the writer is
  wkey, wobj,  \* arguments of add: the key, the object for the value
  sole,        \* what use_count() == 1 said
  freed        \* deleted_bytes of expirate

storeVars == <<value_, values_, storage_size, order_>>
readerVars == <<rpc, rkey, node, temp, sharable>>
writerVars == <<wpc, wkey, wobj, sole, freed>>
vars == <<source, storeVars, readerVars, writerVars, upgradable, halt>>

Keys == {k \in Key : value_[k] # Nil}
Referrers(o) == {k \in Keys : value_[k] = o}

\* shared_ptr::use_count(): the entries, and the readers that hold a reference
UseCount(o) == Cardinality(Referrers(o)) + Cardinality({r \in Reader : temp[r] = o})

Alive == {o \in Obj : UseCount(o) > 0}
Find(v) == {o \in values_ \cap Alive : Content[o] = v}
Fresh(v) == {o \in Obj \ (values_ \cup Alive) : Content[o] = v}

Init ==
  /\ source \in Sources
  /\ value_ = [k \in Key |-> Nil]
  /\ values_ = {} /\ storage_size = 0 /\ order_ = <<>>
  /\ halt = "no"
  /\ upgradable = Nobody /\ sharable = {}
  /\ rpc = [r \in Reader |-> "idle"]
  /\ rkey = [r \in Reader |-> Nil]
  /\ node = [r \in Reader |-> Nil]
  /\ temp = [r \in Reader |-> Nil]
  /\ wpc = "out" /\ wkey = Nil /\ wobj = Nil /\ sole = FALSE /\ freed = 0

-----------------------------------------------------------------------------
(* Readers: get.                                                            *)

Advance(r, from, to) == rpc[r] = from /\ rpc' = [rpc EXCEPT ![r] = to]

\* ++gets_ under the upgradable lock, which is released at once
CountGet(r, k) ==
  /\ Advance(r, "idle", "share")
  /\ upgradable = Nobody
  /\ rkey' = [rkey EXCEPT ![r] = k]
  /\ UNCHANGED <<storeVars, writerVars, upgradable, halt, node, temp, sharable>>

LockSharable(r) ==
  /\ Advance(r, "share", "find")
  /\ sharable' = sharable \cup {r}
  /\ UNCHANGED <<storeVars, writerVars, upgradable, halt, rkey, node, temp>>

FindKey(r) ==
  /\ rpc[r] = "find"
  /\ IF rkey[r] \in Keys
       THEN Advance(r, "find", "hash") /\ node' = [node EXCEPT ![r] = rkey[r]]
       ELSE Advance(r, "find", "unlock") /\ UNCHANGED node
  /\ UNCHANGED <<storeVars, writerVars, upgradable, halt, rkey, temp, sharable>>

\* values_.find(it->value_): hash and compare lock the reference meanwhile.
HashValue(r) ==
  /\ Advance(r, "hash", "compare")
  /\ node[r] # "freed"
  /\ temp' = [temp EXCEPT ![r] = value_[node[r]]]
  /\ UNCHANGED <<storeVars, writerVars, upgradable, halt, rkey, node, sharable>>

CompareValue(r) ==
  /\ rpc[r] = "compare"
  /\ IF Find(Content[temp[r]]) = {}
       THEN halt' = "abort" /\ UNCHANGED rpc
       ELSE Advance(r, "compare", "copy") /\ UNCHANGED halt
  /\ temp' = [temp EXCEPT ![r] = Nil]
  /\ UNCHANGED <<storeVars, writerVars, upgradable, rkey, node, sharable>>

\* val = *it->value_, then the comparison of ttl_ and, if fresh, its refresh
CopyValue(r) ==
  /\ node[r] # "freed"
  /\ Advance(r, "copy", "unlock") \/ Advance(r, "copy", "update")
  /\ UNCHANGED <<storeVars, writerVars, upgradable, halt, rkey, node, temp, sharable>>

\* ++updates_ under the upgradable lock, while the sharable one is held
CountUpdate(r) ==
  /\ Advance(r, "update", "unlock")
  /\ upgradable = Nobody
  /\ UNCHANGED <<storeVars, writerVars, upgradable, halt, rkey, node, temp, sharable>>

UnlockSharable(r) ==
  /\ Advance(r, "unlock", "idle")
  /\ sharable' = sharable \ {r}
  /\ rkey' = [rkey EXCEPT ![r] = Nil]
  /\ node' = [node EXCEPT ![r] = Nil]
  /\ UNCHANGED <<storeVars, writerVars, upgradable, halt, temp>>

\* An entry that was erased is read: the memory still holds what it held, and
\* the reader goes on, or it does not and the process dies.
ReadFreed(r) ==
  /\ node[r] = "freed"
  /\ \/ Advance(r, "hash", "copy") /\ UNCHANGED halt
     \/ Advance(r, "copy", "unlock") /\ UNCHANGED halt
     \/ rpc[r] \in {"hash", "copy"} /\ halt' = "fault" /\ UNCHANGED rpc
  /\ UNCHANGED <<storeVars, writerVars, upgradable, rkey, node, temp, sharable>>

Get(r) ==
  \/ \E k \in Key : CountGet(r, k)
  \/ LockSharable(r) \/ FindKey(r) \/ HashValue(r) \/ CompareValue(r)
  \/ CopyValue(r) \/ ReadFreed(r) \/ CountUpdate(r) \/ UnlockSharable(r)

-----------------------------------------------------------------------------
(* Writers.                                                                 *)

Lock(to) == wpc = "out" /\ upgradable = Nobody /\ upgradable' = Writer /\ wpc' = to

Unlock ==
  /\ upgradable' = Nobody /\ wpc' = "out"
  /\ wkey' = Nil /\ wobj' = Nil /\ sole' = FALSE /\ freed' = 0

InsertKey ==
  /\ value_' = [value_ EXCEPT ![wkey] = wobj]
  /\ order_' = Append(order_, wkey)

\* Iterators at the entry dangle; its reference to the object is released.
EraseKey(k) ==
  /\ value_' = [value_ EXCEPT ![k] = Nil]
  /\ \E i \in 1..Len(order_) : order_[i] = k /\ order_' = RemoveAt(order_, i)
  /\ node' = [r \in Reader |-> IF node[r] = k THEN "freed" ELSE node[r]]

\* add: the searches in values_ and keys_, which only writers change
BeginAdd(k, v) ==
  /\ storage_size < MaxStorage
  /\ \/ \E o \in Find(v) :
          /\ value_[k] # o
          /\ Lock(IF k \in Keys THEN "count" ELSE "insertKey")
          /\ wobj' = o
     \/ /\ Find(v) = {}
        /\ \E o \in Fresh(v) :
             /\ Lock(IF k \in Keys THEN "renew" ELSE "insertValue")
             /\ wobj' = o
  /\ wkey' = k
  /\ UNCHANGED <<storeVars, readerVars, halt, sole, freed>>

\* Mutant: the use count is not looked at.
CountNoUses ==
  /\ wpc = "count" /\ wpc' = "eraseValue"
  /\ sole' = TRUE
  /\ UNCHANGED <<storeVars, readerVars, upgradable, halt, wkey, wobj, freed>>

CountUses ==
  /\ wpc = "count" /\ wpc' = "eraseValue"
  /\ sole' = (UseCount(value_[wkey]) = 1)
  /\ UNCHANGED <<storeVars, readerVars, upgradable, halt, wkey, wobj, freed>>

EraseValue ==
  /\ wpc = "eraseValue" /\ wpc' = "eraseKey"
  /\ IF sole
       THEN /\ storage_size' = (storage_size - ObjBytes[{value_[wkey]}]) % Word
            /\ values_' = values_ \ Find(Content[value_[wkey]])
       ELSE UNCHANGED <<storage_size, values_>>
  /\ UNCHANGED <<value_, order_, readerVars, upgradable, halt, wkey, wobj, sole, freed>>

EraseReplaced ==
  /\ wpc = "eraseKey" /\ wpc' = "reinsert"
  /\ EraseKey(wkey)
  /\ UNCHANGED <<values_, storage_size, rpc, rkey, temp, sharable, upgradable, halt,
                 wkey, wobj, sole, freed>>

Reinsert ==
  /\ wpc = "reinsert"
  /\ InsertKey
  /\ Unlock
  /\ UNCHANGED <<values_, storage_size, readerVars, halt>>

AddKey ==
  /\ wpc = "insertKey"
  /\ InsertKey
  /\ storage_size' = (storage_size + KeyBytes[{wkey}]) % Word
  /\ Unlock
  /\ UNCHANGED <<values_, readerVars, halt>>

\* The entry is refreshed; the new object dies with the call.
AddRenew ==
  /\ wpc = "renew"
  /\ values_' = values_ \cup {wobj}
  /\ storage_size' = (storage_size + ObjBytes[{wobj}]) % Word
  /\ Unlock
  /\ UNCHANGED <<value_, order_, readerVars, halt>>

\* Mutant: the key goes in before the value is known, and again with it.
AddValueLate ==
  /\ wpc = "insertValue" /\ wpc' = "insertPair"
  /\ InsertKey
  /\ UNCHANGED <<values_, storage_size, readerVars, upgradable, halt, wkey, wobj, sole, freed>>

AddValue ==
  /\ wpc = "insertValue" /\ wpc' = "insertPair"
  /\ values_' = values_ \cup {wobj}
  /\ UNCHANGED <<value_, order_, storage_size, readerVars, upgradable, halt,
                 wkey, wobj, sole, freed>>

AddPair ==
  /\ wpc = "insertPair"
  /\ InsertKey
  /\ storage_size' = (storage_size + KeyBytes[{wkey}] + ObjBytes[{wobj}]) % Word
  /\ Unlock
  /\ UNCHANGED <<values_, readerVars, halt>>

Add ==
  \/ \E k \in Key : \E v \in source[k] : BeginAdd(k, v)
  \/ CountUses \/ EraseValue \/ EraseReplaced \/ Reinsert
  \/ AddKey \/ AddRenew \/ AddValue \/ AddPair

BeginExpirate ==
  /\ Lock("evict")
  /\ UNCHANGED <<storeVars, readerVars, halt, wkey, wobj, sole, freed>>

CountEntry ==
  /\ wpc = "evict" /\ order_ # <<>> /\ freed < ExpSize
  /\ wpc' = "erase"
  /\ LET k == Head(order_)
     IN  freed' = freed + KeyBytes[{k}]
                    + (IF UseCount(value_[k]) = 1 THEN ObjBytes[{value_[k]}] ELSE 0)
  /\ UNCHANGED <<storeVars, readerVars, upgradable, halt, wkey, wobj, sole>>

EraseEntry ==
  /\ wpc = "erase" /\ wpc' = "evict"
  /\ EraseKey(Head(order_))
  /\ UNCHANGED <<values_, storage_size, rpc, rkey, temp, sharable, upgradable, halt,
                 wkey, wobj, sole, freed>>

\* Mutant: the sweep takes a use count of one for a reference nobody uses.
SweepByKeys ==
  /\ wpc = "evict" /\ (order_ = <<>> \/ freed >= ExpSize)
  /\ storage_size' = (storage_size - freed) % Word
  /\ values_' = {o \in values_ : Cardinality(Referrers(o)) > 1}
  /\ Unlock
  /\ UNCHANGED <<value_, order_, readerVars, halt>>

\* dec_storage_size, then the references that cannot be locked any more go.
Sweep ==
  /\ wpc = "evict" /\ (order_ = <<>> \/ freed >= ExpSize)
  /\ storage_size' = (storage_size - freed) % Word
  /\ values_' = values_ \cap Alive
  /\ Unlock
  /\ UNCHANGED <<value_, order_, readerVars, halt>>

Expirate == BeginExpirate \/ CountEntry \/ EraseEntry \/ Sweep

Next ==
  \/ /\ halt = "no"
     /\ (\E r \in Reader : Get(r)) \/ Add \/ Expirate
     /\ UNCHANGED source
  \/ halt # "no" /\ UNCHANGED vars

Spec == Init /\ [][Next]_vars

-----------------------------------------------------------------------------

\* Every variable stays in its range; the ttl index lists the keys, once each.
TypeOK ==
  /\ source \in Sources
  /\ value_ \in [Key -> Obj \cup {Nil}]
  /\ values_ \subseteq Obj
  /\ storage_size \in 0..(Word - 1) /\ freed \in Nat
  /\ ToSet(order_) = Keys /\ Len(order_) = Cardinality(Keys)
  /\ rpc \in [Reader -> {"idle", "share", "find", "hash", "compare", "copy", "update", "unlock"}]
  /\ rkey \in [Reader -> Key \cup {Nil}]
  /\ node \in [Reader -> Key \cup {Nil, "freed"}]
  /\ temp \in [Reader -> Obj \cup {Nil}]
  /\ sharable \subseteq Reader /\ upgradable \in {Nobody, Writer}
  /\ wpc \in {"out", "count", "eraseValue", "eraseKey", "reinsert", "insertKey", "renew",
              "insertValue", "insertPair", "evict", "erase"}
  /\ wkey \in Key \cup {Nil} /\ wobj \in Obj \cup {Nil} /\ sole \in BOOLEAN
  /\ halt \in {"no", "abort", "fault"}

\* dhashmap.cpp logs "value ref only in keys_!" as critical and aborts: it is
\* never to happen.
GetNeverAborts == halt # "abort"

\* With a plugin that never gives two values for a key it does not, although
\* readers overlap writers: a value is made known before its key is, and expirate
\* drops a reference only when no reader holds its object.
FixedValuesNeverAbort ==
  (\A k \in Key : \A v, w \in source[k] : v = w) => GetNeverAborts

LiveByKey == {value_[k] : k \in Keys}

\* Whenever no writer is inside, every key's value is known to values_ and
\* equal values are one object: what readers hold does not break the sharing,
\* not even when it keeps an evicted value alive until it is added again.
SharingKept ==
  wpc = "out" =>
    /\ LiveByKey \subseteq values_
    /\ \A o, p \in LiveByKey : Content[o] = Content[p] => o = p
=============================================================================
