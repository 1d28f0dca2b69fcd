------------------------------- MODULE Refill -------------------------------
(***************************************************************************)
(* The loop that keeps the store of swordfishd filled: worker threads look *)
(* keys up and queue those that are missing or expired (storage.cpp), the  *)
(* filler thread takes them from the queue in batches, asks the plugin for *)
(* their values and adds them to the store (abstract_filler.cpp).  Entries *)
(* may be evicted (SIGUSR2) and the filler may be told to stop (SIGUSR1,   *)
(* SIGTERM, SIGINT) at any time.                                           *)
(*                                                                         *)
(* Each step of a thread is one call that takes a lock.                    *)
(***************************************************************************)
EXTENDS Integers, FiniteSets, Sequences, SequencesExt

CONSTANTS
  Key, Obj, Content, Nil, Normalize, KeyBytes, ObjBytes, TTL, ExpSize,
  MaxStorage, Word, Uint, MaxTime,     \* of DHashmap
  Worker, EmptyKey, MaxQueue,          \* of RefillQueue
  Source,     \* the values the data source may have for each key
  MayBeDead,  \* whether the plugin's is_filler_alive may answer no
  MaxFill,    \* max_fill_size_
  MaxBatch    \* bound of the model on the keys the filler holds

VARIABLES
  value_, ttl_, index_, values_, storage_size, gets_, updates_, deleted_, now, halt,
  queue_, curr_size_, step, arg, size, queue_stat, taking, key,
  missed,    \* the key each worker looked up in vain and has yet to push
  is_alive_, \* FALSE once Shutdown was called
  pc,        \* where the filler is
  t,         \* keys it may still take in this round
  keys, vals \* what it has taken and fetched and has not stored yet

LengthOf == [k \in Key |-> KeyBytes[{k}]]

Store == INSTANCE DHashmap
Queue == INSTANCE RefillQueue WITH KeyLen <- LengthOf

storeVars ==
  <<value_, ttl_, index_, values_, storage_size, gets_, updates_, deleted_, now, halt>>
queueVars == <<queue_, curr_size_, step, arg, size, queue_stat, taking, key>>
fillerVars == <<pc, t, keys, vals>>
vars == <<storeVars, queueVars, missed, is_alive_, fillerVars>>

ASSUME PluginAssumption == Normalize \in [Key -> Key]
\* Those of DHashmap and of RefillQueue.
ASSUME StoreAssumption ==
  /\ IsFiniteSet(Key) /\ Nil \notin Obj
  /\ Store!IsMeasure(KeyBytes, Key) /\ Store!IsMeasure(ObjBytes, Obj)
  /\ {TTL, ExpSize, MaxStorage, MaxTime} \subseteq Nat /\ {Word, Uint} \subseteq Nat \ {0}
  /\ \A k \in Key, o \in Obj : MaxStorage + KeyBytes[{k}] + ObjBytes[{o}] < Word
ASSUME QueueAssumption == IsFiniteSet(Worker) /\ Worker # {} /\ MaxQueue \in Nat
ASSUME SourceAssumption == Source \in [Key -> SUBSET Store!Value]
ASSUME FillAssumption ==
  MayBeDead \in BOOLEAN /\ MaxFill \in Nat \ {0} /\ MaxBatch \in Nat

Nothing == "nothing"

Init ==
  /\ Store!Init
  /\ Queue!Init
  /\ missed = [w \in Worker |-> Nothing]
  /\ is_alive_ = TRUE
  /\ pc = "top"
  /\ t = 0
  /\ keys = <<>> /\ vals = <<>>

-----------------------------------------------------------------------------
(* Worker threads: get_val for one argument.                                *)

\* Mutant: the key is queued as it was asked for.
LookUpRaw(w, raw) ==
  /\ step[w] = "idle" /\ missed[w] = Nothing
  /\ Store!Get(raw)
  /\ missed' = [missed EXCEPT ![w] = IF Store!Hit(Normalize[raw]) THEN Nothing ELSE raw]
  /\ UNCHANGED <<queueVars, is_alive_, fillerVars>>

LookUp(w, raw) ==
  /\ step[w] = "idle" /\ missed[w] = Nothing
  /\ Store!Get(raw)
  /\ missed' = [missed EXCEPT ![w] =
                  IF Store!Hit(Normalize[raw]) THEN Nothing ELSE Normalize[raw]]
  /\ UNCHANGED <<queueVars, is_alive_, fillerVars>>

PushKey(w) ==
  /\ \/ /\ missed[w] # Nothing
        /\ Queue!CheckRoom(w, missed[w])
        /\ missed' = [missed EXCEPT ![w] = Nothing]
     \/ (Queue!Push(w) \/ Queue!Report(w)) /\ UNCHANGED missed
  /\ UNCHANGED <<storeVars, is_alive_, fillerVars>>

-----------------------------------------------------------------------------
(* Signals: on_expirate runs in some worker, reset_server in the main       *)
(* thread.                                                                  *)

OnExpirate ==
  /\ Store!Expirate
  /\ UNCHANGED <<queueVars, missed, is_alive_, fillerVars>>

Shutdown ==
  /\ is_alive_
  /\ is_alive_' = FALSE
  /\ UNCHANGED <<storeVars, queueVars, missed, fillerVars>>

Tick ==
  /\ Store!Tick
  /\ UNCHANGED <<queueVars, missed, is_alive_, fillerVars>>

-----------------------------------------------------------------------------
(* The filler thread: AbstractFiller::operator().                           *)

Goto(l) == pc' = l /\ UNCHANGED <<t, keys, vals>>

\* Mutant: a round that was cut short is taken up again first.
TopOfLoopFinishes ==
  /\ pc = "top"
  /\ Goto(IF is_alive_ \/ t > 0 THEN "full?" ELSE "stopped")
  /\ UNCHANGED <<storeVars, queueVars>>

\* while(is_alive())
TopOfLoop ==
  /\ pc = "top"
  /\ Goto(IF is_alive_ THEN "full?" ELSE "stopped")
  /\ UNCHANGED <<storeVars, queueVars>>

\* k - storage_size() == 0, on unsigned numbers
IsFull == storage_size = MaxStorage

\* Mutant: the number of keys to take is not set again.
StartRoundKeeps(l) == pc' = l /\ UNCHANGED <<t, keys, vals>>

StartRound(l) == pc' = l /\ t' = MaxFill /\ UNCHANGED <<keys, vals>>

CheckFull ==
  /\ pc = "full?"
  /\ IF IsFull THEN Goto("expirate") ELSE StartRound("drain")
  /\ UNCHANGED <<storeVars, queueVars>>

ExpirateFirst ==
  /\ pc = "expirate"
  /\ Store!Expirate
  /\ StartRound("drain")
  /\ UNCHANGED queueVars

\* Mutant: the count of keys to take is not looked at.
SeeKeyUncounted ==
  /\ pc = "drain" /\ is_alive_
  /\ Queue!SeeNonEmpty
  /\ UNCHANGED <<storeVars, fillerVars>>

\* Mutant: the queue is not looked at.
SeeKeyBlindly ==
  /\ pc = "drain" /\ t > 0 /\ is_alive_ /\ ~ taking
  /\ taking' = TRUE
  /\ UNCHANGED <<storeVars, queue_, curr_size_, step, arg, size, queue_stat, key, fillerVars>>

\* is_alive() and queue_size() != 0 in the condition of the inner loop
SeeKey ==
  /\ pc = "drain" /\ t > 0 /\ is_alive_
  /\ Queue!SeeNonEmpty
  /\ UNCHANGED <<storeVars, fillerVars>>

EndDrain ==
  /\ pc = "drain" /\ ~ taking
  /\ t = 0 \/ ~ is_alive_ \/ queue_ = <<>>
  /\ Goto("fetch")
  /\ UNCHANGED <<storeVars, queueVars>>

\* k - storage_size() > 0 fails
DeclineKey ==
  /\ pc = "drain" /\ IsFull
  /\ Queue!Decline
  /\ Goto("fetch")
  /\ UNCHANGED storeVars

\* Mutant: empty keys are taken too.
TakeAnyKey ==
  /\ pc = "drain" /\ ~ IsFull
  /\ Len(keys) < MaxBatch
  /\ Queue!Pop
  /\ t' = t - 1
  /\ keys' = Append(keys, key')
  /\ UNCHANGED <<storeVars, pc, vals>>

TakeKey ==
  /\ pc = "drain" /\ ~ IsFull
  /\ Len(keys) < MaxBatch
  /\ Queue!Pop
  /\ t' = t - 1
  /\ keys' = IF key' = EmptyKey THEN keys ELSE Append(keys, key')
  /\ UNCHANGED <<storeVars, pc, vals>>

\* Mutant: the plugin leaves out the keys it has no value for.
AnswersWithGaps == {v \in BoundedSeq(Store!Value, Len(keys)) :
                      \A i \in 1..Len(v) :
                        \E j \in i..Len(keys) : v[i] \in Source[keys[j]]}

\* What get_vals may leave in vals: a value for each key, or for the first few.
Answers == {v \in BoundedSeq(Store!Value, Len(keys)) :
              \A i \in 1..Len(v) : v[i] \in Source[keys[i]]}

Fetch ==
  /\ pc = "fetch" /\ keys # <<>>
  /\ vals' \in Answers
  /\ pc' = "store"
  /\ UNCHANGED <<storeVars, queueVars, t, keys>>

\* Nothing to fetch, or the source is not available: sleep and start over.
Sleep ==
  /\ pc = "fetch"
  /\ keys = <<>> \/ MayBeDead
  /\ Goto("top")
  /\ UNCHANGED <<storeVars, queueVars>>

\* Mutant: a value is stored again for the next key.
StoreItemTwice ==
  /\ pc = "store" /\ keys # <<>> /\ vals # <<>>
  /\ Store!AddItem(Head(keys), Head(vals))
  /\ keys' = Tail(keys)
  /\ vals' = IF Len(vals) > 1 THEN Tail(vals) ELSE vals
  /\ UNCHANGED <<queueVars, pc, t>>

StoreItem ==
  /\ pc = "store" /\ keys # <<>> /\ vals # <<>>
  /\ Store!AddItem(Head(keys), Head(vals))
  /\ keys' = Tail(keys) /\ vals' = Tail(vals)
  /\ UNCHANGED <<queueVars, pc, t>>

\* add_item: no room, so expirate, sleep and look again.
FindNoRoom ==
  /\ pc = "store" /\ keys # <<>> /\ vals # <<>>
  /\ ~ Store!HasRoom
  /\ Goto("makeRoom")
  /\ UNCHANGED <<storeVars, queueVars>>

MakeRoom ==
  /\ pc = "makeRoom"
  /\ Store!Expirate
  /\ Goto("store")
  /\ UNCHANGED queueVars

\* Keys without an answer are dropped, and so are values without a key.
EndStore ==
  /\ pc = "store" /\ (keys = <<>> \/ vals = <<>>)
  /\ pc' = "top" /\ keys' = <<>> /\ vals' = <<>>
  /\ UNCHANGED <<storeVars, queueVars, t>>

Filler ==
  /\ Store!Running
  /\ \/ TopOfLoop \/ CheckFull \/ ExpirateFirst
     \/ SeeKey \/ EndDrain \/ DeclineKey \/ TakeKey
     \/ Fetch \/ Sleep
     \/ StoreItem \/ FindNoRoom \/ MakeRoom \/ EndStore
  /\ UNCHANGED <<missed, is_alive_>>

Next ==
  \/ /\ Store!Running
     /\ \/ \E w \in Worker : (\E raw \in Key : LookUp(w, raw)) \/ PushKey(w)
        \/ OnExpirate
        \/ Shutdown
        \/ Tick
  \/ Filler

Spec == Init /\ [][Next]_vars

\* The filler's thread gets to run; the locks it takes are held briefly.
FairSpec == Spec /\ WF_vars(Filler)

-----------------------------------------------------------------------------

\* Every variable stays in its range; the filler never takes more keys in a
\* round than it set out to.
TypeOK ==
  /\ Store!TypeOK
  /\ Queue!TypeOK
  /\ missed \in [Worker -> Key \cup {Nothing}]
  /\ is_alive_ \in BOOLEAN
  /\ pc \in {"top", "full?", "expirate", "drain", "fetch", "store", "makeRoom", "stopped"}
  /\ t \in 0..MaxFill
  /\ keys \in BoundedSeq(Key, MaxBatch)
  /\ vals \in BoundedSeq(Store!Value, MaxBatch)

\* The threads together use the store as DHashmap says, filling it with
\* normalized keys only, and the queue as RefillQueue says.
ImplementsStore == Store!Spec
ImplementsQueue == Queue!Spec

\* A key is only ever served a value that the source gave for that key:
\* sharing of equal values, renewals, evictions, short answers and batches
\* that outlive a dead source never mix values up.
ServesOwnValues ==
  \A k \in Store!Keys : Content[value_[k]] \in Source[k]

\* The empty key, which stands for "nothing was queued", is never filled,
\* although workers may push it and the store may hold any other key.
EmptyKeyNotStored == EmptyKey \notin Store!Keys

\* A stored key was asked for and is not overtaken: while the filler holds
\* values, they are those of the first keys it holds.
AnswersMatchKeys ==
  Len(vals) <= Len(keys) /\ \A i \in 1..Len(vals) : vals[i] \in Source[keys[i]]

\* Told to stop, the filler stops, so that the thread that joins it goes on
\* ("everything must stop correctly in the destructors", daemon.cpp).
FillerStops == ~ is_alive_ ~> (pc = "stopped" \/ ~ Store!Running)

\* A key that waits is taken by the filler, unless it is told to stop.
QueuedIsTaken ==
  \A k \in Key : k \in ToSet(queue_) ~>
                   (k \notin ToSet(queue_) \/ ~ is_alive_ \/ ~ Store!Running)
=============================================================================
