---------------------------- MODULE RefillQueue ----------------------------
(***************************************************************************)
(* The queue of keys that wait for the filler (queue.cpp), as the worker   *)
(* threads use it through Storage::push_key and the filler through         *)
(* Storage::queue_size and Storage::pop_key.  Each call of a Queue method  *)
(* takes the queue's mutex and is one step; what a thread does between two *)
(* calls interleaves with the other threads.                               *)
(***************************************************************************)
EXTENDS Integers, FiniteSets, Sequences, Functions

CONSTANTS
  Worker,    \* the threads that serve requests
  Key,       \* the (normalized) keys they ask for
  EmptyKey,  \* the empty string, which is also what an empty queue yields
  KeyLen,    \* length of each key
  MaxQueue,  \* max_queue_size_
  Word,      \* 2^w for the size_t curr_size_
  Uint       \* 2^w for the uint that push returns

ASSUME WorkerAssumption == IsFiniteSet(Worker) /\ Worker # {}
ASSUME KeyLenAssumption == KeyLen \in [Key -> Nat]
ASSUME LimitAssumption == MaxQueue \in Nat /\ {Word, Uint} \subseteq Nat \ {0}

VARIABLES
  queue_,      \* the keys, oldest first
  curr_size_,  \* their total length, as the queue counts it
  step,        \* where each worker is in push_key
  arg,         \* the key it pushes
  size,        \* the size its push returned
  queue_stat,  \* the queue size shown by the statistics
  taking,      \* the filler saw a non-empty queue and is about to pop
  key          \* the filler's variable that pop_key assigns

queueVars == <<queue_, curr_size_>>
workerVars == <<step, arg, size, queue_stat>>
vars == <<queueVars, workerVars, taking, key>>

Init ==
  /\ queue_ = <<>>
  /\ curr_size_ = 0
  /\ step = [w \in Worker |-> "idle"]
  /\ arg = [w \in Worker |-> EmptyKey]
  /\ size = [w \in Worker |-> 0]
  /\ queue_stat = 0
  /\ taking = FALSE
  /\ key = EmptyKey

\* Mutant: off by one at the limit.
HasRoomOrFull == Len(queue_) <= MaxQueue

HasRoom == Len(queue_) < MaxQueue

\* push_key, queue_.size(): the key is dropped when the queue is full.
CheckRoom(w, k) ==
  /\ step[w] = "idle"
  /\ IF HasRoom
       THEN /\ step' = [step EXCEPT ![w] = "push"]
            /\ arg' = [arg EXCEPT ![w] = k]
       ELSE UNCHANGED <<step, arg>>
  /\ UNCHANGED <<queueVars, size, queue_stat, taking, key>>

\* Mutant: only the last key is compared.
EnqueueIfNotLast(k) ==
  IF queue_ # <<>> /\ queue_[Len(queue_)] = k
    THEN UNCHANGED queueVars
    ELSE /\ queue_' = Append(queue_, k)
         /\ curr_size_' = (curr_size_ + KeyLen[k]) % Word

\* A key that waits already is not queued again.
Enqueue(k) ==
  IF k \in Range(queue_)
    THEN UNCHANGED queueVars
    ELSE /\ queue_' = Append(queue_, k)
         /\ curr_size_' = (curr_size_ + KeyLen[k]) % Word

\* Mutant: push returns the position of the last key it found.
PushReturnsPosition(w) ==
  /\ step[w] = "push"
  /\ Enqueue(arg[w])
  /\ size' = [size EXCEPT ![w] = Len(queue_) - 1]
  /\ step' = [step EXCEPT ![w] = "report"]
  /\ UNCHANGED <<arg, queue_stat, taking, key>>

\* push_key, queue_.push.
Push(w) ==
  /\ step[w] = "push"
  /\ Enqueue(arg[w])
  /\ size' = [size EXCEPT ![w] = Len(queue_') % Uint]
  /\ step' = [step EXCEPT ![w] = "report"]
  /\ UNCHANGED <<arg, queue_stat, taking, key>>

\* push_key, stats_.set_queue_size with the size that push returned.
Report(w) ==
  /\ step[w] = "report"
  /\ queue_stat' = size[w]
  /\ step' = [step EXCEPT ![w] = "idle"]
  /\ arg' = [arg EXCEPT ![w] = EmptyKey]
  /\ size' = [size EXCEPT ![w] = 0]
  /\ UNCHANGED <<queueVars, taking, key>>

\* Mutant: the filler pops without looking at the size.
SeeNonEmptyBlindly ==
  /\ ~ taking
  /\ taking' = TRUE
  /\ UNCHANGED <<queueVars, workerVars, key>>

\* The filler's queue_size() != 0.
SeeNonEmpty ==
  /\ ~ taking
  /\ queue_ # <<>>
  /\ taking' = TRUE
  /\ UNCHANGED <<queueVars, workerVars, key>>

\* wait_and_pop does not wait: an empty queue clears the key.
Dequeue ==
  IF queue_ = <<>>
    THEN /\ key' = EmptyKey
         /\ UNCHANGED queueVars
    ELSE /\ key' = Head(queue_)
         /\ queue_' = Tail(queue_)
         /\ curr_size_' = (curr_size_ - KeyLen[Head(queue_)]) % Word

Pop ==
  /\ taking
  /\ taking' = FALSE
  /\ Dequeue
  /\ UNCHANGED workerVars

\* The store has become full in the meantime: the filler does not pop.
Decline ==
  /\ taking
  /\ taking' = FALSE
  /\ UNCHANGED <<queueVars, workerVars, key>>

Next ==
  \/ \E w \in Worker : \E k \in Key : CheckRoom(w, k)
  \/ \E w \in Worker : Push(w) \/ Report(w)
  \/ SeeNonEmpty
  \/ Pop
  \/ Decline

Spec == Init /\ [][Next]_vars

-----------------------------------------------------------------------------

\* Every variable stays in its range.
TypeOK ==
  /\ queue_ \in Seq(Key)
  /\ curr_size_ \in 0..(Word - 1)
  /\ step \in [Worker -> {"idle", "push", "report"}]
  /\ arg \in [Worker -> Key \cup {EmptyKey}]
  /\ \A w \in Worker : step[w] = "push" => arg[w] \in Key
  /\ size \in [Worker -> 0..(Uint - 1)]
  /\ queue_stat \in 0..(Uint - 1)
  /\ taking \in BOOLEAN
  /\ key \in Key \cup {EmptyKey}

\* push_key looks at the size and pushes in two critical sections, so the
\* queue can outgrow its limit, but never by more than the other workers.
QueueBound == Len(queue_) <= MaxQueue + Cardinality(Worker) - 1

\* However pushes and pops interleave, a key waits at most once.
NoDuplicates ==
  \A i, j \in 1..Len(queue_) : queue_[i] = queue_[j] => i = j

\* The filler looks at the size and pops in two critical sections; as the
\* only consumer it still never pops from an empty queue.
PopFindsKey == taking => queue_ # <<>>
=============================================================================
