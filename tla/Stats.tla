------------------------------- MODULE Stats -------------------------------
(***************************************************************************)
(* The counters behind the stats command.  DHashmap counts gets, updates   *)
(* and deletions since they were last asked for (dhashmap.cpp);            *)
(* Storage::refresh_stats (storage.cpp) moves them into the totals of      *)
(* Stats (stats.cpp), one counter after another and without a lock around  *)
(* the move.  Any thread of the pool may run a stats command, and gets and *)
(* an expirate go on meanwhile.                                            *)
(*                                                                         *)
(* gets_ and updates_ are read and reset under the upgradable lock that    *)
(* those who count hold; deleted_ under the sharable lock, which does not  *)
(* exclude an expirate or another stats command.                           *)
(***************************************************************************)
EXTENDS Integers, FiniteSets, Functions

CONSTANTS
  Thread,
  Uint,      \* 2^w for uint
  MaxEvents  \* bound of the model on the events of each kind

ASSUME ThreadAssumption == IsFiniteSet(Thread)
ASSUME UintAssumption == Uint \in Nat \ {0}

Counter == {"deleted", "gets", "updates"}

VARIABLES
  count,     \* DHashmap: deleted_, gets_, updates_
  total,     \* Stats: the counters of the same names
  pc,        \* where each thread is in refresh_stats
  ret,       \* the count it has taken and not added yet
  expirate,  \* "out", or where the expirate that is under way is
  loaded,    \* what its ++deleted_ has read
  happened,  \* the events so far, of each kind
  overlap    \* a get_deleted overlapped another or a ++deleted_

vars == <<count, total, pc, ret, expirate, loaded, happened, overlap>>

Init ==
  /\ count = [c \in Counter |-> 0]
  /\ total = [c \in Counter |-> 0]
  /\ pc = [t \in Thread |-> "out"]
  /\ ret = [t \in Thread |-> 0]
  /\ expirate = "out" /\ loaded = 0
  /\ happened = [c \in Counter |-> 0]
  /\ overlap = FALSE

\* The upgradable lock is held by nobody.
Unlocked == expirate = "out"

Happens(c) ==
  /\ happened[c] < MaxEvents
  /\ happened' = [happened EXCEPT ![c] = @ + 1]

-----------------------------------------------------------------------------
(* Counting: get counts itself, and again if the entry has expired.         *)

CountOne(c) ==
  /\ Unlocked
  /\ Happens(c)
  /\ count' = [count EXCEPT ![c] = (@ + 1) % Uint]
  /\ UNCHANGED <<total, pc, ret, expirate, loaded, overlap>>

LockExpirate ==
  /\ Unlocked
  /\ expirate' = "locked"
  /\ UNCHANGED <<count, total, pc, ret, loaded, happened, overlap>>

\* ++deleted_ reads and writes; get_deleted may come in between.
LoadDeleted ==
  /\ expirate = "locked"
  /\ Happens("deleted")
  /\ loaded' = count["deleted"]
  /\ expirate' = "loaded"
  /\ overlap' = (overlap \/ \E t \in Thread : pc[t] = "reset_deleted")
  /\ UNCHANGED <<count, total, pc, ret>>

StoreDeleted ==
  /\ expirate = "loaded"
  /\ count' = [count EXCEPT !["deleted"] = (loaded + 1) % Uint]
  /\ expirate' = "locked" /\ loaded' = 0
  /\ UNCHANGED <<total, pc, ret, happened, overlap>>

UnlockExpirate ==
  /\ expirate = "locked"
  /\ expirate' = "out"
  /\ UNCHANGED <<count, total, pc, ret, loaded, happened, overlap>>

-----------------------------------------------------------------------------
(* refresh_stats.                                                           *)

Step(t, from, to) == pc[t] = from /\ pc' = [pc EXCEPT ![t] = to]

\* get_deleted: uint ret = deleted_;
ReadDeleted(t) ==
  /\ Step(t, "out", "reset_deleted")
  /\ ret' = [ret EXCEPT ![t] = count["deleted"]]
  /\ overlap' = (overlap \/ expirate = "loaded"
                         \/ \E u \in Thread : pc[u] = "reset_deleted")
  /\ UNCHANGED <<count, total, expirate, loaded, happened>>

\* Mutant: the count is not reset.
ResetDeletedNot(t) ==
  /\ Step(t, "reset_deleted", "add_deleted")
  /\ UNCHANGED <<count, total, ret, expirate, loaded, happened, overlap>>

\* get_deleted: deleted_ = 0;
ResetDeleted(t) ==
  /\ Step(t, "reset_deleted", "add_deleted")
  /\ count' = [count EXCEPT !["deleted"] = 0]
  /\ UNCHANGED <<total, ret, expirate, loaded, happened, overlap>>

\* get_gets, get_updates: read and reset under the upgradable lock.
Take(t, c, from, to) ==
  /\ Step(t, from, to)
  /\ Unlocked
  /\ ret' = [ret EXCEPT ![t] = count[c]]
  /\ count' = [count EXCEPT ![c] = 0]
  /\ UNCHANGED <<total, expirate, loaded, happened, overlap>>

\* Mutant: the total is replaced.
AddReplaces(t, c, from, to) ==
  /\ Step(t, from, to)
  /\ total' = [total EXCEPT ![c] = ret[t]]
  /\ ret' = [ret EXCEPT ![t] = 0]
  /\ UNCHANGED <<count, expirate, loaded, happened, overlap>>

\* set_deleted, set_gets, set_updates
Add(t, c, from, to) ==
  /\ Step(t, from, to)
  /\ total' = [total EXCEPT ![c] = (@ + ret[t]) % Uint]
  /\ ret' = [ret EXCEPT ![t] = 0]
  /\ UNCHANGED <<count, expirate, loaded, happened, overlap>>

RefreshStats(t) ==
  \/ ReadDeleted(t)
  \/ ResetDeleted(t)
  \/ Add(t, "deleted", "add_deleted", "take_gets")
  \/ Take(t, "gets", "take_gets", "add_gets")
  \/ Add(t, "gets", "add_gets", "take_updates")
  \/ Take(t, "updates", "take_updates", "add_updates")
  \/ Add(t, "updates", "add_updates", "out")

Next ==
  \/ CountOne("gets") \/ CountOne("updates")
  \/ LockExpirate \/ LoadDeleted \/ StoreDeleted \/ UnlockExpirate
  \/ \E t \in Thread : RefreshStats(t)

Spec == Init /\ [][Next]_vars

-----------------------------------------------------------------------------

\* What threads have taken from counter c and not added to the total yet.
InFlight(l) == SumFunctionOnSet(ret, {t \in Thread : pc[t] = l})

\* The deletion that is being counted.
Uncounted == IF expirate = "loaded" THEN 1 ELSE 0

\* Every get and every update is counted once, in DHashmap, in Stats or on
\* its way from one to the other, however many stats commands overlap.
GetsCountedOnce ==
  /\ happened["gets"] % Uint
       = (count["gets"] + InFlight("add_gets") + total["gets"]) % Uint
  /\ happened["updates"] % Uint
       = (count["updates"] + InFlight("add_updates") + total["updates"]) % Uint

\* So is every deletion, unless get_deleted ever overlapped another call of
\* itself or the counting of a deletion: the sharable lock is not enough then.
DeletedCountedOnce ==
  ~ overlap =>
    (happened["deleted"] - Uncounted) % Uint
      = (count["deleted"] + InFlight("add_deleted") + total["deleted"]) % Uint
=============================================================================
