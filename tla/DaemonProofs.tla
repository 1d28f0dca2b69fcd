---------------------------- MODULE DaemonProofs ----------------------------
(***************************************************************************)
(* Proofs about Daemon, for any pool and any number of signals: which      *)
(* objects exist when, who may use them, and how many generations there    *)
(* can be.                                                                 *)
(***************************************************************************)
EXTENDS Daemon, FiniteSetTheorems, FunctionTheorems, SequenceTheorems, TLAPS

Whats == {"accepted", "accept failed", "read", "write", "exit", "config", "expirate", "segfault",
          "out", "idle", "stuck"}
HandlerUpTo(g) == [what : Whats, gen : 0..g]

LockHolderWorks ==
  \A t \in Thread : lock = t => current[t].what \in {"read", "expirate", "stuck"}

\* Generations are counted, and everything that names one names one that has begun.
\* There are threads in the pool while the main thread waits for them, and the lock
\* is held by one that is at work.
Shape ==
  /\ gen \in Nat
  /\ {server_, storage_, filler_, filler_thread_} \subseteq 0..gen
  /\ alive \subseteq Classes \X (1..gen)
  /\ fillers \subseteq 1..gen
  /\ accepting \subseteq 0..gen /\ conns \subseteq 0..gen
  /\ current \in [Thread -> HandlerUpTo(gen)]
  /\ ready \in Seq(HandlerUpTo(gen))
  /\ after \in {"build", "exit"}
  /\ main # "join" => \A t \in Thread : current[t] = Out
  /\ LockHolderWorks

-----------------------------------------------------------------------------
(* Shape.                                                                   *)

\* A longer reach.
LEMMA HandlersGrow ==
  ASSUME NEW g \in Nat
  PROVE  /\ HandlerUpTo(g) \subseteq HandlerUpTo(g + 1)
         /\ \A s \in Seq(HandlerUpTo(g)) : s \in Seq(HandlerUpTo(g + 1))
<1>1. HandlerUpTo(g) \subseteq HandlerUpTo(g + 1)
  BY DEF HandlerUpTo
<1>2. ASSUME NEW s \in Seq(HandlerUpTo(g))
      PROVE  s \in Seq(HandlerUpTo(g + 1))
  <2>1. s \in [1..Len(s) -> HandlerUpTo(g)] /\ Len(s) \in Nat
    BY LenProperties
  <2>2. s \in [1..Len(s) -> HandlerUpTo(g + 1)]
    BY <1>1, <2>1
  <2> QED
    BY <2>1, <2>2, IsASeq
<1> QED
  BY <1>1, <1>2

\* The handlers that the service and its users queue or run.
LEMMA HandlerType ==
  ASSUME NEW n \in Nat, NEW what \in Whats, NEW g \in 0..n
  PROVE  Handler(what, g) \in HandlerUpTo(n)
BY DEF Handler, HandlerUpTo

\* Queueing and running handlers of generations that have begun.
LEMMA QueueType ==
  ASSUME NEW n \in Nat, NEW s \in Seq(HandlerUpTo(n))
  PROVE  /\ \A h \in HandlerUpTo(n) : Append(s, h) \in Seq(HandlerUpTo(n))
         /\ s # <<>> => Head(s) \in HandlerUpTo(n) /\ Tail(s) \in Seq(HandlerUpTo(n))
<1>1. \A h \in HandlerUpTo(n) : Append(s, h) \in Seq(HandlerUpTo(n))
  BY AppendProperties
<1>2. s # <<>> => Head(s) \in HandlerUpTo(n) /\ Tail(s) \in Seq(HandlerUpTo(n))
  BY HeadTailProperties
<1> QED
  BY <1>1, <1>2

\* A thread without a handler.
LEMMA RestType ==
  ASSUME NEW n \in Nat
  PROVE  Idle \in HandlerUpTo(n) /\ Out \in HandlerUpTo(n) /\ Stuck \in HandlerUpTo(n)
<1>1. {"idle", "out", "stuck"} \subseteq Whats /\ 0 \in 0..n
  BY DEF Whats
<1> QED
  BY <1>1, HandlerType DEF Idle, Out, Stuck

\* A generation begins, with some of its objects.
Begins ==
  /\ main = "build"
  /\ gen' = gen + 1 /\ after' \in {"build", "exit"}
  /\ {server_', storage_', filler_', filler_thread_'}
        \subseteq {server_, filler_, filler_thread_, gen + 1}
  /\ alive' \subseteq alive \cup (Classes \X {gen + 1})
  /\ fillers' \subseteq fillers \cup {gen + 1}
  /\ accepting' \subseteq accepting \cup {gen + 1}
  /\ UNCHANGED <<ready, conns, current, lock>>

\* It keeps to what has begun.
LEMMA BeginsShape == Shape /\ Begins => Shape'
<1> SUFFICES ASSUME Shape, Begins
             PROVE  Shape'
  OBVIOUS
<1>1. gen' \in Nat /\ 0..gen \subseteq 0..gen' /\ 1..gen \subseteq 1..gen' /\ gen' \in 1..gen'
  BY DEF Shape, Begins
<1>2. {server_', storage_', filler_', filler_thread_'} \subseteq 0..gen'
  BY <1>1 DEF Shape, Begins
<1>3. alive' \subseteq Classes \X (1..gen')
  BY <1>1 DEF Shape, Begins
<1>4. fillers' \subseteq 1..gen' /\ accepting' \subseteq 0..gen' /\ conns' \subseteq 0..gen'
  BY <1>1 DEF Shape, Begins
<1>5. ready' \in Seq(HandlerUpTo(gen')) /\ current' \in [Thread -> HandlerUpTo(gen')]
  BY HandlersGrow DEF Shape, Begins
<1>6. LockHolderWorks' /\ \A t \in Thread : current'[t] = Out
  BY DEF Shape, Begins, LockHolderWorks
<1> QED
  BY <1>1, <1>2, <1>3, <1>4, <1>5, <1>6 DEF Shape, Begins

\* What the main thread does to the objects.
LEMMA MainShape == Shape /\ Main => Shape'
<1> SUFFICES ASSUME Shape, Main
             PROVE  Shape'
  OBVIOUS
<1> USE DEF Shape, Classes, LockHolderWorks
<1>1. CASE CheckDone
  BY <1>1 DEF CheckDone, pointers, service
<1>2. CASE StopFiller
  BY <1>2 DEF StopFiller, pointers, service
<1>3. CASE JoinFiller
  BY <1>3 DEF JoinFiller, pointers, service
<1>4. CASE DropServer
  <2>1. ready' \in Seq(HandlerUpTo(gen))
    <3>1. Handler("accept failed", server_) \in HandlerUpTo(gen)
      BY HandlerType DEF Whats
    <3>2. ready' = ready \/ ready' = Append(ready, Handler("accept failed", server_))
      BY <1>4 DEF DropServer, service
    <3> QED
      BY <3>1, <3>2, QueueType
  <2> QED
    BY <1>4, <2>1 DEF DropServer, pointers, service
<1>5. CASE DropRest
  BY <1>5 DEF DropRest, pointers, service
<1>6. CASE Build
  <2>1. Begins
    BY <1>6 DEF Build, Begins
  <2> QED
    BY <2>1, BeginsShape
<1>7. CASE BindFails
  <2>1. Begins
    BY <1>7 DEF BindFails, Begins, service
  <2> QED
    BY <2>1, BeginsShape
<1>8. CASE PluginFails
  <2>1. Begins
    BY <1>8 DEF PluginFails, Begins, service
  <2> QED
    BY <2>1, BeginsShape
<1>9. CASE Run
  <2>1. current' \in [Thread -> HandlerUpTo(gen)]
    BY <1>9, RestType DEF Run
  <2>2. \A t \in Thread : lock # t
    BY <1>9 DEF Run, Out, Handler
  <2>3. lock' = lock /\ main' = "join"
    BY <1>9 DEF Run, MainGoto
  <2>4. UNCHANGED <<gen, server_, storage_, filler_, filler_thread_, alive, fillers, accepting,
                    conns, ready, after>>
    BY <1>9 DEF Run, pointers
  <2> QED
    BY <2>1, <2>2, <2>3, <2>4
<1>10. CASE Join
  BY <1>10 DEF Join, pointers, service
<1> QED
  BY <1>1, <1>2, <1>3, <1>4, <1>5, <1>6, <1>7, <1>8, <1>9, <1>10 DEF Main

\* What steps of other threads and of the outside leave to the main thread.
LEMMA OtherSteps ==
  ASSUME Shape, [Next]_vars
  PROVE  \/ halt = "no" /\ Main
         \/ /\ UNCHANGED <<main, after, pointers, alive>>
            /\ fillers' \subseteq fillers
            /\ current' \in [Thread -> HandlerUpTo(gen)]
            /\ \A t \in Thread : current[t] = Out => current'[t] = Out
            /\ LockHolderWorks'
            /\ ready' \in Seq(HandlerUpTo(gen))
            /\ accepting' \subseteq 0..gen /\ conns' \subseteq 0..gen
<1> DEFINE Other ==
      /\ UNCHANGED <<main, after, pointers, alive>>
      /\ fillers' \subseteq fillers
      /\ current' \in [Thread -> HandlerUpTo(gen)]
      /\ \A t \in Thread : current[t] = Out => current'[t] = Out
      /\ LockHolderWorks'
      /\ ready' \in Seq(HandlerUpTo(gen))
      /\ accepting' \subseteq 0..gen /\ conns' \subseteq 0..gen
<1> USE DEF Shape, mainVars, service, pointers, faults, LockHolderWorks
<1>a. \A what \in Whats : \A g \in 0..gen : Handler(what, g) \in HandlerUpTo(gen)
  BY HandlerType
<1>b. /\ {Idle, Stuck, Out} \subseteq HandlerUpTo(gen)
      /\ \A what \in Whats : Handler(what, 0) \in HandlerUpTo(gen)
  BY <1>a, RestType
<1>1. CASE UNCHANGED vars
  BY <1>1 DEF vars
<1>2. CASE FillerStops \/ FillerFaultsAgain
  BY <1>2 DEF FillerStops, FillerFaultsAgain
<1>3. CASE FillerFaults
  <2>1. ready' = ready \/ ready' = Append(ready, Handler("segfault", 0))
    BY <1>3 DEF FillerFaults
  <2>2. ready' \in Seq(HandlerUpTo(gen))
    BY <1>b, <2>1, QueueType DEF Whats
  <2> QED
    BY <1>3, <2>2 DEF FillerFaults
<1>4. ASSUME NEW t \in Thread, Pool(t)
      PROVE  Other
  <2>1. CASE LeaveRun(t)
    BY <1>b, <2>1 DEF LeaveRun, RunHandler, Idle, Handler
  <2>2. CASE TakeHandler(t)
    BY <2>2, QueueType DEF TakeHandler, RunHandler, Idle, Out, Handler
  <2>3. CASE OnAccept(t)
    <3>1. current[t] \in HandlerUpTo(gen) /\ current[t].what # "out"
      BY <2>3 DEF OnAccept
    <3>2. current[t].gen \in 0..gen /\ current[t] # Out
      BY <3>1 DEF HandlerUpTo, Out, Handler
    <3>3. Handler("accept failed", current[t].gen) \in HandlerUpTo(gen)
      BY <1>a, <3>2 DEF Whats
    <3>4. ready' \in Seq(HandlerUpTo(gen))
      <4>1. ready' = ready \/ ready' = Append(ready, Handler("accept failed", current[t].gen))
        BY <2>3 DEF OnAccept
      <4> QED
        BY <3>3, <4>1, QueueType
    <3>5. accepting' \subseteq 0..gen /\ conns' \subseteq 0..gen
      BY <2>3, <3>2 DEF OnAccept
    <3>6. lock # t
      BY <2>3 DEF OnAccept
    <3>7. current' = [current EXCEPT ![t] = Idle] /\ lock' = lock
      BY <2>3 DEF OnAccept, RunHandler
    <3>8. /\ current' \in [Thread -> HandlerUpTo(gen)]
          /\ \A u \in Thread : current[u] = Out => current'[u] = Out
          /\ LockHolderWorks'
      BY <1>b, <3>2, <3>6, <3>7
    <3>9. UNCHANGED <<main, after, pointers, alive, fillers>>
      BY <2>3 DEF OnAccept
    <3> QED
      BY <3>4, <3>5, <3>8, <3>9
  <2>4. CASE TakeLock(t) \/ UseDeadStorage(t)
    <3>1. UNCHANGED <<main, after, pointers, alive, fillers, current, ready, accepting, conns>>
      BY <2>4 DEF TakeLock, UseDeadStorage
    <3>2. LockHolderWorks'
      BY <2>4, <3>1 DEF TakeLock, UseDeadStorage, UsesStorage
    <3> QED
      BY <3>1, <3>2
  <2>5. ASSUME Done(t), current[t] # Out
        PROVE  /\ current' \in [Thread -> HandlerUpTo(gen)]
               /\ \A u \in Thread : current[u] = Out => current'[u] = Out
               /\ conns' \subseteq 0..gen
               /\ \A u \in Thread \ {t} : current'[u] = current[u]
    <3>1. current[t].gen \in 0..gen
      BY DEF HandlerUpTo
    <3> QED
      BY <1>b, <2>5, <3>1 DEF Done, RunHandler
  <2>6. CASE ReleaseLock(t)
    <3>1. current[t].gen \in 0..gen
      BY DEF HandlerUpTo
    <3>2. current[t] # Out
      BY <2>6 DEF ReleaseLock, Out, Handler
    <3>3. LockHolderWorks'
      BY <2>6, ThreadAssumption DEF ReleaseLock
    <3>4. CASE Done(t)
      BY <2>5, <2>6, <3>2, <3>3, <3>4 DEF ReleaseLock
    <3>5. CASE RunHandler(t, Handler("write", current[t].gen)) /\ UNCHANGED conns
      <4>1. Handler("write", current[t].gen) \in HandlerUpTo(gen)
        BY <1>a, <3>1 DEF Whats
      <4> QED
        BY <2>6, <3>2, <3>3, <3>5, <4>1 DEF ReleaseLock, RunHandler
    <3> QED
      BY <2>6, <3>4, <3>5 DEF ReleaseLock
  <2>7. CASE OnSignal(t)
    <3>1. current[t] # Out
      BY <2>7 DEF OnSignal, Out, Handler
    <3> QED
      BY <1>b, <2>7, <3>1 DEF OnSignal, RunHandler
  <2>8. CASE OnSegfault(t)
    <3>1. current[t] # Out
      BY <2>8 DEF OnSegfault, Out, Handler
    <3> QED
      BY <1>b, <2>8, <3>1 DEF OnSegfault, RunHandler
  <2> QED
    BY <1>4, <2>1, <2>2, <2>3, <2>4, <2>6, <2>7, <2>8 DEF Pool
<1>5. CASE Post
  <2>1. ready' \in Seq(HandlerUpTo(gen))
    BY <1>b, <1>5, QueueType DEF Post, Whats
  <2> QED
    BY <1>5, <2>1 DEF Post
<1>6. ASSUME NEW t \in Thread, Interrupt(t) \/ InterruptExpirate(t) \/ InterruptWrite(t)
      PROVE  Other
  <2>1. CASE Interrupt(t) \/ InterruptWrite(t)
    BY <2>1 DEF Interrupt, InterruptWrite
  <2>2. CASE InterruptExpirate(t)
    <3>1. /\ UNCHANGED <<main, after, pointers, alive, fillers, ready, accepting, conns, lock>>
          /\ current' = [current EXCEPT ![t] = Stuck] /\ current[t] # Out
      BY <2>2 DEF InterruptExpirate, RunHandler, InRun
    <3>2. Stuck.what = "stuck"
      BY DEF Stuck, Handler
    <3>3. LockHolderWorks'
      BY <3>1, <3>2
    <3> QED
      BY <1>b, <3>1, <3>3
  <2> QED
    BY <1>6, <2>1, <2>2
<1>7. CASE Connect \/ SendCommand
  <2>1. PICK g \in 0..gen, what \in Whats : ready' = Append(ready, Handler(what, g))
    BY <1>7 DEF Connect, SendCommand, Whats
  <2>2. ready' \in Seq(HandlerUpTo(gen))
    BY <1>a, <2>1, QueueType
  <2> QED
    BY <1>7, <2>2 DEF Connect, SendCommand
<1>8. CASE Disconnect
  BY <1>8 DEF Disconnect
<1>9. ASSUME NEW t \in Thread, TakeReply(t) \/ LeaveUnread(t)
      PROVE  Other
  <2>1. CASE TakeReply(t)
    <3>1. current[t].what = "write" /\ current[t] # Out
      BY <2>1 DEF TakeReply, Blocked, Out, Handler
    <3>2. /\ current' \in [Thread -> HandlerUpTo(gen)]
          /\ \A u \in Thread : current[u] = Out => current'[u] = Out
          /\ conns' \subseteq 0..gen
          /\ \A u \in Thread \ {t} : current'[u] = current[u]
      <4>1. current[t].gen \in 0..gen
        BY DEF HandlerUpTo
      <4> QED
        BY <1>b, <2>1, <3>1, <4>1 DEF TakeReply, Done, RunHandler
    <3>3. LockHolderWorks'
      BY <2>1, <3>1, <3>2 DEF TakeReply
    <3> QED
      BY <2>1, <3>2, <3>3 DEF TakeReply
  <2>2. CASE LeaveUnread(t)
    BY <2>2 DEF LeaveUnread
  <2> QED
    BY <1>9, <2>1, <2>2
<1> QED
  BY <1>1, <1>2, <1>3, <1>4, <1>5, <1>6, <1>7, <1>8, <1>9 DEF Next, Clients

\* Generations, handlers and the lock keep to what has begun, whatever happens in which
\* order.
THEOREM ShapeHolds == Spec => []Shape
<1>1. Init => Shape
  <2> SUFFICES ASSUME Init
               PROVE  Shape
    OBVIOUS
  <2>1. current \in [Thread -> HandlerUpTo(0)] /\ ready \in Seq(HandlerUpTo(0))
    BY RestType, EmptySeq DEF Init
  <2>2. LockHolderWorks
    BY ThreadAssumption DEF Init, LockHolderWorks
  <2>3. \A t \in Thread : current[t] = Out
    BY DEF Init
  <2> QED
    BY <2>1, <2>2, <2>3 DEF Init, Shape
<1>2. Shape /\ [Next]_vars => Shape'
  <2> SUFFICES ASSUME Shape, [Next]_vars
               PROVE  Shape'
    OBVIOUS
  <2>1. CASE Main
    BY <2>1, MainShape
  <2>2. CASE ~ Main
    BY <2>2, OtherSteps DEF Shape, pointers
  <2> QED
    BY <2>1, <2>2
<1> QED
  BY <1>1, <1>2, PTL DEF Spec

-----------------------------------------------------------------------------
(* Lifetimes.                                                               *)

Present(class, g) == <<class, g>> \in alive
OfPointers ==
  {<<"server", server_>>, <<"storage", storage_>>, <<"filler", filler_>>,
   <<"thread", filler_thread_>>}

\* Only what the pointers refer to is there, the filler thread has its objects,
\* and reset_server has removed what it has passed.
Lifetimes ==
  /\ alive \subseteq OfPointers
  /\ fillers \subseteq {filler_thread_}
  /\ fillers # {} =>
       /\ filler_ = filler_thread_ /\ storage_ = filler_thread_
       /\ Present("filler", filler_) /\ Present("storage", storage_)
  /\ main \in {"dropServer", "dropRest", "build", "exit"} =>
       fillers = {} /\ ~ Present("thread", filler_thread_)
  /\ main \in {"dropRest", "build", "exit"} => ~ Present("server", server_)
  /\ (main = "build" /\ halt = "no") \/ main = "exit" => alive = {}
  /\ main \in {"run", "join"} =>
       server_ = storage_ /\ Present("server", server_) /\ Present("storage", storage_)

\* The main thread builds and removes in the right order.
LEMMA MainLifetimes == Shape /\ Lifetimes /\ halt = "no" /\ Main => Lifetimes'
<1> SUFFICES ASSUME Shape, Lifetimes, halt = "no", Main
             PROVE  Lifetimes'
  OBVIOUS
<1>t. /\ 0 \notin fillers /\ \A c \in Classes : ~ Present(c, 0)
      /\ after \in {"build", "exit"} /\ gen \in Nat
  BY DEF Shape, Present
<1> USE DEF Lifetimes, OfPointers, Present, Classes, MainGoto
<1>1. CASE CheckDone
  BY <1>1 DEF CheckDone, pointers
<1>2. CASE StopFiller
  BY <1>2, <1>t DEF StopFiller, pointers, MainFaults, Fault
<1>3. CASE JoinFiller
  BY <1>3 DEF JoinFiller, pointers
<1>4. CASE DropServer
  <2>1. /\ UNCHANGED <<pointers, fillers>>
        /\ main = "dropServer" /\ main' \in {"dropServer", "dropRest", "faulting"}
        /\ alive' \subseteq alive
        /\ fillers = {} /\ ~ Present("thread", filler_thread_)
    BY <1>4 DEF DropServer, MainFaults
  <2>2. main' = "dropRest" => ~ Present("server", server_)'
    <3>1. server_' = server_ /\ ~ Present("server", 0)
      BY <2>1, <1>t DEF pointers
    <3>2. CASE server_ = 0
      BY <1>4, <3>1, <3>2 DEF DropServer
    <3>3. CASE server_ # 0
      <4>1. main' = "dropRest" => alive' = alive \ {<<"server", server_>>}
        BY <1>4, <3>3 DEF DropServer, MainFaults
      <4> QED
        BY <3>1, <4>1
    <3> QED
      BY <3>2, <3>3
  <2>3. alive' \subseteq OfPointers' /\ ~ Present("thread", filler_thread_)'
    BY <2>1 DEF pointers
  <2>4. fillers' = {} /\ main' \notin {"build", "exit", "run", "join"}
    BY <2>1
  <2> QED
    BY <2>2, <2>3, <2>4
<1>5. CASE DropRest
  <2>1. /\ UNCHANGED <<pointers, fillers>>
        /\ main = "dropRest"
        /\ fillers = {} /\ ~ Present("thread", filler_thread_) /\ ~ Present("server", server_)
    BY <1>5 DEF DropRest
  <2>2. \/ alive' = alive /\ main' \in {"dropRest", "faulting"}
        \/ /\ alive' = alive \ {<<"filler", filler_>>, <<"storage", storage_>>}
           /\ main' \in {"build", "exit"}
    BY <1>5, <1>t DEF DropRest, MainFaults
  <2>3. alive' \subseteq OfPointers' /\ ~ Present("thread", filler_thread_)'
                                  /\ ~ Present("server", server_)'
    BY <2>1, <2>2 DEF pointers
  <2>4. main' \in {"build", "exit"} => alive' = {}
    BY <2>1, <2>2
  <2>5. fillers' = {} /\ main' \notin {"run", "join"}
    BY <2>1, <2>2
  <2> QED
    BY <2>3, <2>4, <2>5
<1>6. CASE Build
  BY <1>6 DEF Build
<1>7. CASE BindFails
  BY <1>7 DEF BindFails
<1>8. CASE PluginFails
  BY <1>8 DEF PluginFails
<1>9. CASE Run
  BY <1>9 DEF Run, pointers
<1>10. CASE Join
  BY <1>10 DEF Join, pointers
<1> QED
  BY <1>1, <1>2, <1>3, <1>4, <1>5, <1>6, <1>7, <1>8, <1>9, <1>10 DEF Main

\* Objects are made and removed one generation after the other.
THEOREM LifetimesHold == Spec => []Lifetimes
<1>1. Init => Lifetimes
  BY DEF Init, Lifetimes
<1>2. Shape /\ Lifetimes /\ [Next]_vars => Lifetimes'
  <2> SUFFICES ASSUME Shape, Lifetimes, [Next]_vars
               PROVE  Lifetimes'
    OBVIOUS
  <2>1. CASE halt = "no" /\ Main
    BY <2>1, MainLifetimes
  <2>2. CASE ~ (halt = "no" /\ Main)
    <3>1. UNCHANGED <<main, pointers, alive>> /\ fillers' \subseteq fillers
      BY <2>2, OtherSteps
    <3>2. halt' = "no" => halt = "no"
      BY DEF Next, vars
    <3> QED
      BY <3>1, <3>2 DEF Lifetimes, OfPointers, Present, pointers
  <2> QED
    BY <2>1, <2>2
<1> QED
  BY <1>1, <1>2, ShapeHolds, PTL DEF Spec

\* However restarts, exits, faults and failures to start follow each other, a filler
\* thread has the filler and the storage it works on.
THEOREM FillerSafe == Spec => []FillerHasItsObjects
<1>1. Lifetimes => FillerHasItsObjects
  BY DEF Lifetimes, FillerHasItsObjects, Present
<1> QED
  BY <1>1, LifetimesHold, PTL

\* What signal handlers reach through the daemon's pointers is there while a pool
\* thread runs.
THEOREM PointersSafe == Spec => []PointersHoldInRun
<1>1. Shape /\ Lifetimes => PointersHoldInRun
  BY DEF Shape, Lifetimes, PointersHoldInRun, InRun, Present
<1> QED
  BY <1>1, ShapeHolds, LifetimesHold, PTL

\* No generation overlaps the next, and the exit leaves nothing.
THEOREM OneAtATime == Spec => []OneGeneration
<1>1. Lifetimes => OneGeneration
  <2> SUFFICES ASSUME Lifetimes
               PROVE  OneGeneration
    OBVIOUS
  <2>1. ASSUME NEW S, NEW x, S \subseteq {x}
        PROVE  Cardinality(S) <= 1
    <3>1. IsFiniteSet({x}) /\ Cardinality({x}) = 1
      BY FS_Singleton
    <3> QED
      BY <2>1, <3>1, FS_Subset
  <2>2. {o \in alive : o[1] = "storage"} \subseteq {<<"storage", storage_>>}
    BY DEF Lifetimes, OfPointers
  <2>3. fillers \subseteq {filler_thread_} /\ (main = "exit" => alive = {})
    BY DEF Lifetimes
  <2> QED
    BY <2>1, <2>2, <2>3 DEF OneGeneration
<1> QED
  BY <1>1, LifetimesHold, PTL

-----------------------------------------------------------------------------
(* The first generation.                                                    *)

\* Until there is a second generation, reset_server meets no deleted object, as it
\* passes each of them once.
Young ==
  gen \in {0, 1} =>
    /\ halt # "fault" /\ main # "faulting"
    /\ main \in {"run", "join", "check", "stopFiller", "joinFiller", "dropServer"} =>
         ~ IsDead("server", server_)
    /\ main \in {"run", "join", "check", "stopFiller", "joinFiller", "dropServer", "dropRest"} =>
         ~ IsDead("filler", filler_) /\ ~ IsDead("storage", storage_)
    /\ main \in {"run", "join", "check", "stopFiller", "joinFiller"} =>
         ~ IsDead("thread", filler_thread_)

\* The main thread of a first generation.
LEMMA MainYoung == Shape /\ Lifetimes /\ Young /\ Main => Young'
<1> SUFFICES ASSUME Shape, Lifetimes, Young, Main
             PROVE  Young'
  OBVIOUS
<1>t. /\ gen \in Nat /\ after \in {"build", "exit"}
      /\ gen = 0 => server_ = 0 /\ storage_ = 0 /\ filler_ = 0 /\ filler_thread_ = 0
  BY DEF Shape
<1> USE DEF Young, IsDead, MainGoto
<1>1. CASE CheckDone
  BY <1>1 DEF CheckDone, pointers
<1>2. CASE StopFiller
  BY <1>2 DEF StopFiller, pointers
<1>3. CASE JoinFiller
  BY <1>3 DEF JoinFiller, pointers
<1>4. CASE DropServer
  BY <1>4 DEF DropServer, pointers
<1>5. CASE DropRest
  BY <1>5, <1>t DEF DropRest, pointers
<1>6. CASE Build
  BY <1>6, <1>t DEF Build
<1>7. CASE BindFails
  BY <1>7, <1>t DEF BindFails
<1>8. CASE PluginFails
  BY <1>8, <1>t DEF PluginFails
<1>9. CASE Run
  BY <1>9 DEF Run, pointers
<1>10. CASE Join
  BY <1>10 DEF Join, pointers
<1> QED
  BY <1>1, <1>2, <1>3, <1>4, <1>5, <1>6, <1>7, <1>8, <1>9, <1>10 DEF Main

\* In the pool, only a handler that finds its server or storage deleted faults.
LEMMA PoolFaults ==
  ASSUME Next, ~ Main, halt' = "fault"
  PROVE  \E t \in Thread :
           /\ InRun(t)
           /\ \/ IsDead("server", current[t].gen)
              \/ IsDead("storage", StorageOf(current[t]))
<1>1. halt = "no"
  BY DEF Next
<1>2. PICK t \in Thread : OnAccept(t) \/ UseDeadStorage(t)
  BY <1>1 DEF Next, Pool, FillerStops, FillerFaults, FillerFaultsAgain, LeaveRun, TakeHandler,
              TakeLock, ReleaseLock, OnSignal, OnSegfault, Finish, Restart, Interrupt,
              InterruptExpirate, InterruptWrite, TakeReply, LeaveUnread, Post, Clients,
              Connect, SendCommand, Disconnect
<1>3. current[t].what # "out"
  BY <1>2 DEF OnAccept, UseDeadStorage, UsesStorage
<1>4. IsDead("server", current[t].gen) \/ IsDead("storage", StorageOf(current[t]))
  BY <1>1, <1>2 DEF OnAccept, UseDeadStorage
<1> QED
  BY <1>3, <1>4 DEF InRun, Out, Handler

\* Starting, serving, failing to start and exiting use no deleted object, for any
\* number of threads and signals.
THEOREM FirstGenerationSafe == Spec => []FaultNeedsRestart
<1>1. Init => Young
  BY DEF Init, Young, IsDead
<1>2. Shape /\ Lifetimes /\ Young /\ [Next]_vars => Young'
  <2> SUFFICES ASSUME Shape, Lifetimes, Young, [Next]_vars
               PROVE  Young'
    OBVIOUS
  <2>1. CASE Main
    BY <2>1, MainYoung
  <2>2. CASE ~ Main
    <3>1. UNCHANGED <<main, pointers, alive>>
      BY <2>2, OtherSteps
    <3>2. ASSUME gen \in {0, 1}, halt' = "fault"
          PROVE  FALSE
      <4>1. Next
        BY <3>2 DEF Young, vars
      <4>2. PICK t \in Thread : /\ InRun(t)
                               /\ \/ IsDead("server", current[t].gen)
                                  \/ IsDead("storage", StorageOf(current[t]))
        BY <2>2, <3>2, <4>1, PoolFaults
      <4>3. main = "join" /\ current[t].gen \in 0..gen
        BY <4>2 DEF Shape, InRun, HandlerUpTo
      <4>4. server_ = storage_ /\ Present("server", server_) /\ Present("storage", storage_)
        BY <4>3 DEF Lifetimes
      <4>5. server_ \in 1..gen
        BY <4>4 DEF Shape, Present
      <4>6. current[t].gen # 0 => current[t].gen = server_
        BY <3>2, <4>3, <4>5
      <4> QED
        BY <4>2, <4>4, <4>6 DEF IsDead, StorageOf, Present
    <3> QED
      BY <3>1, <3>2 DEF Young, IsDead, pointers
  <2> QED
    BY <2>1, <2>2
<1>3. Shape /\ Young => FaultNeedsRestart
  BY DEF Shape, Young, FaultNeedsRestart
<1> QED
  BY <1>1, <1>2, <1>3, ShapeHolds, LifetimesHold, PTL DEF Spec

-----------------------------------------------------------------------------
(* Types, and how many generations there can be.                            *)

Mains ==
  {"check", "stopFiller", "joinFiller", "dropServer", "dropRest", "build", "run", "join",
   "exit", "faulting"}
Halts == {"no", "fault", "segfault", "terminate", "exit(1)"}

\* What is queued or carried out: the handlers of a generation that has begun, or of none.
HandlerOf(g) ==
  {Handler(what, h) : what \in ConnWhats, h \in 1..g} \cup {Handler(what, 0) : what \in SignalWhats}
TaskOf(g) == HandlerOf(g) \cup {Out, Idle, Stuck}

\* The variables that say where things stand.
Flags ==
  /\ main \in Mains /\ halt \in Halts
  /\ done_ \in BOOLEAN /\ stopped \in BOOLEAN /\ handled \in BOOLEAN
  /\ segv \in {"default", "dispatch"}
  /\ lock \in Thread \cup {NoThread}
  /\ signals \in 0..MaxSignals

\* Those that name generations and handlers.
Reach ==
  /\ filler_ = filler_thread_ /\ faulting \subseteq fillers
  /\ told \subseteq 1..gen /\ accepting \subseteq 1..gen /\ conns \subseteq 1..gen
  /\ ready \in Seq(HandlerOf(gen))
  /\ current \in [Thread -> TaskOf(gen)]

\* What a step may do to the flags.
LEMMA FlagSteps ==
  ASSUME Shape, [Next]_vars
  PROVE  /\ main' = main \/ main' \in Mains
         /\ halt' = halt \/ halt' \in Halts
         /\ done_' = done_ \/ done_' = TRUE
         /\ stopped' = stopped \/ stopped' = TRUE \/ stopped' = FALSE
         /\ handled' = handled \/ handled' = TRUE
         /\ segv' = segv \/ segv' \in {"default", "dispatch"}
         /\ lock' = lock \/ lock' \in Thread \cup {NoThread}
         /\ signals' = signals \/ (signals < MaxSignals /\ signals' = signals + 1)
<1> DEFINE Moves ==
      /\ main' = main \/ main' \in Mains
      /\ halt' = halt \/ halt' \in Halts
      /\ done_' = done_ \/ done_' = TRUE
      /\ stopped' = stopped \/ stopped' = TRUE \/ stopped' = FALSE
      /\ handled' = handled \/ handled' = TRUE
      /\ segv' = segv \/ segv' \in {"default", "dispatch"}
      /\ lock' = lock \/ lock' \in Thread \cup {NoThread}
      /\ signals' = signals \/ (signals < MaxSignals /\ signals' = signals + 1)
<1> USE DEF mainVars, service, faults, Mains, Halts
<1>1. CASE UNCHANGED vars
  BY <1>1 DEF vars
<1>2. CASE CheckDone \/ StopFiller \/ JoinFiller \/ DropServer
  BY <1>2 DEF CheckDone, StopFiller, JoinFiller, DropServer, MainFaults, Fault, MainGoto
<1>3. CASE DropRest \/ Build \/ BindFails
  BY <1>3 DEF Shape, DropRest, Build, BindFails, MainFaults, Fault, MainGoto
<1>4. CASE PluginFails \/ Run \/ Join
  BY <1>4 DEF PluginFails, Run, Join, MainGoto
<1>5. CASE FillerStops \/ FillerFaults \/ FillerFaultsAgain
  BY <1>5 DEF FillerStops, FillerFaults, FillerFaultsAgain
<1>6. ASSUME NEW t \in Thread, LeaveRun(t) \/ TakeHandler(t) \/ OnAccept(t) \/ TakeLock(t)
      PROVE  Moves
  BY <1>6 DEF LeaveRun, TakeHandler, OnAccept, TakeLock, Fault
<1>7. ASSUME NEW t \in Thread, ReleaseLock(t) \/ UseDeadStorage(t) \/ OnSignal(t) \/ OnSegfault(t)
      PROVE  Moves
  BY <1>7 DEF ReleaseLock, UseDeadStorage, OnSignal, OnSegfault, Fault, Finish, Restart
<1>8. ASSUME NEW t \in Thread, Interrupt(t) \/ InterruptExpirate(t) \/ InterruptWrite(t)
      PROVE  Moves
  BY <1>8 DEF Interrupt, InterruptExpirate, InterruptWrite, Signal, Finish, Restart
<1>9. ASSUME NEW t \in Thread, TakeReply(t) \/ LeaveUnread(t)
      PROVE  Moves
  BY <1>9 DEF TakeReply, LeaveUnread
<1>10. CASE Post \/ Clients
  BY <1>10 DEF Post, Signal, Clients, Connect, SendCommand, Disconnect
<1> QED
  BY <1>1, <1>2, <1>3, <1>4, <1>5, <1>6, <1>7, <1>8, <1>9, <1>10 DEF Next, Main, Pool

\* So the flags stay flags, and no more than the bound of signals are sent.
LEMMA FlagsStep == Shape /\ Flags /\ [Next]_vars => Flags'
<1> SUFFICES ASSUME Shape, Flags, [Next]_vars
             PROVE  Flags'
  OBVIOUS
<1>1. /\ done_' = done_ \/ done_' = TRUE
      /\ stopped' = stopped \/ stopped' = TRUE \/ stopped' = FALSE
      /\ handled' = handled \/ handled' = TRUE
  BY FlagSteps
<1>2. done_' \in BOOLEAN /\ stopped' \in BOOLEAN /\ handled' \in BOOLEAN
  BY <1>1, Zenon DEF Flags
<1>3. main' \in Mains /\ halt' \in Halts
  BY FlagSteps DEF Flags
<1>4. segv' \in {"default", "dispatch"} /\ lock' \in Thread \cup {NoThread}
  BY FlagSteps DEF Flags
<1>5. signals' \in 0..MaxSignals
  <2>1. signals' = signals \/ (signals < MaxSignals /\ signals' = signals + 1)
    BY FlagSteps
  <2> QED
    BY <2>1, SignalAssumption DEF Flags
<1> QED
  BY <1>2, <1>3, <1>4, <1>5 DEF Flags

\* A longer reach, again.
LEMMA TasksGrow ==
  ASSUME NEW g \in Nat
  PROVE  /\ TaskOf(g) \subseteq TaskOf(g + 1)
         /\ \A s \in Seq(HandlerOf(g)) : s \in Seq(HandlerOf(g + 1))
<1>1. HandlerOf(g) \subseteq HandlerOf(g + 1)
  BY DEF HandlerOf
<1>2. ASSUME NEW s \in Seq(HandlerOf(g))
      PROVE  s \in Seq(HandlerOf(g + 1))
  <2>1. s \in [1..Len(s) -> HandlerOf(g)] /\ Len(s) \in Nat
    BY LenProperties
  <2>2. s \in [1..Len(s) -> HandlerOf(g + 1)]
    BY <1>1, <2>1
  <2> QED
    BY <2>1, <2>2, IsASeq
<1> QED
  BY <1>1, <1>2 DEF TaskOf

\* The handlers there are, and what they name.
LEMMA HandlerFacts ==
  ASSUME NEW g \in Nat
  PROVE  /\ \A what \in ConnWhats, h \in 1..g :
              Handler(what, h) \in HandlerOf(g)
         /\ \A what \in SignalWhats : Handler(what, 0) \in HandlerOf(g)
         /\ \A h \in TaskOf(g) :
              h.what \in ConnWhats => h.gen \in 1..g
<1>1. /\ "out" \notin ConnWhats /\ "idle" \notin ConnWhats /\ "stuck" \notin ConnWhats
      /\ \A what \in SignalWhats : what \notin ConnWhats
  BY DEF ConnWhats, SignalWhats
<1>2. \A what \in ConnWhats, h \in 1..g : Handler(what, h) \in HandlerOf(g)
  BY DEF HandlerOf
<1>3. \A what \in SignalWhats : Handler(what, 0) \in HandlerOf(g)
  BY DEF HandlerOf
<1>4. ASSUME NEW h \in TaskOf(g), h.what \in ConnWhats
      PROVE  h.gen \in 1..g
  <2>1. h # Out /\ h # Idle /\ h # Stuck
    BY <1>1, <1>4 DEF Out, Idle, Stuck, Handler
  <2>2. CASE \E what \in ConnWhats, k \in 1..g : h = Handler(what, k)
    BY <2>2 DEF Handler
  <2>3. CASE \E what \in SignalWhats : h = Handler(what, 0)
    BY <1>1, <1>4, <2>3 DEF Handler
  <2> QED
    BY <1>4, <2>1, <2>2, <2>3 DEF TaskOf, HandlerOf
<1> QED
  BY <1>2, <1>3, <1>4

\* Queueing and taking them.
LEMMA ReadyFacts ==
  ASSUME NEW g \in Nat, NEW s \in Seq(HandlerOf(g))
  PROVE  /\ \A h \in HandlerOf(g) : Append(s, h) \in Seq(HandlerOf(g))
         /\ s # <<>> => Head(s) \in HandlerOf(g) /\ Tail(s) \in Seq(HandlerOf(g))
<1>1. \A h \in HandlerOf(g) : Append(s, h) \in Seq(HandlerOf(g))
  BY AppendProperties
<1>2. s # <<>> => Head(s) \in HandlerOf(g) /\ Tail(s) \in Seq(HandlerOf(g))
  BY HeadTailProperties
<1> QED
  BY <1>1, <1>2

\* The steps of the main thread.
LEMMA MainReach == Shape /\ Reach /\ Main => Reach'
<1> SUFFICES ASSUME Shape, Reach, Main
             PROVE  Reach'
  OBVIOUS
<1> USE DEF Reach
<1>0. gen \in Nat /\ server_ \in 0..gen /\ filler_ \in 0..gen /\ filler_thread_ \in 0..gen
  BY DEF Shape
<1>1. CASE CheckDone \/ JoinFiller \/ DropRest \/ Join
  BY <1>1 DEF CheckDone, JoinFiller, DropRest, Join, pointers, service, faults
<1>2. CASE StopFiller
  <2>1. told' = told \/ (filler_thread_ # 0 /\ told' = told \cup {filler_})
    BY <1>2 DEF StopFiller
  <2>2. filler_thread_ # 0 => filler_ \in 1..gen
    BY <1>0
  <2>3. told' \subseteq 1..gen
    BY <2>1, <2>2
  <2> QED
    BY <1>2, <2>3 DEF StopFiller, pointers, service, faults
<1>3. CASE DropServer
  <2>1. ready' = ready \/ (server_ \in accepting /\ ready' = Append(ready, Handler("accept failed", server_)))
    BY <1>3 DEF DropServer, service
  <2>2. server_ \in accepting => Handler("accept failed", server_) \in HandlerOf(gen)
    <3>1. "accept failed" \in ConnWhats
      BY DEF ConnWhats
    <3> QED
      BY <1>0, <3>1, HandlerFacts
  <2>3. ready' \in Seq(HandlerOf(gen))
    BY <1>0, <2>1, <2>2, ReadyFacts
  <2>4. accepting' \subseteq accepting /\ conns' = conns
    BY <1>3 DEF DropServer, service
  <2> QED
    BY <1>3, <2>3, <2>4 DEF DropServer, pointers, faults
<1>4. CASE Build \/ BindFails \/ PluginFails
  <2>1. gen' = gen + 1 /\ UNCHANGED <<ready, current, told, conns, faulting>>
    BY <1>4 DEF Build, BindFails, PluginFails, service, faults
  <2>2. accepting' \subseteq accepting \cup {gen + 1} /\ fillers \subseteq fillers'
    BY <1>4 DEF Build, BindFails, PluginFails, service
  <2>3. filler_' = filler_thread_'
    BY <1>4 DEF Build, BindFails, PluginFails
  <2>4. told' \subseteq 1..gen' /\ accepting' \subseteq 1..gen' /\ conns' \subseteq 1..gen'
    BY <1>0, <2>1, <2>2
  <2>5. ready' \in Seq(HandlerOf(gen')) /\ current' \in [Thread -> TaskOf(gen')]
    BY <1>0, <2>1, TasksGrow
  <2> QED
    BY <2>1, <2>2, <2>3, <2>4, <2>5
<1>5. CASE Run
  <2>1. current' \in [Thread -> TaskOf(gen)]
    BY <1>5 DEF Run, TaskOf
  <2> QED
    BY <1>5, <2>1 DEF Run, pointers
<1> QED
  BY <1>1, <1>2, <1>3, <1>4, <1>5 DEF Main

\* The steps of the pool and of everyone else.
LEMMA OthersReach == Shape /\ Reach /\ [Next]_vars /\ ~ Main => Reach'
<1> SUFFICES ASSUME Shape, Reach, [Next]_vars, ~ Main
             PROVE  Reach'
  OBVIOUS
<1> USE DEF Reach, mainVars, service, pointers, faults
<1>0. gen \in Nat
  BY DEF Shape
<1>a. /\ {Out, Idle, Stuck} \subseteq TaskOf(gen) /\ HandlerOf(gen) \subseteq TaskOf(gen)
      /\ ready # <<>> => Head(ready) \in HandlerOf(gen) /\ Tail(ready) \in Seq(HandlerOf(gen))
      /\ \A h \in HandlerOf(gen) : Append(ready, h) \in Seq(HandlerOf(gen))
  BY <1>0, ReadyFacts DEF TaskOf
<1>b. /\ \A what \in ConnWhats, h \in 1..gen :
           Handler(what, h) \in HandlerOf(gen)
      /\ \A what \in SignalWhats :
           Handler(what, 0) \in HandlerOf(gen)
      /\ \A t \in Thread :
           current[t].what \in ConnWhats =>
             current[t].gen \in 1..gen
  BY <1>0, HandlerFacts
<1>c. /\ "accepted" \in ConnWhats /\ "accept failed" \in ConnWhats /\ "read" \in ConnWhats
      /\ "write" \in ConnWhats
      /\ {"exit", "config", "expirate", "segfault"} \subseteq SignalWhats
  BY DEF ConnWhats, SignalWhats
<1>1. CASE UNCHANGED vars
  BY <1>1 DEF vars
<1>2. CASE FillerStops \/ FillerFaultsAgain
  BY <1>2 DEF FillerStops, FillerFaultsAgain
<1>3. CASE FillerFaults
  <2>1. Handler("segfault", 0) \in HandlerOf(gen)
    BY <1>b, <1>c
  <2>2. ready' = ready \/ ready' = Append(ready, Handler("segfault", 0))
    BY <1>3 DEF FillerFaults
  <2>3. ready' \in Seq(HandlerOf(gen))
    BY <1>a, <2>1, <2>2
  <2>4. faulting' \subseteq fillers' /\ UNCHANGED <<pointers, told, accepting, conns, current>>
    BY <1>3 DEF FillerFaults
  <2> QED
    BY <2>3, <2>4
<1>4. ASSUME NEW t \in Thread, LeaveRun(t) \/ TakeHandler(t) \/ OnSignal(t) \/ OnSegfault(t)
      PROVE  Reach'
  <2>1. ready' \in Seq(HandlerOf(gen))
    BY <1>a, <1>4 DEF LeaveRun, TakeHandler, OnSignal, OnSegfault
  <2>2. current' \in [Thread -> TaskOf(gen)]
    <3>1. PICK h \in {Out, Idle, Head(ready)} :
            RunHandler(t, h) /\ (h = Head(ready) => ready # <<>> \/ h \in {Out, Idle})
      BY <1>4 DEF LeaveRun, TakeHandler, OnSignal, OnSegfault
    <3>2. h \in TaskOf(gen)
      BY <1>a, <3>1
    <3> QED
      BY <3>1, <3>2 DEF RunHandler
  <2>3. UNCHANGED <<pointers, told, accepting, conns, faulting, fillers>>
    BY <1>4 DEF LeaveRun, TakeHandler, OnSignal, OnSegfault
  <2> QED
    BY <2>1, <2>2, <2>3
<1>5. ASSUME NEW t \in Thread, OnAccept(t)
      PROVE  Reach'
  <2>1. current[t].gen \in 1..gen
    BY <1>b, <1>c, <1>5 DEF OnAccept
  <2>2. Handler("accept failed", current[t].gen) \in HandlerOf(gen)
    BY <1>b, <1>c, <2>1
  <2>3. ready' = ready \/ ready' = Append(ready, Handler("accept failed", current[t].gen))
    BY <1>5 DEF OnAccept
  <2>4. ready' \in Seq(HandlerOf(gen))
    BY <1>a, <2>2, <2>3
  <2>5. accepting' \subseteq 1..gen /\ conns' \subseteq 1..gen
    BY <1>5, <2>1 DEF OnAccept
  <2>6. current' \in [Thread -> TaskOf(gen)] /\ UNCHANGED <<pointers, told, faulting, fillers>>
    BY <1>a, <1>5 DEF OnAccept, RunHandler
  <2> QED
    BY <2>4, <2>5, <2>6
<1>6. ASSUME NEW t \in Thread, TakeLock(t) \/ UseDeadStorage(t) \/ LeaveUnread(t)
                               \/ Interrupt(t) \/ InterruptWrite(t)
      PROVE  Reach'
  BY <1>6 DEF TakeLock, UseDeadStorage, LeaveUnread, Interrupt, InterruptWrite
<1>7. ASSUME NEW t \in Thread, ReleaseLock(t) \/ TakeReply(t)
      PROVE  Reach'
  <2>1. Done(t) \/ (current[t].what = "read" /\ RunHandler(t, Handler("write", current[t].gen))
                      /\ UNCHANGED conns)
    BY <1>7 DEF ReleaseLock, TakeReply
  <2>2. conns' \subseteq 1..gen
    <3>1. conns' = conns \/ (current[t].what \in {"read", "write"}
                              /\ conns' = conns \cup {current[t].gen})
      BY <2>1 DEF Done
    <3>2. current[t].what \in {"read", "write"} => current[t].gen \in 1..gen
      BY <1>b, <1>c
    <3> QED
      BY <3>1, <3>2
  <2>3. current[t].what = "read" => Handler("write", current[t].gen) \in TaskOf(gen)
    BY <1>a, <1>b, <1>c
  <2>4. current' \in [Thread -> TaskOf(gen)]
    BY <1>a, <2>1, <2>3 DEF Done, RunHandler
  <2>5. UNCHANGED <<pointers, told, faulting, fillers, ready, accepting>>
    BY <1>7 DEF ReleaseLock, TakeReply
  <2> QED
    BY <2>2, <2>4, <2>5
<1>8. ASSUME NEW t \in Thread, InterruptExpirate(t)
      PROVE  Reach'
  BY <1>a, <1>8 DEF InterruptExpirate, RunHandler
<1>9. CASE Post
  <2>1. PICK what \in {"exit", "config", "expirate"} : ready' = Append(ready, Handler(what, 0))
    BY <1>9 DEF Post
  <2>2. Handler(what, 0) \in HandlerOf(gen)
    BY <1>b, <1>c
  <2>3. ready' \in Seq(HandlerOf(gen))
    BY <1>a, <2>1, <2>2
  <2> QED
    BY <1>9, <2>3 DEF Post
<1>10. CASE Clients
  <2>1. CASE Disconnect
    BY <2>1 DEF Disconnect
  <2>2. CASE Connect \/ SendCommand
    <3>1. PICK g \in 1..gen, what \in {"accepted", "read"} : ready' = Append(ready, Handler(what, g))
      BY <2>2 DEF Connect, SendCommand
    <3>2. Handler(what, g) \in HandlerOf(gen)
      BY <1>b, <1>c
    <3>3. ready' \in Seq(HandlerOf(gen))
      BY <1>a, <3>1, <3>2
    <3>4. accepting' \subseteq accepting /\ conns' \subseteq conns
      BY <2>2 DEF Connect, SendCommand
    <3>5. UNCHANGED <<pointers, told, faulting, fillers, current>>
      BY <2>2 DEF Connect, SendCommand
    <3> QED
      BY <3>3, <3>4, <3>5
  <2> QED
    BY <1>10, <2>1, <2>2 DEF Clients
<1> QED
  BY <1>1, <1>2, <1>3, <1>4, <1>5, <1>6, <1>7, <1>8, <1>9, <1>10 DEF Next, Pool

-----------------------------------------------------------------------------
(* What pays for a generation.                                              *)

\* A call that makes the service stop is worth one stop.
Stops == {"exit", "config"}
Weight(h) == IF h.what \in Stops THEN 1 ELSE 0

StopsIn(s) == {i \in 1..Len(s) : s[i].what \in Stops}
HeardBy(c) == {t \in Thread : c[t].what \in Stops}

\* The stop has been made, and its generation is not begun.
Due ==
  /\ halt = "no"
  /\ \/ main \in {"check", "build"}
     \/ main \in {"stopFiller", "joinFiller", "dropServer", "dropRest"} /\ after = "build"
     \/ main = "join" /\ stopped

Owed == IF Due THEN 1 ELSE 0

\* The signals pay for the generations, but the first: each generation was begun after
\* a stop, and each stop, queued, carried out or done, has its signal.  A pool that
\* threads have left is one that was stopped.
SignalsPay ==
  /\ gen + Cardinality(StopsIn(ready)) + Cardinality(HeardBy(current)) + Owed <= signals + 1
  /\ main = "join" /\ (\E t \in Thread : current[t] = Out) => stopped

\* The stops are numbers, and what queueing does to them.
LEMMA StopsQueued ==
  ASSUME NEW G, NEW s \in Seq(G)
  PROVE  /\ Cardinality(StopsIn(s)) \in Nat
         /\ \A h \in G : Cardinality(StopsIn(Append(s, h))) = Cardinality(StopsIn(s)) + Weight(h)
<1>1. Len(s) \in Nat
  BY LenProperties
<1>2. IsFiniteSet(StopsIn(s)) /\ Cardinality(StopsIn(s)) \in Nat
  <2>1. IsFiniteSet(1..Len(s))
    BY <1>1, FS_Interval
  <2>2. StopsIn(s) \subseteq 1..Len(s)
    BY DEF StopsIn
  <2> QED
    BY <2>1, <2>2, FS_Subset, FS_CardinalityType
<1>3. ASSUME NEW h \in G
      PROVE  Cardinality(StopsIn(Append(s, h))) = Cardinality(StopsIn(s)) + Weight(h)
  <2>1. /\ Len(Append(s, h)) = Len(s) + 1
        /\ \A i \in 1..Len(s) : Append(s, h)[i] = s[i]
        /\ Append(s, h)[Len(s) + 1] = h
    BY AppendProperties
  <2>2. Len(s) + 1 \notin StopsIn(s)
    BY <1>1 DEF StopsIn
  <2>3. CASE h.what \in Stops
    <3>1. StopsIn(Append(s, h)) = StopsIn(s) \cup {Len(s) + 1}
      BY <1>1, <2>1, <2>3 DEF StopsIn
    <3> QED
      BY <1>2, <2>2, <2>3, <3>1, FS_AddElement DEF Weight
  <2>4. CASE h.what \notin Stops
    <3>1. StopsIn(Append(s, h)) = StopsIn(s)
      BY <1>1, <2>1, <2>4 DEF StopsIn
    <3> QED
      BY <1>2, <2>4, <3>1 DEF Weight
  <2> QED
    BY <2>3, <2>4
<1> QED
  BY <1>2, <1>3

\* Taking the first handler takes what it is worth.
LEMMA StopsTaken ==
  ASSUME NEW G, NEW s \in Seq(G), s # <<>>
  PROVE  Cardinality(StopsIn(Tail(s))) + Weight(Head(s)) = Cardinality(StopsIn(s))
<1>1. /\ Len(s) \in Nat /\ Len(Tail(s)) = Len(s) - 1
      /\ Tail(s) \in Seq(G) /\ Head(s) = s[1]
      /\ \A i \in 1..Len(Tail(s)) : Tail(s)[i] = s[i + 1]
  BY HeadTailProperties, LenProperties
<1>2. Len(s) > 0
  BY <1>1, EmptySeq
<1> DEFINE Rest == StopsIn(s) \ {1}
           f == [i \in StopsIn(Tail(s)) |-> i + 1]
<1>3. StopsIn(Tail(s)) = {i \in 1..(Len(s) - 1) : s[i + 1].what \in Stops}
  BY <1>1 DEF StopsIn
<1>4. Rest = {i \in 2..Len(s) : s[i].what \in Stops}
  BY <1>1 DEF StopsIn
<1>5. f \in Bijection(StopsIn(Tail(s)), Rest)
  <2>1. \A i \in StopsIn(Tail(s)) : f[i] \in Rest
    BY <1>1, <1>3, <1>4
  <2>2. \A i, j \in StopsIn(Tail(s)) : f[i] = f[j] => i = j
    BY <1>3
  <2>3. \A j \in Rest : \E i \in StopsIn(Tail(s)) : f[i] = j
    <3>1. ASSUME NEW j \in Rest
          PROVE  j - 1 \in StopsIn(Tail(s)) /\ f[j - 1] = j
      BY <1>1, <1>3, <1>4
    <3> QED
      BY <3>1
  <2> QED
    BY <2>1, <2>2, <2>3, Fun_IsBij, Zenon
<1>6. IsFiniteSet(StopsIn(Tail(s))) /\ IsFiniteSet(StopsIn(s))
  <2>1. IsFiniteSet(1..Len(s)) /\ IsFiniteSet(1..(Len(s) - 1))
    BY <1>1, FS_Interval
  <2>2. StopsIn(s) \subseteq 1..Len(s) /\ StopsIn(Tail(s)) \subseteq 1..(Len(s) - 1)
    BY <1>3 DEF StopsIn
  <2> QED
    BY <2>1, <2>2, FS_Subset
<1>7. Cardinality(Rest) = Cardinality(StopsIn(Tail(s)))
  <2>1. ExistsBijection(StopsIn(Tail(s)), Rest)
    BY <1>5, Fun_ExistsBij
  <2> QED
    BY <1>6, <2>1, FS_Bijection
<1>8. Cardinality(Rest) = IF 1 \in StopsIn(s) THEN Cardinality(StopsIn(s)) - 1
                                              ELSE Cardinality(StopsIn(s))
  BY <1>6, FS_RemoveElement
<1>9. 1 \in StopsIn(s) <=> Head(s).what \in Stops
  BY <1>1, <1>2 DEF StopsIn
<1>10. Cardinality(StopsIn(s)) \in Nat
  BY <1>6, FS_CardinalityType
<1> QED
  BY <1>7, <1>8, <1>9, <1>10 DEF Weight

\* A thread that changes its handler changes what the pool is worth.
LEMMA StopsHeard ==
  ASSUME NEW c, NEW t \in Thread, NEW x, DOMAIN c = Thread
  PROVE  /\ Cardinality(HeardBy(c)) \in Nat
         /\ Cardinality(HeardBy([c EXCEPT ![t] = x])) + Weight(c[t])
              = Cardinality(HeardBy(c)) + Weight(x)
<1> DEFINE d == [c EXCEPT ![t] = x]
           Others == HeardBy(c) \ {t}
<1>1. IsFiniteSet(HeardBy(c)) /\ Cardinality(HeardBy(c)) \in Nat
  BY ThreadAssumption, FS_Subset, FS_CardinalityType DEF HeardBy
<1>2. IsFiniteSet(Others) /\ Cardinality(Others) \in Nat
  BY <1>1, FS_RemoveElement, FS_CardinalityType
<1>3. Cardinality(HeardBy(c)) = Cardinality(Others) + Weight(c[t])
  <2>1. t \in HeardBy(c) <=> c[t].what \in Stops
    BY DEF HeardBy
  <2>2. Cardinality(Others) = IF t \in HeardBy(c) THEN Cardinality(HeardBy(c)) - 1
                                                 ELSE Cardinality(HeardBy(c))
    BY <1>1, FS_RemoveElement
  <2> QED
    BY <1>1, <2>1, <2>2 DEF Weight
<1>4. Cardinality(HeardBy(d)) = Cardinality(Others) + Weight(x)
  <2>1. HeardBy(d) = IF x.what \in Stops THEN Others \cup {t} ELSE Others
    BY DEF HeardBy
  <2>2. Cardinality(Others \cup {t}) = Cardinality(Others) + 1
    BY <1>2, FS_AddElement
  <2> QED
    BY <1>2, <2>1, <2>2 DEF Weight
<1>5. Weight(c[t]) \in Nat /\ Weight(x) \in Nat
  BY DEF Weight
<1> QED
  BY <1>1, <1>2, <1>3, <1>4, <1>5

\* A step that queues no stop, hands none out and makes none adds nothing to what is to
\* be paid.
Quiet ==
  /\ ready' = ready \/ \E h \in HandlerOf(gen) : Weight(h) = 0 /\ ready' = Append(ready, h)
  /\ \/ current' = current
     \/ \E t \in Thread, x \in TaskOf(gen) :
          Weight(x) = 0 /\ current' = [current EXCEPT ![t] = x]

\* Stops waiting, and stops being carried out.
Waiting == Cardinality(StopsIn(ready))
Heard == Cardinality(HeardBy(current))

\* What Quiet says in numbers.
LEMMA QuietCounts ==
  ASSUME Reach, Quiet
  PROVE  Waiting' = Waiting /\ Heard' <= Heard
<1>1. ready \in Seq(HandlerOf(gen)) /\ DOMAIN current = Thread
  BY DEF Reach
<1>2. Waiting' = Waiting
  <2>1. Cardinality(StopsIn(ready)) \in Nat
    BY <1>1, StopsQueued
  <2>2. CASE ready' = ready
    BY <2>2 DEF Waiting, StopsIn
  <2>3. ASSUME NEW h \in HandlerOf(gen), Weight(h) = 0, ready' = Append(ready, h)
        PROVE  Waiting' = Waiting
    <3>1. Cardinality(StopsIn(Append(ready, h))) = Cardinality(StopsIn(ready)) + Weight(h)
      BY <1>1, StopsQueued
    <3>2. Cardinality(StopsIn(ready')) = Cardinality(StopsIn(Append(ready, h)))
      BY <2>3
    <3> QED
      BY <2>1, <2>3, <3>1, <3>2 DEF Waiting
  <2> QED
    BY <2>2, <2>3 DEF Quiet
<1>3. Heard' <= Heard
  <2>0. \A t \in Thread : Heard \in Nat
    BY <1>1, StopsHeard DEF Heard
  <2>1. CASE current' = current
    <3>1. Heard' = Heard
      BY <2>1 DEF Heard, HeardBy
    <3> QED
      BY <2>0, <3>1, ThreadAssumption
  <2>2. ASSUME NEW t \in Thread, NEW x \in TaskOf(gen), Weight(x) = 0,
               current' = [current EXCEPT ![t] = x]
        PROVE  Heard' <= Heard
    <3>1. /\ Cardinality(HeardBy([current EXCEPT ![t] = x])) + Weight(current[t])
               = Cardinality(HeardBy(current)) + Weight(x)
          /\ Weight(current[t]) \in Nat
      BY <1>1, StopsHeard DEF Weight
    <3>2. Heard' = Cardinality(HeardBy([current EXCEPT ![t] = x]))
      BY <2>2 DEF Heard
    <3>3. Cardinality(HeardBy([current EXCEPT ![t] = x])) \in Nat
      <4>1. DOMAIN [current EXCEPT ![t] = x] = Thread
        BY <1>1
      <4> QED
        BY <4>1, StopsHeard
    <3> QED
      BY <2>0, <2>2, <3>1, <3>2, <3>3 DEF Heard
  <2> QED
    BY <2>1, <2>2 DEF Quiet
<1> QED
  BY <1>2, <1>3

\* A generation falls due to others than the main thread only when the service is
\* stopped.
LEMMA DueMoves ==
  ASSUME Shape, [Next]_vars, ~ Main
  PROVE  /\ gen' = gen /\ main' = main
         /\ Due' => Due \/ (stopped' /\ ~ stopped)
<1>1. UNCHANGED <<main, after, gen>>
  BY OtherSteps DEF pointers
<1>2. halt' = "no" => halt = "no"
  BY DEF Next, vars
<1> QED
  BY <1>1, <1>2 DEF Due

\* The steps of the pool, the fillers, clients and signals that are worth no stop.
QuietSteps ==
  \/ UNCHANGED vars \/ FillerStops \/ FillerFaultsAgain \/ FillerFaults \/ Clients
  \/ \E t \in Thread :
       \/ LeaveRun(t) \/ OnAccept(t) \/ TakeLock(t) \/ ReleaseLock(t) \/ UseDeadStorage(t)
       \/ OnSegfault(t) \/ InterruptExpirate(t) \/ InterruptWrite(t) \/ TakeReply(t)
       \/ LeaveUnread(t)

\* Indeed.
LEMMA QuietStepsQuiet ==
  ASSUME Shape, Reach, QuietSteps
  PROVE  /\ Quiet /\ stopped' = stopped
         /\ signals' = signals \/ signals' = signals + 1
<1> DEFINE Goal == Quiet /\ stopped' = stopped /\ (signals' = signals \/ signals' = signals + 1)
<1> USE DEF mainVars, service, faults
<1>a. gen \in Nat
  BY DEF Shape
<1>b. /\ "accepted" \in ConnWhats /\ "accept failed" \in ConnWhats /\ "read" \in ConnWhats
      /\ "write" \in ConnWhats /\ "segfault" \in SignalWhats
  BY DEF ConnWhats, SignalWhats
<1>c. /\ \A what \in ConnWhats, g \in 1..gen :
           Handler(what, g) \in HandlerOf(gen) /\ Handler(what, g) \in TaskOf(gen)
      /\ Handler("segfault", 0) \in HandlerOf(gen)
      /\ \A t \in Thread : current[t].what \in ConnWhats => current[t].gen \in 1..gen
  BY <1>a, <1>b, HandlerFacts DEF Reach, TaskOf
<1>d. \A what \in ConnWhats : \A g : Weight(Handler(what, g)) = 0
  <2>1. \A what \in ConnWhats : what \notin Stops
    BY DEF ConnWhats, Stops
  <2> QED
    BY <2>1 DEF Weight, Handler
<1>e. /\ Weight(Out) = 0 /\ Weight(Idle) = 0 /\ Weight(Stuck) = 0
      /\ Weight(Handler("segfault", 0)) = 0
      /\ Out \in TaskOf(gen) /\ Idle \in TaskOf(gen) /\ Stuck \in TaskOf(gen)
  BY DEF Weight, Stops, Handler, Out, Idle, Stuck, TaskOf
<1>1. CASE UNCHANGED vars \/ FillerStops \/ FillerFaultsAgain
  BY <1>1 DEF vars, FillerStops, FillerFaultsAgain, Quiet
<1>2. CASE FillerFaults
  BY <1>2, <1>c, <1>e DEF FillerFaults, Quiet
<1>3. CASE Connect \/ SendCommand
  <2>1. PICK g \in 1..gen, what \in ConnWhats : ready' = Append(ready, Handler(what, g))
    BY <1>3, <1>b DEF Connect, SendCommand, Reach
  <2>2. current' = current /\ stopped' = stopped /\ signals' = signals
    BY <1>3 DEF Connect, SendCommand
  <2> QED
    BY <1>c, <1>d, <2>1, <2>2 DEF Quiet
<1>4. CASE Disconnect
  BY <1>4 DEF Disconnect, Quiet
<1>5. ASSUME NEW t \in Thread, LeaveRun(t) \/ OnSegfault(t) \/ InterruptExpirate(t)
      PROVE  Goal
  <2>1. PICK x \in {Out, Idle, Stuck} : RunHandler(t, x)
    BY <1>5 DEF LeaveRun, OnSegfault, InterruptExpirate
  <2>2. ready' = ready /\ stopped' = stopped /\ (signals' = signals \/ signals' = signals + 1)
    BY <1>5 DEF LeaveRun, OnSegfault, InterruptExpirate, Signal
  <2> QED
    BY <1>e, <2>1, <2>2 DEF Quiet, RunHandler
<1>6. ASSUME NEW t \in Thread, OnAccept(t)
      PROVE  Goal
  <2>1. current[t].gen \in 1..gen
    BY <1>b, <1>c, <1>6 DEF OnAccept
  <2>2. ready' = ready \/ ready' = Append(ready, Handler("accept failed", current[t].gen))
    BY <1>6 DEF OnAccept
  <2>3. ready' = ready \/ \E h \in HandlerOf(gen) : Weight(h) = 0 /\ ready' = Append(ready, h)
    BY <1>b, <1>c, <1>d, <2>1, <2>2
  <2>4. RunHandler(t, Idle) /\ stopped' = stopped /\ signals' = signals
    BY <1>6 DEF OnAccept
  <2> QED
    BY <1>e, <2>3, <2>4 DEF Quiet, RunHandler
<1>7. ASSUME NEW t \in Thread, TakeLock(t) \/ UseDeadStorage(t) \/ InterruptWrite(t) \/ LeaveUnread(t)
      PROVE  Goal
  BY <1>7 DEF TakeLock, UseDeadStorage, InterruptWrite, LeaveUnread, Signal, Quiet
<1>8. ASSUME NEW t \in Thread, ReleaseLock(t) \/ TakeReply(t)
      PROVE  Goal
  <2>1. \/ RunHandler(t, Idle)
        \/ current[t].what = "read" /\ RunHandler(t, Handler("write", current[t].gen))
    BY <1>8 DEF ReleaseLock, TakeReply, Done
  <2>2. ready' = ready /\ stopped' = stopped /\ signals' = signals
    BY <1>8 DEF ReleaseLock, TakeReply
  <2>3. current[t].what = "read" =>
          /\ Handler("write", current[t].gen) \in TaskOf(gen)
          /\ Weight(Handler("write", current[t].gen)) = 0
    BY <1>b, <1>c, <1>d
  <2> QED
    BY <1>e, <2>1, <2>2, <2>3 DEF Quiet, RunHandler
<1> QED
  BY <1>1, <1>2, <1>3, <1>4, <1>5, <1>6, <1>7, <1>8 DEF QuietSteps, Clients

\* The numbers that are counted with.
LEMMA CountsOf ==
  ASSUME NEW g \in Nat, NEW s \in Seq(HandlerOf(g)), NEW c \in [Thread -> TaskOf(g)]
  PROVE  Cardinality(StopsIn(s)) \in Nat /\ Cardinality(HeardBy(c)) \in Nat
<1>1. Cardinality(StopsIn(s)) \in Nat
  BY StopsQueued
<1>2. PICK t \in Thread : TRUE
  BY ThreadAssumption
<1>3. Cardinality(HeardBy(c)) \in Nat
  BY <1>2, StopsHeard
<1> QED
  BY <1>1, <1>3

\* Before a step.
LEMMA Counts ==
  ASSUME gen \in Nat, Reach
  PROVE  Waiting \in Nat /\ Heard \in Nat /\ Owed \in Nat
BY CountsOf DEF Reach, Waiting, Heard, Owed

\* After it.
LEMMA CountsAfter ==
  ASSUME gen' \in Nat, Reach'
  PROVE  Waiting' \in Nat /\ Heard' \in Nat /\ Owed' \in Nat
BY CountsOf DEF Reach, Waiting, Heard, Owed

\* The ways in which what is paid for changes hands: nothing is added, a handler that is
\* worth k is taken, a stop is made, a signal stops the service, a signal queues a call.
ChangesHands(w, h, o, s, w1, h1, o1, s1, k) ==
  \/ w1 = w /\ h1 <= h /\ o1 <= o /\ s <= s1
  \/ w1 + k = w /\ h1 = h + k /\ o1 <= o /\ s1 = s
  \/ w1 = w /\ h1 + 1 = h /\ o1 <= o + 1 /\ s1 = s
  \/ w1 = w /\ h1 = h /\ o1 <= o + 1 /\ s1 = s + 1
  \/ w1 = w + k /\ h1 = h /\ o1 <= o /\ s1 = s + 1

\* The books stay balanced.
LEMMA Balance ==
  ASSUME NEW g \in Nat, NEW w \in Nat, NEW h \in Nat, NEW o \in Nat, NEW s \in Nat,
         NEW w1 \in Nat, NEW h1 \in Nat, NEW o1 \in Nat, NEW s1 \in Nat, NEW k \in 0..1,
         g + w + h + o <= s + 1, ChangesHands(w, h, o, s, w1, h1, o1, s1, k)
  PROVE  g + w1 + h1 + o1 <= s1 + 1
BY DEF ChangesHands

\* And when a generation that was due begins.
Begun(g, o, g1, o1) == (g1 = g /\ o1 <= o) \/ (g1 = g + 1 /\ o = 1 /\ o1 = 0)

\* Then too.
LEMMA BalanceMain ==
  ASSUME NEW g \in Nat, NEW w \in Nat, NEW h \in Nat, NEW o \in Nat, NEW s \in Nat,
         NEW g1 \in Nat, NEW h1 \in Nat, NEW o1 \in Nat,
         g + w + h + o <= s + 1, h1 <= h, Begun(g, o, g1, o1)
  PROVE  g1 + w + h1 + o1 <= s + 1
BY DEF Begun

\* The main thread turns what is due into a generation.
LEMMA MainPays ==
  ASSUME Shape, Reach, Reach', Shape', SignalsPay, halt = "no", Main, signals \in Nat
  PROVE  SignalsPay'
<1> USE DEF pointers, service, faults
<1>a. /\ gen \in Nat /\ Waiting \in Nat /\ Heard \in Nat /\ Owed \in Nat
      /\ gen' \in Nat /\ Waiting' \in Nat /\ Heard' \in Nat /\ Owed' \in Nat
  BY Counts, CountsAfter DEF Shape
<1>1. signals' = signals
  BY DEF Main, CheckDone, StopFiller, JoinFiller, DropServer, DropRest, Build, BindFails,
         PluginFails, Run, Join
<1>2. ready' = ready \/ ready' = Append(ready, Handler("accept failed", server_))
  BY DEF Main, CheckDone, StopFiller, JoinFiller, DropServer, DropRest, Build, BindFails,
         PluginFails, Run, Join
<1>3. Waiting' = Waiting
  <2>1. CASE ready' = ready
    BY <2>1 DEF Waiting, StopsIn
  <2>2. CASE ready' = Append(ready, Handler("accept failed", server_))
    <3>1. /\ ready \in Seq(HandlerUpTo(gen))
          /\ gen \in Nat /\ server_ \in 0..gen
      BY DEF Shape
    <3>2. "accept failed" \in Whats /\ "accept failed" \notin Stops
      BY DEF Whats, Stops
    <3>3. Handler("accept failed", server_) \in HandlerUpTo(gen)
      BY <3>1, <3>2, HandlerType
    <3>4. Weight(Handler("accept failed", server_)) = 0
      BY <3>2 DEF Weight, Handler
    <3>5. Cardinality(StopsIn(Append(ready, Handler("accept failed", server_))))
            = Cardinality(StopsIn(ready)) + 0
      BY <3>1, <3>3, <3>4, StopsQueued
    <3>6. Waiting' = Cardinality(StopsIn(Append(ready, Handler("accept failed", server_))))
      BY <2>2 DEF Waiting
    <3>7. Waiting' = Waiting + 0
      BY <3>5, <3>6 DEF Waiting
    <3> QED
      BY <1>a, <3>7
  <2> QED
    BY <1>2, <2>1, <2>2
<1>4. current' = current \/ (Run /\ current' = [t \in Thread |-> Idle])
  BY DEF Main, CheckDone, StopFiller, JoinFiller, DropServer, DropRest, Build, BindFails,
         PluginFails, Run, Join
<1>5. Heard' <= Heard
  <2>1. CASE current' = current
    <3>1. Heard' = Heard
      BY <2>1 DEF Heard, HeardBy
    <3> QED
      BY <1>a, <3>1
  <2>2. CASE current' = [t \in Thread |-> Idle]
    <3>1. HeardBy(current') = {}
      BY <2>2 DEF HeardBy, Idle, Handler, Stops
    <3>2. Heard' = 0
      BY <3>1, FS_EmptySet DEF Heard
    <3> QED
      BY <1>a, <3>2
  <2> QED
    BY <1>4, <2>1, <2>2
<1>6. main = "join" /\ (\A t \in Thread : current[t] = Out) => stopped
  BY ThreadAssumption DEF SignalsPay
<1>7. (gen' = gen /\ (Due' => Due)) \/ (gen' = gen + 1 /\ Due /\ ~ Due')
  <2>1. CASE CheckDone \/ StopFiller \/ JoinFiller
    BY <2>1 DEF CheckDone, StopFiller, JoinFiller, Due, MainGoto, MainFaults, Fault
  <2>2. CASE DropServer \/ DropRest
    BY <2>2 DEF DropServer, DropRest, Due, MainGoto, MainFaults, Fault, Shape
  <2>3. CASE Build \/ BindFails \/ PluginFails
    BY <2>3 DEF Build, BindFails, PluginFails, Due, MainGoto, Shape
  <2>4. CASE Run
    BY <2>4 DEF Run, Due, MainGoto
  <2>5. CASE Join
    BY <1>6, <2>5 DEF Join, Due, MainGoto
  <2> QED
    BY <2>1, <2>2, <2>3, <2>4, <2>5 DEF Main
<1>8. main' = "join" => Run
  BY DEF Main, CheckDone, StopFiller, JoinFiller, DropServer, DropRest, Build, BindFails,
         PluginFails, Join, MainGoto, MainFaults, Shape
<1>9. main' = "join" => \A t \in Thread : current'[t] # Out
  <2>1. Idle # Out
    BY DEF Idle, Out, Handler
  <2> QED
    BY <1>8, <2>1 DEF Run
<1>10. gen + Waiting + Heard + Owed <= signals + 1
  BY DEF SignalsPay, Waiting, Heard
<1>11. (gen' = gen /\ Owed' <= Owed) \/ (gen' = gen + 1 /\ Owed = 1 /\ Owed' = 0)
  BY <1>7 DEF Owed
<1>12. gen' + Waiting' + Heard' + Owed' <= signals' + 1
  <2>1. gen' + Waiting + Heard' + Owed' <= signals + 1
    <3>1. Begun(gen, Owed, gen', Owed')
      BY <1>11 DEF Begun
    <3> QED
      BY <1>5, <1>10, <1>a, <3>1, BalanceMain
  <2> QED
    BY <1>1, <1>3, <2>1
<1> QED
  BY <1>9, <1>12 DEF SignalsPay, Waiting, Heard

\* Everyone else pays with a signal, or with a stop that was paid for.
LEMMA OthersPay ==
  ASSUME Shape, Reach, Reach', Shape', SignalsPay, [Next]_vars, ~ Main, signals \in Nat
  PROVE  SignalsPay'
<1> DEFINE Paid == \E k \in 0..1 :
      ChangesHands(Waiting, Heard, Owed, signals, Waiting', Heard', Owed', signals', k)
<1> USE DEF mainVars, service, faults
<1>a. /\ gen \in Nat /\ Waiting \in Nat /\ Heard \in Nat /\ Owed \in Nat
      /\ gen' \in Nat /\ Waiting' \in Nat /\ Heard' \in Nat /\ Owed' \in Nat
  BY Counts, CountsAfter DEF Shape
<1>b. Owed' <= Owed + 1 /\ signals' \in Nat
  <2>1. Owed' \in {0, 1} /\ Owed \in {0, 1}
    BY DEF Owed
  <2>2. signals' = signals \/ signals' = signals + 1
    BY FlagSteps, Zenon
  <2>3. signals' \in Nat
    BY <2>2
  <2> QED
    BY <2>1, <2>3
<1>c. stopped' = stopped => Owed' <= Owed
  BY DueMoves DEF Owed
<1>d. ready \in Seq(HandlerOf(gen)) /\ DOMAIN current = Thread
  BY DEF Reach
<1>1. ASSUME QuietSteps
      PROVE  Paid
  <2>1. Waiting' = Waiting /\ Heard' <= Heard /\ stopped' = stopped
        /\ (signals' = signals \/ signals' = signals + 1)
    BY <1>1, QuietStepsQuiet, QuietCounts
  <2>2. signals <= signals' /\ Owed' <= Owed
    BY <1>c, <2>1
  <2> QED
    BY <2>1, <2>2 DEF ChangesHands
<1>2. ASSUME NEW t \in Thread, TakeHandler(t)
      PROVE  Paid
  <2>1. /\ ready # <<>> /\ ready' = Tail(ready) /\ current' = [current EXCEPT ![t] = Head(ready)]
        /\ current[t] = Idle /\ stopped' = stopped /\ signals' = signals
    BY <1>2 DEF TakeHandler, RunHandler
  <2>2. Waiting' + Weight(Head(ready)) = Waiting
    <3>1. Cardinality(StopsIn(Tail(ready))) + Weight(Head(ready)) = Cardinality(StopsIn(ready))
      BY <1>d, <2>1, StopsTaken
    <3> QED
      BY <2>1, <3>1 DEF Waiting
  <2>3. Heard' + Weight(current[t]) = Heard + Weight(Head(ready))
    <3>1. Cardinality(HeardBy([current EXCEPT ![t] = Head(ready)])) + Weight(current[t])
            = Cardinality(HeardBy(current)) + Weight(Head(ready))
      BY <1>d, StopsHeard, Zenon
    <3> QED
      BY <2>1, <3>1 DEF Heard
  <2>4. Owed' <= Owed
    BY <1>c, <2>1
  <2>5. Weight(current[t]) = 0 /\ Weight(Head(ready)) \in 0..1
    BY <2>1 DEF Weight, Stops, Idle, Handler
  <2>6. Heard' = Heard + Weight(Head(ready))
    BY <1>a, <2>3, <2>5
  <2> QED
    BY <2>1, <2>2, <2>4, <2>5, <2>6 DEF ChangesHands
<1>3. ASSUME NEW t \in Thread, OnSignal(t)
      PROVE  Paid
  <2>1. /\ ready' = ready /\ current' = [current EXCEPT ![t] = Idle] /\ signals' = signals
        /\ current[t].what \in Stops
    BY <1>3 DEF OnSignal, RunHandler, Stops
  <2>2. Weight(current[t]) = 1 /\ Weight(Idle) = 0
    BY <2>1 DEF Weight, Stops, Idle, Handler
  <2>3. Heard' + 1 = Heard
    <3>1. Cardinality(HeardBy([current EXCEPT ![t] = Idle])) + Weight(current[t])
            = Cardinality(HeardBy(current)) + Weight(Idle)
      BY <1>d, StopsHeard, Zenon
    <3>2. Heard' + 1 = Heard + 0
      BY <2>1, <2>2, <3>1 DEF Heard
    <3>3. Heard \in Nat
      BY <1>a
    <3> QED
      BY <3>2, <3>3
  <2>4. Waiting' = Waiting
    BY <2>1 DEF Waiting, StopsIn
  <2> QED
    BY <1>b, <2>1, <2>3, <2>4 DEF ChangesHands
<1>4. ASSUME NEW t \in Thread, Interrupt(t)
      PROVE  Paid
  <2>1. ready' = ready /\ current' = current /\ signals' = signals + 1
    BY <1>4 DEF Interrupt, Signal
  <2>2. Waiting' = Waiting /\ Heard' = Heard
    BY <2>1 DEF Waiting, StopsIn, Heard, HeardBy
  <2> QED
    BY <1>b, <2>1, <2>2 DEF ChangesHands
<1>5. ASSUME Post
      PROVE  Paid
  <2>1. PICK what \in SignalWhats : ready' = Append(ready, Handler(what, 0))
    BY <1>5 DEF Post, SignalWhats
  <2>2. stopped' = stopped /\ current' = current /\ signals' = signals + 1
    BY <1>5 DEF Post, Signal
  <2>3. Handler(what, 0) \in HandlerOf(gen)
    BY <1>a, HandlerFacts
  <2>4. Cardinality(StopsIn(Append(ready, Handler(what, 0))))
          = Cardinality(StopsIn(ready)) + Weight(Handler(what, 0))
    BY <1>d, <2>3, StopsQueued
  <2>5. Waiting' = Waiting + Weight(Handler(what, 0))
    BY <2>1, <2>4 DEF Waiting
  <2>6. Heard' = Heard
    BY <2>2 DEF Heard, HeardBy
  <2>7. Owed' <= Owed /\ Weight(Handler(what, 0)) \in 0..1
    BY <1>c, <2>2 DEF Weight
  <2> QED
    BY <2>2, <2>5, <2>6, <2>7 DEF ChangesHands
<1>6. Paid
  <2>1. CASE UNCHANGED vars
    BY <1>1, <2>1 DEF QuietSteps
  <2>2. CASE Next
    BY <1>1, <1>2, <1>3, <1>4, <1>5, <2>2 DEF Next, Pool, QuietSteps
  <2> QED
    BY <2>1, <2>2
<1>8. gen' + Waiting' + Heard' + Owed' <= signals' + 1
  <2>1. gen + Waiting + Heard + Owed <= signals + 1 /\ gen' = gen
    BY DueMoves DEF SignalsPay, Waiting, Heard
  <2> QED
    BY <1>6, <1>a, <1>b, <2>1, Balance
<1>9. main' = "join" /\ (\E t \in Thread : current'[t] = Out) => stopped'
  <2> SUFFICES ASSUME main' = "join", NEW t \in Thread, current'[t] = Out
               PROVE  stopped'
    OBVIOUS
  <2>1. main = "join"
    BY DueMoves
  <2>2. stopped => stopped'
    BY DEF Next, vars, FillerStops, FillerFaults, FillerFaultsAgain, Pool, LeaveRun, TakeHandler,
           OnAccept, TakeLock, ReleaseLock, UseDeadStorage, OnSignal, OnSegfault, Interrupt,
           InterruptExpirate, InterruptWrite, TakeReply, LeaveUnread, Post, Clients, Connect,
           SendCommand, Disconnect, Finish, Restart
  <2>3. CASE current[t] = Out
    BY <2>1, <2>2, <2>3 DEF SignalsPay
  <2>4. CASE current[t] # Out /\ ~ stopped
    <3>1. ASSUME NEW u \in Thread, TakeHandler(u)
          PROVE  current'[t] # Out
      <4>1. current' = [current EXCEPT ![u] = Head(ready)] /\ ready # <<>>
        BY <3>1 DEF TakeHandler, RunHandler
      <4>2. Head(ready) \in HandlerOf(gen)
        BY <1>d, <4>1, HeadTailProperties
      <4>3. Head(ready) # Out
        <5>1. \A what \in ConnWhats \cup SignalWhats : what # "out"
          BY DEF ConnWhats, SignalWhats
        <5> QED
          BY <4>2, <5>1 DEF HandlerOf, Handler, Out
      <4> QED
        BY <1>d, <2>4, <4>1, <4>3
    <3>2. Idle # Out /\ Stuck # Out /\ \A g : Handler("write", g) # Out
      BY DEF Idle, Stuck, Out, Handler
    <3>3. ASSUME NEW u \in Thread, NEW x, x # Out, RunHandler(u, x)
          PROVE  current'[t] # Out
      BY <1>d, <2>4, <3>3 DEF RunHandler
    <3>4. \/ \E u \in Thread : TakeHandler(u)
          \/ current' = current
          \/ \E u \in Thread : \E x : x # Out /\ RunHandler(u, x)
      <4> DEFINE Goes == \E u \in Thread : \E x : x # Out /\ RunHandler(u, x)
      <4>1. CASE UNCHANGED vars
        BY <4>1 DEF vars
      <4>2. CASE FillerStops \/ FillerFaults \/ FillerFaultsAgain \/ Post \/ Clients
        BY <4>2 DEF FillerStops, FillerFaults, FillerFaultsAgain, Post, Clients, Connect,
                    SendCommand, Disconnect
      <4>3. ASSUME NEW u \in Thread, LeaveRun(u)
            PROVE  FALSE
        BY <2>4, <4>3 DEF LeaveRun
      <4>4. ASSUME NEW u \in Thread, OnAccept(u) \/ OnSignal(u) \/ OnSegfault(u)
                                     \/ ReleaseLock(u) \/ TakeReply(u) \/ InterruptExpirate(u)
            PROVE  Goes
        <5>1. \E x \in {Idle, Stuck, Handler("write", current[u].gen)} : RunHandler(u, x)
          BY <4>4 DEF OnAccept, OnSignal, OnSegfault, ReleaseLock, TakeReply, InterruptExpirate,
                      Done
        <5> QED
          BY <3>2, <5>1
      <4>5. ASSUME NEW u \in Thread, TakeLock(u) \/ UseDeadStorage(u) \/ Interrupt(u)
                                     \/ InterruptWrite(u) \/ LeaveUnread(u)
            PROVE  current' = current
        BY <4>5 DEF TakeLock, UseDeadStorage, Interrupt, InterruptWrite, LeaveUnread
      <4> QED
        BY <4>1, <4>2, <4>3, <4>4, <4>5 DEF Next, Pool
    <3> QED
      BY <2>4, <3>1, <3>3, <3>4
  <2> QED
    BY <2>2, <2>3, <2>4
<1> QED
  BY <1>8, <1>9 DEF SignalsPay, Waiting, Heard

\* One invariant.
Books == Flags /\ Reach /\ SignalsPay

\* It holds at first.
LEMMA BooksInit == Init => Books
<1> SUFFICES ASSUME Init
             PROVE  Books
  OBVIOUS
<1>1. Flags
  <2>1. signals \in 0..MaxSignals
    BY SignalAssumption DEF Init
  <2>2. main \in Mains /\ halt \in Halts /\ segv \in {"default", "dispatch"}
    BY Zenon DEF Init, Mains, Halts
  <2>3. done_ \in BOOLEAN /\ stopped \in BOOLEAN /\ handled \in BOOLEAN
    BY Zenon DEF Init
  <2>4. lock \in Thread \cup {NoThread}
    BY DEF Init
  <2> QED
    BY <2>1, <2>2, <2>3, <2>4 DEF Flags
<1>2. Reach
  <2>1. current \in [Thread -> TaskOf(gen)]
    BY DEF Init, TaskOf
  <2>2. ready \in Seq(HandlerOf(gen))
    BY EmptySeq DEF Init
  <2> QED
    BY <2>1, <2>2 DEF Init, Reach
<1>3. SignalsPay
  <2>1. StopsIn(ready) = {}
    BY DEF Init, StopsIn
  <2>2. HeardBy(current) = {}
    BY DEF Init, HeardBy, Out, Handler, Stops
  <2>3. Cardinality(StopsIn(ready)) = 0 /\ Cardinality(HeardBy(current)) = 0
    BY <2>1, <2>2, FS_EmptySet
  <2>4. gen = 0 /\ signals = 0 /\ Owed = 1 /\ main # "join"
    BY DEF Init, Owed, Due
  <2> QED
    BY <2>3, <2>4 DEF SignalsPay
<1> QED
  BY <1>1, <1>2, <1>3 DEF Books

\* And it is kept.
LEMMA BooksStep == Shape /\ Shape' /\ Books /\ [Next]_vars => Books'
<1> SUFFICES ASSUME Shape, Shape', Books, [Next]_vars
             PROVE  Books'
  OBVIOUS
<1>1. Flags'
  BY FlagsStep DEF Books
<1>2. Reach'
  <2>1. CASE Main
    BY <2>1, MainReach DEF Books
  <2>2. CASE ~ Main
    BY <2>2, OthersReach DEF Books
  <2> QED
    BY <2>1, <2>2
<1>3. signals \in Nat
  BY SignalAssumption DEF Books, Flags
<1>4. SignalsPay'
  <2>1. CASE Main /\ halt = "no"
    BY <1>2, <1>3, <2>1, MainPays DEF Books
  <2>2. CASE ~ Main
    BY <1>2, <1>3, <2>2, OthersPay DEF Books
  <2>3. CASE UNCHANGED vars
    <3>1. SignalsPay
      BY DEF Books
    <3> QED
      BY <2>3, <3>1 DEF vars, pointers, service, faults, SignalsPay, StopsIn, HeardBy, Owed, Due
  <2>4. halt = "no" \/ UNCHANGED vars
    BY DEF Next
  <2> QED
    BY <2>1, <2>2, <2>3, <2>4
<1> QED
  BY <1>1, <1>2, <1>4 DEF Books

\* What was meant by the books: every variable stays in its range, and there is no more
\* than one generation to a signal, and one to begin with.
LEMMA BooksType == Shape /\ Books => TypeOK
<1> SUFFICES ASSUME Shape, Books
             PROVE  TypeOK
  OBVIOUS
<1>1. gen \in Nat /\ gen <= MaxSignals + 1
  <2>1. gen + Waiting + Heard + Owed <= signals + 1
    BY DEF Books, SignalsPay, Waiting, Heard
  <2>2. Waiting \in Nat /\ Heard \in Nat /\ Owed \in Nat /\ gen \in Nat
    BY Counts DEF Books, Shape
  <2>3. signals \in Nat /\ signals <= MaxSignals
    BY SignalAssumption DEF Books, Flags
  <2>4. ASSUME NEW g \in Nat, NEW w \in Nat, NEW h \in Nat, NEW o \in Nat, NEW s \in Nat,
               g + w + h + o <= s + 1, s <= MaxSignals
        PROVE  g <= MaxSignals + 1
    BY <2>4, SignalAssumption
  <2> QED
    BY <2>1, <2>2, <2>3, <2>4
<1>2. 1..gen \subseteq Generations
  BY <1>1, SignalAssumption DEF Generations
<1>3. HandlerOf(gen) \subseteq Handlers
  BY <1>2 DEF HandlerOf, Handlers
<1>4. ready \in Seq(Handlers)
  <2>1. ready \in Seq(HandlerOf(gen))
    BY DEF Books, Reach
  <2>2. Len(ready) \in Nat /\ ready \in [1..Len(ready) -> HandlerOf(gen)]
    BY <2>1, LenProperties
  <2>3. ready \in [1..Len(ready) -> Handlers]
    BY <1>3, <2>2
  <2> QED
    BY <2>2, <2>3, IsASeq
<1>5. current \in [Thread -> Handlers \cup {Out, Idle, Stuck}]
  <2>1. TaskOf(gen) \subseteq Handlers \cup {Out, Idle, Stuck}
    BY <1>3 DEF TaskOf
  <2>2. current \in [Thread -> TaskOf(gen)]
    BY DEF Books, Reach
  <2> QED
    BY <2>1, <2>2
<1>6. {server_, storage_, filler_, filler_thread_, gen} \subseteq {0} \cup Generations
  BY <1>1, SignalAssumption DEF Shape, Generations
<1>7. alive \subseteq Classes \X Generations
  BY <1>2 DEF Shape
<1>8. {fillers, told, accepting, conns} \subseteq SUBSET Generations
  BY <1>2 DEF Shape, Books, Reach
<1>9. faulting \subseteq fillers /\ after \in {"build", "exit"}
  BY DEF Shape, Books, Reach
<1>10. /\ {done_, stopped, handled} \subseteq BOOLEAN /\ segv \in {"default", "dispatch"}
       /\ lock \in Thread \cup {NoThread} /\ signals \in 0..MaxSignals
  BY DEF Books, Flags
<1>11. /\ main \in {"check", "stopFiller", "joinFiller", "dropServer", "dropRest", "build",
                    "run", "join", "exit", "faulting"}
       /\ halt \in {"no", "fault", "segfault", "terminate", "exit(1)"}
  BY Zenon DEF Books, Flags, Mains, Halts
<1> QED
  BY <1>4, <1>5, <1>6, <1>7, <1>8, <1>9, <1>10, <1>11, Zenon DEF TypeOK

\* For any pool and any number of signals, each variable stays in its range: in
\* particular the daemon begins one generation when it starts and at most one more for
\* each signal it is sent, and what is queued or carried out in the service names one
\* that has begun.
THEOREM TypeCorrect == Spec => []TypeOK
<1>1. Init => Books
  BY BooksInit
<1>2. Shape /\ Shape' /\ Books /\ [Next]_vars => Books'
  BY BooksStep
<1>3. Shape /\ Books => TypeOK
  BY BooksType
<1> QED
  BY <1>1, <1>2, <1>3, ShapeHolds, PTL DEF Spec
=============================================================================
