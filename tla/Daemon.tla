------------------------------- MODULE Daemon -------------------------------
(***************************************************************************)
(* The life of the process: the main thread (daemon.cpp) builds a storage, *)
(* a filler with its thread and a server, lets a pool of threads run the   *)
(* handlers of the io_service, and takes everything down again to restart  *)
(* (SIGUSR1) or to exit (SIGTERM, SIGINT).  Handlers are those of the      *)
(* acceptor (server.cpp), of connections (worker.cpp) and of signals.      *)
(*                                                                         *)
(* Each round of the main loop makes a generation of objects.  Pointers    *)
(* are generation numbers, 0 being NULL; they are never reset.  The        *)
(* io_service outlives all generations, and so does what is queued in it.  *)
(***************************************************************************)
EXTENDS Integers, Sequences, FiniteSets

CONSTANTS
  Thread,     \* the pool (cfg_.workers() of them)
  NoThread,
  MaxSignals  \* bound of the model on the signals sent, faults included

ASSUME ThreadAssumption == IsFiniteSet(Thread) /\ Thread # {} /\ NoThread \notin Thread
ASSUME SignalAssumption == MaxSignals \in Nat

VARIABLES
  main, after,      \* where the main thread is; what reset_server returns to
  done_,
  server_, storage_, filler_, filler_thread_,  \* the pointers
  gen,              \* generations begun
  alive,            \* objects allocated and not deleted, as <<class, generation>>
  fillers, told,    \* filler threads that run, and fillers told to stop
  faulting,         \* those that repeat an instruction that faults
  segv,             \* what SIGSEGV does: "default", or "dispatch" to the service
  stopped, ready,   \* the io_service: stopped, and the handlers it has queued
  accepting, conns, \* generations with a pending accept, with a pending read
  current,          \* the handler each thread runs
  lock,             \* the thread that holds the lock of the DHashmap
  signals,          \* signals sent, and faults
  handled,          \* set_signal_handlers has been called
  halt              \* "no", "fault" (a deleted object used), "segfault" (in the
                    \* plugin), "terminate", "exit(1)"

pointers == <<server_, storage_, filler_, filler_thread_, gen>>
service == <<stopped, ready, accepting, conns>>
faults == <<faulting, segv>>
vars == <<main, after, done_, pointers, alive, fillers, told, faults, service, current,
          lock, signals, handled, halt>>

mainVars == <<main, after, pointers, alive, fillers, told, faults, handled>>

Handler(what, g) == [what |-> what, gen |-> g]
Out == Handler("out", 0)
Idle == Handler("idle", 0)
Stuck == Handler("stuck", 0)

IsDead(class, g) == g # 0 /\ <<class, g>> \notin alive

Init ==
  /\ main = "check" /\ after = "build"
  /\ done_ = FALSE
  /\ server_ = 0 /\ storage_ = 0 /\ filler_ = 0 /\ filler_thread_ = 0 /\ gen = 0
  /\ alive = {} /\ fillers = {} /\ told = {}
  /\ faulting = {} /\ segv = "default"
  /\ stopped = FALSE /\ ready = <<>> /\ accepting = {} /\ conns = {}
  /\ current = [t \in Thread |-> Out]
  /\ lock = NoThread
  /\ signals = 0 /\ handled = FALSE
  /\ halt = "no"

Fault == halt' = "fault"

-----------------------------------------------------------------------------
(* The main thread.                                                         *)

MainGoto(l) == main' = l

\* A deleted object is used.  The process dies; or it is a SIGSEGV, and the main
\* thread goes on repeating the instruction, as the handler only queues a call
\* for the pool, which is not there.
MainFaults ==
  \/ Fault /\ UNCHANGED main
  \/ segv = "dispatch" /\ MainGoto("faulting") /\ UNCHANGED halt

CheckDone ==
  /\ main = "check"
  /\ MainGoto("stopFiller")
  /\ after' = IF done_ THEN "exit" ELSE "build"
  /\ UNCHANGED <<done_, pointers, alive, fillers, told, faults, service, current, lock,
                 signals, handled, halt>>

\* reset_server: Shutdown and join, if there ever was a filler thread.
StopFiller ==
  /\ main = "stopFiller"
  /\ IF filler_thread_ = 0 THEN MainGoto("dropServer") /\ UNCHANGED <<told, halt>>
     ELSE IF IsDead("filler", filler_) \/ IsDead("thread", filler_thread_)
       THEN MainFaults /\ UNCHANGED told
     ELSE MainGoto("joinFiller") /\ told' = told \cup {filler_} /\ UNCHANGED halt
  /\ UNCHANGED <<after, done_, pointers, alive, fillers, faults, service, current, lock,
                 signals, handled>>

\* Mutant: the filler is told to stop and not waited for.
JoinFillerNot ==
  /\ main = "joinFiller"
  /\ alive' = alive \ {<<"thread", filler_thread_>>}
  /\ MainGoto("dropServer")
  /\ UNCHANGED <<after, done_, pointers, fillers, told, faults, service, current, lock,
                 signals, handled, halt>>

JoinFiller ==
  /\ main = "joinFiller"
  /\ filler_thread_ \notin fillers
  /\ alive' = alive \ {<<"thread", filler_thread_>>}
  /\ MainGoto("dropServer")
  /\ UNCHANGED <<after, done_, pointers, fillers, told, faults, service, current, lock,
                 signals, handled, halt>>

\* server_->stop(); delete server_: the pending accept of its acceptor is
\* aborted, that is, its handler is queued with an error.
DropServer ==
  /\ main = "dropServer"
  /\ IF server_ = 0 THEN MainGoto("dropRest") /\ UNCHANGED <<alive, service, halt>>
     ELSE IF IsDead("server", server_) THEN MainFaults /\ UNCHANGED <<alive, service>>
     ELSE /\ stopped' = TRUE
          /\ alive' = alive \ {<<"server", server_>>}
          /\ accepting' = accepting \ {server_}
          /\ ready' = IF server_ \in accepting
                        THEN Append(ready, Handler("accept failed", server_))
                        ELSE ready
          /\ MainGoto("dropRest")
          /\ UNCHANGED <<conns, halt>>
  /\ UNCHANGED <<after, done_, pointers, fillers, told, faults, current, lock, signals, handled>>

\* Mutant: the storage is not deleted.
DropRestLeaks ==
  /\ main = "dropRest"
  /\ alive' = alive \ {<<"filler", filler_>>}
  /\ MainGoto(after)
  /\ UNCHANGED <<after, done_, pointers, fillers, told, faults, service, current, lock,
                 signals, handled, halt>>

\* delete filler_; delete storage_.  Connections keep their references.
DropRest ==
  /\ main = "dropRest"
  /\ IF IsDead("filler", filler_) \/ IsDead("storage", storage_)
       THEN MainFaults /\ UNCHANGED alive
       ELSE /\ alive' = alive \ {<<"filler", filler_>>, <<"storage", storage_>>}
            /\ MainGoto(after)
            /\ UNCHANGED halt
  /\ UNCHANGED <<after, done_, pointers, fillers, told, faults, service, current, lock,
                 signals, handled>>

\* create_server, after reset_server.
Build ==
  LET g == gen + 1 IN
  /\ main = "build"
  /\ gen' = g
  /\ storage_' = g /\ filler_' = g /\ filler_thread_' = g /\ server_' = g
  /\ alive' = alive \cup ({"storage", "filler", "thread", "server"} \X {g})
  /\ fillers' = fillers \cup {g}
  /\ accepting' = accepting \cup {g}
  /\ MainGoto("run")
  /\ UNCHANGED <<after, done_, told, faults, stopped, ready, conns, current, lock, signals,
                 handled, halt>>

\* Mutant: create_server deletes what it made before it lets the exception out.
BindFailsCleanly ==
  /\ main = "build"
  /\ gen' = gen + 1
  /\ storage_' = gen + 1 /\ filler_' = gen + 1 /\ filler_thread_' = gen + 1
  /\ MainGoto("stopFiller") /\ after' = "exit"
  /\ UNCHANGED <<server_, alive, fillers, done_, told, faults, service, current, lock, signals,
                 handled, halt>>

\* The port cannot be bound: the exception ends run, and ~Daemon takes down
\* what the pointers point to.
BindFails ==
  LET g == gen + 1 IN
  /\ main = "build"
  /\ gen' = g
  /\ storage_' = g /\ filler_' = g /\ filler_thread_' = g
  /\ alive' = alive \cup ({"storage", "filler", "thread"} \X {g})
  /\ fillers' = fillers \cup {g}
  /\ MainGoto("stopFiller") /\ after' = "exit"
  /\ UNCHANGED <<server_, done_, told, faults, service, current, lock, signals, handled, halt>>

\* The configuration names no plugin, or one that cannot be loaded.
PluginFails ==
  LET g == gen + 1 IN
  /\ main = "build"
  /\ gen' = g
  /\ storage_' = g
  /\ alive' = alive \cup {<<"storage", g>>}
  /\ \/ MainGoto("stopFiller") /\ after' = "exit" /\ UNCHANGED halt
     \/ halt' = "exit(1)" /\ UNCHANGED <<main, after>>
  /\ UNCHANGED <<server_, filler_, filler_thread_, done_, fillers, told, faults, service, current,
                 lock, signals, handled>>

\* Mutant: the pool is started without making the service run again.
RunWithoutReset ==
  /\ main = "run"
  /\ handled' = TRUE /\ segv' = "dispatch"
  /\ current' = [t \in Thread |-> Idle]
  /\ MainGoto("join")
  /\ UNCHANGED <<after, done_, pointers, alive, fillers, told, faulting, service, lock, signals, halt>>

\* set_signal_handlers; Server::run: service_.reset() and the threads.
Run ==
  /\ main = "run"
  /\ handled' = TRUE /\ segv' = "dispatch"
  /\ stopped' = FALSE
  /\ current' = [t \in Thread |-> Idle]
  /\ MainGoto("join")
  /\ UNCHANGED <<after, done_, pointers, alive, fillers, told, faulting, ready, accepting, conns,
                 lock, signals, halt>>

\* Mutant: one thread that has returned is enough.
JoinAny ==
  /\ main = "join"
  /\ \E t \in Thread : current[t] = Out
  /\ MainGoto("check")
  /\ UNCHANGED <<after, done_, pointers, alive, fillers, told, faults, service, current, lock,
                 signals, handled, halt>>

Join ==
  /\ main = "join"
  /\ \A t \in Thread : current[t] = Out
  /\ MainGoto("check")
  /\ UNCHANGED <<after, done_, pointers, alive, fillers, told, faults, service, current, lock,
                 signals, handled, halt>>

Main ==
  \/ CheckDone \/ StopFiller \/ JoinFiller \/ DropServer \/ DropRest
  \/ Build \/ BindFails \/ PluginFails \/ Run \/ Join

\* A filler that was told to stop stops (module Refill says when).
FillerStops ==
  /\ \E g \in (told \cap fillers) \ faulting : fillers' = fillers \ {g}
  /\ UNCHANGED <<main, after, done_, pointers, alive, told, faults, service, current, lock,
                 signals, handled, halt>>

\* The plugin, say, uses a bad pointer.  Its thread is not in io_service::run, so
\* the handler queues on_segfault and returns to the same instruction.
FillerFaults ==
  /\ signals < MaxSignals /\ signals' = signals + 1
  /\ \E g \in fillers \ faulting :
       IF segv = "default" THEN halt' = "segfault" /\ UNCHANGED <<faulting, ready>>
       ELSE /\ faulting' = faulting \cup {g}
            /\ ready' = Append(ready, Handler("segfault", 0))
            /\ UNCHANGED halt
  /\ UNCHANGED <<main, after, done_, pointers, alive, fillers, told, segv, stopped, accepting,
                 conns, current, lock, handled>>

\* The instruction again, after SIGSEGV was given back its default.  (While it is
\* not, further calls are queued, which the model leaves out.)
FillerFaultsAgain ==
  /\ faulting # {} /\ segv = "default"
  /\ halt' = "segfault"
  /\ UNCHANGED <<mainVars, done_, service, current, lock, signals>>

-----------------------------------------------------------------------------
(* The threads of the pool, in io_service::run.                             *)

InRun(t) == current[t] # Out
RunHandler(t, h) == current' = [current EXCEPT ![t] = h]

LeaveRun(t) ==
  /\ current[t] = Idle /\ stopped
  /\ RunHandler(t, Out)
  /\ UNCHANGED <<mainVars, done_, service, lock, signals, halt>>

TakeHandler(t) ==
  /\ current[t] = Idle /\ ~ stopped /\ ready # <<>>
  /\ RunHandler(t, Head(ready))
  /\ ready' = Tail(ready)
  /\ UNCHANGED <<mainVars, done_, stopped, accepting, conns, lock, signals, halt>>

\* Server::on_accept: the connection's first read and the next accept are
\* started.  If the server was deleted meanwhile, the process dies, or its
\* closed acceptor queues the handler again.
OnAccept(t) ==
  LET h == current[t] IN
  /\ h.what \in {"accepted", "accept failed"}
  /\ \/ /\ ~ IsDead("server", h.gen)
        /\ conns' = IF h.what = "accepted" THEN conns \cup {h.gen} ELSE conns
        /\ accepting' = accepting \cup {h.gen}
        /\ UNCHANGED <<ready, halt>>
     \/ /\ IsDead("server", h.gen)
        /\ Fault
        /\ UNCHANGED <<conns, accepting, ready>>
     \/ /\ IsDead("server", h.gen)
        /\ ready' = Append(ready, Handler("accept failed", h.gen))
        /\ UNCHANGED <<conns, accepting, halt>>
  /\ RunHandler(t, Idle)
  /\ UNCHANGED <<mainVars, done_, stopped, lock, signals>>

\* The storage a handler works on: a connection has a reference to the one it
\* was accepted with, on_expirate goes through the pointer.
StorageOf(h) == IF h.what = "read" THEN h.gen ELSE storage_

UsesStorage(t) == current[t].what \in {"read", "expirate"} /\ lock # t

TakeLock(t) ==
  /\ UsesStorage(t) /\ ~ IsDead("storage", StorageOf(current[t]))
  /\ lock = NoThread
  /\ lock' = t
  /\ UNCHANGED <<mainVars, done_, service, current, signals, halt>>

Done(t) ==
  /\ conns' = IF current[t].what \in {"read", "write"} THEN conns \cup {current[t].gen}
                                                      ELSE conns
  /\ RunHandler(t, Idle)

\* The work in the storage is done.  The reply to a connection is written then and
\* there, and its next read begun; or the client does not take it yet.
ReleaseLock(t) ==
  /\ lock = t /\ current[t] # Stuck
  /\ lock' = NoThread
  /\ \/ Done(t)
     \/ /\ current[t].what = "read"
        /\ RunHandler(t, Handler("write", current[t].gen))
        /\ UNCHANGED conns
  /\ UNCHANGED <<mainVars, done_, stopped, ready, accepting, signals, halt>>

Blocked(t) == current[t].what = "write"

\* The storage was deleted.
UseDeadStorage(t) ==
  /\ UsesStorage(t) /\ IsDead("storage", StorageOf(current[t]))
  /\ Fault
  /\ UNCHANGED <<mainVars, done_, service, current, lock, signals>>

\* Mutant: the service is stopped as for a restart.
FinishUnmarked == UNCHANGED done_ /\ stopped' = TRUE /\ UNCHANGED halt

\* on_exit: done_ is set and the service stopped.
Finish == done_' = TRUE /\ stopped' = TRUE /\ UNCHANGED halt

\* on_config: reading the file again may throw, out of the thread.
Restart ==
  /\ UNCHANGED done_
  /\ \/ stopped' = TRUE /\ UNCHANGED halt
     \/ halt' = "terminate" /\ UNCHANGED stopped

\* Mutant: on_segfault logs, and leaves the handler in place.
OnSegfaultLogs(t) ==
  /\ current[t].what = "segfault"
  /\ RunHandler(t, Idle)
  /\ UNCHANGED <<mainVars, done_, service, lock, signals, halt>>

\* on_segfault: the backtrace, and SIGSEGV gets its default back.
OnSegfault(t) ==
  /\ current[t].what = "segfault"
  /\ segv' = "default"
  /\ RunHandler(t, Idle)
  /\ UNCHANGED <<main, after, pointers, alive, fillers, told, faulting, handled,
                 done_, service, lock, signals, halt>>

OnSignal(t) ==
  /\ \/ current[t].what = "exit" /\ Finish
     \/ current[t].what = "config" /\ Restart
  /\ RunHandler(t, Idle)
  /\ UNCHANGED <<mainVars, ready, accepting, conns, lock, signals>>

Pool(t) ==
  \/ LeaveRun(t) \/ TakeHandler(t)
  \/ OnAccept(t) \/ TakeLock(t) \/ ReleaseLock(t) \/ UseDeadStorage(t) \/ OnSignal(t)
  \/ OnSegfault(t)

-----------------------------------------------------------------------------
(* Signals.  The handler calls service_.dispatch, which queues the call,    *)
(* unless the interrupted thread is in io_service::run: then it calls.      *)

Signal == handled /\ signals < MaxSignals /\ signals' = signals + 1

Post ==
  /\ Signal
  /\ main # "exit"
  /\ \E what \in {"exit", "config", "expirate"} : ready' = Append(ready, Handler(what, 0))
  /\ UNCHANGED <<mainVars, done_, stopped, accepting, conns, current, lock, halt>>

Interrupt(t) ==
  /\ Signal
  /\ InRun(t) /\ current[t] # Stuck /\ ~ Blocked(t)
  /\ Finish \/ Restart
  /\ UNCHANGED <<mainVars, ready, accepting, conns, current, lock>>

\* The lock is not recursive: a thread that holds it never gets it again.
InterruptExpirate(t) ==
  /\ Signal
  /\ InRun(t)
  /\ lock = t
  /\ RunHandler(t, Stuck)
  /\ UNCHANGED <<mainVars, done_, service, lock, halt>>

\* Handlers are set without SA_RESTART: an interrupted write fails, and throws
\* out of the thread.
InterruptWrite(t) ==
  /\ Signal
  /\ Blocked(t)
  /\ halt' = "terminate"
  /\ UNCHANGED <<mainVars, done_, service, current, lock>>

-----------------------------------------------------------------------------
(* Clients.  Completions are noticed by a thread in io_service::run.        *)

Noticed == \E t \in Thread : InRun(t)

Queued(h) == \E i \in 1..Len(ready) : ready[i] = h
UnderWay(h) == Queued(h) \/ \E t \in Thread : current[t] = h

\* Bound of the model: a generation has one connection at a time.
Connected(g) ==
  g \in conns \/ UnderWay(Handler("read", g)) \/ UnderWay(Handler("write", g))

Connect ==
  /\ Noticed
  /\ \E g \in accepting :
       /\ ~ Connected(g)
       /\ accepting' = accepting \ {g}
       /\ ready' = Append(ready, Handler("accepted", g))
  /\ UNCHANGED <<mainVars, done_, stopped, conns, current, lock, signals, halt>>

SendCommand ==
  /\ Noticed
  /\ \E g \in conns :
       /\ conns' = conns \ {g}
       /\ ready' = Append(ready, Handler("read", g))
  /\ UNCHANGED <<mainVars, done_, stopped, accepting, current, lock, signals, halt>>

Disconnect ==
  /\ \E g \in conns : conns' = conns \ {g}
  /\ UNCHANGED <<mainVars, done_, stopped, ready, accepting, current, lock, signals, halt>>

TakeReply(t) ==
  /\ Blocked(t)
  /\ Done(t)
  /\ UNCHANGED <<mainVars, done_, stopped, ready, accepting, lock, signals, halt>>

\* The write throws, out of the thread.
LeaveUnread(t) ==
  /\ Blocked(t)
  /\ halt' = "terminate"
  /\ UNCHANGED <<mainVars, done_, service, current, lock, signals>>

Clients == Connect \/ SendCommand \/ Disconnect

Next ==
  /\ halt = "no"
  /\ \/ Main \/ FillerStops \/ FillerFaults \/ FillerFaultsAgain
     \/ \E t \in Thread :
          \/ Pool(t) \/ Interrupt(t) \/ InterruptExpirate(t) \/ InterruptWrite(t)
          \/ TakeReply(t) \/ LeaveUnread(t)
     \/ Post \/ Clients

\* Every thread gets to run; signals and clients come, and clients read their
\* replies, as they like.
Spec ==
  /\ Init /\ [][Next]_vars
  /\ WF_vars(halt = "no" /\ Main)
  /\ WF_vars(halt = "no" /\ FillerStops)
  /\ WF_vars(halt = "no" /\ FillerFaultsAgain)
  /\ \A t \in Thread : WF_vars(halt = "no" /\ Pool(t))

-----------------------------------------------------------------------------

Classes == {"storage", "filler", "thread", "server"}
Generations == 1..(MaxSignals + 1)

\* Handlers of the server and the connections of a generation, and those of signals.
ConnWhats == {"accepted", "accept failed", "read", "write"}
SignalWhats == {"exit", "config", "expirate", "segfault"}
Handlers ==
  {Handler(what, g) : what \in ConnWhats, g \in Generations}
    \cup {Handler(what, 0) : what \in SignalWhats}

\* Every variable stays in its range; there is a restart for a signal only.
TypeOK ==
  /\ main \in {"check", "stopFiller", "joinFiller", "dropServer", "dropRest", "build",
               "run", "join", "exit", "faulting"}
  /\ after \in {"build", "exit"}
  /\ {done_, stopped, handled} \subseteq BOOLEAN
  /\ {server_, storage_, filler_, filler_thread_, gen} \subseteq {0} \cup Generations
  /\ faulting \subseteq fillers /\ segv \in {"default", "dispatch"}
  /\ alive \subseteq Classes \X Generations
  /\ {fillers, told, accepting, conns} \subseteq SUBSET Generations
  /\ ready \in Seq(Handlers)
  /\ current \in [Thread -> Handlers \cup {Out, Idle, Stuck}]
  /\ lock \in Thread \cup {NoThread}
  /\ signals \in 0..MaxSignals
  /\ halt \in {"no", "fault", "segfault", "terminate", "exit(1)"}

\* A filler thread never outlives the filler and the storage it works on.
FillerHasItsObjects ==
  \A g \in fillers : {<<"filler", g>>, <<"storage", g>>} \subseteq alive

\* While a thread of the pool runs, the objects that signal handlers reach
\* through the daemon's pointers exist, and they are of one generation: a
\* handler queued before a restart finds the new objects after it.
PointersHoldInRun ==
  (\E t \in Thread : InRun(t)) =>
    /\ {<<"server", server_>>, <<"storage", storage_>>} \subseteq alive
    /\ server_ = storage_

\* There is one storage and one filler at a time, and at exit none is left.
OneGeneration ==
  /\ Cardinality({o \in alive : o[1] = "storage"}) <= 1
  /\ Cardinality(fillers) <= 1
  /\ main = "exit" => alive = {}

\* Until it begins a second generation, the daemon uses no deleted object:
\* starting, serving, failing to start and exiting are clean.
FaultNeedsRestart ==
  halt = "fault" \/ main = "faulting" => gen > 1

\* "Everything must stop correctly in the destructors" (daemon.cpp): no handler
\* that is left in the service runs for a server or a storage that was deleted.
StopsCorrectly ==
  \A t \in Thread :
    ~ IsDead("server", current[t].gen) /\ ~ IsDead("storage", current[t].gen)

ExitAsked == done_ \/ UnderWay(Handler("exit", 0))

IsStuck(t) == current[t] = Stuck
WaitsForFaulting == main = "joinFiller" /\ filler_thread_ \in faulting

\* A request to exit, whenever it arrives, is carried out, unless the process dies
\* first, a thread deadlocked with itself in a signal handler, main or filler repeat
\* a fault, or a client leaves a thread blocked in write for ever.
ExitCarriedOut ==
  \/ \E t \in Thread : <>[]Blocked(t)
  \/ ExitAsked ~>
       (main \in {"exit", "faulting"} \/ halt # "no" \/ WaitsForFaulting
          \/ \E t \in Thread : IsStuck(t))

WaitsForStuck(t) == UsesStorage(t) /\ lock # NoThread /\ IsStuck(lock)
Held(t) == Blocked(t) \/ IsStuck(t) \/ WaitsForStuck(t)
PoolHeld == main = "join" /\ \A t \in Thread : Held(t) \/ current[t] = Out

\* A fault in the plugin ends the process, although only the pool can make it do so:
\* unless the main thread waits for the very thread that faults, by then without
\* a pool, or each thread that is left in the pool is held for ever.
FaultIsFatal ==
  \/ <>[]PoolHeld
  \/ (faulting # {}) ~> (halt # "no" \/ WaitsForFaulting)
=============================================================================
