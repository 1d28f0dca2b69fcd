------------------------------- MODULE Service -------------------------------
(***************************************************************************)
(* The service as its administrator sees it: the init script (start, stop, *)
(* reload, reconfigure) with its pid file, the configuration file, and the *)
(* processes that the script runs: command line (swordfish.cpp), Config,   *)
(* init_logger, daemonize, create_server with the plugin's libraries and   *)
(* the port, and what SIGTERM and SIGUSR1 do to a process at any of these. *)
(*                                                                         *)
(* A process is a record.  Objects and pointers have a module of their own *)
(* (Daemon), which also says how a signal gets into the queue of the pool. *)
(***************************************************************************)
EXTENDS Config, Logger, FiniteSets

CONSTANTS
  MaxProcesses, MaxCommands, MaxEdits,  \* bounds of the model
  MaxWorkers,    \* no configuration asks for more threads
  ConfigPaths,   \* what the script may have been configured with, "" included
  Contents,      \* what the configuration file may hold: trees, or
  Unreadable,    \* no file, or one that does not parse
  Relative,      \* the paths that are relative
  Writable,      \* the places where log files can be made
  Exports,       \* libraries that can be loaded, with the functions they have
  NoLib,
  LevelTexts     \* what clients ask for with log_level

ASSUME BoundAssumption == {MaxProcesses, MaxCommands, MaxEdits, MaxWorkers} \subseteq Nat
ASSUME ContentsAssumption ==
  \A c \in Contents \ {Unreadable} : workers(c) \in 0..MaxWorkers

\* Nothing in a file system or a library has an empty name.
ASSUME ExportsAssumption ==
  /\ {NoLib, ""} \cap DOMAIN Exports = {}
  /\ \A lib \in DOMAIN Exports : "" \notin Exports[lib]

VARIABLES
  file, config_path,
  proc,       \* the processes
  script,     \* what the script has yet to do
  pid,        \* the pid file exists
  commands, edits

vars == <<file, config_path, proc, script, pid, commands, edits>>

Process == 1..MaxProcesses
Thread == 1..MaxWorkers
NoPort == 0

Unborn ==
  [pc |-> "unborn",
   cwd |-> "start",
   tree |-> Unreadable,          \* cfg_.tree_
   log |-> Unset,
   settings |-> Unreadable,      \* what the present generation was built with
   normalize |-> NoLib,          \* where __normalize_key__ and __custom_hash__ point
   maps |-> {},                  \* libraries opened by maps, which never close them
   lib_handle_ |-> NoLib,        \* the library the filler holds open
   bound |-> NoPort,
   handled |-> FALSE,            \* set_signal_handlers has been called
   done_ |-> FALSE,
   stopped |-> FALSE, ready |-> <<>>,        \* the io_service
   thread |-> [t \in Thread |-> "out"],
   reasons |-> {}]               \* history: what could end the process from outside

Alive(p) == proc[p].pc \notin {"unborn", "gone"}
Gone(r) == [Unborn EXCEPT !.pc = "gone", !.reasons = r.reasons]

Becomes(p, r) ==
  /\ proc' = [proc EXCEPT ![p] = r]
  /\ UNCHANGED <<file, config_path, script, pid, commands, edits>>

At(p, pc) == proc[p].pc = pc
Goto(r, pc) == [r EXCEPT !.pc = pc]

Init ==
  /\ file \in Contents /\ config_path \in ConfigPaths
  /\ proc = [p \in Process |-> Unborn]
  /\ script = <<>> /\ pid = FALSE
  /\ commands = 0 /\ edits = 0

-----------------------------------------------------------------------------
(* A process, up to daemonize.  The script runs it with -dc and the path.   *)

\* -c without a path, or with an empty one, is answered with the usage.
process_args(p) ==
  /\ At(p, "args")
  /\ Becomes(p, IF config_path = "" THEN Gone(proc[p]) ELSE Goto(proc[p], "load"))

\* A relative path is resolved where the process is; daemonize goes to "/".
CanRead(r) ==
  /\ file # Unreadable
  /\ config_path \in Relative => r.cwd = "start"

\* The constructor of Config; main swallows its exception.
Load(p) ==
  /\ At(p, "load")
  /\ Becomes(p, IF CanRead(proc[p])
                  THEN [Goto(proc[p], "log") EXCEPT !.tree = file]
                  ELSE Gone(proc[p]))

Place(path, cwd) == IF path \in Relative THEN <<cwd, path>> ELSE <<"", path>>

BeginLog(p) ==
  /\ At(p, "log")
  /\ Becomes(p, [Goto(proc[p], "sinks") EXCEPT !.log = backends_init_start(@)])

init_sinks(l, tree, cwd) ==
  LET place == Place(log_file_path(tree), cwd)
      a == IF is_log_syslog(tree) THEN syslog_sink_init(l) ELSE l
      b == IF is_log_stdout(tree) THEN stdout_sink_init(a) ELSE a
      c == IF is_log_file(tree) /\ place \in Writable THEN file_sink_init(b, place) ELSE b
  IN backends_init_commit(set_severity_level(c, log_level(tree)))

\* The rest of init_logger, before daemonize or, the next times, before
\* create_server.
CommitLog(p) ==
  LET r == proc[p] IN
  /\ At(p, "sinks")
  /\ Becomes(p, [Goto(r, IF r.cwd = "/" THEN "reset" ELSE "fork")
                   EXCEPT !.log = init_sinks(@, r.tree, r.cwd)])

\* daemonize, up to the first fork: the process that the script waits for ends.
Fork(p) == At(p, "fork") /\ Becomes(p, Goto(proc[p], "detach"))

\* chdir, the second fork, and the descriptors.
Detach(p) ==
  At(p, "detach") /\ Becomes(p, [Goto(proc[p], "reset") EXCEPT !.cwd = "/"])

ForkFails(p) ==
  /\ At(p, "fork") \/ At(p, "detach")
  /\ Becomes(p, Gone([proc[p] EXCEPT !.reasons = @ \cup {"fork"}]))

-----------------------------------------------------------------------------
(* create_server.                                                           *)

\* Mutant: the server is not deleted.
reset_server_leaks(r) == [r EXCEPT !.lib_handle_ = NoLib]

\* Mutant: the map closes its library with its other members.
reset_server_closes(r) ==
  [r EXCEPT !.lib_handle_ = NoLib, !.bound = NoPort, !.maps = {}]

\* The filler closes its library and the acceptor the port.
reset_server(r) == [r EXCEPT !.lib_handle_ = NoLib, !.bound = NoPort]

Reset(p) == At(p, "reset") /\ Becomes(p, Goto(reset_server(proc[p]), "storage"))

Settings(tree) ==
  [port |-> port(tree), workers |-> workers(tree),
   storage_size |-> storage_size(tree), storage_ttl |-> storage_ttl(tree),
   storage_expirate_size |-> storage_expirate_size(tree),
   filler_queue_size |-> filler_queue_size(tree),
   max_fill_size |-> IF max_fill_size(tree) = 0 THEN 10 ELSE max_fill_size(tree),
   filler |-> filler(tree), filler_function |-> filler_function(tree)]

\* DHashmap::configure_func.  The two functions are static and looked up once:
\* a map of a later generation keeps those of the first library.
configure_func(r, lib) ==
  IF lib = "" THEN Goto(r, "filler")
  ELSE IF lib \notin DOMAIN Exports THEN Gone(r)
  ELSE IF r.normalize = NoLib /\ ~ {"custom_hash", "normalize_key"} \subseteq Exports[lib]
    THEN Gone(r)
  ELSE [Goto(r, "filler") EXCEPT !.maps = @ \cup {lib},
                                 !.normalize = IF @ = NoLib THEN lib ELSE @]

\* The storage.  Without a filler's name the look-up throws, and run returns.
MakeStorage(p) ==
  LET r == proc[p] IN
  /\ At(p, "storage")
  /\ Becomes(p, IF HasFiller(r.tree)
                  THEN configure_func([r EXCEPT !.settings = Settings(r.tree)], filler(r.tree))
                  ELSE Goto(r, "down"))

\* AbstractFiller::Configure.  is_filler_alive is optional in the loop of the
\* filler, but dlerror, asked once after both look-ups, does not make it so.
Configure(r) ==
  LET lib == r.settings.filler  function == r.settings.filler_function IN
  IF lib = "" \/ function = "" THEN Goto(r, "bind")
  ELSE IF lib \notin DOMAIN Exports THEN Gone(r)
  ELSE IF ~ {function, "is_filler_alive"} \subseteq Exports[lib] THEN Gone(r)
  ELSE [Goto(r, "bind") EXCEPT !.lib_handle_ = lib]

MakeFiller(p) == At(p, "filler") /\ Becomes(p, Configure(proc[p]))

\* The thread of a filler that was not configured ends the process.
FillerNotConfigured(p) ==
  /\ proc[p].pc \in {"bind", "signals", "run", "serve"}
  /\ proc[p].lib_handle_ = NoLib
  /\ Becomes(p, Gone(proc[p]))

\* Port 0 asks for any port that is free.
IsTaken(port_) == port_ # NoPort /\ \E q \in Process : proc[q].bound = port_

Bind(p) ==
  LET r == proc[p] IN
  /\ At(p, "bind")
  /\ Becomes(p, IF IsTaken(r.settings.port)
                  THEN Goto(r, "down")
                  ELSE [Goto(r, "signals") EXCEPT !.bound = r.settings.port])

SetHandlers(p) ==
  At(p, "signals") /\ Becomes(p, [Goto(proc[p], "run") EXCEPT !.handled = TRUE])

Run(p) ==
  LET r == proc[p] IN
  /\ At(p, "run")
  /\ Becomes(p, [Goto(r, "serve") EXCEPT
                   !.stopped = FALSE,
                   !.thread = [t \in Thread |-> IF t <= r.settings.workers THEN "idle"
                                                                           ELSE "out"]])

\* Mutant: one thread that has returned is enough.
JoinAny(p) ==
  LET r == proc[p] IN
  /\ At(p, "serve")
  /\ r.stopped /\ \E t \in Thread : r.thread[t] = "idle"
  /\ Becomes(p, Goto(r, IF r.done_ THEN "down" ELSE "log"))

\* The threads return to join once the service is stopped; if there are none,
\* the loop of Daemon::run turns without an end.
Join(p) ==
  LET r == proc[p] IN
  /\ At(p, "serve")
  /\ \A t \in Thread : r.thread[t] = "out" \/ (r.thread[t] = "idle" /\ r.stopped)
  /\ Becomes(p, [Goto(r, IF r.done_ THEN "down" ELSE "log") EXCEPT
                   !.thread = [t \in Thread |-> "out"]])

TakeDown(p) == At(p, "down") /\ Becomes(p, Gone(proc[p]))

Main(p) ==
  \/ process_args(p) \/ Load(p) \/ BeginLog(p) \/ CommitLog(p) \/ Fork(p) \/ Detach(p)
  \/ Reset(p) \/ MakeStorage(p) \/ MakeFiller(p) \/ Bind(p) \/ SetHandlers(p) \/ Run(p)
  \/ Join(p) \/ TakeDown(p)

-----------------------------------------------------------------------------
(* The pool.                                                                *)

Take(p, t) ==
  LET r == proc[p] IN
  /\ r.thread[t] = "idle" /\ ~ r.stopped /\ r.ready # <<>>
  /\ Becomes(p, [r EXCEPT !.thread[t] = Head(r.ready), !.ready = Tail(@)])

\* Mutant: the service is stopped as for a restart.
on_exit_unmarked(r) == [r EXCEPT !.stopped = TRUE]

on_exit(r) == [r EXCEPT !.done_ = TRUE, !.stopped = TRUE]

OnExit(p, t) ==
  /\ proc[p].thread[t] = "exit"
  /\ Becomes(p, [on_exit(proc[p]) EXCEPT !.thread[t] = "idle"])

\* on_config.  What reload throws leaves the thread, and that is the end.  Two
\* threads that swap trees at once race.
OnConfig(p, t) ==
  LET r == proc[p] IN
  /\ r.thread[t] = "config"
  /\ \/ Becomes(p, IF CanRead(r)
                     THEN [r EXCEPT !.tree = file, !.stopped = TRUE, !.thread[t] = "idle"]
                     ELSE Gone(r))
     \/ /\ \E u \in Thread \ {t} : r.thread[u] = "config"
        /\ Becomes(p, Gone(r))

Pool(p, t) == Take(p, t) \/ OnExit(p, t) \/ OnConfig(p, t)

\* A client's log_level command.
SetLevel(p) ==
  /\ At(p, "serve") /\ \E t \in Thread : proc[p].thread[t] = "idle"
  /\ \E text \in LevelTexts :
       Becomes(p, [proc[p] EXCEPT !.log = set_severity_level(@, text2level(text))])

-----------------------------------------------------------------------------
(* The script.  One command at a time.                                      *)

Command(steps) ==
  /\ script = <<>> /\ commands < MaxCommands
  /\ script' = steps /\ commands' = commands + 1
  /\ UNCHANGED <<file, config_path, proc, pid, edits>>

start == <<"run", "wait">>
stop == <<"kill", "rm">>
reconfigure == <<"usr1">>

Start == Command(start)
Stop == Command(stop)
Reload == Command(stop \o start)
Reconfigure == Command(reconfigure)

Does(step) ==
  script # <<>> /\ Head(script) = step /\ UNCHANGED <<file, config_path, commands, edits>>
Proceed == script' = Tail(script)
Fail == script' = <<>> /\ UNCHANGED <<proc, pid>>  \* exit 1

IsUsable(lib, function) ==
  /\ lib \in DOMAIN Exports
  /\ {"custom_hash", "normalize_key", "is_filler_alive", function} \subseteq Exports[lib]

IsGood(content) ==
  content # Unreadable
    /\ HasFiller(content) /\ IsUsable(filler(content), filler_function(content))

Because(r, reason, holds) == [r EXCEPT !.reasons = IF holds THEN @ \cup {reason} ELSE @]

\* History only: with two processes at once, each may find the port taken.
Launched(p) ==
  LET crowded == \E q \in Process : Alive(q) IN
  [q \in Process |->
    IF q = p THEN Because(Because(Goto(Unborn, "args"), "port", crowded),
                          "file", config_path = "" \/ ~ IsGood(file))
    ELSE IF Alive(q) THEN Because(proc[q], "port", TRUE)
    ELSE proc[q]]

Launch ==
  /\ Does("run")
  /\ IF pid THEN Fail
     ELSE /\ \E p \in Process :
               /\ At(p, "unborn") /\ \A q \in 1..(p - 1) : ~ At(q, "unborn")
               /\ proc' = Launched(p)
          /\ Proceed /\ UNCHANGED pid

\* The program returns to the script at its first fork; whatever it returns,
\* the pid file is made.
Touch ==
  /\ Does("wait")
  /\ \A p \in Process : proc[p].pc \notin {"args", "load", "fork"}
                     /\ (proc[p].pc \in {"log", "sinks"} => proc[p].cwd = "/")
  /\ pid' = TRUE
  /\ Proceed /\ UNCHANGED proc

\* A signal without a handler ends the process.
Send(r, handler, reason) ==
  IF r.handled THEN [Because(r, "signal", reason) EXCEPT !.ready = Append(@, handler)]
  ELSE Gone(Because(r, "signal", TRUE))

killall(handler, endangered) ==
  proc' = [p \in Process |-> IF Alive(p) THEN Send(proc[p], handler, p \in endangered)
                                         ELSE proc[p]]

Kill ==
  /\ Does("kill")
  /\ IF ~ pid THEN Fail
     ELSE killall("exit", Process) /\ Proceed /\ UNCHANGED pid

Remove == Does("rm") /\ pid' = FALSE /\ Proceed /\ UNCHANGED proc

\* A reconfigure ends a process if the path no longer leads to the file, and it
\* may if another one is under way.
Hurt(r) ==
  \/ config_path \in Relative
  \/ \E i \in 1..Len(r.ready) : r.ready[i] = "config"
  \/ \E t \in Thread : r.thread[t] = "config"

Usr1 ==
  /\ Does("usr1")
  /\ IF ~ pid THEN Fail ELSE killall("config", {p \in Process : Hurt(proc[p])}) /\ Proceed /\ UNCHANGED pid

Script == Start \/ Stop \/ Reload \/ Reconfigure
Steps == Launch \/ Touch \/ Kill \/ Remove \/ Usr1

\* The administrator writes another configuration.
Edit ==
  /\ edits < MaxEdits /\ edits' = edits + 1
  /\ \E c \in Contents \ {file} :
       /\ file' = c
       /\ proc' = [p \in Process |->
                    IF Alive(p) THEN Because(proc[p], "file", ~ IsGood(c)) ELSE proc[p]]
  /\ UNCHANGED <<config_path, script, pid, commands>>

Next ==
  \/ \E p \in Process :
       \/ Main(p) \/ ForkFails(p) \/ FillerNotConfigured(p) \/ SetLevel(p)
       \/ \E t \in Thread : Pool(p, t)
  \/ Script \/ Steps \/ Edit

\* The threads of a process and the script get to run.
Spec ==
  /\ Init /\ [][Next]_vars
  /\ \A p \in Process :
       /\ WF_vars(Main(p))
       /\ \A t \in Thread : WF_vars(Pool(p, t))
  /\ WF_vars(Steps)

-----------------------------------------------------------------------------

Labels ==
  {"unborn", "args", "load", "log", "sinks", "fork", "detach", "reset", "storage", "filler",
   "bind", "signals", "run", "serve", "down", "gone"}

Built == {Settings(c) : c \in {d \in Contents \ {Unreadable} : HasFiller(d)}}

Streams == SUBSET Seq({Stdout} \cup {File(place) : place \in Writable})
Log ==
  [text_stream_backend : Streams, text_stream_sink : Streams,
   syslog_backend : SUBSET {Syslog}, syslog_sink : SUBSET {Syslog},
   level : 0..7]

Record ==
  [pc : Labels, cwd : {"start", "/"}, tree : Contents \cup {Unreadable}, log : Log,
   settings : Built \cup {Unreadable},
   normalize : DOMAIN Exports \cup {NoLib}, maps : SUBSET DOMAIN Exports,
   lib_handle_ : DOMAIN Exports \cup {NoLib}, bound : Uint16,
   handled : BOOLEAN, done_ : BOOLEAN, stopped : BOOLEAN, ready : Seq({"exit", "config"}),
   thread : [Thread -> {"out", "idle", "exit", "config"}],
   reasons : SUBSET {"fork", "port", "file", "signal"}]

\* Every variable stays in its range; only a process that was built and set its
\* handlers has threads.
TypeOK ==
  /\ file \in Contents /\ config_path \in ConfigPaths
  /\ proc \in [Process -> Record]
  /\ \A p \in Process, t \in Thread :
       proc[p].thread[t] # "out" => At(p, "serve") /\ proc[p].handled
  /\ script \in Seq({"run", "wait", "kill", "rm", "usr1"}) /\ Len(script) <= 4
  /\ pid \in BOOLEAN
  /\ commands \in 0..MaxCommands /\ edits \in 0..MaxEdits

Serving(p) == At(p, "serve") /\ ~ proc[p].stopped

Asked(tree, cwd) ==
  LET place == Place(log_file_path(tree), cwd) IN
  (IF is_log_stdout(tree) THEN <<Stdout>> ELSE <<>>)
    \o (IF is_log_file(tree) /\ place \in Writable THEN <<File(place)>> ELSE <<>>)
    \o (IF is_log_syslog(tree) THEN <<Syslog>> ELSE <<>>)

\* A process that serves was built, log and all, from one reading of the
\* configuration, the last one: the settings, the port and the library are those
\* that the tree names, and every destination that it names is written once, and no
\* other.  A relative log path may mean the directory of the start or "/".
ServesAsConfigured ==
  \A p \in Process : Serving(p) =>
    LET r == proc[p] IN
    /\ r.settings = Settings(r.tree)
    /\ r.bound = port(r.tree) /\ r.lib_handle_ \in {filler(r.tree), NoLib}
    /\ \E cwd \in {"start", "/"} : Destinations(r.log) = Asked(r.tree, cwd)

\* A process ends by itself for reasons from outside only: it was told to, or a
\* signal came before its handlers or found a configuration it could not read, a
\* reload overlapped another, the configuration was bad in its time, another
\* process had the port, or fork failed.  A restart alone never ends it.
DiesForAReason == \A p \in Process : At(p, "gone") => proc[p].reasons # {}

\* The functions that the map calls are in a library that is loaded, although the
\* filler that came with it is closed at a restart.
FunctionsStayLoaded ==
  \A p \in Process :
    At(p, "serve") /\ proc[p].normalize # NoLib =>
      proc[p].normalize \in proc[p].maps \cup {proc[p].lib_handle_}

HasNoThreads(p) ==
  /\ proc[p].pc \in {"filler", "bind", "signals", "run", "serve"}
  /\ proc[p].settings.workers = 0

\* A process that the script has forgotten ends: whenever the script is done and
\* there is no pid file, what still runs has been told to stop, and does, unless it
\* was configured to have no threads, which would have to run the handler.
ForgottenEnds ==
  \A p \in Process :
    (Alive(p) /\ ~ pid /\ script = <<>>) ~>
      (At(p, "gone") \/ HasNoThreads(p))
=============================================================================
