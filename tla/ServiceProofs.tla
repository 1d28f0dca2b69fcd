---------------------------- MODULE ServiceProofs ----------------------------
(***************************************************************************)
(* Proofs about Service, for any number of processes and threads, any      *)
(* configurations and libraries: a process serves what was read last, dies *)
(* for reasons from outside only, and calls functions that stay loaded.    *)
(*                                                                         *)
(* A step of a process makes a record out of a record, so most lemmas are  *)
(* about records: r before the step and s after it, while the file is f    *)
(* and the path c.                                                         *)
(***************************************************************************)
EXTENDS Service, SequenceTheorems, TLAPS

Loaded(r) == r.pc \notin {"unborn", "args", "load", "gone"}
Serves(r) == r.pc = "serve" /\ ~ r.stopped
HasPort(r) == r.pc \in {"signals", "run"} \/ Serves(r)
HasLibrary(r) == r.pc = "bind" \/ HasPort(r)
HasSettings(r) == r.pc = "filler" \/ HasLibrary(r)
HasLog(r) == r.pc \in {"fork", "detach", "reset", "storage"} \/ HasSettings(r)

\* A process has a library from the filler and a port from bind until it is reset or gone, and
\* threads while it serves.
LifeInv(r) ==
  /\ r.pc \in {"unborn", "gone", "storage", "filler", "bind"} => r.bound = NoPort
  /\ r.pc \in {"storage", "filler"} => r.lib_handle_ = NoLib
  /\ r.pc \in {"args", "load"} => r.cwd = "start"
  /\ Loaded(r) => r.tree # Unreadable
  /\ r.pc \in {"run", "serve"} => r.handled
  /\ \A t \in Thread : r.thread[t] # "out" => r.pc = "serve"

\* A map keeps its library open for good.
LibraryInv(r) == r.normalize # NoLib => r.normalize \in r.maps

\* Sinks and backends come and go together, so that each init_logger starts from nothing.
LogInv(r) ==
  /\ r.log.text_stream_sink = Null => r.log.text_stream_backend = Null
  /\ r.log.syslog_sink = Null => r.log.syslog_backend = Null
  /\ r.pc = "sinks" => r.log.text_stream_sink = Null /\ r.log.syslog_sink = Null
  /\ HasLog(r) => \E cwd \in {"start", "/"} : Destinations(r.log) = Asked(r.tree, cwd)

\* What has been built was built from the tree that is loaded; a reload stops the service
\* together with the change of the tree.
BuiltInv(r) ==
  /\ HasSettings(r) => r.settings = Settings(r.tree)
  /\ HasLibrary(r) => r.lib_handle_ \in {filler(r.tree), NoLib}
  /\ HasPort(r) => r.bound = port(r.tree)

\* At most one reload waits or runs, and it will find the file; nothing tells the process to end.
Calm(r, c) ==
  /\ r.ready \in {<<>>, <<"config">>}
  /\ \A t \in Thread : r.thread[t] # "exit"
  /\ \A t \in Thread : r.thread[t] = "config" =>
       r.ready = <<>> /\ \A u \in Thread : r.thread[u] = "config" => u = t
  /\ (r.ready # <<>> \/ \E t \in Thread : r.thread[t] = "config") => c \notin Relative

\* As long as nothing from outside has given a process a reason to end, nothing in it has either.
SafeInv(r, f, c) ==
  r.reasons = {} /\ r.pc # "unborn" =>
    /\ r.pc \notin {"gone", "down"} /\ ~ r.done_
    /\ c # "" /\ IsGood(f)
    /\ Loaded(r) => IsGood(r.tree)
    /\ r.pc \in {"bind", "signals", "run", "serve"} => r.lib_handle_ # NoLib
    /\ Calm(r, c)

RecordInv(r, f, c) == LifeInv(r) /\ LibraryInv(r) /\ LogInv(r) /\ BuiltInv(r) /\ SafeInv(r, f, c)

\* Processes that have not met another one are alone.
Alone ==
  \A p, q \in Process : p # q /\ Alive(p) /\ Alive(q) => proc[p].reasons # {}

IInv ==
  /\ TypeOK
  /\ \A p \in Process : RecordInv(proc[p], file, config_path)
  /\ Alone

\* A step of a process keeps what is known of it, and takes no reason away.
Keeps(r, s) ==
  s \in Record /\ RecordInv(s, file, config_path) /\ (s.reasons = {} => r.reasons = {})

SameSetup(r, s) == s.cwd = r.cwd /\ s.tree = r.tree /\ s.log = r.log
SameLibraries(r, s) ==
  s.normalize = r.normalize /\ s.maps = r.maps /\ s.lib_handle_ = r.lib_handle_
SameServer(r, s) == s.settings = r.settings /\ s.bound = r.bound
SamePool(r, s) ==
  /\ s.handled = r.handled /\ s.done_ = r.done_ /\ s.stopped = r.stopped
  /\ s.ready = r.ready /\ s.thread = r.thread

\* One thread is at h now, and the others where they were.
Moved(r, s, t, h) == \A u \in Thread : s.thread[u] = IF u = t THEN h ELSE r.thread[u]

\* A record with another value in a field.
WithTree(r, x) == [r EXCEPT !.tree = x]
WithLog(r, x) == [r EXCEPT !.log = x]
WithReasons(r, x) == [r EXCEPT !.reasons = x]
WithReady(r, x) == [r EXCEPT !.ready = x]
WithCwd(r, x) == [r EXCEPT !.cwd = x]
WithSettings(r, x) == [r EXCEPT !.settings = x]
WithLibrary(r, x) == [r EXCEPT !.lib_handle_ = x]
WithPort(r, x) == [r EXCEPT !.bound = x]
WithLibraries(r, m, n) == [r EXCEPT !.maps = m, !.normalize = n]
WithMap(r, lib) ==
  [r EXCEPT !.maps = @ \cup {lib}, !.normalize = IF @ = NoLib THEN lib ELSE @]
WithHandlers(r) == [r EXCEPT !.handled = TRUE]
WithThreads(r, x) == [r EXCEPT !.thread = x]
Running(r, x) == [r EXCEPT !.stopped = FALSE, !.thread = x]
Turn(r, t, x, y) == [r EXCEPT !.thread[t] = x, !.ready = y]
Marked(r, y) == [r EXCEPT !.done_ = TRUE, !.stopped = TRUE, !.thread = y]
Swapped(r, x, y) == [r EXCEPT !.tree = x, !.stopped = TRUE, !.thread = y]
Exits(r, t) == [on_exit(r) EXCEPT !.thread[t] = "idle"]
Reloads(r, t, x) == [r EXCEPT !.tree = x, !.stopped = TRUE, !.thread[t] = "idle"]

-----------------------------------------------------------------------------
(* Records.                                                                 *)

\* A port is a number of 16 bits.
LEMMA PortType == ASSUME NEW tree PROVE port(tree) \in Uint16
<1>1. 9696 \in Uint16
  BY DEF Uint16
<1>2. PICK n : n = GetNumber(tree, "general.port", 9696)
  OBVIOUS
<1>3. port(tree) = IF n \in Uint16 THEN n ELSE 9696
  BY <1>2 DEF port
<1> QED
  BY <1>1, <1>3

\* A level is one of eight.
LEMMA LevelType == ASSUME NEW text PROVE text2level(text) \in 0..7
BY DEF text2level, LevelOf

\* The record of a process that has not begun, and of one that is gone.
LEMMA UnbornType ==
  /\ Unborn \in Record
  /\ Unborn.pc = "unborn" /\ Unborn.cwd = "start" /\ Unborn.tree = Unreadable
  /\ Unborn.log = Unset /\ Unborn.settings = Unreadable /\ Unborn.normalize = NoLib
  /\ Unborn.lib_handle_ = NoLib /\ Unborn.bound = NoPort /\ Unborn.handled = FALSE
  /\ Unborn.done_ = FALSE /\ Unborn.stopped = FALSE /\ Unborn.ready = <<>>
  /\ Unborn.thread = [t \in Thread |-> "out"] /\ Unborn.reasons = {}
<1>1. Unset \in Log
  BY DEF Unset, Log, Null, Streams
<1>2. NoPort \in Uint16 /\ <<>> \in Seq({"exit", "config"}) /\ "unborn" \in Labels
  BY DEF NoPort, Uint16, Labels
<1>3. [t \in Thread |-> "out"] \in [Thread -> {"out", "idle", "exit", "config"}]
  OBVIOUS
<1> QED
  BY <1>1, <1>2, <1>3 DEF Unborn, Record

\* A process that is gone has a record as at first, but for its reasons.
LEMMA GoneFields ==
  ASSUME NEW r \in Record
  PROVE  /\ Gone(r) \in Record
         /\ Gone(r).pc = "gone" /\ Gone(r).bound = NoPort /\ Gone(r).normalize = NoLib
         /\ Gone(r).log = Unset /\ Gone(r).stopped = FALSE
         /\ Gone(r).thread = [t \in Thread |-> "out"] /\ Gone(r).reasons = r.reasons
<1>1. "gone" \in Labels /\ r.reasons \in SUBSET {"fork", "port", "file", "signal"}
  BY DEF Labels, Record
<1>2. \A u \in Record : [u EXCEPT !.pc = "gone", !.reasons = r.reasons] \in Record
  BY <1>1 DEF Record
<1>3. \A u \in Record : LET g == [u EXCEPT !.pc = "gone", !.reasons = r.reasons] IN
        g.pc = "gone" /\ g.reasons = r.reasons /\ g.bound = u.bound
  BY DEF Record
<1>4. \A u \in Record : LET g == [u EXCEPT !.pc = "gone", !.reasons = r.reasons] IN
        g.normalize = u.normalize /\ g.log = u.log
  BY DEF Record
<1>5. \A u \in Record : LET g == [u EXCEPT !.pc = "gone", !.reasons = r.reasons] IN
        g.stopped = u.stopped /\ g.thread = u.thread
  BY DEF Record
<1> QED
  BY <1>2, <1>3, <1>4, <1>5, UnbornType DEF Gone

\* A process may go when it has a reason.
LEMMA GoneKeeps ==
  ASSUME NEW r \in Record, r.reasons # {}
  PROVE  Keeps(r, Gone(r))
<1> DEFINE s == Gone(r)
<1>1. /\ s \in Record
      /\ s.pc = "gone" /\ s.bound = NoPort /\ s.normalize = NoLib /\ s.log = Unset
      /\ s.stopped = FALSE /\ s.thread = [t \in Thread |-> "out"] /\ s.reasons = r.reasons
  BY GoneFields
<1> HIDE DEF s
<1>2. LifeInv(s) /\ LibraryInv(s)
  BY <1>1 DEF LifeInv, LibraryInv, Loaded
<1>3. LogInv(s)
  BY <1>1 DEF LogInv, HasLog, HasSettings, HasLibrary, HasPort, Serves, Unset, Null
<1>4. BuiltInv(s)
  BY <1>1 DEF BuiltInv, HasSettings, HasLibrary, HasPort, Serves
<1>5. SafeInv(s, file, config_path)
  BY <1>1 DEF SafeInv
<1>6. Keeps(r, s)
  BY <1>1, <1>2, <1>3, <1>4, <1>5 DEF Keeps, RecordInv
<1> QED
  BY <1>6 DEF s

-----------------------------------------------------------------------------
(* The logger.                                                              *)

\* The fields of a log record after each function of the logger.
LEMMA LogFields ==
  ASSUME NEW l \in Log
  PROVE  /\ \A x \in Streams : LET m == [l EXCEPT !.text_stream_backend = x] IN
              /\ m \in Log /\ m.text_stream_backend = x /\ m.text_stream_sink = l.text_stream_sink
              /\ m.syslog_backend = l.syslog_backend /\ m.syslog_sink = l.syslog_sink
         /\ \A n \in 0..7 : LET m == set_severity_level(l, n) IN
              /\ m \in Log /\ m.text_stream_backend = l.text_stream_backend
              /\ m.text_stream_sink = l.text_stream_sink
              /\ m.syslog_backend = l.syslog_backend /\ m.syslog_sink = l.syslog_sink
         /\ LET m == syslog_sink_init(l) IN
              /\ m \in Log /\ m.text_stream_backend = l.text_stream_backend
              /\ m.text_stream_sink = l.text_stream_sink
              /\ m.syslog_backend = {Syslog} /\ m.syslog_sink = l.syslog_sink
<1>1. ASSUME NEW x \in Streams
      PROVE  LET m == [l EXCEPT !.text_stream_backend = x] IN
             /\ m \in Log /\ m.text_stream_backend = x /\ m.text_stream_sink = l.text_stream_sink
             /\ m.syslog_backend = l.syslog_backend /\ m.syslog_sink = l.syslog_sink
  BY DEF Log
<1>2. ASSUME NEW n \in 0..7
      PROVE  LET m == set_severity_level(l, n) IN
             /\ m \in Log /\ m.text_stream_backend = l.text_stream_backend
             /\ m.text_stream_sink = l.text_stream_sink
             /\ m.syslog_backend = l.syslog_backend /\ m.syslog_sink = l.syslog_sink
  BY DEF Log, set_severity_level
<1>3. LET m == syslog_sink_init(l) IN
      /\ m \in Log /\ m.text_stream_backend = l.text_stream_backend
      /\ m.text_stream_sink = l.text_stream_sink
      /\ m.syslog_backend = {Syslog} /\ m.syslog_sink = l.syslog_sink
  <2>1. PICK one : one = {Syslog}
    OBVIOUS
  <2> QED
    BY <2>1 DEF Log, syslog_sink_init
<1> QED
  BY <1>1, <1>2, <1>3

\* backends_init_start leaves nothing where sinks and backends came together.
LEMMA StartFields ==
  ASSUME NEW l \in Log, l.text_stream_sink = Null => l.text_stream_backend = Null,
         l.syslog_sink = Null => l.syslog_backend = Null
  PROVE  LET m == backends_init_start(l) IN
         /\ m \in Log /\ m.text_stream_backend = Null /\ m.text_stream_sink = Null
         /\ m.syslog_backend = Null /\ m.syslog_sink = Null
BY DEF Log, Streams, Null, backends_init_start

\* backends_init_commit makes a sink of each backend.
LEMMA CommitFields ==
  ASSUME NEW l \in Log, l.text_stream_sink = Null, l.syslog_sink = Null
  PROVE  LET m == backends_init_commit(l) IN
         /\ m \in Log
         /\ m.text_stream_backend = l.text_stream_backend /\ m.syslog_backend = l.syslog_backend
         /\ m.text_stream_sink = l.text_stream_backend /\ m.syslog_sink = l.syslog_backend
BY DEF Log, Streams, Null, backends_init_commit

\* A stream is added to the backend, or makes the first one.
LEMMA StreamFields ==
  ASSUME NEW l \in Log, NEW x \in {Stdout} \cup {File(place) : place \in Writable}
  PROVE  LET m == add_stream(l, x) IN
         /\ m \in Log
         /\ m.text_stream_backend = IF l.text_stream_backend = Null THEN {<<x>>}
                                    ELSE {Append(y, x) : y \in l.text_stream_backend}
         /\ m.text_stream_sink = l.text_stream_sink
         /\ m.syslog_backend = l.syslog_backend /\ m.syslog_sink = l.syslog_sink
<1>1. PICK X : X = {Stdout} \cup {File(place) : place \in Writable}
  OBVIOUS
<1>2. Streams = SUBSET Seq(X) /\ x \in X /\ l.text_stream_backend \in SUBSET Seq(X)
  BY <1>1 DEF Streams, Log
<1>3. PICK z : z = IF l.text_stream_backend = Null THEN {<<x>>}
                   ELSE {Append(y, x) : y \in l.text_stream_backend}
  OBVIOUS
<1>4. z \in Streams
  <2>1. <<x>> \in Seq(X)
    BY <1>2
  <2>2. \A y \in Seq(X) : Append(y, x) \in Seq(X)
    BY <1>2
  <2>3. ASSUME NEW y \in z PROVE y \in Seq(X)
    BY <1>2, <1>3, <2>1, <2>2
  <2> QED
    BY <1>2, <2>3
<1>5. PICK m : m = [l EXCEPT !.text_stream_backend = z]
  OBVIOUS
<1>6. add_stream(l, x) = m
  BY <1>3, <1>5 DEF add_stream
<1>7. /\ m \in Log /\ m.text_stream_backend = z /\ m.text_stream_sink = l.text_stream_sink
      /\ m.syslog_backend = l.syslog_backend /\ m.syslog_sink = l.syslog_sink
  BY <1>4, <1>5, LogFields
<1> QED
  BY <1>3, <1>6, <1>7, Zenon

\* What is committed is written to, once each.
LEMMA InitSinks ==
  ASSUME NEW l \in Log, l.text_stream_backend = Null, l.text_stream_sink = Null,
         l.syslog_backend = Null, l.syslog_sink = Null, NEW tree, NEW cwd
  PROVE  LET m == init_sinks(l, tree, cwd) IN
         /\ m \in Log
         /\ m.text_stream_sink = Null => m.text_stream_backend = Null
         /\ m.syslog_sink = Null => m.syslog_backend = Null
         /\ Destinations(m) = Asked(tree, cwd)
<1> DEFINE place == Place(log_file_path(tree), cwd)
           toFile == is_log_file(tree) /\ place \in Writable
           A == IF is_log_stdout(tree) THEN <<Stdout>> ELSE <<>>
           B == IF toFile THEN <<File(place)>> ELSE <<>>
           C == IF is_log_syslog(tree) THEN <<Syslog>> ELSE <<>>
<1>1. PICK a : a = IF is_log_syslog(tree) THEN syslog_sink_init(l) ELSE l
  OBVIOUS
<1>2. PICK b : b = IF is_log_stdout(tree) THEN stdout_sink_init(a) ELSE a
  OBVIOUS
<1>3. PICK d : d = IF toFile THEN file_sink_init(b, place) ELSE b
  OBVIOUS
<1>4. PICK e : e = set_severity_level(d, log_level(tree))
  OBVIOUS
<1>5. init_sinks(l, tree, cwd) = backends_init_commit(e)
  BY <1>1, <1>2, <1>3, <1>4 DEF init_sinks
<1>6. /\ a \in Log /\ a.text_stream_backend = Null /\ a.text_stream_sink = Null
      /\ a.syslog_backend = IF is_log_syslog(tree) THEN {Syslog} ELSE Null
      /\ a.syslog_sink = Null
  BY <1>1, LogFields
<1>7. /\ b \in Log
      /\ b.text_stream_backend = IF is_log_stdout(tree) THEN {<<Stdout>>} ELSE Null
      /\ b.text_stream_sink = Null /\ b.syslog_backend = a.syslog_backend /\ b.syslog_sink = Null
  BY <1>2, <1>6, StreamFields DEF stdout_sink_init
<1>8. /\ d \in Log
      /\ d.text_stream_backend = IF A \o B = <<>> THEN Null ELSE {A \o B}
      /\ d.text_stream_sink = Null /\ d.syslog_backend = a.syslog_backend /\ d.syslog_sink = Null
  <2>1. CASE ~ toFile
    <3>1. A \o B = A
      <4>1. PICK X : X = {Stdout}
        OBVIOUS
      <4>2. Stdout \in X
        BY <4>1
      <4>3. PICK x : x = Stdout
        OBVIOUS
      <4>4. A \in Seq(X)
        BY <4>2, <4>3
      <4>5. B = <<>>
        BY <2>1
      <4> HIDE DEF A, B
      <4>6. A \o <<>> = A
        BY <4>4, ConcatEmptySeq
      <4> QED
        BY <4>5, <4>6
    <3>2. A = <<>> <=> ~ is_log_stdout(tree)
      OBVIOUS
    <3> QED
      BY <1>3, <1>7, <2>1, <3>1, <3>2
  <2>2. CASE toFile
    <3> HIDE DEF toFile, place
    <3>1. PICK x : x = File(place)
      OBVIOUS
    <3>2. x \in {Stdout} \cup {File(q) : q \in Writable}
      BY <2>2, <3>1 DEF toFile
    <3>3. d = add_stream(b, x)
      BY <1>3, <2>2, <3>1 DEF file_sink_init
    <3>4. A \o B = Append(A, x) /\ A \o B # <<>>
      BY <2>2, <3>1
    <3>5. /\ d \in Log
          /\ d.text_stream_backend = IF b.text_stream_backend = Null THEN {<<x>>}
                                     ELSE {Append(y, x) : y \in b.text_stream_backend}
          /\ d.text_stream_sink = b.text_stream_sink
          /\ d.syslog_backend = b.syslog_backend /\ d.syslog_sink = b.syslog_sink
      BY <1>7, <3>2, <3>3, StreamFields
    <3>6. d.text_stream_backend = {Append(A, x)}
      <4>1. CASE is_log_stdout(tree)
        BY <1>7, <3>5, <4>1 DEF Null
      <4>2. CASE ~ is_log_stdout(tree)
        BY <1>7, <3>5, <4>2 DEF Null
      <4> QED
        BY <4>1, <4>2
    <3> QED
      BY <1>7, <3>4, <3>5, <3>6
  <2> QED
    BY <2>1, <2>2
<1> HIDE DEF A, B, toFile, place
<1>9. /\ e \in Log
      /\ e.text_stream_backend = d.text_stream_backend /\ e.text_stream_sink = Null
      /\ e.syslog_backend = a.syslog_backend /\ e.syslog_sink = Null
  BY <1>4, <1>8, LogFields, LevelType DEF log_level
<1>10. PICK m : m = init_sinks(l, tree, cwd)
  OBVIOUS
<1>11. /\ m \in Log
       /\ m.text_stream_backend = e.text_stream_backend /\ m.syslog_backend = e.syslog_backend
       /\ m.text_stream_sink = e.text_stream_backend /\ m.syslog_sink = e.syslog_backend
  BY <1>5, <1>9, <1>10, CommitFields
<1>12. m.text_stream_sink = (IF A \o B = <<>> THEN Null ELSE {A \o B})
       /\ m.syslog_sink = (IF is_log_syslog(tree) THEN {Syslog} ELSE Null)
  BY <1>6, <1>8, <1>9, <1>11
<1>13. (IF m.text_stream_sink = Null THEN <<>> ELSE CHOOSE x \in m.text_stream_sink : TRUE) = A \o B
  BY <1>12 DEF Null
<1>14. (IF m.syslog_sink = Null THEN <<>> ELSE <<Syslog>>) = C
  BY <1>12 DEF Null
<1>15. Destinations(m) = (A \o B) \o C
  BY <1>13, <1>14 DEF Destinations
<1>16. Asked(tree, cwd) = (A \o B) \o C
  BY DEF Asked, A, B, toFile, place
<1> QED
  BY <1>10, <1>11, <1>15, <1>16

-----------------------------------------------------------------------------
(* The steps of a process, up to the reset.                                 *)

\* Goto changes the place of the main thread only.
LEMMA GotoFields ==
  ASSUME NEW r \in Record, NEW x \in Labels
  PROVE  LET s == Goto(r, x) IN
         /\ s \in Record /\ s.pc = x /\ s.reasons = r.reasons
         /\ SameSetup(r, s) /\ SameLibraries(r, s) /\ SameServer(r, s) /\ SamePool(r, s)
<1>1. PICK s : s = Goto(r, x)
  OBVIOUS
<1>2. s \in Record /\ s.pc = x /\ s.reasons = r.reasons
  BY <1>1 DEF Record, Goto
<1>3. SameSetup(r, s) /\ SameServer(r, s)
  BY <1>1 DEF Record, Goto, SameSetup, SameServer
<1>4. SameLibraries(r, s)
  BY <1>1 DEF Record, Goto, SameLibraries
<1>5. SamePool(r, s)
  BY <1>1 DEF Record, Goto, SamePool
<1> QED
  BY <1>1, <1>2, <1>3, <1>4, <1>5, Zenon

\* The labels of the steps.
LEMMA LabelNames ==
  /\ {"unborn", "args", "load", "log", "sinks", "fork", "detach", "reset"} \subseteq Labels
  /\ {"storage", "filler", "bind", "signals", "run", "serve", "down", "gone"} \subseteq Labels
BY DEF Labels

\* Libraries that stay as they are.
LEMMA LibrariesKept ==
  ASSUME NEW r, NEW s, SameLibraries(r, s), LibraryInv(r)
  PROVE  LibraryInv(s)
BY DEF SameLibraries, LibraryInv

\* A pool that stays as it is.
LEMMA CalmKept ==
  ASSUME NEW r, NEW s, SamePool(r, s), Calm(r, config_path)
  PROVE  Calm(s, config_path)
BY DEF SamePool, Calm

\* Threads that do not run stay as they are.
LEMMA ThreadsKept ==
  ASSUME NEW r, NEW s, SamePool(r, s), LifeInv(r), r.pc # "serve"
  PROVE  \A t \in Thread : s.thread[t] = "out"
BY DEF SamePool, LifeInv

\* A process that goes on stays safe if the tree and the library do.
LEMMA SafeKept ==
  ASSUME NEW r, NEW s, SafeInv(r, file, config_path), SamePool(r, s), s.reasons = r.reasons,
         r.pc # "unborn", s.pc \notin {"gone", "down"},
         IsGood(file) /\ (Loaded(r) => IsGood(r.tree)) => (Loaded(s) => IsGood(s.tree)),
         r.reasons = {} /\ s.pc \in {"bind", "signals", "run", "serve"} => s.lib_handle_ # NoLib
  PROVE  SafeInv(s, file, config_path)
<1>1. Calm(r, config_path) => Calm(s, config_path)
  BY CalmKept
<1>2. s.done_ = r.done_
  BY DEF SamePool
<1> QED
  BY <1>1, <1>2 DEF SafeInv

\* What has to be said of a step that leaves the pool alone.
LEMMA AdvanceKeeps ==
  ASSUME NEW r, NEW s \in Record, RecordInv(r, file, config_path),
         SamePool(r, s), s.reasons = r.reasons, r.pc \notin {"unborn", "serve"},
         s.pc \notin {"unborn", "gone", "down", "run", "serve"},
         s.pc \in {"storage", "filler", "bind"} => s.bound = NoPort,
         s.pc \in {"storage", "filler"} => s.lib_handle_ = NoLib,
         s.pc \in {"args", "load"} => s.cwd = "start",
         Loaded(s) => s.tree # Unreadable,
         IsGood(file) /\ (Loaded(r) => IsGood(r.tree)) => (Loaded(s) => IsGood(s.tree)),
         r.reasons = {} /\ s.pc \in {"bind", "signals"} => s.lib_handle_ # NoLib,
         LibraryInv(s), LogInv(s), BuiltInv(s)
  PROVE  Keeps(r, s)
<1>1. LifeInv(s)
  BY ThreadsKept DEF RecordInv, LifeInv
<1>2. SafeInv(s, file, config_path)
  BY SafeKept DEF RecordInv
<1> QED
  BY <1>1, <1>2 DEF Keeps, RecordInv

\* Before there is a log to speak of, or a server, nothing is claimed of them.
LEMMA EarlyKept ==
  ASSUME NEW r, NEW s, LogInv(r), s.log = r.log, s.pc \in {"load", "log"}
  PROVE  LogInv(s) /\ BuiltInv(s)
BY DEF LogInv, BuiltInv, HasLog, HasSettings, HasLibrary, HasPort, Serves

\* The command line is read.
LEMMA ArgsKeeps ==
  ASSUME NEW r \in Record, RecordInv(r, file, config_path), r.pc = "args",
         NEW s, s = IF config_path = "" THEN Gone(r) ELSE Goto(r, "load")
  PROVE  Keeps(r, s)
<1>1. CASE config_path = ""
  <2>1. r.reasons # {}
    BY <1>1 DEF RecordInv, SafeInv
  <2> QED
    BY <1>1, <2>1, GoneKeeps
<1>2. CASE config_path # ""
  <2>1. /\ s \in Record /\ s.pc = "load" /\ s.reasons = r.reasons
        /\ SameSetup(r, s) /\ SameLibraries(r, s) /\ SameServer(r, s) /\ SamePool(r, s)
    BY <1>2, GotoFields, LabelNames
  <2>2. s.cwd = "start" /\ s.log = r.log
    BY <2>1 DEF RecordInv, LifeInv, SameSetup
  <2>3. LogInv(s) /\ BuiltInv(s)
    BY <2>1, <2>2, EarlyKept DEF RecordInv
  <2>4. LibraryInv(s)
    BY <2>1, LibrariesKept DEF RecordInv
  <2>5. ~ Loaded(s)
    BY <2>1 DEF Loaded
  <2> QED
    BY <2>1, <2>2, <2>3, <2>4, <2>5, AdvanceKeeps
<1> QED
  BY <1>1, <1>2

\* What a change of the tree leaves alone.
LEMMA SetTree ==
  ASSUME NEW r \in Record, NEW x \in Contents \cup {Unreadable},
         NEW s, s = WithTree(r, x)
  PROVE  /\ s \in Record /\ s.pc = r.pc /\ s.cwd = r.cwd /\ s.tree = x /\ s.log = r.log
         /\ s.reasons = r.reasons
         /\ SameLibraries(r, s) /\ SameServer(r, s) /\ SamePool(r, s)
<1>1. s \in Record /\ s.pc = r.pc /\ s.cwd = r.cwd /\ s.tree = x
  BY DEF Record, WithTree
<1>2. s.log = r.log /\ s.reasons = r.reasons /\ SameServer(r, s)
  BY DEF Record, SameServer, WithTree
<1>3. SameLibraries(r, s)
  BY DEF Record, SameLibraries, WithTree
<1>4. SamePool(r, s)
  BY DEF Record, SamePool, WithTree
<1> QED
  BY <1>1, <1>2, <1>3, <1>4, Zenon

\* The configuration is read.
LEMMA LoadKeeps ==
  ASSUME NEW r \in Record, RecordInv(r, file, config_path), r.pc = "load", file \in Contents,
         NEW s, s = IF CanRead(r) THEN WithTree(Goto(r, "log"), file) ELSE Gone(r)
  PROVE  Keeps(r, s)
<1>1. CASE ~ CanRead(r)
  <2>1. r.reasons # {}
    BY <1>1 DEF RecordInv, SafeInv, LifeInv, CanRead, IsGood
  <2> QED
    BY <1>1, <2>1, GoneKeeps
<1>2. CASE CanRead(r)
  <2>1. PICK u : u = Goto(r, "log")
    OBVIOUS
  <2>2. /\ u \in Record /\ u.pc = "log" /\ u.reasons = r.reasons
        /\ SameSetup(r, u) /\ SameLibraries(r, u) /\ SameServer(r, u) /\ SamePool(r, u)
    BY <2>1, GotoFields, LabelNames
  <2>3. s = WithTree(u, file)
    BY <1>2, <2>1
  <2>4. file \in Contents \cup {Unreadable} /\ file # Unreadable
    BY <1>2 DEF CanRead
  <2>5. /\ s \in Record /\ s.pc = u.pc /\ s.cwd = u.cwd /\ s.tree = file /\ s.log = u.log
        /\ s.reasons = u.reasons
        /\ SameLibraries(u, s) /\ SameServer(u, s) /\ SamePool(u, s)
    BY <2>2, <2>3, <2>4, SetTree
  <2>6. SameLibraries(r, s) /\ SamePool(r, s)
    BY <2>2, <2>5 DEF SameLibraries, SamePool
  <2>7. s.pc = "log" /\ s.log = r.log /\ s.reasons = r.reasons
    BY <2>2, <2>5 DEF SameSetup
  <2>8. LibraryInv(s)
    BY <2>6, LibrariesKept DEF RecordInv
  <2>9. LogInv(s) /\ BuiltInv(s)
    BY <2>7, EarlyKept DEF RecordInv
  <2> QED
    BY <2>4, <2>5, <2>6, <2>7, <2>8, <2>9, AdvanceKeeps
<1> QED
  BY <1>1, <1>2

\* What a change of the log leaves alone.
LEMMA SetLog ==
  ASSUME NEW r \in Record, NEW x \in Log, NEW s, s = WithLog(r, x)
  PROVE  /\ s \in Record /\ s.pc = r.pc /\ s.cwd = r.cwd /\ s.tree = r.tree /\ s.log = x
         /\ s.reasons = r.reasons
         /\ SameLibraries(r, s) /\ SameServer(r, s) /\ SamePool(r, s)
<1>1. s \in Record /\ s.pc = r.pc /\ s.cwd = r.cwd /\ s.tree = r.tree
  BY DEF Record, WithLog
<1>2. s.log = x /\ s.reasons = r.reasons /\ SameServer(r, s)
  BY DEF Record, SameServer, WithLog
<1>3. SameLibraries(r, s)
  BY DEF Record, SameLibraries, WithLog
<1>4. SamePool(r, s)
  BY DEF Record, SamePool, WithLog
<1> QED
  BY <1>1, <1>2, <1>3, <1>4, Zenon

\* A step of the logger: a new log, and a new place.
LEMMA LogStep ==
  ASSUME NEW r \in Record, NEW x \in Log, NEW y \in Labels, NEW s, s = WithLog(Goto(r, y), x)
  PROVE  /\ s \in Record /\ s.pc = y /\ s.cwd = r.cwd /\ s.tree = r.tree /\ s.log = x
         /\ s.reasons = r.reasons
         /\ SameLibraries(r, s) /\ SameServer(r, s) /\ SamePool(r, s)
<1>1. PICK u : u = Goto(r, y)
  OBVIOUS
<1>2. /\ u \in Record /\ u.pc = y /\ u.reasons = r.reasons
      /\ SameSetup(r, u) /\ SameLibraries(r, u) /\ SameServer(r, u) /\ SamePool(r, u)
  BY <1>1, GotoFields
<1>3. /\ s \in Record /\ s.pc = u.pc /\ s.cwd = u.cwd /\ s.tree = u.tree /\ s.log = x
      /\ s.reasons = u.reasons
      /\ SameLibraries(u, s) /\ SameServer(u, s) /\ SamePool(u, s)
  BY <1>1, <1>2, SetLog
<1>4. SameLibraries(r, s)
  BY <1>2, <1>3 DEF SameLibraries
<1>5. SameServer(r, s) /\ SamePool(r, s)
  BY <1>2, <1>3 DEF SameServer, SamePool
<1> QED
  BY <1>2, <1>3, <1>4, <1>5 DEF SameSetup

\* init_logger drops what there was.
LEMMA BeginLogKeeps ==
  ASSUME NEW r \in Record, RecordInv(r, file, config_path), r.pc = "log",
         NEW s, s = WithLog(Goto(r, "sinks"), backends_init_start(r.log))
  PROVE  Keeps(r, s)
<1>1. PICK l : l = r.log
  OBVIOUS
<1>2. /\ l \in Log
      /\ l.text_stream_sink = Null => l.text_stream_backend = Null
      /\ l.syslog_sink = Null => l.syslog_backend = Null
  BY <1>1 DEF Record, RecordInv, LogInv
<1>3. PICK x : x = backends_init_start(l)
  OBVIOUS
<1>4. /\ x \in Log /\ x.text_stream_backend = Null /\ x.text_stream_sink = Null
      /\ x.syslog_backend = Null /\ x.syslog_sink = Null
  BY <1>2, <1>3, StartFields
<1>5. s = WithLog(Goto(r, "sinks"), x) /\ "sinks" \in Labels
  BY <1>1, <1>3, LabelNames
<1>6. /\ s \in Record /\ s.pc = "sinks" /\ s.cwd = r.cwd /\ s.tree = r.tree /\ s.log = x
      /\ s.reasons = r.reasons
      /\ SameLibraries(r, s) /\ SameServer(r, s) /\ SamePool(r, s)
  BY <1>4, <1>5, LogStep
<1>7. LogInv(s) /\ BuiltInv(s)
  BY <1>4, <1>6 DEF LogInv, BuiltInv, HasLog, HasSettings, HasLibrary, HasPort, Serves
<1>8. LibraryInv(s)
  BY <1>6, LibrariesKept DEF RecordInv
<1>9. r.tree # Unreadable /\ Loaded(r)
  BY DEF RecordInv, LifeInv, Loaded
<1> QED
  BY <1>6, <1>7, <1>8, <1>9, AdvanceKeeps

\* init_logger makes what the tree asks for.
LEMMA CommitLogKeeps ==
  ASSUME NEW r \in Record, RecordInv(r, file, config_path), r.pc = "sinks",
         NEW y, y \in {"reset", "fork"},
         NEW s, s = WithLog(Goto(r, y), init_sinks(r.log, r.tree, r.cwd))
  PROVE  Keeps(r, s)
<1>1. PICK l : l = r.log
  OBVIOUS
<1>2. l \in Log
  BY <1>1 DEF Record
<1>3. /\ l.text_stream_sink = Null /\ l.syslog_sink = Null
      /\ l.text_stream_backend = Null /\ l.syslog_backend = Null
  BY <1>1 DEF RecordInv, LogInv
<1>4. PICK x : x = init_sinks(l, r.tree, r.cwd)
  OBVIOUS
<1>5. /\ x \in Log
      /\ x.text_stream_sink = Null => x.text_stream_backend = Null
      /\ x.syslog_sink = Null => x.syslog_backend = Null
      /\ Destinations(x) = Asked(r.tree, r.cwd)
  BY <1>2, <1>3, <1>4, InitSinks
<1>6. s = WithLog(Goto(r, y), x) /\ y \in Labels
  BY <1>1, <1>4, LabelNames
<1>7. /\ s \in Record /\ s.pc = y /\ s.cwd = r.cwd /\ s.tree = r.tree /\ s.log = x
      /\ s.reasons = r.reasons
      /\ SameLibraries(r, s) /\ SameServer(r, s) /\ SamePool(r, s)
  BY <1>5, <1>6, LogStep
<1>8. LogInv(s)
  <2>1. r.cwd \in {"start", "/"}
    BY DEF Record
  <2>2. \E cwd \in {"start", "/"} : Destinations(s.log) = Asked(s.tree, cwd)
    BY <1>5, <1>7, <2>1
  <2> QED
    BY <1>5, <1>7, <2>2 DEF LogInv
<1>9. BuiltInv(s)
  BY <1>7 DEF BuiltInv, HasSettings, HasLibrary, HasPort, Serves
<1>10. LibraryInv(s)
  BY <1>7, LibrariesKept DEF RecordInv
<1>11. r.tree # Unreadable /\ Loaded(r)
  BY DEF RecordInv, LifeInv, Loaded
<1> QED
  BY <1>7, <1>8, <1>9, <1>10, <1>11, AdvanceKeeps

\* The log stays what it was made.
LEMMA LogKept ==
  ASSUME NEW r, NEW s, LogInv(r), s.log = r.log, s.tree = r.tree, s.pc # "sinks",
         HasLog(s) => HasLog(r)
  PROVE  LogInv(s)
BY DEF LogInv

\* The first fork.
LEMMA ForkKeeps ==
  ASSUME NEW r \in Record, RecordInv(r, file, config_path), r.pc = "fork",
         NEW s, s = Goto(r, "detach")
  PROVE  Keeps(r, s)
<1>1. /\ s \in Record /\ s.pc = "detach" /\ s.reasons = r.reasons
      /\ SameSetup(r, s) /\ SameLibraries(r, s) /\ SameServer(r, s) /\ SamePool(r, s)
  BY GotoFields, LabelNames
<1>2. s.log = r.log /\ s.tree = r.tree
  BY <1>1 DEF SameSetup
<1>3. LogInv(s)
  BY <1>1, <1>2, LogKept DEF RecordInv, HasLog
<1>4. BuiltInv(s)
  BY <1>1 DEF BuiltInv, HasSettings, HasLibrary, HasPort, Serves
<1>5. LibraryInv(s)
  BY <1>1, LibrariesKept DEF RecordInv
<1>6. r.tree # Unreadable /\ Loaded(r)
  BY DEF RecordInv, LifeInv, Loaded
<1> QED
  BY <1>1, <1>2, <1>3, <1>4, <1>5, <1>6, AdvanceKeeps

\* What a change of the directory leaves alone.
LEMMA SetCwd ==
  ASSUME NEW r \in Record, NEW s, s = WithCwd(r, "/")
  PROVE  /\ s \in Record /\ s.pc = r.pc /\ s.tree = r.tree /\ s.log = r.log
         /\ s.reasons = r.reasons /\ SameLibraries(r, s) /\ SamePool(r, s)
<1>1. s \in Record
  BY DEF Record, WithCwd
<1>2. s.pc = r.pc /\ s.tree = r.tree /\ s.log = r.log /\ s.reasons = r.reasons
  BY DEF Record, WithCwd
<1>3. SameLibraries(r, s)
  BY DEF Record, WithCwd, SameLibraries
<1>4. SamePool(r, s)
  BY DEF Record, WithCwd, SamePool
<1> QED
  BY <1>1, <1>2, <1>3, <1>4

\* The second fork, and the change of the directory.
LEMMA DetachKeeps ==
  ASSUME NEW r \in Record, RecordInv(r, file, config_path), r.pc = "detach",
         NEW s, s = WithCwd(Goto(r, "reset"), "/")
  PROVE  Keeps(r, s)
<1>1. PICK u : u = Goto(r, "reset")
  OBVIOUS
<1>2. /\ u \in Record /\ u.pc = "reset" /\ u.reasons = r.reasons
      /\ SameSetup(r, u) /\ SameLibraries(r, u) /\ SameServer(r, u) /\ SamePool(r, u)
  <2>1. "reset" \in Labels
    BY LabelNames
  <2> QED
    BY <1>1, <2>1, GotoFields
<1>3. /\ s \in Record /\ s.pc = u.pc /\ s.tree = u.tree /\ s.log = u.log
      /\ s.reasons = u.reasons /\ SameLibraries(u, s) /\ SamePool(u, s)
  BY <1>1, <1>2, SetCwd
<1>4. SamePool(r, s) /\ SameLibraries(r, s)
  BY <1>2, <1>3 DEF SamePool, SameLibraries
<1>5. s.log = r.log /\ s.tree = r.tree
  BY <1>2, <1>3 DEF SameSetup
<1>6. LogInv(s)
  BY <1>2, <1>3, <1>5, LogKept DEF RecordInv, HasLog
<1>7. BuiltInv(s)
  BY <1>2, <1>3 DEF BuiltInv, HasSettings, HasLibrary, HasPort, Serves
<1>8. LibraryInv(s)
  BY <1>4, LibrariesKept DEF RecordInv
<1>9. r.tree # Unreadable /\ Loaded(r)
  BY DEF RecordInv, LifeInv, Loaded
<1> QED
  BY <1>2, <1>3, <1>4, <1>5, <1>6, <1>7, <1>8, <1>9, AdvanceKeeps

-----------------------------------------------------------------------------

(* The steps of create_server.                                              *)

\* The filler closes its library, and the acceptor the port.
LEMMA ResetFields ==
  ASSUME NEW r \in Record, NEW s, s = reset_server(r)
  PROVE  /\ s \in Record /\ s.pc = r.pc /\ s.reasons = r.reasons
         /\ s.lib_handle_ = NoLib /\ s.bound = NoPort /\ s.normalize = r.normalize
         /\ s.maps = r.maps /\ SameSetup(r, s) /\ SamePool(r, s)
<1>1. NoPort \in Uint16
  BY DEF NoPort, Uint16
<1>2. s \in Record
  BY <1>1 DEF Record, reset_server
<1>3. s.pc = r.pc /\ s.reasons = r.reasons /\ s.lib_handle_ = NoLib /\ s.bound = NoPort
  BY DEF Record, reset_server
<1>4. s.normalize = r.normalize /\ s.maps = r.maps /\ SameSetup(r, s)
  BY DEF Record, reset_server, SameSetup
<1>5. SamePool(r, s)
  BY DEF Record, reset_server, SamePool
<1> QED
  BY <1>2, <1>3, <1>4, <1>5

\* The server that was is deleted.
LEMMA ResetKeeps ==
  ASSUME NEW r \in Record, RecordInv(r, file, config_path), r.pc = "reset",
         NEW s, s = Goto(reset_server(r), "storage")
  PROVE  Keeps(r, s)
<1>1. PICK u : u = reset_server(r)
  OBVIOUS
<1>2. /\ u \in Record /\ u.reasons = r.reasons
      /\ u.lib_handle_ = NoLib /\ u.bound = NoPort /\ u.normalize = r.normalize
      /\ u.maps = r.maps /\ SameSetup(r, u) /\ SamePool(r, u)
  BY <1>1, ResetFields
<1>3. /\ s \in Record /\ s.pc = "storage" /\ s.reasons = u.reasons
      /\ SameSetup(u, s) /\ SameLibraries(u, s) /\ SameServer(u, s) /\ SamePool(u, s)
  <2>1. "storage" \in Labels
    BY LabelNames
  <2> QED
    BY <1>1, <1>2, <2>1, GotoFields
<1>4. SamePool(r, s)
  BY <1>2, <1>3 DEF SamePool
<1>5. s.log = r.log /\ s.tree = r.tree
  BY <1>2, <1>3 DEF SameSetup
<1>6. /\ s.lib_handle_ = NoLib /\ s.bound = NoPort
      /\ s.normalize = r.normalize /\ s.maps = r.maps
  BY <1>2, <1>3 DEF SameLibraries, SameServer
<1>7. LogInv(s)
  BY <1>3, <1>5, LogKept DEF RecordInv, HasLog
<1>8. BuiltInv(s)
  BY <1>3 DEF BuiltInv, HasSettings, HasLibrary, HasPort, Serves
<1>9. LibraryInv(s)
  BY <1>6 DEF RecordInv, LibraryInv
<1>10. r.tree # Unreadable /\ Loaded(r)
  BY DEF RecordInv, LifeInv, Loaded
<1>11. s.pc \notin {"unborn", "gone", "down", "run", "serve", "args", "load", "bind", "signals"}
  BY <1>3
<1>12. s \in Record /\ s.reasons = r.reasons
  BY <1>2, <1>3
<1> QED
  BY <1>4, <1>5, <1>6, <1>7, <1>8, <1>9, <1>10, <1>11, <1>12, AdvanceKeeps

\* A process may be taken down when it has a reason.
LEMMA DownKeeps ==
  ASSUME NEW r \in Record, RecordInv(r, file, config_path), r.reasons # {},
         r.pc \in {"storage", "bind"}, NEW s, s = Goto(r, "down")
  PROVE  Keeps(r, s)
<1>1. /\ s \in Record /\ s.pc = "down" /\ s.reasons = r.reasons
      /\ SameSetup(r, s) /\ SameLibraries(r, s) /\ SameServer(r, s) /\ SamePool(r, s)
  <2>1. "down" \in Labels
    BY LabelNames
  <2> QED
    BY <2>1, GotoFields
<1>2. s.tree # Unreadable /\ s.log = r.log
  BY <1>1 DEF RecordInv, LifeInv, Loaded, SameSetup
<1>3. LifeInv(s)
  <2>1. \A t \in Thread : s.thread[t] = "out"
    BY <1>1, ThreadsKept DEF RecordInv
  <2> QED
    BY <1>1, <1>2, <2>1 DEF LifeInv
<1>4. LibraryInv(s)
  BY <1>1, LibrariesKept DEF RecordInv
<1>5. LogInv(s)
  BY <1>1, <1>2 DEF RecordInv, LogInv, HasLog, HasSettings, HasLibrary, HasPort, Serves
<1>6. BuiltInv(s)
  BY <1>1 DEF BuiltInv, HasSettings, HasLibrary, HasPort, Serves
<1>7. SafeInv(s, file, config_path)
  BY <1>1 DEF SafeInv
<1> QED
  BY <1>1, <1>3, <1>4, <1>5, <1>6, <1>7 DEF Keeps, RecordInv

\* What a change of the settings leaves alone.
LEMMA SetSettings ==
  ASSUME NEW r \in Record, NEW x \in Built \cup {Unreadable}, NEW s, s = WithSettings(r, x)
  PROVE  /\ s \in Record /\ s.pc = r.pc /\ s.settings = x /\ s.bound = r.bound
         /\ s.reasons = r.reasons
         /\ SameSetup(r, s) /\ SameLibraries(r, s) /\ SamePool(r, s)
<1>1. s \in Record
  BY DEF Record, WithSettings
<1>2. s.pc = r.pc /\ s.settings = x /\ s.bound = r.bound /\ s.reasons = r.reasons
  BY DEF Record, WithSettings
<1>3. SameSetup(r, s)
  BY DEF Record, WithSettings, SameSetup
<1>4. SameLibraries(r, s)
  BY DEF Record, WithSettings, SameLibraries
<1>5. SamePool(r, s)
  BY DEF Record, WithSettings, SamePool
<1> QED
  BY <1>1, <1>2, <1>3, <1>4, <1>5

\* A record with other libraries of its maps is a record.
LEMMA MapType ==
  ASSUME NEW r \in Record, NEW m \in SUBSET DOMAIN Exports, NEW n \in DOMAIN Exports \cup {NoLib}
  PROVE  WithLibraries(r, m, n) \in Record
BY DEF Record, WithLibraries

\* What a look-up of the functions of a map leaves alone.
LEMMA SetMap ==
  ASSUME NEW r \in Record, NEW lib \in DOMAIN Exports, NEW s, s = WithMap(r, lib)
  PROVE  /\ s \in Record /\ s.pc = r.pc /\ s.maps = r.maps \cup {lib}
         /\ s.normalize = (IF r.normalize = NoLib THEN lib ELSE r.normalize)
         /\ s.lib_handle_ = r.lib_handle_ /\ s.reasons = r.reasons
         /\ SameSetup(r, s) /\ SameServer(r, s) /\ SamePool(r, s)
<1>1. s \in Record
  <2>1. PICK m : m = r.maps \cup {lib}
    OBVIOUS
  <2>2. PICK n : n = IF r.normalize = NoLib THEN lib ELSE r.normalize
    OBVIOUS
  <2>3. m \in SUBSET DOMAIN Exports /\ n \in DOMAIN Exports \cup {NoLib}
    BY <2>1, <2>2 DEF Record
  <2>4. s = WithLibraries(r, m, n)
    BY <2>1, <2>2 DEF WithMap, WithLibraries
  <2> QED
    BY <2>3, <2>4, MapType
<1>2. s.pc = r.pc /\ s.maps = r.maps \cup {lib}
  BY DEF Record, WithMap
<1>3. s.normalize = (IF r.normalize = NoLib THEN lib ELSE r.normalize)
  BY DEF Record, WithMap
<1>4. s.lib_handle_ = r.lib_handle_ /\ s.reasons = r.reasons
  BY DEF Record, WithMap
<1>5. SameSetup(r, s) /\ SameServer(r, s)
  BY DEF Record, WithMap, SameSetup, SameServer
<1>6. SamePool(r, s)
  BY DEF Record, WithMap, SamePool
<1> QED
  BY <1>1, <1>2, <1>3, <1>4, <1>5, <1>6

\* What a change of the filler's library leaves alone.
LEMMA SetLibrary ==
  ASSUME NEW r \in Record, NEW lib \in DOMAIN Exports, NEW s, s = WithLibrary(r, lib)
  PROVE  /\ s \in Record /\ s.pc = r.pc /\ s.lib_handle_ = lib /\ s.normalize = r.normalize
         /\ s.maps = r.maps /\ s.reasons = r.reasons
         /\ SameSetup(r, s) /\ SameServer(r, s) /\ SamePool(r, s)
<1>1. s \in Record
  BY DEF Record, WithLibrary
<1>2. s.pc = r.pc /\ s.lib_handle_ = lib /\ s.normalize = r.normalize
  BY DEF Record, WithLibrary
<1>3. s.maps = r.maps /\ s.reasons = r.reasons
  BY DEF Record, WithLibrary
<1>4. SameSetup(r, s) /\ SameServer(r, s)
  BY DEF Record, WithLibrary, SameSetup, SameServer
<1>5. SamePool(r, s)
  BY DEF Record, WithLibrary, SamePool
<1> QED
  BY <1>1, <1>2, <1>3, <1>4, <1>5

\* What a change of the port leaves alone.
LEMMA SetPort ==
  ASSUME NEW r \in Record, NEW x \in Uint16, NEW s, s = WithPort(r, x)
  PROVE  /\ s \in Record /\ s.pc = r.pc /\ s.bound = x /\ s.settings = r.settings
         /\ s.reasons = r.reasons
         /\ SameSetup(r, s) /\ SameLibraries(r, s) /\ SamePool(r, s)
<1>1. s \in Record
  BY DEF Record, WithPort
<1>2. s.pc = r.pc /\ s.bound = x /\ s.settings = r.settings /\ s.reasons = r.reasons
  BY DEF Record, WithPort
<1>3. SameSetup(r, s)
  BY DEF Record, WithPort, SameSetup
<1>4. SameLibraries(r, s)
  BY DEF Record, WithPort, SameLibraries
<1>5. SamePool(r, s)
  BY DEF Record, WithPort, SamePool
<1> QED
  BY <1>1, <1>2, <1>3, <1>4, <1>5

\* The library of a good configuration has what the map and the filler look up.
LEMMA GoodLibrary ==
  ASSUME NEW tree, IsGood(tree)
  PROVE  /\ HasFiller(tree) /\ filler(tree) \in DOMAIN Exports
         /\ filler(tree) # "" /\ filler_function(tree) # ""
         /\ {"custom_hash", "normalize_key"} \subseteq Exports[filler(tree)]
         /\ {filler_function(tree), "is_filler_alive"} \subseteq Exports[filler(tree)]
<1>1. PICK lib : lib = filler(tree)
  OBVIOUS
<1>2. PICK function : function = filler_function(tree)
  OBVIOUS
<1>3. /\ HasFiller(tree) /\ lib \in DOMAIN Exports
      /\ {"custom_hash", "normalize_key", "is_filler_alive", function} \subseteq Exports[lib]
  BY <1>1, <1>2 DEF IsGood, IsUsable
<1>4. lib # "" /\ function # ""
  BY <1>3, ExportsAssumption
<1> QED
  BY <1>1, <1>2, <1>3, <1>4

\* Nothing is claimed of what the map needs but that it was built from the tree.
LEMMA FillerKeeps ==
  ASSUME NEW r, NEW s \in Record, RecordInv(r, file, config_path), r.pc = "storage",
         s.pc = "filler", s.settings = Settings(s.tree), s.bound = r.bound,
         s.lib_handle_ = r.lib_handle_, s.reasons = r.reasons,
         SameSetup(r, s), SamePool(r, s), LibraryInv(s)
  PROVE  Keeps(r, s)
<1>1. s.log = r.log /\ s.tree = r.tree
  BY DEF SameSetup
<1>2. LogInv(s)
  BY <1>1, LogKept DEF RecordInv, HasLog
<1>3. BuiltInv(s)
  BY DEF BuiltInv, HasLibrary, HasPort, Serves
<1>4. r.tree # Unreadable /\ Loaded(r) /\ r.bound = NoPort /\ r.lib_handle_ = NoLib
  BY DEF RecordInv, LifeInv, Loaded
<1>5. s.pc \notin {"unborn", "gone", "down", "run", "serve", "args", "load", "bind", "signals"}
  OBVIOUS
<1> QED
  BY <1>1, <1>2, <1>3, <1>4, <1>5, AdvanceKeeps

\* The storage is made.
LEMMA MakeStorageKeeps ==
  ASSUME NEW r \in Record, RecordInv(r, file, config_path), r.pc = "storage",
         NEW u, u = WithSettings(r, Settings(r.tree)),
         NEW s, s = IF HasFiller(r.tree) THEN configure_func(u, filler(r.tree))
                                         ELSE Goto(r, "down")
  PROVE  Keeps(r, s)
<1>1. r.reasons = {} => IsGood(r.tree)
  BY DEF RecordInv, SafeInv, Loaded
<1>2. CASE ~ HasFiller(r.tree)
  <2>1. r.reasons # {} /\ s = Goto(r, "down")
    BY <1>1, <1>2, GoodLibrary
  <2> QED
    BY <2>1, DownKeeps
<1>3. ASSUME HasFiller(r.tree) PROVE Settings(r.tree) \in Built
  <2>1. r.tree \in Contents \ {Unreadable}
    BY DEF Record, RecordInv, LifeInv, Loaded
  <2> QED
    BY <1>3, <2>1 DEF Built
<1>4. ASSUME HasFiller(r.tree)
      PROVE  /\ u \in Record /\ u.pc = r.pc /\ u.settings = Settings(r.tree) /\ u.bound = r.bound
             /\ u.reasons = r.reasons
             /\ SameSetup(r, u) /\ SameLibraries(r, u) /\ SamePool(r, u)
  <2>1. PICK x : x = Settings(r.tree)
    OBVIOUS
  <2>2. x \in Built \cup {Unreadable} /\ u = WithSettings(r, x)
    BY <1>3, <1>4, <2>1
  <2>3. /\ u \in Record /\ u.pc = r.pc /\ u.settings = x /\ u.bound = r.bound
        /\ u.reasons = r.reasons
        /\ SameSetup(r, u) /\ SameLibraries(r, u) /\ SamePool(r, u)
    BY <2>2, SetSettings
  <2> QED
    BY <2>1, <2>3
<1>5. CASE HasFiller(r.tree) /\ s = Gone(u) /\ r.reasons # {}
  <2>1. Keeps(u, s)
    BY <1>4, <1>5, GoneKeeps
  <2> QED
    BY <1>4, <1>5, <2>1 DEF Keeps
<1>6. PICK v : v = Goto(u, "filler")
  OBVIOUS
<1>0. PICK lib : lib = filler(r.tree)
  OBVIOUS
<1>7. ASSUME HasFiller(r.tree)
      PROVE  /\ v \in Record /\ v.pc = "filler" /\ v.reasons = r.reasons
             /\ v.settings = Settings(v.tree) /\ v.bound = r.bound
             /\ SameSetup(r, v) /\ SameLibraries(r, v) /\ SamePool(r, v)
  <2>1. "filler" \in Labels
    BY LabelNames
  <2>2. u \in Record
    BY <1>4, <1>7
  <2>3. /\ v \in Record /\ v.pc = "filler" /\ v.reasons = u.reasons
        /\ SameSetup(u, v) /\ SameLibraries(u, v) /\ SameServer(u, v) /\ SamePool(u, v)
    BY <1>6, <2>1, <2>2, GotoFields
  <2>4. SameSetup(r, v) /\ v.tree = r.tree
    BY <1>4, <1>7, <2>3 DEF SameSetup
  <2>5. SameLibraries(r, v) /\ SamePool(r, v)
    BY <1>4, <1>7, <2>3 DEF SameLibraries, SamePool
  <2> QED
    BY <1>4, <1>7, <2>3, <2>4, <2>5 DEF SameServer
<1>8. CASE HasFiller(r.tree) /\ s = v
  <2>1. LibraryInv(s) /\ s.lib_handle_ = r.lib_handle_
    BY <1>7, <1>8, LibrariesKept DEF RecordInv, SameLibraries
  <2> QED
    BY <1>7, <1>8, <2>1, FillerKeeps
<1>9. CASE HasFiller(r.tree) /\ s = WithMap(v, lib) /\ lib \in DOMAIN Exports
  <2>1. /\ s \in Record /\ s.pc = v.pc /\ s.maps = v.maps \cup {lib}
        /\ s.normalize = (IF v.normalize = NoLib THEN lib ELSE v.normalize)
        /\ s.lib_handle_ = v.lib_handle_ /\ s.reasons = v.reasons
        /\ SameSetup(v, s) /\ SameServer(v, s) /\ SamePool(v, s)
    BY <1>7, <1>9, SetMap
  <2>2. LibraryInv(v)
    BY <1>7, <1>9, LibrariesKept DEF RecordInv
  <2>3. LibraryInv(s)
    BY <2>1, <2>2 DEF LibraryInv
  <2>4. SameSetup(r, s) /\ s.tree = v.tree
    BY <1>7, <1>9, <2>1 DEF SameSetup
  <2>5. SamePool(r, s) /\ s.lib_handle_ = r.lib_handle_
    BY <1>7, <1>9, <2>1 DEF SamePool, SameLibraries
  <2>6. s.settings = Settings(s.tree) /\ s.bound = r.bound
    BY <1>7, <1>9, <2>1, <2>4 DEF SameServer
  <2> QED
    BY <1>7, <1>9, <2>1, <2>3, <2>4, <2>5, <2>6, FillerKeeps
<1>10. r.reasons = {} => /\ lib \in DOMAIN Exports
                         /\ {"custom_hash", "normalize_key"} \subseteq Exports[lib]
  BY <1>0, <1>1, GoodLibrary
<1>11. CASE HasFiller(r.tree)
  <2>1. s = configure_func(u, lib)
    BY <1>0, <1>11
  <2>2. \/ s = v
        \/ s = Gone(u) /\ lib \notin DOMAIN Exports
        \/ s = Gone(u) /\ ~ {"custom_hash", "normalize_key"} \subseteq Exports[lib]
        \/ s = WithMap(v, lib) /\ lib \in DOMAIN Exports
    BY <1>6, <2>1 DEF configure_func, WithMap
  <2>3. s = v \/ (s = WithMap(v, lib) /\ lib \in DOMAIN Exports) \/ (s = Gone(u) /\ r.reasons # {})
    BY <1>10, <2>2, Zenon
  <2> QED
    BY <1>5, <1>8, <1>9, <1>11, <2>3
<1> QED
  BY <1>2, <1>11

\* The settings hold what the tree names.
LEMMA SettingsFields ==
  ASSUME NEW tree
  PROVE  /\ Settings(tree).filler = filler(tree)
         /\ Settings(tree).filler_function = filler_function(tree)
         /\ Settings(tree).port = port(tree) /\ Settings(tree).workers = workers(tree)
BY DEF Settings

\* The filler is made.
LEMMA ConfigureKeeps ==
  ASSUME NEW r \in Record, RecordInv(r, file, config_path), r.pc = "filler",
         NEW s, s = Configure(r)
  PROVE  Keeps(r, s)
<1>1. PICK lib : lib = filler(r.tree)
  OBVIOUS
<1>2. PICK function : function = filler_function(r.tree)
  OBVIOUS
<1>3. PICK v : v = Goto(r, "bind")
  OBVIOUS
<1>4. r.settings = Settings(r.tree)
  BY DEF RecordInv, BuiltInv, HasSettings
<1>5. r.settings.filler = lib /\ r.settings.filler_function = function
  BY <1>1, <1>2, <1>4, SettingsFields
<1>6. r.reasons = {} => /\ lib \in DOMAIN Exports /\ lib # "" /\ function # ""
                        /\ {function, "is_filler_alive"} \subseteq Exports[lib]
  <2>1. r.reasons = {} => IsGood(r.tree)
    BY DEF RecordInv, SafeInv, Loaded
  <2> QED
    BY <1>1, <1>2, <2>1, GoodLibrary
<1>7. \/ s = v /\ (lib = "" \/ function = "")
      \/ s = Gone(r) /\ lib \notin DOMAIN Exports
      \/ s = Gone(r) /\ ~ {function, "is_filler_alive"} \subseteq Exports[lib]
      \/ s = WithLibrary(v, lib) /\ lib \in DOMAIN Exports
  BY <1>3, <1>5 DEF Configure, WithLibrary
<1>8. \/ s = v /\ r.reasons # {}
      \/ s = Gone(r) /\ r.reasons # {}
      \/ s = WithLibrary(v, lib) /\ lib \in DOMAIN Exports
  BY <1>6, <1>7, Zenon
<1>9. /\ v \in Record /\ v.pc = "bind" /\ v.reasons = r.reasons
      /\ SameSetup(r, v) /\ SameLibraries(r, v) /\ SameServer(r, v) /\ SamePool(r, v)
  <2>1. "bind" \in Labels
    BY LabelNames
  <2> QED
    BY <1>3, <2>1, GotoFields
<1>10. r.tree # Unreadable /\ Loaded(r) /\ r.bound = NoPort /\ r.lib_handle_ = NoLib
  BY DEF RecordInv, LifeInv, Loaded
<1>11. ASSUME s \in Record, s.pc = "bind", s.reasons = r.reasons, SameSetup(r, s),
              SameServer(r, s), SamePool(r, s), LibraryInv(s),
              s.lib_handle_ \in {lib, NoLib}, r.reasons = {} => s.lib_handle_ # NoLib
       PROVE  Keeps(r, s)
  <2>1. s.log = r.log /\ s.tree = r.tree /\ s.settings = r.settings /\ s.bound = r.bound
    BY <1>11 DEF SameSetup, SameServer
  <2>2. LogInv(s)
    BY <1>11, <2>1, LogKept DEF RecordInv, HasLog, HasSettings
  <2>3. BuiltInv(s)
    BY <1>1, <1>4, <1>11, <2>1 DEF BuiltInv, HasPort, Serves
  <2>4. s.pc \notin {"unborn", "gone", "down", "run", "serve", "args", "load", "storage",
                     "filler", "signals"}
    BY <1>11
  <2> QED
    BY <1>10, <1>11, <2>1, <2>2, <2>3, <2>4, AdvanceKeeps
<1>12. CASE s = v /\ r.reasons # {}
  <2>1. LibraryInv(s) /\ s.lib_handle_ = NoLib
    BY <1>9, <1>10, <1>12, LibrariesKept DEF RecordInv, SameLibraries
  <2> QED
    BY <1>9, <1>11, <1>12, <2>1
<1>13. CASE s = Gone(r) /\ r.reasons # {}
  BY <1>13, GoneKeeps
<1>14. CASE s = WithLibrary(v, lib) /\ lib \in DOMAIN Exports
  <2>1. /\ s \in Record /\ s.pc = v.pc /\ s.lib_handle_ = lib /\ s.normalize = v.normalize
        /\ s.maps = v.maps /\ s.reasons = v.reasons
        /\ SameSetup(v, s) /\ SameServer(v, s) /\ SamePool(v, s)
    BY <1>9, <1>14, SetLibrary
  <2>2. lib # NoLib
    BY <1>14, ExportsAssumption
  <2>3. LibraryInv(s)
    BY <1>9, <2>1 DEF RecordInv, LibraryInv, SameLibraries
  <2>4. SameSetup(r, s) /\ SameServer(r, s)
    BY <1>9, <2>1 DEF SameSetup, SameServer
  <2>5. SamePool(r, s)
    BY <1>9, <2>1 DEF SamePool
  <2> QED
    BY <1>9, <1>11, <2>1, <2>2, <2>3, <2>4, <2>5
<1> QED
  BY <1>8, <1>12, <1>13, <1>14

\* The acceptor takes the port, or throws if someone has it.
LEMMA BindKeeps ==
  ASSUME NEW r \in Record, RecordInv(r, file, config_path), r.pc = "bind",
         NEW taken, taken => r.reasons # {},
         NEW s, s = IF taken THEN Goto(r, "down") ELSE WithPort(Goto(r, "signals"), r.settings.port)
  PROVE  Keeps(r, s)
<1>1. CASE taken
  <2>1. s = Goto(r, "down") /\ r.reasons # {} /\ r.pc \in {"storage", "bind"}
    BY <1>1
  <2> QED
    BY <2>1, DownKeeps
<1>2. CASE ~ taken
  <2>1. PICK v : v = Goto(r, "signals")
    OBVIOUS
  <2>2. /\ v \in Record /\ v.pc = "signals" /\ v.reasons = r.reasons
        /\ SameSetup(r, v) /\ SameLibraries(r, v) /\ SameServer(r, v) /\ SamePool(r, v)
    <3>1. "signals" \in Labels
      BY LabelNames
    <3> QED
      BY <2>1, <3>1, GotoFields
  <2>3. PICK n : n = port(r.tree)
    OBVIOUS
  <2>4. r.settings = Settings(r.tree) /\ r.lib_handle_ \in {filler(r.tree), NoLib}
    BY DEF RecordInv, BuiltInv, HasSettings, HasLibrary
  <2>5. r.settings.port = n
    BY <2>3, <2>4, SettingsFields
  <2>6. n \in Uint16 /\ s = WithPort(v, n)
    BY <1>2, <2>1, <2>3, <2>5, PortType
  <2>7. /\ s \in Record /\ s.pc = v.pc /\ s.bound = n /\ s.settings = v.settings
        /\ s.reasons = v.reasons
        /\ SameSetup(v, s) /\ SameLibraries(v, s) /\ SamePool(v, s)
    BY <2>2, <2>6, SetPort
  <2>8. s.log = r.log /\ s.tree = r.tree /\ s.settings = r.settings
    BY <2>2, <2>7 DEF SameSetup, SameServer
  <2>9. SamePool(r, s)
    BY <2>2, <2>7 DEF SamePool
  <2>10. SameLibraries(r, s) /\ s.lib_handle_ = r.lib_handle_
    BY <2>2, <2>7 DEF SameLibraries
  <2>11. LogInv(s)
    BY <2>2, <2>7, <2>8, LogKept DEF RecordInv, HasLog, HasSettings, HasLibrary
  <2>12. BuiltInv(s)
    BY <2>3, <2>4, <2>7, <2>8, <2>10 DEF BuiltInv
  <2>13. LibraryInv(s)
    BY <2>10, LibrariesKept DEF RecordInv
  <2>14. r.tree # Unreadable /\ Loaded(r)
    BY DEF RecordInv, LifeInv, Loaded
  <2>15. r.reasons = {} => s.lib_handle_ # NoLib
    BY <2>10 DEF RecordInv, SafeInv
  <2>16. s.pc \notin {"unborn", "gone", "down", "run", "serve", "args", "load", "storage",
                      "filler", "bind"}
    BY <2>2, <2>7
  <2>17. s \in Record /\ s.reasons = r.reasons
    BY <2>2, <2>7
  <2> QED
    BY <2>8, <2>9, <2>11, <2>12, <2>13, <2>14, <2>15, <2>16, <2>17, AdvanceKeeps
<1> QED
  BY <1>1, <1>2

\* What the handlers leave alone.
LEMMA HandlersFields ==
  ASSUME NEW r \in Record, NEW s, s = WithHandlers(r)
  PROVE  /\ s \in Record /\ s.pc = r.pc /\ s.reasons = r.reasons
         /\ SameSetup(r, s) /\ SameLibraries(r, s) /\ SameServer(r, s)
         /\ s.handled /\ s.done_ = r.done_ /\ s.stopped = r.stopped
         /\ s.ready = r.ready /\ s.thread = r.thread
<1>1. s \in Record
  BY DEF Record, WithHandlers
<1>2. s.pc = r.pc /\ s.reasons = r.reasons
  BY DEF Record, WithHandlers
<1>3. SameSetup(r, s) /\ SameServer(r, s)
  BY DEF Record, WithHandlers, SameSetup, SameServer
<1>4. SameLibraries(r, s)
  BY DEF Record, WithHandlers, SameLibraries
<1>5. s.handled /\ s.done_ = r.done_ /\ s.stopped = r.stopped
  BY DEF Record, WithHandlers
<1>6. s.ready = r.ready /\ s.thread = r.thread
  BY DEF Record, WithHandlers
<1> QED
  BY <1>1, <1>2, <1>3, <1>4, <1>5, <1>6

\* What the start of the pool leaves alone.
LEMMA RunningFields ==
  ASSUME NEW r \in Record, NEW x \in [Thread -> {"idle", "out"}], NEW s, s = Running(r, x)
  PROVE  /\ s \in Record /\ s.pc = r.pc /\ s.reasons = r.reasons
         /\ SameSetup(r, s) /\ SameLibraries(r, s) /\ SameServer(r, s)
         /\ s.handled = r.handled /\ s.done_ = r.done_
         /\ s.ready = r.ready /\ s.thread = x
<1>1. s \in Record
  <2>1. x \in [Thread -> {"out", "idle", "exit", "config"}]
    OBVIOUS
  <2> QED
    BY <2>1 DEF Record, Running
<1>2. s.pc = r.pc /\ s.reasons = r.reasons
  BY DEF Record, Running
<1>3. SameSetup(r, s) /\ SameServer(r, s)
  BY DEF Record, Running, SameSetup, SameServer
<1>4. SameLibraries(r, s)
  BY DEF Record, Running, SameLibraries
<1>5. s.handled = r.handled /\ s.done_ = r.done_
  BY DEF Record, Running
<1>6. s.ready = r.ready /\ s.thread = x
  BY DEF Record, Running
<1> QED
  BY <1>1, <1>2, <1>3, <1>4, <1>5, <1>6

\* What a change of the threads leaves alone.
LEMMA ThreadFields ==
  ASSUME NEW r \in Record,
         NEW x \in [Thread -> {"out", "idle", "exit", "config"}],
         NEW s, s = WithThreads(r, x)
  PROVE  /\ s \in Record /\ s.pc = r.pc /\ s.reasons = r.reasons
         /\ SameSetup(r, s) /\ SameLibraries(r, s) /\ SameServer(r, s)
         /\ s.handled = r.handled /\ s.done_ = r.done_ /\ s.stopped = r.stopped
         /\ s.ready = r.ready /\ s.thread = x
<1>1. s \in Record
  BY DEF Record, WithThreads
<1>2. s.pc = r.pc /\ s.reasons = r.reasons
  BY DEF Record, WithThreads
<1>3. SameSetup(r, s) /\ SameServer(r, s)
  BY DEF Record, WithThreads, SameSetup, SameServer
<1>4. SameLibraries(r, s)
  BY DEF Record, WithThreads, SameLibraries
<1>5. s.handled = r.handled /\ s.done_ = r.done_ /\ s.stopped = r.stopped
  BY DEF Record, WithThreads
<1>6. s.ready = r.ready /\ s.thread = x
  BY DEF Record, WithThreads
<1> QED
  BY <1>1, <1>2, <1>3, <1>4, <1>5, <1>6

\* The handlers are set.
LEMMA SetHandlersKeeps ==
  ASSUME NEW r \in Record, RecordInv(r, file, config_path), r.pc = "signals",
         NEW s, s = WithHandlers(Goto(r, "run"))
  PROVE  Keeps(r, s)
<1>1. PICK v : v = Goto(r, "run")
  OBVIOUS
<1>2. /\ v \in Record /\ v.pc = "run" /\ v.reasons = r.reasons
      /\ SameSetup(r, v) /\ SameLibraries(r, v) /\ SameServer(r, v) /\ SamePool(r, v)
  <2>1. "run" \in Labels
    BY LabelNames
  <2> QED
    BY <1>1, <2>1, GotoFields
<1>3. /\ s \in Record /\ s.pc = v.pc /\ s.handled /\ s.reasons = v.reasons
      /\ SameSetup(v, s) /\ SameLibraries(v, s) /\ SameServer(v, s)
      /\ s.done_ = v.done_ /\ s.stopped = v.stopped /\ s.ready = v.ready /\ s.thread = v.thread
  BY <1>1, <1>2, HandlersFields
<1>4. s.log = r.log /\ s.tree = r.tree /\ s.settings = r.settings /\ s.bound = r.bound
  BY <1>2, <1>3 DEF SameSetup, SameServer
<1>5. SameLibraries(r, s) /\ s.lib_handle_ = r.lib_handle_
  BY <1>2, <1>3 DEF SameLibraries
<1>6. s.done_ = r.done_ /\ s.ready = r.ready /\ s.thread = r.thread
  BY <1>2, <1>3 DEF SamePool
<1>7. s.tree # Unreadable /\ \A t \in Thread : s.thread[t] = "out"
  BY <1>4, <1>6 DEF RecordInv, LifeInv, Loaded
<1>8. LifeInv(s)
  BY <1>2, <1>3, <1>7 DEF LifeInv
<1>9. LogInv(s)
  BY <1>2, <1>3, <1>4, LogKept DEF RecordInv, HasLog, HasSettings, HasLibrary, HasPort
<1>10. BuiltInv(s)
  <2>1. r.settings = Settings(r.tree) /\ r.lib_handle_ \in {filler(r.tree), NoLib}
    BY DEF RecordInv, BuiltInv, HasSettings, HasLibrary, HasPort
  <2>2. r.bound = port(r.tree)
    BY DEF RecordInv, BuiltInv, HasPort
  <2> QED
    BY <1>4, <1>5, <2>1, <2>2 DEF BuiltInv
<1>11. LibraryInv(s)
  BY <1>5, LibrariesKept DEF RecordInv
<1>12. Calm(r, config_path) => Calm(s, config_path)
  BY <1>6 DEF Calm
<1>13. SafeInv(s, file, config_path)
  BY <1>2, <1>3, <1>4, <1>5, <1>6, <1>12 DEF RecordInv, SafeInv, Loaded
<1> QED
  BY <1>2, <1>3, <1>8, <1>9, <1>10, <1>11, <1>13 DEF Keeps, RecordInv

\* The threads of the pool begin.
LEMMA RunKeeps ==
  ASSUME NEW r \in Record, RecordInv(r, file, config_path), r.pc = "run",
         NEW x \in [Thread -> {"idle", "out"}], NEW s, s = Running(Goto(r, "serve"), x)
  PROVE  Keeps(r, s)
<1>1. PICK v : v = Goto(r, "serve")
  OBVIOUS
<1>2. /\ v \in Record /\ v.pc = "serve" /\ v.reasons = r.reasons
      /\ SameSetup(r, v) /\ SameLibraries(r, v) /\ SameServer(r, v) /\ SamePool(r, v)
  <2>1. "serve" \in Labels
    BY LabelNames
  <2> QED
    BY <1>1, <2>1, GotoFields
<1>3. /\ s \in Record /\ s.pc = v.pc /\ s.handled = v.handled /\ s.reasons = v.reasons
      /\ SameSetup(v, s) /\ SameLibraries(v, s) /\ SameServer(v, s)
      /\ s.done_ = v.done_ /\ s.ready = v.ready /\ s.thread = x
  BY <1>1, <1>2, RunningFields
<1>4. s.log = r.log /\ s.tree = r.tree /\ s.settings = r.settings /\ s.bound = r.bound
  BY <1>2, <1>3 DEF SameSetup, SameServer
<1>5. SameLibraries(r, s) /\ s.lib_handle_ = r.lib_handle_
  BY <1>2, <1>3 DEF SameLibraries
<1>6. s.done_ = r.done_ /\ s.ready = r.ready /\ s.handled = r.handled
  BY <1>2, <1>3 DEF SamePool
<1>7. s.tree # Unreadable /\ s.handled
  BY <1>4, <1>6 DEF RecordInv, LifeInv, Loaded
<1>8. LifeInv(s)
  BY <1>2, <1>3, <1>7 DEF LifeInv
<1>9. LogInv(s)
  BY <1>2, <1>3, <1>4, LogKept DEF RecordInv, HasLog, HasSettings, HasLibrary, HasPort
<1>10. BuiltInv(s)
  <2>1. r.settings = Settings(r.tree) /\ r.lib_handle_ \in {filler(r.tree), NoLib}
    BY DEF RecordInv, BuiltInv, HasSettings, HasLibrary, HasPort
  <2>2. r.bound = port(r.tree)
    BY DEF RecordInv, BuiltInv, HasPort
  <2> QED
    BY <1>4, <1>5, <2>1, <2>2 DEF BuiltInv
<1>11. LibraryInv(s)
  BY <1>5, LibrariesKept DEF RecordInv
<1>12. Calm(r, config_path) => Calm(s, config_path)
  <2>1. \A t \in Thread : s.thread[t] \notin {"exit", "config"}
    BY <1>3
  <2>2. \A t \in Thread : r.thread[t] = "out"
    BY DEF RecordInv, LifeInv
  <2> QED
    BY <1>6, <2>1, <2>2 DEF Calm
<1>13. SafeInv(s, file, config_path)
  BY <1>2, <1>3, <1>4, <1>5, <1>6, <1>12 DEF RecordInv, SafeInv, Loaded
<1> QED
  BY <1>2, <1>3, <1>8, <1>9, <1>10, <1>11, <1>13 DEF Keeps, RecordInv

\* All threads have returned to join: the process goes to the restart, or down.
LEMMA JoinKeeps ==
  ASSUME NEW r \in Record, RecordInv(r, file, config_path), r.pc = "serve",
         \A t \in Thread : r.thread[t] \in {"out", "idle"},
         NEW y, y = IF r.done_ THEN "down" ELSE "log",
         NEW s, s = WithThreads(Goto(r, y), [t \in Thread |-> "out"])
  PROVE  Keeps(r, s)
<1>1. PICK v : v = Goto(r, y)
  OBVIOUS
<1>2. /\ v \in Record /\ v.pc = y /\ v.reasons = r.reasons
      /\ SameSetup(r, v) /\ SameLibraries(r, v) /\ SameServer(r, v) /\ SamePool(r, v)
  <2>1. "down" \in Labels /\ "log" \in Labels
    BY LabelNames
  <2>2. y \in Labels
    BY <2>1
  <2> QED
    BY <1>1, <2>2, GotoFields
<1>3. PICK x : x = [t \in Thread |-> "out"]
  OBVIOUS
<1>4. x \in [Thread -> {"out", "idle", "exit", "config"}] /\ \A t \in Thread : x[t] = "out"
  BY <1>3
<1>5. s = WithThreads(v, x)
  BY <1>1, <1>3
<1>6. /\ s \in Record /\ s.pc = v.pc /\ s.handled = v.handled /\ s.reasons = v.reasons
      /\ SameSetup(v, s) /\ SameLibraries(v, s) /\ SameServer(v, s)
      /\ s.done_ = v.done_ /\ s.stopped = v.stopped /\ s.ready = v.ready /\ s.thread = x
  BY <1>2, <1>4, <1>5, ThreadFields
<1>7. s.log = r.log /\ s.tree = r.tree
  BY <1>2, <1>6 DEF SameSetup
<1>8. SameLibraries(r, s)
  BY <1>2, <1>6 DEF SameLibraries
<1>9. s.done_ = r.done_ /\ s.ready = r.ready
  BY <1>2, <1>6 DEF SamePool
<1>10. s.tree # Unreadable /\ s.pc \in {"down", "log"}
  BY <1>2, <1>6, <1>7 DEF RecordInv, LifeInv, Loaded
<1>11. LifeInv(s)
  BY <1>4, <1>6, <1>10 DEF LifeInv
<1>12. LogInv(s) /\ BuiltInv(s)
  BY <1>7, <1>10 DEF RecordInv, LogInv, BuiltInv, HasLog, HasSettings, HasLibrary, HasPort, Serves
<1>13. LibraryInv(s)
  BY <1>8, LibrariesKept DEF RecordInv
<1>14. Calm(r, config_path) => Calm(s, config_path)
  <2>1. \A t \in Thread : s.thread[t] = "out"
    BY <1>4, <1>6
  <2> QED
    BY <1>9, <2>1 DEF Calm
<1>15. s.pc = y /\ s.reasons = r.reasons
  BY <1>2, <1>6
<1>16. SafeInv(s, file, config_path)
  BY <1>7, <1>9, <1>10, <1>14, <1>15 DEF RecordInv, SafeInv, Loaded
<1> QED
  BY <1>6, <1>11, <1>12, <1>13, <1>15, <1>16 DEF Keeps, RecordInv

-----------------------------------------------------------------------------
(* The steps of the pool.                                                   *)

\* What is kept of a process that serves when only its pool changes.
LEMMA PoolKeeps ==
  ASSUME NEW r, NEW s \in Record, RecordInv(r, file, config_path), r.pc = "serve",
         s.pc = "serve", s.reasons = r.reasons, s.handled,
         s.tree = r.tree \/ (s.stopped = TRUE /\ s.tree = file /\ s.tree # Unreadable),
         SameLibraries(r, s), SameServer(r, s), s.stopped = FALSE => r.stopped = FALSE,
         LogInv(s),
         r.reasons = {} /\ ~ r.done_ /\ Calm(r, config_path) =>
           ~ s.done_ /\ Calm(s, config_path)
  PROVE  Keeps(r, s)
<1>1. s.settings = r.settings /\ s.bound = r.bound /\ s.lib_handle_ = r.lib_handle_
  BY DEF SameServer, SameLibraries
<1>2. s.tree # Unreadable
  BY DEF RecordInv, LifeInv, Loaded
<1>3. LifeInv(s)
  BY <1>2 DEF LifeInv
<1>4. LibraryInv(s)
  BY LibrariesKept DEF RecordInv
<1>5. BuiltInv(s)
  BY <1>1 DEF RecordInv, BuiltInv, HasSettings, HasLibrary, HasPort, Serves
<1>6. SafeInv(s, file, config_path)
  BY <1>1 DEF RecordInv, SafeInv, Loaded
<1> QED
  BY <1>3, <1>4, <1>5, <1>6 DEF Keeps, RecordInv

\* What the taking of a handler leaves alone.
LEMMA TurnFields ==
  ASSUME NEW r \in Record, NEW t \in Thread, NEW x \in {"exit", "config"},
         NEW y \in Seq({"exit", "config"}), NEW s, s = Turn(r, t, x, y)
  PROVE  /\ s \in Record /\ s.pc = r.pc /\ s.reasons = r.reasons
         /\ SameSetup(r, s) /\ SameLibraries(r, s) /\ SameServer(r, s)
         /\ s.handled = r.handled /\ s.done_ = r.done_ /\ s.stopped = r.stopped
         /\ s.ready = y
         /\ Moved(r, s, t, x)
<1>1. s \in Record
  BY DEF Record, Turn
<1>2. s.pc = r.pc /\ s.reasons = r.reasons
  BY DEF Record, Turn
<1>3. SameSetup(r, s)
  BY DEF Record, Turn, SameSetup
<1>4. SameLibraries(r, s)
  BY DEF Record, Turn, SameLibraries
<1>5. SameServer(r, s)
  BY DEF Record, Turn, SameServer
<1>6. s.handled = r.handled /\ s.done_ = r.done_ /\ s.stopped = r.stopped
  BY DEF Record, Turn
<1>7. s.ready = y
  BY DEF Record, Turn
<1>8. Moved(r, s, t, x)
  BY DEF Record, Turn, Moved
<1> QED
  BY <1>1, <1>2, <1>3, <1>4, <1>5, <1>6, <1>7, <1>8

\* A record of a process whose service is stopped is a record.
LEMMA StoppedType ==
  ASSUME NEW r \in Record, NEW y \in [Thread -> {"out", "idle", "exit", "config"}]
  PROVE  /\ Marked(r, y) \in Record
         /\ \A x \in Contents \cup {Unreadable} : Swapped(r, x, y) \in Record
<1>1. Marked(r, y) \in Record
  BY DEF Record, Marked
<1>2. ASSUME NEW x \in Contents \cup {Unreadable} PROVE Swapped(r, x, y) \in Record
  BY DEF Record, Swapped
<1> QED
  BY <1>1, <1>2

\* What on_exit leaves alone.
LEMMA ExitsFields ==
  ASSUME NEW r \in Record, NEW t \in Thread, NEW s, s = Exits(r, t)
  PROVE  /\ s \in Record /\ s.pc = r.pc /\ s.reasons = r.reasons
         /\ SameSetup(r, s) /\ SameLibraries(r, s) /\ SameServer(r, s)
         /\ s.handled = r.handled /\ s.stopped = TRUE
<1>1. s \in Record
  <2>1. PICK y : y = [r.thread EXCEPT ![t] = "idle"]
    OBVIOUS
  <2>2. y \in [Thread -> {"out", "idle", "exit", "config"}]
    BY <2>1 DEF Record
  <2>3. s = Marked(r, y)
    BY <2>1 DEF Record, Exits, on_exit, Marked
  <2> QED
    BY <2>2, <2>3, StoppedType
<1>2. s.pc = r.pc /\ s.reasons = r.reasons
  BY DEF Record, Exits, on_exit
<1>3. SameSetup(r, s)
  BY DEF Record, Exits, on_exit, SameSetup
<1>4. SameLibraries(r, s)
  BY DEF Record, Exits, on_exit, SameLibraries
<1>5. SameServer(r, s)
  BY DEF Record, Exits, on_exit, SameServer
<1>6. s.handled = r.handled /\ s.stopped = TRUE
  BY DEF Record, Exits, on_exit
<1> QED
  BY <1>1, <1>2, <1>3, <1>4, <1>5, <1>6

\* What on_config leaves alone.
LEMMA ReloadsFields ==
  ASSUME NEW r \in Record, NEW t \in Thread, NEW x \in Contents \cup {Unreadable},
         NEW s, s = Reloads(r, t, x)
  PROVE  /\ s \in Record /\ s.pc = r.pc /\ s.reasons = r.reasons
         /\ s.tree = x /\ s.log = r.log /\ SameLibraries(r, s) /\ SameServer(r, s)
         /\ s.handled = r.handled /\ s.done_ = r.done_ /\ s.stopped = TRUE
         /\ s.ready = r.ready
         /\ Moved(r, s, t, "idle")
<1>1. s \in Record
  <2>1. PICK y : y = [r.thread EXCEPT ![t] = "idle"]
    OBVIOUS
  <2>2. y \in [Thread -> {"out", "idle", "exit", "config"}]
    BY <2>1 DEF Record
  <2>3. s = Swapped(r, x, y)
    BY <2>1 DEF Record, Reloads, Swapped
  <2> QED
    BY <2>2, <2>3, StoppedType
<1>2. s.pc = r.pc /\ s.reasons = r.reasons
  BY DEF Record, Reloads
<1>3. s.tree = x
  BY DEF Record, Reloads
<1>4. s.log = r.log
  BY DEF Record, Reloads
<1>5. SameLibraries(r, s)
  BY DEF Record, Reloads, SameLibraries
<1>6. SameServer(r, s)
  BY DEF Record, Reloads, SameServer
<1>7. s.handled = r.handled /\ s.done_ = r.done_ /\ s.stopped = TRUE
  BY DEF Record, Reloads
<1>8. s.ready = r.ready
  BY DEF Record, Reloads
<1>9. Moved(r, s, t, "idle")
  BY DEF Record, Reloads, Moved
<1> QED
  BY <1>1, <1>2, <1>3, <1>4, <1>5, <1>6, <1>7, <1>8, <1>9

\* A thread takes the handler at the head.
LEMMA TakeKeeps ==
  ASSUME NEW r \in Record, RecordInv(r, file, config_path), NEW t \in Thread,
         r.thread[t] = "idle", r.stopped = FALSE, r.ready # <<>>,
         NEW s, s = Turn(r, t, Head(r.ready), Tail(r.ready))
  PROVE  Keeps(r, s)
<1>1. r.pc = "serve" /\ r.handled
  BY DEF RecordInv, LifeInv
<1>2. PICK h : h = Head(r.ready)
  OBVIOUS
<1>3. PICK q : q = Tail(r.ready)
  OBVIOUS
<1>4. h \in {"exit", "config"} /\ q \in Seq({"exit", "config"})
  <2>1. r.ready \in Seq({"exit", "config"})
    BY DEF Record
  <2> QED
    BY <1>2, <1>3, <2>1
<1>5. s = Turn(r, t, h, q)
  BY <1>2, <1>3
<1>6. /\ s \in Record /\ s.pc = r.pc /\ s.reasons = r.reasons
      /\ SameSetup(r, s) /\ SameLibraries(r, s) /\ SameServer(r, s)
      /\ s.handled = r.handled /\ s.done_ = r.done_ /\ s.stopped = r.stopped
      /\ s.ready = q
      /\ Moved(r, s, t, h)
  BY <1>4, <1>5, TurnFields
<1>7. s.log = r.log /\ s.tree = r.tree
  BY <1>6 DEF SameSetup
<1>8. LogInv(s)
  <2>1. HasLog(s) => HasLog(r)
    BY <1>6 DEF HasLog, HasSettings, HasLibrary, HasPort, Serves
  <2> QED
    BY <1>1, <1>6, <1>7, <2>1, LogKept DEF RecordInv
<1>9. ASSUME Calm(r, config_path)
      PROVE  Calm(s, config_path)
  <2>1. r.ready = <<"config">> /\ config_path \notin Relative
    BY <1>9 DEF Calm
  <2>2. h = "config" /\ q = <<>>
    BY <1>2, <1>3, <2>1
  <2>3. \A u \in Thread : r.thread[u] \notin {"exit", "config"}
    BY <1>9, <2>1 DEF Calm
  <2>4. \A u \in Thread : s.thread[u] = IF u = t THEN "config" ELSE r.thread[u]
    BY <1>6, <2>2 DEF Moved
  <2> QED
    BY <1>6, <2>1, <2>2, <2>3, <2>4 DEF Calm
<1> QED
  BY <1>1, <1>6, <1>7, <1>8, <1>9, PoolKeeps

\* on_exit stops the service for good.
LEMMA OnExitKeeps ==
  ASSUME NEW r \in Record, RecordInv(r, file, config_path), NEW t \in Thread,
         r.thread[t] = "exit", NEW s, s = Exits(r, t)
  PROVE  Keeps(r, s)
<1>1. r.pc = "serve" /\ r.handled
  BY DEF RecordInv, LifeInv
<1>2. /\ s \in Record /\ s.pc = r.pc /\ s.reasons = r.reasons
      /\ SameSetup(r, s) /\ SameLibraries(r, s) /\ SameServer(r, s)
      /\ s.handled = r.handled /\ s.stopped = TRUE
  BY ExitsFields
<1>3. s.log = r.log /\ s.tree = r.tree
  BY <1>2 DEF SameSetup
<1>4. LogInv(s)
  BY <1>1, <1>2, <1>3, LogKept DEF RecordInv, HasLog, HasSettings, HasLibrary, HasPort, Serves
<1>5. ~ Calm(r, config_path)
  BY DEF Calm
<1> QED
  BY <1>1, <1>2, <1>3, <1>4, <1>5, PoolKeeps

\* on_config swaps the tree and stops the service, if the file can be read.
LEMMA OnConfigKeeps ==
  ASSUME NEW r \in Record, RecordInv(r, file, config_path), NEW t \in Thread,
         r.thread[t] = "config", file \in Contents,
         NEW s, s = IF CanRead(r) THEN Reloads(r, t, file) ELSE Gone(r)
  PROVE  Keeps(r, s)
<1>1. r.pc = "serve" /\ r.handled
  BY DEF RecordInv, LifeInv
<1>2. CASE ~ CanRead(r)
  <2>1. r.reasons # {}
    BY <1>1, <1>2 DEF RecordInv, SafeInv, Calm, IsGood, CanRead
  <2> QED
    BY <1>2, <2>1, GoneKeeps
<1>3. CASE CanRead(r)
  <2>1. s = Reloads(r, t, file) /\ file # Unreadable /\ file \in Contents \cup {Unreadable}
    BY <1>3 DEF CanRead
  <2>2. /\ s \in Record /\ s.pc = r.pc /\ s.reasons = r.reasons
        /\ s.tree = file /\ s.log = r.log /\ SameLibraries(r, s) /\ SameServer(r, s)
        /\ s.handled = r.handled /\ s.done_ = r.done_ /\ s.stopped = TRUE
        /\ s.ready = r.ready
        /\ Moved(r, s, t, "idle")
    <3>1. PICK x : x = file
      OBVIOUS
    <3>2. x \in Contents \cup {Unreadable} /\ s = Reloads(r, t, x)
      BY <2>1, <3>1
    <3>3. /\ s \in Record /\ s.pc = r.pc /\ s.reasons = r.reasons
          /\ s.tree = x /\ s.log = r.log /\ SameLibraries(r, s) /\ SameServer(r, s)
          /\ s.handled = r.handled /\ s.done_ = r.done_ /\ s.stopped = TRUE
          /\ s.ready = r.ready
          /\ Moved(r, s, t, "idle")
      BY <3>2, ReloadsFields
    <3> QED
      BY <3>1, <3>3
  <2>3. LogInv(s)
    BY <1>1, <2>2 DEF RecordInv, LogInv, HasLog, HasSettings, HasLibrary, HasPort, Serves
  <2>4. ASSUME Calm(r, config_path)
        PROVE  Calm(s, config_path)
    BY <2>2, <2>4 DEF Calm, Moved
  <2> QED
    BY <1>1, <2>1, <2>2, <2>3, <2>4, PoolKeeps
<1> QED
  BY <1>2, <1>3

\* Two threads that swap trees at once.
LEMMA RaceKeeps ==
  ASSUME NEW r \in Record, RecordInv(r, file, config_path), NEW t \in Thread,
         NEW u \in Thread \ {t}, r.thread[t] = "config", r.thread[u] = "config"
  PROVE  Keeps(r, Gone(r))
<1>1. r.pc = "serve" /\ ~ Calm(r, config_path)
  BY DEF RecordInv, LifeInv, Calm
<1>2. r.reasons # {}
  BY <1>1 DEF RecordInv, SafeInv
<1> QED
  BY <1>2, GoneKeeps

\* A client changes the level, which is where nothing is written to.
LEMMA SetLevelKeeps ==
  ASSUME NEW r \in Record, RecordInv(r, file, config_path), r.pc = "serve",
         NEW n \in 0..7, NEW s, s = WithLog(r, set_severity_level(r.log, n))
  PROVE  Keeps(r, s)
<1>1. PICK l : l = r.log
  OBVIOUS
<1>2. PICK x : x = set_severity_level(l, n)
  OBVIOUS
<1>3. l \in Log
  BY <1>1 DEF Record
<1>4. /\ x \in Log /\ x.text_stream_backend = l.text_stream_backend
      /\ x.text_stream_sink = l.text_stream_sink
      /\ x.syslog_backend = l.syslog_backend /\ x.syslog_sink = l.syslog_sink
  BY <1>2, <1>3, LogFields
<1>5. Destinations(x) = Destinations(l)
  BY <1>4 DEF Destinations
<1>6. s = WithLog(r, x)
  BY <1>1, <1>2
<1>7. /\ s \in Record /\ s.pc = r.pc /\ s.tree = r.tree /\ s.log = x /\ s.reasons = r.reasons
      /\ SameLibraries(r, s) /\ SameServer(r, s) /\ SamePool(r, s)
  BY <1>4, <1>6, SetLog
<1>8. s.handled /\ s.stopped = r.stopped /\ s.done_ = r.done_
  BY <1>7 DEF RecordInv, LifeInv, SamePool
<1>9. LogInv(s)
  <2>1. HasLog(s) => HasLog(r)
    BY <1>7, <1>8 DEF HasLog, HasSettings, HasLibrary, HasPort, Serves
  <2> QED
    BY <1>1, <1>4, <1>5, <1>7, <2>1 DEF RecordInv, LogInv
<1>10. Calm(r, config_path) => Calm(s, config_path)
  BY <1>7, CalmKept
<1> QED
  BY <1>7, <1>8, <1>9, <1>10, PoolKeeps

-----------------------------------------------------------------------------
(* What happens to a process from outside.                                  *)

Reasons == {"fork", "port", "file", "signal"}

\* A new reason, or none, and nothing else.
LEMMA BecauseFields ==
  ASSUME NEW r \in Record, NEW reason \in Reasons, NEW holds,
         NEW s, s = Because(r, reason, holds)
  PROVE  /\ s \in Record /\ s.pc = r.pc
         /\ s.reasons = {} => r.reasons = {} /\ ~ holds
         /\ SameSetup(r, s) /\ SameLibraries(r, s) /\ SameServer(r, s) /\ SamePool(r, s)
<1>1. PICK x : x = IF holds THEN r.reasons \cup {reason} ELSE r.reasons
  OBVIOUS
<1>2. x \in SUBSET Reasons /\ (x = {} => r.reasons = {} /\ ~ holds)
  BY <1>1 DEF Record, Reasons
<1>3. s = WithReasons(r, x)
  BY <1>1 DEF Because, WithReasons
<1>4. s \in Record
  BY <1>2, <1>3 DEF Record, WithReasons, Reasons
<1>5. s.pc = r.pc /\ s.reasons = x
  BY <1>3 DEF Record, WithReasons
<1>6. SameSetup(r, s) /\ SameServer(r, s)
  BY <1>3 DEF Record, WithReasons, SameSetup, SameServer
<1>7. SameLibraries(r, s)
  BY <1>3 DEF Record, WithReasons, SameLibraries
<1>8. SamePool(r, s)
  BY <1>3 DEF Record, WithReasons, SamePool
<1> QED
  BY <1>2, <1>4, <1>5, <1>6, <1>7, <1>8

\* A reason says nothing of what a process is.
LEMMA RestKept ==
  ASSUME NEW r, NEW s, LifeInv(r), LibraryInv(r), LogInv(r), BuiltInv(r), s.pc = r.pc,
         SameSetup(r, s), SameLibraries(r, s), SameServer(r, s),
         s.handled = r.handled, s.stopped = r.stopped, s.thread = r.thread
  PROVE  LifeInv(s) /\ LibraryInv(s) /\ LogInv(s) /\ BuiltInv(s)
<1>1. s.cwd = r.cwd /\ s.tree = r.tree /\ s.log = r.log /\ s.bound = r.bound
      /\ s.settings = r.settings /\ s.lib_handle_ = r.lib_handle_
  BY DEF SameSetup, SameServer, SameLibraries
<1>2. LifeInv(s)
  BY <1>1 DEF LifeInv, Loaded
<1>3. LibraryInv(s)
  BY LibrariesKept
<1>4. /\ Serves(s) <=> Serves(r)
      /\ HasPort(s) <=> HasPort(r)
      /\ HasLibrary(s) <=> HasLibrary(r)
      /\ HasSettings(s) <=> HasSettings(r)
      /\ HasLog(s) <=> HasLog(r)
  BY DEF HasLog, HasSettings, HasLibrary, HasPort, Serves
<1>5. LogInv(s)
  BY <1>1, <1>4 DEF LogInv
<1>6. BuiltInv(s)
  BY <1>1, <1>4 DEF BuiltInv
<1> QED
  BY <1>2, <1>3, <1>5, <1>6

\* A record with a new reason keeps its invariant, if the reason covers what a change of
\* the file makes false.
LEMMA BecauseKept ==
  ASSUME NEW r \in Record, NEW f, NEW g, NEW c, RecordInv(r, f, c), NEW reason \in Reasons, NEW holds,
         NEW s, s = Because(r, reason, holds), ~ holds => g = f \/ IsGood(g)
  PROVE  s \in Record /\ RecordInv(s, g, c) /\ s.pc = r.pc
         /\ (s.reasons = {} => r.reasons = {} /\ ~ holds)
<1>1. /\ s \in Record /\ s.pc = r.pc
      /\ s.reasons = {} => r.reasons = {} /\ ~ holds
      /\ SameSetup(r, s) /\ SameLibraries(r, s) /\ SameServer(r, s) /\ SamePool(r, s)
  BY BecauseFields
<1>2. LifeInv(s) /\ LibraryInv(s) /\ LogInv(s) /\ BuiltInv(s)
  <2>1. s.handled = r.handled /\ s.stopped = r.stopped /\ s.thread = r.thread
    BY <1>1 DEF SamePool
  <2>2. LifeInv(r) /\ LibraryInv(r) /\ LogInv(r) /\ BuiltInv(r)
    BY DEF RecordInv
  <2> QED
    BY <1>1, <2>1, <2>2, RestKept
<1>3. SafeInv(s, g, c)
  <2>1. Calm(r, c) => Calm(s, c)
    BY <1>1 DEF Calm, SamePool
  <2>2. s.tree = r.tree /\ s.lib_handle_ = r.lib_handle_ /\ s.done_ = r.done_
    BY <1>1 DEF SameSetup, SameLibraries, SamePool
  <2>3. s.reasons = {} /\ IsGood(f) => IsGood(g)
    BY <1>1
  <2> QED
    BY <1>1, <2>1, <2>2, <2>3 DEF RecordInv, SafeInv, Loaded
<1> QED
  BY <1>1, <1>2, <1>3 DEF RecordInv

\* A signal that the pool gets is queued; what is queued matters only to the calm.
LEMMA QueuedKept ==
  ASSUME NEW r \in Record, NEW f, NEW c, LifeInv(r), LibraryInv(r), LogInv(r), BuiltInv(r),
         NEW x \in Seq({"exit", "config"}), NEW s, s = WithReady(r, x)
  PROVE  /\ s \in Record /\ s.pc = r.pc /\ s.reasons = r.reasons /\ s.ready = x
         /\ s.tree = r.tree /\ s.lib_handle_ = r.lib_handle_ /\ s.done_ = r.done_
         /\ s.thread = r.thread
         /\ LifeInv(s) /\ LibraryInv(s) /\ LogInv(s) /\ BuiltInv(s)
<1>1. s \in Record
  BY DEF Record, WithReady
<1>2. s.pc = r.pc /\ s.reasons = r.reasons /\ s.ready = x
  BY DEF Record, WithReady
<1>3. SameSetup(r, s) /\ SameServer(r, s)
  BY DEF Record, WithReady, SameSetup, SameServer
<1>4. SameLibraries(r, s)
  BY DEF Record, WithReady, SameLibraries
<1>5. s.handled = r.handled /\ s.stopped = r.stopped /\ s.thread = r.thread
  BY DEF Record, WithReady
<1>6. s.done_ = r.done_
  BY DEF Record, WithReady
<1>7. LifeInv(s) /\ LibraryInv(s) /\ LogInv(s) /\ BuiltInv(s)
  BY <1>2, <1>3, <1>4, <1>5, RestKept
<1> QED
  BY <1>1, <1>2, <1>3, <1>4, <1>5, <1>6, <1>7 DEF SameSetup, SameLibraries

\* A signal: what the process does not survive, or may not, is a reason.
LEMMA SendKept ==
  ASSUME NEW r \in Record, RecordInv(r, file, config_path), r.pc \notin {"unborn", "gone"},
         NEW handler \in {"exit", "config"}, NEW danger, handler = "exit" => danger,
         Hurt(r) => danger, NEW s, s = Send(r, handler, danger)
  PROVE  /\ s \in Record /\ RecordInv(s, file, config_path)
         /\ s.reasons = {} => r.reasons = {} /\ ~ danger
<1>1. CASE ~ r.handled
  <2>1. PICK u : u = Because(r, "signal", TRUE)
    OBVIOUS
  <2>2. "signal" \in Reasons
    BY DEF Reasons
  <2>3. u \in Record /\ u.reasons # {}
    BY <2>1, <2>2, BecauseFields
  <2>4. s = Gone(u)
    BY <1>1, <2>1 DEF Send
  <2>5. Keeps(u, s)
    BY <2>3, <2>4, GoneKeeps
  <2> QED
    BY <2>3, <2>5 DEF Keeps
<1>2. CASE r.handled
  <2>1. PICK u : u = Because(r, "signal", danger)
    OBVIOUS
  <2>2. "signal" \in Reasons
    BY DEF Reasons
  <2>3. /\ u \in Record /\ u.pc = r.pc
        /\ u.reasons = {} => r.reasons = {} /\ ~ danger
        /\ SameSetup(r, u) /\ SameLibraries(r, u) /\ SameServer(r, u) /\ SamePool(r, u)
    BY <2>1, <2>2, BecauseFields
  <2>4. RecordInv(u, file, config_path)
    BY <2>1, <2>2, BecauseKept
  <2>5. PICK x : x = Append(u.ready, handler)
    OBVIOUS
  <2>6. u.ready \in Seq({"exit", "config"}) /\ u.ready = r.ready /\ u.thread = r.thread
    BY <2>3 DEF Record, SamePool
  <2>7. x \in Seq({"exit", "config"})
    BY <2>5, <2>6
  <2>8. s = WithReady(u, x)
    BY <1>2, <2>1, <2>5 DEF Send, WithReady
  <2>9. LifeInv(u) /\ LibraryInv(u) /\ LogInv(u) /\ BuiltInv(u)
    BY <2>4 DEF RecordInv
  <2>10. /\ s \in Record /\ s.pc = u.pc /\ s.reasons = u.reasons /\ s.ready = x
         /\ s.tree = u.tree /\ s.lib_handle_ = u.lib_handle_ /\ s.done_ = u.done_
         /\ s.thread = u.thread
         /\ LifeInv(s) /\ LibraryInv(s) /\ LogInv(s) /\ BuiltInv(s)
    BY <2>3, <2>7, <2>8, <2>9, QueuedKept
  <2>11. ASSUME Calm(u, config_path), ~ danger
         PROVE  Calm(s, config_path)
    <3>1. /\ handler = "config" /\ config_path \notin Relative
          /\ \A i \in 1..Len(r.ready) : r.ready[i] # "config"
          /\ \A t \in Thread : r.thread[t] # "config"
      BY <2>11 DEF Hurt
    <3>2. r.ready = <<>>
      BY <2>6, <2>11, <3>1 DEF Calm
    <3>3. x = <<"config">>
      BY <2>5, <2>6, <3>1, <3>2
    <3>4. \A t \in Thread : s.thread[t] \notin {"exit", "config"}
      BY <2>6, <2>10, <2>11, <3>1 DEF Calm
    <3> QED
      BY <2>10, <3>1, <3>3, <3>4 DEF Calm
  <2>12. SafeInv(s, file, config_path)
    BY <2>3, <2>4, <2>10, <2>11 DEF RecordInv, SafeInv, Loaded
  <2> QED
    BY <2>3, <2>10, <2>12 DEF RecordInv
<1> QED
  BY <1>1, <1>2

\* A process that is started may have two reasons at once.
LEMMA TwoReasons ==
  ASSUME NEW a \in Record, NEW crowded, NEW bad, NEW b, b = Because(a, "port", crowded),
         NEW s, s = Because(b, "file", bad)
  PROVE  /\ s \in Record /\ s.pc = a.pc
         /\ s.reasons = {} => ~ crowded /\ ~ bad
         /\ SameSetup(a, s) /\ SameLibraries(a, s) /\ SamePool(a, s)
<1>1. "port" \in Reasons /\ "file" \in Reasons
  BY DEF Reasons
<1>2. /\ b \in Record /\ b.pc = a.pc
      /\ b.reasons = {} => a.reasons = {} /\ ~ crowded
      /\ SameSetup(a, b) /\ SameLibraries(a, b) /\ SameServer(a, b) /\ SamePool(a, b)
  BY <1>1, BecauseFields
<1>3. /\ s \in Record /\ s.pc = b.pc
      /\ s.reasons = {} => b.reasons = {} /\ ~ bad
      /\ SameSetup(b, s) /\ SameLibraries(b, s) /\ SameServer(b, s) /\ SamePool(b, s)
  BY <1>1, <1>2, BecauseFields
<1>4. SameSetup(a, s) /\ SameLibraries(a, s)
  BY <1>2, <1>3 DEF SameSetup, SameLibraries
<1>5. SamePool(a, s)
  BY <1>2, <1>3 DEF SamePool
<1> QED
  BY <1>2, <1>3, <1>4, <1>5

\* The record of a process that the script starts.
LEMMA LaunchedKept ==
  ASSUME NEW a, a = Goto(Unborn, "args"), NEW s \in Record, s.pc = a.pc, SameSetup(a, s),
         SameLibraries(a, s), SamePool(a, s),
         s.reasons = {} => config_path # "" /\ IsGood(file)
  PROVE  RecordInv(s, file, config_path)
<1>1. a.pc = "args" /\ a \in Record /\ SameSetup(Unborn, a) /\ SameLibraries(Unborn, a)
  <2>1. "args" \in Labels
    BY LabelNames
  <2>2. Unborn \in Record
    BY UnbornType
  <2> QED
    BY <2>1, <2>2, GotoFields
<1>2. SamePool(Unborn, a)
  <2>1. "args" \in Labels
    BY LabelNames
  <2>2. Unborn \in Record
    BY UnbornType
  <2> QED
    BY <2>1, <2>2, GotoFields
<1>7. s.cwd = "start" /\ s.log = Unset
  <2>1. Unborn.cwd = "start" /\ Unborn.log = Unset
    BY UnbornType
  <2> QED
    BY <1>1, <2>1 DEF SameSetup
<1>8. s.normalize = NoLib
  <2>1. Unborn.normalize = NoLib
    BY UnbornType
  <2> QED
    BY <1>1, <2>1 DEF SameLibraries
<1>9. s.done_ = FALSE /\ s.ready = <<>> /\ \A t \in Thread : s.thread[t] = "out"
  <2>1. Unborn.done_ = FALSE /\ Unborn.ready = <<>>
    BY UnbornType
  <2>2. \A t \in Thread : Unborn.thread[t] = "out"
    <3>1. Unborn.thread = [t \in Thread |-> "out"]
      BY UnbornType
    <3> QED
      BY <3>1
  <2>3. s.done_ = Unborn.done_ /\ s.ready = Unborn.ready /\ s.thread = Unborn.thread
    BY <1>2 DEF SamePool
  <2> QED
    BY <2>1, <2>2, <2>3
<1>10. s.pc = "args"
  BY <1>1
<1>11. LifeInv(s) /\ LibraryInv(s)
  <2>1. LifeInv(s)
    BY <1>7, <1>9, <1>10 DEF LifeInv, Loaded
  <2>2. LibraryInv(s)
    BY <1>8 DEF LibraryInv
  <2> QED
    BY <2>1, <2>2
<1>12. LogInv(s) /\ BuiltInv(s)
  <2>1. ~ HasPort(s) /\ ~ HasLibrary(s) /\ ~ HasSettings(s) /\ ~ HasLog(s)
    BY <1>10 DEF HasLog, HasSettings, HasLibrary, HasPort, Serves
  <2>2. s.log.text_stream_backend = Null /\ s.log.syslog_backend = Null
    <3>1. Unset.text_stream_backend = Null /\ Unset.syslog_backend = Null
      BY DEF Unset
    <3> QED
      BY <1>7, <3>1
  <2> QED
    BY <1>10, <2>1, <2>2 DEF LogInv, BuiltInv
<1>13. Calm(s, config_path)
  BY <1>9 DEF Calm
<1>14. SafeInv(s, file, config_path)
  BY <1>9, <1>10, <1>13 DEF SafeInv, Loaded
<1> QED
  BY <1>11, <1>12, <1>14 DEF RecordInv

-----------------------------------------------------------------------------
(* The invariant.                                                           *)

\* What is known of a process.
LEMMA RecordFacts ==
  ASSUME IInv, NEW p \in Process
  PROVE  /\ proc[p] \in Record /\ RecordInv(proc[p], file, config_path)
         /\ file \in Contents /\ proc \in [Process -> Record]
BY DEF IInv, TypeOK

\* The threads of a process are where its invariant has them.
LEMMA ThreadsFollow ==
  ASSUME NEW P \in [Process -> Record], \A p \in Process : LifeInv(P[p])
  PROVE  \A p \in Process, t \in Thread :
           P[p].thread[t] # "out" => P[p].pc = "serve" /\ P[p].handled
BY DEF LifeInv

\* Where processes keep their invariants, become no more, and forget no reason, the
\* invariant holds again.
LEMMA AllKeep ==
  ASSUME IInv,
         file' \in Contents, config_path' = config_path, proc' \in [Process -> Record],
         script' \in Seq({"run", "wait", "kill", "rm", "usr1"}), Len(script') <= 4,
         pid' \in BOOLEAN, commands' \in 0..MaxCommands, edits' \in 0..MaxEdits,
         \A p \in Process : RecordInv(proc'[p], file', config_path'),
         \A p \in Process : Alive(p)' => Alive(p),
         \A p \in Process : Alive(p) /\ Alive(p)' /\ proc'[p].reasons = {} => proc[p].reasons = {}
  PROVE  IInv'
<1>1. config_path' \in ConfigPaths
  BY DEF IInv, TypeOK
<1>2. \A p \in Process : LifeInv(proc'[p])
  BY DEF RecordInv
<1>3. \A p \in Process, t \in Thread :
        proc'[p].thread[t] # "out" => proc'[p].pc = "serve" /\ proc'[p].handled
  BY <1>2, ThreadsFollow
<1>4. TypeOK'
  BY <1>1, <1>3 DEF TypeOK, At
<1>5. Alone'
  BY DEF IInv, Alone
<1> QED
  BY <1>4, <1>5 DEF IInv

\* The same of one process that takes a step.
LEMMA BecomesKeeps ==
  ASSUME IInv, NEW p \in Process, NEW s, Becomes(p, s), Alive(p), Keeps(proc[p], s)
  PROVE  IInv'
<1>1. /\ proc \in [Process -> Record] /\ s \in Record
      /\ RecordInv(s, file, config_path) /\ (s.reasons = {} => proc[p].reasons = {})
  BY DEF IInv, TypeOK, Keeps
<1>2. UNCHANGED <<file, config_path, script, pid, commands, edits>>
  BY DEF Becomes
<1>3. /\ proc' \in [Process -> Record]
      /\ \A q \in Process : proc'[q] = IF q = p THEN s ELSE proc[q]
  BY <1>1 DEF Becomes
<1>4. \A q \in Process : RecordInv(proc'[q], file', config_path')
  BY <1>1, <1>2, <1>3 DEF IInv
<1>5. \A q \in Process : Alive(q)' => Alive(q)
  BY <1>3 DEF Alive
<1>6. \A q \in Process : proc'[q].reasons = {} => proc[q].reasons = {}
  BY <1>1, <1>3
<1>7. /\ file' \in Contents /\ config_path' = config_path
      /\ script' \in Seq({"run", "wait", "kill", "rm", "usr1"}) /\ Len(script') <= 4
      /\ pid' \in BOOLEAN /\ commands' \in 0..MaxCommands /\ edits' \in 0..MaxEdits
  BY <1>2 DEF IInv, TypeOK
<1> QED
  BY <1>3, <1>4, <1>5, <1>6, <1>7, AllKeep

\* The first state.
LEMMA InitIInv == Init => IInv
<1> SUFFICES ASSUME Init PROVE IInv
  OBVIOUS
<1>1. \A p \in Process : proc[p] = Unborn
  BY DEF Init
<1>2. /\ Unborn \in Record /\ Unborn.pc = "unborn" /\ Unborn.log = Unset
      /\ Unborn.normalize = NoLib /\ Unborn.bound = NoPort
      /\ \A t \in Thread : Unborn.thread[t] = "out"
  <2>1. Unborn.thread = [t \in Thread |-> "out"]
    BY UnbornType
  <2>2. \A t \in Thread : Unborn.thread[t] = "out"
    BY <2>1
  <2> QED
    BY <2>2, UnbornType
<1>3. RecordInv(Unborn, file, config_path)
  <2>1. LifeInv(Unborn)
    BY <1>2 DEF LifeInv, Loaded
  <2>2. LibraryInv(Unborn)
    BY <1>2 DEF LibraryInv
  <2>3. ~ HasPort(Unborn) /\ ~ HasLibrary(Unborn) /\ ~ HasSettings(Unborn) /\ ~ HasLog(Unborn)
    BY <1>2 DEF HasLog, HasSettings, HasLibrary, HasPort, Serves
  <2>4. Unborn.log.text_stream_backend = Null /\ Unborn.log.syslog_backend = Null
    <3>1. Unset.text_stream_backend = Null /\ Unset.syslog_backend = Null
      BY DEF Unset
    <3> QED
      BY <1>2, <3>1
  <2>5. LogInv(Unborn) /\ BuiltInv(Unborn)
    BY <1>2, <2>3, <2>4 DEF LogInv, BuiltInv
  <2>6. SafeInv(Unborn, file, config_path)
    BY <1>2 DEF SafeInv
  <2> QED
    BY <2>1, <2>2, <2>5, <2>6 DEF RecordInv
<1>4. Alone
  BY <1>1, <1>2 DEF Alone, Alive
<1>5. proc \in [Process -> Record]
  BY <1>2 DEF Init
<1>6. script = <<>> /\ pid = FALSE /\ commands \in 0..MaxCommands /\ edits \in 0..MaxEdits
  BY BoundAssumption DEF Init
<1>7. script \in Seq({"run", "wait", "kill", "rm", "usr1"}) /\ Len(script) <= 4
  BY <1>6
<1>8. \A p \in Process, t \in Thread : proc[p].thread[t] = "out"
  BY <1>1, <1>2
<1>9. TypeOK
  BY <1>5, <1>6, <1>7, <1>8 DEF TypeOK, Init
<1> QED
  BY <1>1, <1>3, <1>4, <1>9 DEF IInv

\* The steps of the main thread up to the reset.
LEMMA SetupKeeps ==
  ASSUME IInv, NEW p \in Process,
         process_args(p) \/ Load(p) \/ BeginLog(p) \/ CommitLog(p) \/ Fork(p) \/ Detach(p) \/ Reset(p)
  PROVE  IInv'
<1>1. PICK r : r = proc[p]
  OBVIOUS
<1>2. r \in Record /\ RecordInv(r, file, config_path) /\ file \in Contents
  BY <1>1, RecordFacts
<1>3. ASSUME NEW s, Becomes(p, s), r.pc \notin {"unborn", "gone"}, Keeps(r, s)
      PROVE  IInv'
  BY <1>1, <1>3, BecomesKeeps DEF Alive
<1>4. CASE process_args(p)
  <2>1. PICK s : s = IF config_path = "" THEN Gone(r) ELSE Goto(r, "load")
    OBVIOUS
  <2>2. r.pc = "args" /\ Becomes(p, s)
    BY <1>1, <1>4, <2>1 DEF process_args, At
  <2>3. Keeps(r, s)
    BY <1>2, <2>1, <2>2, ArgsKeeps
  <2> QED
    BY <1>3, <2>2, <2>3
<1>5. CASE Load(p)
  <2>1. PICK s : s = IF CanRead(r) THEN WithTree(Goto(r, "log"), file) ELSE Gone(r)
    OBVIOUS
  <2>2. r.pc = "load" /\ Becomes(p, s)
    BY <1>1, <1>5, <2>1 DEF Load, At, WithTree
  <2>3. Keeps(r, s)
    BY <1>2, <2>1, <2>2, LoadKeeps
  <2> QED
    BY <1>3, <2>2, <2>3
<1>6. CASE BeginLog(p)
  <2>1. PICK s : s = WithLog(Goto(r, "sinks"), backends_init_start(r.log))
    OBVIOUS
  <2>2. Goto(r, "sinks").log = r.log
    <3>1. "sinks" \in Labels
      BY LabelNames
    <3> QED
      BY <1>2, <3>1, GotoFields DEF SameSetup
  <2>3. r.pc = "log" /\ Becomes(p, s)
    BY <1>1, <1>6, <2>1, <2>2 DEF BeginLog, At, WithLog
  <2>4. Keeps(r, s)
    BY <1>2, <2>1, <2>3, BeginLogKeeps
  <2> QED
    BY <1>3, <2>3, <2>4
<1>7. CASE CommitLog(p)
  <2>1. PICK y : y = IF r.cwd = "/" THEN "reset" ELSE "fork"
    OBVIOUS
  <2>2. PICK s : s = WithLog(Goto(r, y), init_sinks(r.log, r.tree, r.cwd))
    OBVIOUS
  <2>3. Goto(r, y).log = r.log
    <3>1. "reset" \in Labels /\ "fork" \in Labels
      BY LabelNames
    <3>2. y \in Labels
      BY <2>1, <3>1
    <3> QED
      BY <1>2, <3>2, GotoFields DEF SameSetup
  <2>4. r.pc = "sinks" /\ Becomes(p, s)
    BY <1>1, <1>7, <2>1, <2>2, <2>3 DEF CommitLog, At, WithLog
  <2>5. y \in {"reset", "fork"}
    BY <2>1
  <2>6. Keeps(r, s)
    BY <1>2, <2>2, <2>4, <2>5, CommitLogKeeps
  <2> QED
    BY <1>3, <2>4, <2>6
<1>8. CASE Fork(p)
  <2>1. PICK s : s = Goto(r, "detach")
    OBVIOUS
  <2>2. r.pc = "fork" /\ Becomes(p, s)
    BY <1>1, <1>8, <2>1 DEF Fork, At
  <2>3. Keeps(r, s)
    BY <1>2, <2>1, <2>2, ForkKeeps
  <2> QED
    BY <1>3, <2>2, <2>3
<1>9. CASE Detach(p)
  <2>1. PICK s : s = WithCwd(Goto(r, "reset"), "/")
    OBVIOUS
  <2>2. r.pc = "detach" /\ Becomes(p, s)
    BY <1>1, <1>9, <2>1 DEF Detach, At, WithCwd
  <2>3. Keeps(r, s)
    BY <1>2, <2>1, <2>2, DetachKeeps
  <2> QED
    BY <1>3, <2>2, <2>3
<1>10. CASE Reset(p)
  <2>1. PICK s : s = Goto(reset_server(r), "storage")
    OBVIOUS
  <2>2. r.pc = "reset" /\ Becomes(p, s)
    BY <1>1, <1>10, <2>1 DEF Reset, At
  <2>3. Keeps(r, s)
    BY <1>2, <2>1, <2>2, ResetKeeps
  <2> QED
    BY <1>3, <2>2, <2>3
<1> QED
  BY <1>4, <1>5, <1>6, <1>7, <1>8, <1>9, <1>10

\* Who finds the port taken is not alone.
LEMMA TakenHasReasons ==
  ASSUME IInv, NEW p \in Process, proc[p].pc = "bind", NEW n, IsTaken(n)
  PROVE  proc[p].reasons # {}
<1>1. PICK q \in Process : proc[q].bound = n /\ n # NoPort
  BY DEF IsTaken
<1>2. LifeInv(proc[p]) /\ LifeInv(proc[q])
  BY DEF IInv, RecordInv
<1>3. proc[q].pc \notin {"unborn", "gone"}
  BY <1>1, <1>2 DEF LifeInv
<1>4. q # p
  BY <1>1, <1>2 DEF LifeInv
<1> QED
  BY <1>3, <1>4 DEF IInv, Alone, Alive

\* The steps of create_server and of run.
LEMMA ServerKeeps ==
  ASSUME IInv, NEW p \in Process,
         MakeStorage(p) \/ MakeFiller(p) \/ Bind(p) \/ SetHandlers(p) \/ Run(p) \/ Join(p)
  PROVE  IInv'
<1>1. PICK r : r = proc[p]
  OBVIOUS
<1>2. r \in Record /\ RecordInv(r, file, config_path)
  BY <1>1, RecordFacts
<1>3. ASSUME NEW s, Becomes(p, s), r.pc \notin {"unborn", "gone"}, Keeps(r, s)
      PROVE  IInv'
  BY <1>1, <1>3, BecomesKeeps DEF Alive
<1>4. CASE MakeStorage(p)
  <2>1. PICK u : u = WithSettings(r, Settings(r.tree))
    OBVIOUS
  <2>2. PICK s : s = IF HasFiller(r.tree) THEN configure_func(u, filler(r.tree))
                                          ELSE Goto(r, "down")
    OBVIOUS
  <2>3. r.pc = "storage" /\ Becomes(p, s)
    BY <1>1, <1>4, <2>1, <2>2 DEF MakeStorage, At, WithSettings
  <2>4. Keeps(r, s)
    BY <1>2, <2>1, <2>2, <2>3, MakeStorageKeeps
  <2> QED
    BY <1>3, <2>3, <2>4
<1>5. CASE MakeFiller(p)
  <2>1. PICK s : s = Configure(r)
    OBVIOUS
  <2>2. r.pc = "filler" /\ Becomes(p, s)
    BY <1>1, <1>5, <2>1 DEF MakeFiller, At
  <2>3. Keeps(r, s)
    BY <1>2, <2>1, <2>2, ConfigureKeeps
  <2> QED
    BY <1>3, <2>2, <2>3
<1>6. CASE Bind(p)
  <2>1. PICK n : n = r.settings.port
    OBVIOUS
  <2>2. PICK taken : taken = IsTaken(n)
    OBVIOUS
  <2>3. PICK s : s = IF taken THEN Goto(r, "down") ELSE WithPort(Goto(r, "signals"), r.settings.port)
    OBVIOUS
  <2>4. r.pc = "bind" /\ Becomes(p, s)
    BY <1>1, <1>6, <2>1, <2>2, <2>3 DEF Bind, At, WithPort
  <2>5. taken => r.reasons # {}
    BY <1>1, <2>2, <2>4, TakenHasReasons
  <2>6. Keeps(r, s)
    BY <1>2, <2>3, <2>4, <2>5, BindKeeps
  <2> QED
    BY <1>3, <2>4, <2>6
<1>7. CASE SetHandlers(p)
  <2>1. PICK s : s = WithHandlers(Goto(r, "run"))
    OBVIOUS
  <2>2. r.pc = "signals" /\ Becomes(p, s)
    BY <1>1, <1>7, <2>1 DEF SetHandlers, At, WithHandlers
  <2>3. Keeps(r, s)
    BY <1>2, <2>1, <2>2, SetHandlersKeeps
  <2> QED
    BY <1>3, <2>2, <2>3
<1>8. CASE Run(p)
  <2>1. PICK x : x = [t \in Thread |-> IF t <= r.settings.workers THEN "idle" ELSE "out"]
    OBVIOUS
  <2>2. x \in [Thread -> {"idle", "out"}]
    BY <2>1
  <2>3. PICK s : s = Running(Goto(r, "serve"), x)
    OBVIOUS
  <2>4. r.pc = "run" /\ Becomes(p, s)
    BY <1>1, <1>8, <2>1, <2>3 DEF Run, At, Running
  <2>5. Keeps(r, s)
    BY <1>2, <2>2, <2>3, <2>4, RunKeeps
  <2> QED
    BY <1>3, <2>4, <2>5
<1>9. CASE Join(p)
  <2>1. PICK y : y = IF r.done_ THEN "down" ELSE "log"
    OBVIOUS
  <2>2. PICK s : s = WithThreads(Goto(r, y), [t \in Thread |-> "out"])
    OBVIOUS
  <2>3. r.pc = "serve" /\ Becomes(p, s)
    BY <1>1, <1>9, <2>1, <2>2 DEF Join, At, WithThreads
  <2>4. \A t \in Thread : r.thread[t] \in {"out", "idle"}
    BY <1>1, <1>9 DEF Join
  <2>5. Keeps(r, s)
    BY <1>2, <2>1, <2>2, <2>3, <2>4, JoinKeeps
  <2> QED
    BY <1>3, <2>3, <2>5
<1> QED
  BY <1>4, <1>5, <1>6, <1>7, <1>8, <1>9

\* What ends a process: it is taken down, fork fails, or its filler was not configured.
LEMMA EndKeeps ==
  ASSUME IInv, NEW p \in Process, TakeDown(p) \/ ForkFails(p) \/ FillerNotConfigured(p)
  PROVE  IInv'
<1>1. PICK r : r = proc[p]
  OBVIOUS
<1>2. r \in Record /\ RecordInv(r, file, config_path)
  BY <1>1, RecordFacts
<1>3. ASSUME NEW s, Becomes(p, s), r.pc \notin {"unborn", "gone"}, Keeps(r, s)
      PROVE  IInv'
  BY <1>1, <1>3, BecomesKeeps DEF Alive
<1>4. CASE TakeDown(p)
  <2>1. r.pc = "down" /\ Becomes(p, Gone(r))
    BY <1>1, <1>4 DEF TakeDown, At
  <2>2. r.reasons # {}
    BY <1>2, <2>1 DEF RecordInv, SafeInv
  <2> QED
    BY <1>2, <1>3, <2>1, <2>2, GoneKeeps
<1>5. CASE ForkFails(p)
  <2>1. PICK u : u = Because(r, "fork", TRUE)
    OBVIOUS
  <2>2. PICK s : s = Gone(u)
    OBVIOUS
  <2>3. r.pc \in {"fork", "detach"} /\ Becomes(p, s)
    BY <1>1, <1>5, <2>1, <2>2 DEF ForkFails, At, Because
  <2>4. "fork" \in Reasons
    BY DEF Reasons
  <2>5. u \in Record /\ u.reasons # {}
    BY <1>2, <2>1, <2>4, BecauseFields
  <2>6. Keeps(u, s)
    BY <2>2, <2>5, GoneKeeps
  <2>7. Keeps(r, s)
    BY <2>5, <2>6 DEF Keeps
  <2> QED
    BY <1>3, <2>3, <2>7
<1>6. CASE FillerNotConfigured(p)
  <2>1. /\ r.pc \in {"bind", "signals", "run", "serve"} /\ r.lib_handle_ = NoLib
        /\ Becomes(p, Gone(r))
    BY <1>1, <1>6 DEF FillerNotConfigured
  <2>2. r.reasons # {}
    BY <1>2, <2>1 DEF RecordInv, SafeInv
  <2> QED
    BY <1>2, <1>3, <2>1, <2>2, GoneKeeps
<1> QED
  BY <1>4, <1>5, <1>6

\* The steps of the pool, and a client's change of the level.
LEMMA PoolStepKeeps ==
  ASSUME IInv, NEW p \in Process, (\E t \in Thread : Pool(p, t)) \/ SetLevel(p)
  PROVE  IInv'
<1>1. PICK r : r = proc[p]
  OBVIOUS
<1>2. r \in Record /\ RecordInv(r, file, config_path) /\ file \in Contents
  BY <1>1, RecordFacts
<1>3. ASSUME NEW s, Becomes(p, s), r.pc = "serve", Keeps(r, s)
      PROVE  IInv'
  BY <1>1, <1>3, BecomesKeeps DEF Alive
<1>4. \A t \in Thread : r.thread[t] # "out" => r.pc = "serve"
  BY <1>2 DEF RecordInv, LifeInv
<1>5. ASSUME NEW t \in Thread, Take(p, t) PROVE IInv'
  <2>1. PICK s : s = Turn(r, t, Head(r.ready), Tail(r.ready))
    OBVIOUS
  <2>2. r.thread[t] = "idle" /\ r.stopped = FALSE /\ r.ready # <<>>
    BY <1>1, <1>2, <1>5 DEF Take, Record
  <2>3. Becomes(p, s)
    BY <1>1, <1>5, <2>1 DEF Take, Turn
  <2>4. Keeps(r, s)
    BY <1>2, <2>1, <2>2, TakeKeeps
  <2> QED
    BY <1>3, <1>4, <2>2, <2>3, <2>4
<1>6. ASSUME NEW t \in Thread, OnExit(p, t) PROVE IInv'
  <2>1. PICK s : s = Exits(r, t)
    OBVIOUS
  <2>2. r.thread[t] = "exit" /\ Becomes(p, s)
    BY <1>1, <1>6, <2>1 DEF OnExit, Exits
  <2>3. Keeps(r, s)
    BY <1>2, <2>1, <2>2, OnExitKeeps
  <2> QED
    BY <1>3, <1>4, <2>2, <2>3
<1>7. ASSUME NEW t \in Thread, OnConfig(p, t) PROVE IInv'
  <2>1. PICK s : s = IF CanRead(r) THEN Reloads(r, t, file) ELSE Gone(r)
    OBVIOUS
  <2>2. /\ r.thread[t] = "config"
        /\ \/ Becomes(p, s)
           \/ /\ \E u \in Thread \ {t} : r.thread[u] = "config"
              /\ Becomes(p, Gone(r))
    BY <1>1, <1>7, <2>1 DEF OnConfig, Reloads
  <2>3. Keeps(r, s)
    BY <1>2, <2>1, <2>2, OnConfigKeeps
  <2>4. ASSUME NEW u \in Thread \ {t}, r.thread[u] = "config" PROVE Keeps(r, Gone(r))
    BY <1>2, <2>2, <2>4, RaceKeeps
  <2> QED
    BY <1>3, <1>4, <2>2, <2>3, <2>4
<1>8. CASE SetLevel(p)
  <2>1. PICK text \in LevelTexts :
          Becomes(p, [r EXCEPT !.log = set_severity_level(@, text2level(text))])
    BY <1>1, <1>8 DEF SetLevel
  <2>2. PICK n : n = text2level(text)
    OBVIOUS
  <2>3. n \in 0..7
    BY <2>2, LevelType
  <2>4. PICK s : s = WithLog(r, set_severity_level(r.log, n))
    OBVIOUS
  <2>5. Becomes(p, s)
    BY <2>1, <2>2, <2>4 DEF WithLog
  <2>6. r.pc = "serve"
    BY <1>1, <1>8 DEF SetLevel, At
  <2>7. Keeps(r, s)
    BY <1>2, <2>3, <2>4, <2>6, SetLevelKeeps
  <2> QED
    BY <1>3, <2>5, <2>6, <2>7
<1> QED
  BY <1>5, <1>6, <1>7, <1>8 DEF Pool

\* The processes do not change, nor what they see.
LEMMA IdleKeeps ==
  ASSUME IInv, UNCHANGED <<file, config_path, proc>>,
         script' \in Seq({"run", "wait", "kill", "rm", "usr1"}), Len(script') <= 4,
         pid' \in BOOLEAN, commands' \in 0..MaxCommands, edits' \in 0..MaxEdits
  PROVE  IInv'
<1>1. file' \in Contents /\ config_path' = config_path /\ proc' \in [Process -> Record]
  BY DEF IInv, TypeOK
<1>2. \A p \in Process : RecordInv(proc'[p], file', config_path')
  BY DEF IInv
<1>3. \A p \in Process : Alive(p)' => Alive(p)
  BY DEF Alive
<1>4. \A p \in Process : proc'[p].reasons = {} => proc[p].reasons = {}
  OBVIOUS
<1> QED
  BY <1>1, <1>2, <1>3, <1>4, AllKeep

\* What the script has yet to do stays a few of its steps.
LEMMA ScriptType ==
  ASSUME IInv, Does("run") \/ Does("wait") \/ Does("kill") \/ Does("rm") \/ Does("usr1")
  PROVE  /\ Tail(script) \in Seq({"run", "wait", "kill", "rm", "usr1"})
         /\ Len(Tail(script)) <= 4
<1>1. PICK S : S = {"run", "wait", "kill", "rm", "usr1"}
  OBVIOUS
<1>2. script \in Seq(S) /\ Len(script) <= 4 /\ script # <<>>
  BY <1>1 DEF IInv, TypeOK, Does
<1>3. Tail(script) \in Seq(S) /\ Len(Tail(script)) <= 4
  BY <1>2
<1> QED
  BY <1>1, <1>3

\* What the commands have the script do.
LEMMA CommandType ==
  ASSUME NEW q, q = start \/ q = stop \/ q = stop \o start \/ q = reconfigure
  PROVE  q \in Seq({"run", "wait", "kill", "rm", "usr1"}) /\ Len(q) <= 4
<1>1. PICK S : S = {"run", "wait", "kill", "rm", "usr1"}
  OBVIOUS
<1>2. start \in Seq(S) /\ Len(start) = 2
  BY <1>1 DEF start
<1>3. stop \in Seq(S) /\ Len(stop) = 2
  BY <1>1 DEF stop
<1>4. reconfigure \in Seq(S) /\ Len(reconfigure) = 1
  BY <1>1 DEF reconfigure
<1>5. stop \o start \in Seq(S) /\ Len(stop \o start) = 4
  <2>1. PICK a, b : a = stop /\ b = start
    OBVIOUS
  <2>2. a \in Seq(S) /\ b \in Seq(S) /\ Len(a) = 2 /\ Len(b) = 2
    BY <1>2, <1>3, <2>1
  <2>3. a \o b \in Seq(S)
    BY <2>2, ConcatProperties
  <2>4. Len(a \o b) = Len(a) + Len(b)
    BY <2>2, ConcatProperties
  <2>5. Len(a \o b) = 4
    BY <2>2, <2>4
  <2> QED
    BY <2>1, <2>3, <2>5
<1>6. q \in Seq(S) /\ Len(q) \in {1, 2, 4}
  BY <1>2, <1>3, <1>4, <1>5, Zenon
<1>7. Len(q) <= 4
  <2>1. PICK n : n = Len(q)
    OBVIOUS
  <2>2. n \in {1, 2, 4}
    BY <1>6, <2>1, Zenon
  <2>3. n <= 4
    BY <2>2
  <2> QED
    BY <2>1, <2>3, Zenon
<1> QED
  BY <1>1, <1>6, <1>7

\* A command of the administrator.
LEMMA CommandKeeps ==
  ASSUME IInv, Script
  PROVE  IInv'
<1>1. PICK q : Command(q) /\ (q = start \/ q = stop \/ q = stop \o start \/ q = reconfigure)
  BY DEF Script, Start, Stop, Reload, Reconfigure
<1>2. q \in Seq({"run", "wait", "kill", "rm", "usr1"}) /\ Len(q) <= 4
  BY <1>1, CommandType
<1>3. /\ UNCHANGED <<file, config_path, proc>> /\ script' = q
      /\ pid' = pid /\ edits' = edits /\ commands < MaxCommands /\ commands' = commands + 1
  BY <1>1 DEF Command
<1>4. pid' \in BOOLEAN /\ edits' \in 0..MaxEdits
  BY <1>3 DEF IInv, TypeOK
<1>5. commands' \in 0..MaxCommands
  <2>1. commands \in 0..MaxCommands /\ MaxCommands \in Nat
    BY BoundAssumption DEF IInv, TypeOK
  <2> QED
    BY <1>3, <2>1
<1> QED
  BY <1>2, <1>3, <1>4, <1>5, IdleKeeps

\* The steps of the script that leave the processes alone, or fail.
LEMMA QuietStepKeeps ==
  ASSUME IInv,
         Does("run") \/ Does("wait") \/ Does("kill") \/ Does("rm") \/ Does("usr1"),
         proc' = proc, script' = Tail(script) \/ script' = <<>>, pid' \in BOOLEAN
  PROVE  IInv'
<1>1. UNCHANGED <<file, config_path, commands, edits>>
  BY DEF Does
<1>2. commands' \in 0..MaxCommands /\ edits' \in 0..MaxEdits
  BY <1>1 DEF IInv, TypeOK
<1>3. script' \in Seq({"run", "wait", "kill", "rm", "usr1"}) /\ Len(script') <= 4
  <2>1. Tail(script) \in Seq({"run", "wait", "kill", "rm", "usr1"}) /\ Len(Tail(script)) <= 4
    BY ScriptType, Zenon
  <2>2. <<>> \in Seq({"run", "wait", "kill", "rm", "usr1"}) /\ Len(<<>>) <= 4
    OBVIOUS
  <2> QED
    BY <2>1, <2>2, Zenon
<1> QED
  BY <1>1, <1>2, <1>3, IdleKeeps

\* A signal to all processes.
LEMMA KillallKeeps ==
  ASSUME IInv, NEW handler \in {"exit", "config"}, NEW endangered \in SUBSET Process,
         Does("kill") \/ Does("usr1"), killall(handler, endangered), Proceed, UNCHANGED pid,
         handler = "exit" => endangered = Process,
         \A p \in Process : Hurt(proc[p]) => p \in endangered
  PROVE  IInv'
<1>1. UNCHANGED <<file, config_path, commands, edits>>
  BY DEF Does
<1>2. commands' \in 0..MaxCommands /\ edits' \in 0..MaxEdits /\ pid' \in BOOLEAN
      /\ file' \in Contents /\ config_path' = config_path
  BY <1>1 DEF IInv, TypeOK
<1>3. script' \in Seq({"run", "wait", "kill", "rm", "usr1"}) /\ Len(script') <= 4
  BY ScriptType DEF Proceed
<1>4. \A p \in Process :
        proc'[p] = IF Alive(p) THEN Send(proc[p], handler, p \in endangered) ELSE proc[p]
  BY DEF killall
<1>5. ASSUME NEW p \in Process
      PROVE  /\ proc'[p] \in Record /\ RecordInv(proc'[p], file, config_path)
             /\ Alive(p)' => Alive(p)
             /\ Alive(p) /\ proc'[p].reasons = {} => proc[p].reasons = {}
  <2>1. proc[p] \in Record /\ RecordInv(proc[p], file, config_path)
    BY RecordFacts
  <2>2. CASE ~ Alive(p)
    BY <1>4, <2>1, <2>2 DEF Alive
  <2>3. CASE Alive(p)
    <3>1. PICK danger : danger = (p \in endangered)
      OBVIOUS
    <3>2. handler = "exit" => danger
      BY <3>1
    <3>3. Hurt(proc[p]) => danger
      BY <3>1
    <3>4. proc'[p] = Send(proc[p], handler, danger)
      BY <1>4, <2>3, <3>1
    <3>5. proc[p].pc \notin {"unborn", "gone"}
      BY <2>3 DEF Alive
    <3>6. /\ proc'[p] \in Record /\ RecordInv(proc'[p], file, config_path)
          /\ proc'[p].reasons = {} => proc[p].reasons = {}
      BY <2>1, <3>2, <3>3, <3>4, <3>5, SendKept
    <3> QED
      BY <2>3, <3>6
  <2> QED
    BY <2>2, <2>3
<1>6. proc' \in [Process -> Record]
  BY <1>5 DEF killall
<1>7. \A p \in Process : RecordInv(proc'[p], file', config_path')
  BY <1>1, <1>5
<1> QED
  BY <1>2, <1>3, <1>5, <1>6, <1>7, AllKeep

\* A process that the script starts, and what that says of the others.
LEMMA StartKeeps ==
  ASSUME IInv, NEW p \in Process, At(p, "unborn"), proc' = Launched(p),
         Does("run"), Proceed, UNCHANGED pid
  PROVE  IInv'
<1>1. UNCHANGED <<file, config_path, commands, edits>>
  BY DEF Does
<1>2. commands' \in 0..MaxCommands /\ edits' \in 0..MaxEdits /\ pid' \in BOOLEAN
      /\ file' \in Contents /\ config_path' \in ConfigPaths
  BY <1>1 DEF IInv, TypeOK
<1>3. script' \in Seq({"run", "wait", "kill", "rm", "usr1"}) /\ Len(script') <= 4
  BY ScriptType, Zenon DEF Proceed
<1>4. PICK crowded : crowded = \E q \in Process : Alive(q)
  OBVIOUS
<1>5. PICK bad : bad = (config_path = "" \/ ~ IsGood(file))
  OBVIOUS
<1>6. PICK a : a = Goto(Unborn, "args")
  OBVIOUS
<1>7. PICK b : b = Because(a, "port", crowded)
  OBVIOUS
<1>8. PICK s : s = Because(b, "file", bad)
  OBVIOUS
<1>9. \A q \in Process :
        proc'[q] = IF q = p THEN s ELSE IF Alive(q) THEN Because(proc[q], "port", TRUE) ELSE proc[q]
  BY <1>4, <1>5, <1>6, <1>7, <1>8 DEF Launched
<1>10. a \in Record /\ a.pc = "args"
  <2>1. "args" \in Labels
    BY LabelNames
  <2>2. Unborn \in Record
    BY UnbornType
  <2> QED
    BY <1>6, <2>1, <2>2, GotoFields
<1>11. /\ s \in Record /\ s.pc = a.pc
       /\ s.reasons = {} => ~ crowded /\ ~ bad
       /\ SameSetup(a, s) /\ SameLibraries(a, s) /\ SamePool(a, s)
  BY <1>7, <1>8, <1>10, TwoReasons
<1>12. RecordInv(s, file, config_path)
  BY <1>5, <1>6, <1>11, LaunchedKept
<1>13. ASSUME NEW q \in Process, Alive(q), q # p
       PROVE  /\ proc'[q] \in Record /\ RecordInv(proc'[q], file, config_path)
              /\ proc'[q].reasons # {}
  <2>1. proc[q] \in Record /\ RecordInv(proc[q], file, config_path)
    BY RecordFacts
  <2>2. PICK holds : holds = TRUE
    OBVIOUS
  <2>3. PICK u : u = Because(proc[q], "port", holds)
    OBVIOUS
  <2>4. "port" \in Reasons /\ (~ holds => file = file \/ IsGood(file))
    BY DEF Reasons
  <2>5. u \in Record /\ RecordInv(u, file, config_path) /\ (u.reasons = {} => ~ holds)
    BY <2>1, <2>3, <2>4, BecauseKept
  <2>6. u = Because(proc[q], "port", TRUE)
    BY <2>2, <2>3, Zenon
  <2>7. proc'[q] = u
    BY <1>9, <1>13, <2>6
  <2>8. u.reasons # {}
    BY <2>2, <2>5, Zenon
  <2> QED
    BY <2>5, <2>7, <2>8
<1>14. ASSUME NEW q \in Process
       PROVE  proc'[q] \in Record /\ RecordInv(proc'[q], file, config_path)
  <2>1. proc[q] \in Record /\ RecordInv(proc[q], file, config_path)
    BY RecordFacts
  <2>2. CASE q = p
    BY <1>9, <1>11, <1>12, <2>2
  <2>3. CASE q # p /\ Alive(q)
    BY <1>13, <2>3
  <2>4. CASE q # p /\ ~ Alive(q)
    BY <1>9, <2>1, <2>4
  <2> QED
    BY <2>2, <2>3, <2>4
<1>15. proc' \in [Process -> Record]
  BY <1>14 DEF Launched
<1>16. \A q \in Process : LifeInv(proc'[q])
  BY <1>14 DEF RecordInv
<1>17. \A q \in Process, t \in Thread :
         proc'[q].thread[t] # "out" => proc'[q].pc = "serve" /\ proc'[q].handled
  BY <1>15, <1>16, ThreadsFollow
<1>18. TypeOK'
  BY <1>2, <1>3, <1>15, <1>17 DEF TypeOK, At
<1>19. \A q \in Process : q # p /\ Alive(q)' => Alive(q)
  BY <1>9 DEF Alive
<1>20. ASSUME NEW q \in Process, q # p, Alive(q) PROVE proc'[p].reasons # {}
  BY <1>4, <1>9, <1>11, <1>20
<1>21. Alone'
  BY <1>13, <1>19, <1>20 DEF Alone
<1> QED
  BY <1>1, <1>14, <1>18, <1>21 DEF IInv

\* The steps of the script.
LEMMA StepsKeep ==
  ASSUME IInv, Steps
  PROVE  IInv'
<1>1. pid \in BOOLEAN
  BY DEF IInv, TypeOK
<1>2. ASSUME Fail, Does("run") \/ Does("kill") \/ Does("usr1") PROVE IInv'
  <2>1. proc' = proc /\ script' = <<>> /\ pid' \in BOOLEAN
    BY <1>1, <1>2 DEF Fail
  <2> QED
    BY <1>2, <2>1, QuietStepKeeps
<1>3. CASE Launch
  <2>1. Does("run")
    BY <1>3 DEF Launch
  <2>2. CASE pid
    BY <1>2, <1>3, <2>1, <2>2 DEF Launch
  <2>3. CASE ~ pid
    <3>1. PICK p \in Process : At(p, "unborn") /\ proc' = Launched(p) /\ Proceed /\ UNCHANGED pid
      BY <1>3, <2>3 DEF Launch
    <3> QED
      BY <2>1, <3>1, StartKeeps
  <2> QED
    BY <2>2, <2>3
<1>4. CASE Touch
  <2>1. Does("wait") /\ proc' = proc /\ script' = Tail(script) /\ pid' \in BOOLEAN
    BY <1>4 DEF Touch, Proceed
  <2> QED
    BY <2>1, QuietStepKeeps
<1>5. CASE Remove
  <2>1. Does("rm") /\ proc' = proc /\ script' = Tail(script) /\ pid' \in BOOLEAN
    BY <1>5 DEF Remove, Proceed
  <2> QED
    BY <2>1, QuietStepKeeps
<1>6. CASE Kill
  <2>1. Does("kill")
    BY <1>6 DEF Kill
  <2>2. CASE ~ pid
    BY <1>2, <1>6, <2>1, <2>2 DEF Kill
  <2>3. CASE pid
    <3>1. killall("exit", Process) /\ Proceed /\ UNCHANGED pid
      BY <1>6, <2>3 DEF Kill
    <3>2. Process \in SUBSET Process /\ "exit" \in {"exit", "config"}
      OBVIOUS
    <3> QED
      BY <2>1, <3>1, <3>2, KillallKeeps
  <2> QED
    BY <2>2, <2>3
<1>7. CASE Usr1
  <2>1. Does("usr1")
    BY <1>7 DEF Usr1
  <2>2. CASE ~ pid
    BY <1>2, <1>7, <2>1, <2>2 DEF Usr1
  <2>3. CASE pid
    <3>1. PICK e : e = {p \in Process : Hurt(proc[p])}
      OBVIOUS
    <3>2. killall("config", e) /\ Proceed /\ UNCHANGED pid
      BY <1>7, <2>3, <3>1 DEF Usr1
    <3>3. e \in SUBSET Process /\ (\A p \in Process : Hurt(proc[p]) => p \in e)
      BY <3>1
    <3>4. "config" \in {"exit", "config"} /\ "config" # "exit"
      OBVIOUS
    <3> QED
      BY <2>1, <3>2, <3>3, <3>4, KillallKeeps
  <2> QED
    BY <2>2, <2>3
<1> QED
  BY <1>3, <1>4, <1>5, <1>6, <1>7 DEF Steps

\* The administrator writes another configuration.
LEMMA EditKeeps ==
  ASSUME IInv, Edit
  PROVE  IInv'
<1>1. PICK g \in Contents :
        /\ file' = g
        /\ proc' = [p \in Process |->
                     IF Alive(p) THEN Because(proc[p], "file", ~ IsGood(g)) ELSE proc[p]]
  BY DEF Edit
<1>2. UNCHANGED <<config_path, script, pid, commands>> /\ edits < MaxEdits /\ edits' = edits + 1
  BY DEF Edit
<1>3. /\ script' \in Seq({"run", "wait", "kill", "rm", "usr1"}) /\ Len(script') <= 4
      /\ pid' \in BOOLEAN /\ commands' \in 0..MaxCommands
  BY <1>2 DEF IInv, TypeOK
<1>4. edits' \in 0..MaxEdits
  <2>1. edits \in 0..MaxEdits /\ MaxEdits \in Nat
    BY BoundAssumption DEF IInv, TypeOK
  <2> QED
    BY <1>2, <2>1
<1>5. ASSUME NEW p \in Process
      PROVE  /\ proc'[p] \in Record /\ RecordInv(proc'[p], g, config_path)
             /\ proc'[p].pc = proc[p].pc
             /\ Alive(p) /\ proc'[p].reasons = {} => proc[p].reasons = {}
  <2>1. proc[p] \in Record /\ RecordInv(proc[p], file, config_path)
    BY RecordFacts
  <2>2. CASE Alive(p)
    <3>1. PICK bad : bad = ~ IsGood(g)
      OBVIOUS
    <3>2. PICK r : r = proc[p]
      OBVIOUS
    <3>3. PICK u : u = Because(r, "file", bad)
      OBVIOUS
    <3>4. proc'[p] = u
      BY <1>1, <2>2, <3>1, <3>2, <3>3
    <3>5. "file" \in Reasons
      BY DEF Reasons
    <3>6. ~ bad => g = file \/ IsGood(g)
      BY <3>1
    <3>7. r \in Record /\ RecordInv(r, file, config_path)
      BY <2>1, <3>2
    <3>8. RecordInv(u, g, config_path)
      BY <3>3, <3>5, <3>6, <3>7, BecauseKept
    <3>9. u \in Record /\ u.pc = r.pc /\ (u.reasons = {} => r.reasons = {})
      BY <3>3, <3>5, <3>7, BecauseFields
    <3> QED
      BY <3>2, <3>4, <3>8, <3>9
  <2>3. CASE ~ Alive(p)
    <3>1. proc'[p] = proc[p] /\ proc[p].pc \in {"unborn", "gone"}
      BY <1>1, <2>3 DEF Alive
    <3>2. proc[p].pc = "unborn" \/ proc[p].reasons # {}
      BY <2>1, <3>1 DEF RecordInv, SafeInv
    <3>3. SafeInv(proc[p], g, config_path)
      BY <3>2 DEF SafeInv
    <3> QED
      BY <2>1, <2>3, <3>1, <3>3 DEF RecordInv
  <2> QED
    BY <2>2, <2>3
<1>6. proc' \in [Process -> Record]
  BY <1>1, <1>5
<1>7. \A p \in Process : RecordInv(proc'[p], file', config_path')
  BY <1>1, <1>2, <1>5
<1>8. \A p \in Process : Alive(p)' => Alive(p)
  BY <1>5 DEF Alive
<1>9. file' \in Contents /\ config_path' = config_path
  BY <1>1, <1>2
<1> QED
  BY <1>3, <1>4, <1>5, <1>6, <1>7, <1>8, <1>9, AllKeep

\* Every step keeps the invariant.
LEMMA NextKeeps ==
  ASSUME IInv, [Next]_vars
  PROVE  IInv'
<1>1. CASE UNCHANGED vars
  <2>1. UNCHANGED <<file, config_path, proc, script, pid, commands, edits>>
    BY <1>1 DEF vars
  <2>2. /\ script' \in Seq({"run", "wait", "kill", "rm", "usr1"}) /\ Len(script') <= 4
        /\ pid' \in BOOLEAN /\ commands' \in 0..MaxCommands /\ edits' \in 0..MaxEdits
    BY <2>1 DEF IInv, TypeOK
  <2> QED
    BY <2>1, <2>2, IdleKeeps
<1>2. ASSUME NEW p \in Process, Main(p) PROVE IInv'
  BY <1>2, SetupKeeps, ServerKeeps, EndKeeps DEF Main
<1>3. ASSUME NEW p \in Process, ForkFails(p) \/ FillerNotConfigured(p) PROVE IInv'
  BY <1>3, EndKeeps
<1>4. ASSUME NEW p \in Process, SetLevel(p) \/ \E t \in Thread : Pool(p, t) PROVE IInv'
  BY <1>4, PoolStepKeeps
<1>5. CASE Script
  BY <1>5, CommandKeeps
<1>6. CASE Steps
  BY <1>6, StepsKeep
<1>7. CASE Edit
  BY <1>7, EditKeeps
<1> QED
  BY <1>1, <1>2, <1>3, <1>4, <1>5, <1>6, <1>7 DEF Next

\* The invariant holds of every state.
LEMMA Invariance == Spec => []IInv
<1>1. Init => IInv
  BY InitIInv
<1>2. IInv /\ [Next]_vars => IInv'
  BY NextKeeps
<1> QED
  BY <1>1, <1>2, PTL DEF Spec

-----------------------------------------------------------------------------

\* Every variable of the service stays in its range, the records of the processes and the
\* settings that they were built with among them.
THEOREM TypeCorrect == Spec => []TypeOK
<1>1. IInv => TypeOK
  BY DEF IInv
<1> QED
  BY <1>1, Invariance, PTL

\* Whatever signals, edits and restarts came before, a process that serves was built from the
\* tree that it read last, and logs to what that names.
THEOREM Configured == Spec => []ServesAsConfigured
<1>1. ASSUME IInv, NEW p \in Process, Serving(p)
      PROVE  /\ proc[p].settings = Settings(proc[p].tree)
             /\ proc[p].bound = port(proc[p].tree)
             /\ proc[p].lib_handle_ \in {filler(proc[p].tree), NoLib}
             /\ \E cwd \in {"start", "/"} :
                  Destinations(proc[p].log) = Asked(proc[p].tree, cwd)
  <2>1. PICK r : r = proc[p]
    OBVIOUS
  <2>2. LogInv(r) /\ BuiltInv(r)
    BY <2>1, <1>1 DEF IInv, RecordInv
  <2>3. HasPort(r) /\ HasLibrary(r) /\ HasSettings(r) /\ HasLog(r)
    BY <2>1, <1>1 DEF Serving, At, Serves, HasPort, HasLibrary, HasSettings, HasLog
  <2>4. r.settings = Settings(r.tree) /\ r.lib_handle_ \in {filler(r.tree), NoLib}
        /\ r.bound = port(r.tree)
    BY <2>2, <2>3 DEF BuiltInv
  <2>5. \E cwd \in {"start", "/"} : Destinations(r.log) = Asked(r.tree, cwd)
    BY <2>2, <2>3 DEF LogInv
  <2> QED
    BY <2>1, <2>4, <2>5
<1>2. IInv => ServesAsConfigured
  BY <1>1 DEF ServesAsConfigured
<1> QED
  BY <1>2, Invariance, PTL

\* A process that ends was given a reason from outside: no restart, nor any order of a
\* process's own steps, ends it.
THEOREM EndsForAReason == Spec => []DiesForAReason
<1>1. IInv => DiesForAReason
  BY DEF IInv, RecordInv, SafeInv, DiesForAReason, At
<1> QED
  BY <1>1, Invariance, PTL

\* The static functions of the map point into a library that the map holds open, in every
\* generation.
THEOREM FunctionsLoaded == Spec => []FunctionsStayLoaded
<1>1. IInv => FunctionsStayLoaded
  BY DEF IInv, RecordInv, LibraryInv, FunctionsStayLoaded
<1> QED
  BY <1>1, Invariance, PTL
=============================================================================
