------------------------------- MODULE Logger --------------------------------
(***************************************************************************)
(* The logger (logger.cpp): what its static variables and the logging core *)
(* hold, as a record, and what each of its functions makes of it.          *)
(*                                                                         *)
(* A pointer is a set: empty for NULL, else the one thing it points to.    *)
(* The text backend is the sequence of its streams.                        *)
(***************************************************************************)
EXTENDS Integers, Sequences

Null == {}
Stdout == <<"stdout">>
Syslog == <<"syslog">>
File(place) == <<"file", place>>

Unset ==
  [text_stream_backend |-> Null, text_stream_sink |-> Null,
   syslog_backend |-> Null, syslog_sink |-> Null,
   level |-> 7]

\* Mutant: the backend, and with it the streams, is kept for the next sink.
backends_init_start_keeps(l) ==
  [l EXCEPT !.text_stream_sink = Null, !.syslog_sink = Null, !.syslog_backend = Null]

\* The sinks leave the core, and sinks and backends are dropped.  From here to
\* the commit a record goes nowhere.
backends_init_start(l) ==
  [l EXCEPT
    !.text_stream_backend = IF l.text_stream_sink # Null THEN Null ELSE @,
    !.text_stream_sink = Null,
    !.syslog_backend = IF l.syslog_sink # Null THEN Null ELSE @,
    !.syslog_sink = Null]

add_stream(l, s) ==
  [l EXCEPT !.text_stream_backend =
     IF @ = Null THEN {<<s>>} ELSE {Append(streams, s) : streams \in @}]

syslog_sink_init(l) == [l EXCEPT !.syslog_backend = {Syslog}]
stdout_sink_init(l) == add_stream(l, Stdout)
file_sink_init(l, place) == add_stream(l, File(place))
set_severity_level(l, level) == [l EXCEPT !.level = level]

backends_init_commit(l) ==
  [l EXCEPT
    !.text_stream_sink = IF l.text_stream_backend # Null THEN l.text_stream_backend ELSE @,
    !.syslog_sink = IF l.syslog_backend # Null THEN l.syslog_backend ELSE @]

\* Where a record of an admitted level is written, a stream twice if it is there twice.
Destinations(l) ==
  (IF l.text_stream_sink = Null THEN <<>> ELSE CHOOSE x \in l.text_stream_sink : TRUE)
    \o (IF l.syslog_sink = Null THEN <<>> ELSE <<Syslog>>)
=============================================================================
