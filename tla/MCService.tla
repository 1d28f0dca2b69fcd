----------------------------- MODULE MCService -------------------------------
EXTENDS Service, TLC

LogPath == "/var/log/swordfish.log"

\* As etc/swordfish.ini, but for fewer threads.
Shipped ==
  ("general.filler" :> "libfirst.so") @@ ("general.workers" :> Number(2))
    @@ ("general.filler_queue_size" :> Unconvertible)
    @@ ("logging.log_file" :> "on") @@ ("logging.log_file_path" :> LogPath)
    @@ ("logging.log_stdout" :> "on")

\* Another library, another log with the default path of its file, and any free port.
Changed ==
  ("general.filler" :> "libsecond.so") @@ ("general.workers" :> Number(1))
    @@ ("logging.log_file" :> "on") @@ ("logging.log_syslog" :> "on")
    @@ ("logging.log_level" :> "ERROR") @@ ("general.port" :> Number(0))

With(setting, value) == (setting :> value) @@ Shipped

NoFiller == [s \in DOMAIN Shipped \ {"general.filler"} |-> Shipped[s]]

MCContents ==
  {Unreadable, Shipped, Changed, NoFiller,
   With("general.workers", Number(0)),
   With("general.filler", ""),
   With("general.filler", "libsample.so"),
   With("general.filler", "libmissing.so")}

MCExports ==
  LET hooks == {"custom_hash", "normalize_key"}  function == "get_values_from_outside" IN
  [lib \in {"libfirst.so", "libsecond.so", "libsample.so"} |->
    IF lib = "libsample.so" THEN hooks \cup {function}
                            ELSE hooks \cup {function, "is_filler_alive"}]

MCConfigPaths == {"", "/etc/swordfish.ini", "swordfish.ini"}
MCRelative == {"swordfish.ini", "swordfish.log"}
MCWritable == {<<"", LogPath>>, <<"start", "swordfish.log">>}
=============================================================================
