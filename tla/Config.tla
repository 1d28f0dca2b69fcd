------------------------------- MODULE Config --------------------------------
(***************************************************************************)
(* Config (cfg.cpp): typed look-ups in the tree that read_ini makes of the *)
(* configuration file.                                                     *)
(*                                                                         *)
(* A tree maps the settings that the file names to their texts.  The text  *)
(* of a number n is <<n>>; a text that does not convert, such as a number  *)
(* with a comment after it on its line, is <<>>.  Other texts are strings. *)
(***************************************************************************)
EXTENDS Integers

Unconvertible == <<>>
Number(n) == <<n>>

Uint16 == 0..65535

\* ptree::get with a default: a setting that is missing and one that does not
\* convert are the same, and no one is told.
GetNumber(tree, setting, default) ==
  IF setting \in DOMAIN tree /\ tree[setting] # Unconvertible
    THEN tree[setting][1] ELSE default

GetText(tree, setting, default) ==
  IF setting \in DOMAIN tree THEN tree[setting] ELSE default

port(tree) ==
  LET n == GetNumber(tree, "general.port", 9696) IN IF n \in Uint16 THEN n ELSE 9696

workers(tree) == GetNumber(tree, "general.workers", 3)

\* The one setting without a default: the look-up throws.
HasFiller(tree) == "general.filler" \in DOMAIN tree
filler(tree) == tree["general.filler"]

filler_function(tree) ==
  GetText(tree, "general.filler_function", "get_values_from_outside")
storage_size(tree) == GetNumber(tree, "general.storage_size", 1000)
storage_expirate_size(tree) ==
  GetNumber(tree, "general.storage_expirate_size", storage_size(tree) \div 8)
storage_ttl(tree) == GetNumber(tree, "general.storage_ttl", 10)
filler_queue_size(tree) == GetNumber(tree, "general.filler_queue_size", 1048576)
max_fill_size(tree) == GetNumber(tree, "general.max_fill_size", 10)

IsOn(tree, setting) == GetText(tree, setting, "off") = "on"
is_log_file(tree) == IsOn(tree, "logging.log_file")
is_log_syslog(tree) == IsOn(tree, "logging.log_syslog")
is_log_stdout(tree) == IsOn(tree, "logging.log_stdout")
log_file_path(tree) == GetText(tree, "logging.log_file_path", "swordfish.log")

\* LogLevel::text2level: two names for each level; whatever is neither is DEBUG.
LevelOf ==
  [EMERG |-> 0, EMERGENCY |-> 0, ALERT |-> 1, CRIT |-> 2, CRITICAL |-> 2, ERROR |-> 3,
   WARN |-> 4, WARNING |-> 4, NOTICE |-> 5, INFO |-> 6, INFORMATIONAL |-> 6]
text2level(text) == IF text \in DOMAIN LevelOf THEN LevelOf[text] ELSE 7

log_level(tree) == text2level(GetText(tree, "logging.log_level", "DEBUG"))
=============================================================================
