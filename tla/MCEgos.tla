------------------------------- MODULE MCEgos -------------------------------
(***************************************************************************)
(* EgosServers on small instances.                                         *)
(***************************************************************************)
EXTENDS EgosServers

MCContents == {"finish", "spawn_fg", "spawn_bg", "spawn_bad", "killall", "exit",
               "ok", "error", "read", "block", "print", "input", "line"}
=============================================================================
