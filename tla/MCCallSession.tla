--------------------------- MODULE MCCallSession ---------------------------
(* TLC's instance of CallSession: a configuration sets the hosts, who of   *)
(* them makes calls and how many, and what may happen to them.             *)
EXTENDS CallSession
=============================================================================
