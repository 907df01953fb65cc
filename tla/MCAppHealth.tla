---------------------------- MODULE MCAppHealth ----------------------------
(* An instance of AppHealth for TLC: high latency of both severities, with *)
(* and without an issue beside it, an outage, a failing check, a lockout.  *)
EXTENDS AppHealth

Fine == [database |-> "up", latency |-> "low", disk |-> "ok",
         lockouts |-> FALSE, blocks |-> FALSE]

MCHealths ==
  { Fine,
    [Fine EXCEPT !.latency = "warning"],
    [Fine EXCEPT !.latency = "critical"],
    [Fine EXCEPT !.disk = "critical"],
    [Fine EXCEPT !.disk = "critical", !.latency = "critical"],
    [Fine EXCEPT !.lockouts = TRUE],
    [Fine EXCEPT !.database = "down", !.blocks = TRUE],
    [Fine EXCEPT !.database = "failing", !.latency = "unmeasured"] }
=============================================================================
