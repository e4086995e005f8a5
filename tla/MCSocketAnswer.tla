--------------------------- MODULE MCSocketAnswer ---------------------------
(* Every kind of command: with and without waiting, filling a form or not,   *)
(* and one with an account that may not.                                     *)
EXTENDS SocketAnswer

Job(flow, auth, wait, fields) == [flow |-> flow, auth |-> auth, wait |-> wait, fields |-> fields]

MCJobs ==
  {Job("press", "browser", wait, fields) : wait \in {TRUE}, fields \in BOOLEAN}
    \cup {Job("press", "browser", FALSE, FALSE), Job("press", "bot", TRUE, FALSE),
          Job("workflow", "browser", TRUE, TRUE), Job("workflow", "bot", TRUE, TRUE)}
=============================================================================
