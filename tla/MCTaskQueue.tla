---------------------------- MODULE MCTaskQueue ----------------------------
(* TaskQueue with two kinds of sign-in: one with a logon script, one without  *)
(* any task.  Policies are applied by compliance checks.                      *)
EXTENDS TaskQueue

MCConfigs ==
    {[script |-> TRUE, tgts |-> FALSE, photo |-> FALSE, policy |-> FALSE],
     [script |-> FALSE, tgts |-> FALSE, photo |-> FALSE, policy |-> FALSE]}
=============================================================================
