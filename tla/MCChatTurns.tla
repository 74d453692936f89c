---------------------------- MODULE MCChatTurns ----------------------------
(* Model-checking instance of ChatTurns: turns that follow or overlap, one of *)
(* them on a server that is configured to show no plans.                      *)
EXTENDS ChatTurns, TLC

CONSTANTS t1, t2

TwoAndNone == (t1 :> 2) @@ (t2 :> 0)
=============================================================================
