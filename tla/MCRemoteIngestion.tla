-------------------------- MODULE MCRemoteIngestion --------------------------
EXTENDS RemoteIngestion, TLC

CONSTANTS j1, j2, a, b

TwoAndOne == (j1 :> <<a, b>>) @@ (j2 :> <<a>>)
=============================================================================
