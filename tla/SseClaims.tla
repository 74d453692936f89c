------------------------------ MODULE SseClaims ------------------------------
(***************************************************************************)
(* Statements of docs/source/architecture/data-flow.md about reconnection, *)
(* checked against the event stream (SseStream).                           *)
(***************************************************************************)
EXTENDS SseStream

\* Lines 137 to 140: the stream "supports seamless reconnection", clients
\* track the last received event ID and resume after it; so a tab has received
\* every row that its stream starts after.
ReconnectSkipsNothing == \A i \in rows : i <= url => i \in seen
=============================================================================
