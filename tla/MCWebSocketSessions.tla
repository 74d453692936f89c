------------------------ MODULE MCWebSocketSessions ------------------------
EXTENDS WebSocketSessions
=============================================================================
