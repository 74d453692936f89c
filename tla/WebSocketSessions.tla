-------------------------- MODULE WebSocketSessions --------------------------
(***************************************************************************)
(* Human prompts of one conversation over connections that come and go.    *)
(*                                                                         *)
(*   websocket_reconnect.py   WebSocketSessionRegistry,                    *)
(*                            ReconnectableWebSocketMessageHandler         *)
(*                                                                         *)
(* Each connection has a handler.  A user message starts a workflow, which *)
(* keeps its handler when the connection is gone.  A workflow that asks    *)
(* the user leaves a future in its handler and in the registry, sends the  *)
(* prompt to the connection that spoke last, and waits.  An answer goes to *)
(* the future of the handler it arrives at, else to the one registered     *)
(* for the conversation.  After 300 seconds the answer is "skip".          *)
(*                                                                         *)
(* All of it runs in one event loop: a step ends where a coroutine waits   *)
(* for a socket or a future.  The lock of the registry is never held       *)
(* across such a point.                                                    *)
(***************************************************************************)
EXTENDS Naturals, FiniteSets, Functions

CONSTANTS
    Handlers,    \* one per connection ever made
    Prompts,     \* one per call of human_interaction_callback
    Notices,     \* the prompts that want no answer
    None,
    MaxFlows,    \* bound: user messages
    MaxAnswers   \* bound: answers received

ASSUME SessionAssumption ==
    /\ Notices \subseteq Prompts
    /\ None \notin Handlers \cup Prompts
    /\ MaxFlows \in Nat /\ MaxAnswers \in Nat

VARIABLES
    conn,      \* of each handler: "new", "open", "lost" (not noticed yet),
               \* "gone" (run() has ended), "dead" (run() has raised)
    flows,     \* workflows started by the messages of each connection
    response,  \* _user_interaction_response of each handler
    socket,    \* _sockets of the conversation
    pending,   \* _pending_interactions of the conversation
    pc,        \* of each prompt: "unused", "sending", "waiting", "returned"
    home,      \* its handler, from the call to the return
    fut,       \* its future: "none", "open", "answered", "cancelled", "late"
    shown,     \* the prompts that have reached a browser
    answers,   \* history: how many answers were received
    last,      \* history: the connection that spoke last
    mixed      \* history: prompts that were asked while another one was

askVars == <<pc, home, fut, mixed>>
registryVars == <<socket, pending>>
vars == <<conn, flows, response, registryVars, askVars, shown, answers, last>>

UnderWay == {p \in Prompts : pc[p] \in {"sending", "waiting"}}

Init ==
    /\ conn = [h \in Handlers |-> "new"]
    /\ flows = [h \in Handlers |-> 0]
    /\ response = [h \in Handlers |-> None]
    /\ socket = None /\ pending = None
    /\ pc = [p \in Prompts |-> "unused"]
    /\ home = [p \in Prompts |-> None]
    /\ fut = [p \in Prompts |-> "none"]
    /\ shown = {} /\ answers = 0 /\ last = None /\ mixed = {}

-----------------------------------------------------------------------------
(* Connections *)

Open(h) ==
    /\ conn[h] = "new"
    /\ conn' = [conn EXCEPT ![h] = "open"]
    /\ UNCHANGED <<flows, response, registryVars, askVars, shown, answers, last>>

\* The browser or the network is gone; the handler still waits in receive_json.
Drop(h) ==
    /\ conn[h] = "open"
    /\ conn' = [conn EXCEPT ![h] = "lost"]
    /\ UNCHANGED <<flows, response, registryVars, askVars, shown, answers, last>>

\* Mutant: clear_socket() does not compare.
GoneClears(h) ==
    /\ conn[h] = "lost"
    /\ conn' = [conn EXCEPT ![h] = "gone"]
    /\ socket' = None
    /\ UNCHANGED <<flows, response, pending, askVars, shown, answers, last>>

\* WebSocketDisconnect, or the cancellation of the handler: clear_socket().  A
\* handler without a user message may not know its conversation.  There is no
\* workflow task to cancel, as _running_workflow_task is always None.
Gone(h) ==
    /\ conn[h] = "lost"
    /\ conn' = [conn EXCEPT ![h] = "gone"]
    /\ \/ socket' = IF socket = h THEN None ELSE socket
       \/ flows[h] = 0 /\ UNCHANGED socket
    /\ UNCHANGED <<flows, response, pending, askVars, shown, answers, last>>

-----------------------------------------------------------------------------
(* What a handler receives *)

\* set_socket
Speaks(h) == conn[h] = "open" /\ socket' = h /\ last' = h

\* A user message starts a workflow, also beside one that still runs.
UserMessage(h) ==
    /\ Speaks(h)
    /\ FoldFunction(+, 0, flows) < MaxFlows
    /\ flows' = [flows EXCEPT ![h] = @ + 1]
    /\ UNCHANGED <<conn, response, pending, askVars, shown, answers>>

\* resolve_pending_interaction
ResolvePending ==
    IF pending # None /\ fut[pending] = "open"
    THEN /\ fut' = [fut EXCEPT ![pending] = "answered"]
         /\ pending' = None
    ELSE UNCHANGED <<fut, pending>>

\* An answer.  set_result() on a future that is done already raises, which
\* ends run() without clear_socket().
Answer(h) ==
    /\ Speaks(h)
    /\ shown # {}
    /\ answers < MaxAnswers
    /\ answers' = answers + 1
    /\ LET own == response[h] IN
       \/ /\ own # None /\ fut[own] = "open"
          /\ fut' = [fut EXCEPT ![own] = "answered"]
          /\ UNCHANGED <<conn, pending>>
       \/ /\ own # None /\ fut[own] # "open"
          /\ conn' = [conn EXCEPT ![h] = "dead"]
          /\ UNCHANGED <<fut, pending>>
       \/ /\ own = None
          /\ ResolvePending
          /\ UNCHANGED conn
    /\ UNCHANGED <<flows, response, pc, home, mixed, shown>>

-----------------------------------------------------------------------------
(* human_interaction_callback *)

\* send(): the message goes to the connection registered now.  Without one, or
\* over one that is no longer open, it is dropped.
Send(p) == shown' = IF socket # None /\ conn[socket] = "open" THEN shown \cup {p} ELSE shown

\* A workflow of h that is not waiting for an answer already asks.
MayAsk(h, p) ==
    /\ pc[p] = "unused"
    /\ Cardinality({q \in UnderWay : home[q] = h}) < flows[h]

\* History: a prompt asked while others are under way is mixed, and so are they.
Mix(p) == mixed' = IF UnderWay = {} THEN mixed ELSE mixed \cup UnderWay \cup {p}

\* Mutant: the future is kept in the handler only.
AskLocal(h, p) ==
    /\ MayAsk(h, p)
    /\ pc' = [pc EXCEPT ![p] = "sending"]
    /\ home' = [home EXCEPT ![p] = h]
    /\ fut' = [fut EXCEPT ![p] = "open"]
    /\ response' = [response EXCEPT ![h] = p]
    /\ Send(p) /\ Mix(p)
    /\ UNCHANGED <<conn, flows, registryVars, answers, last>>

\* A new future replaces what the handler and the registry held, and the prompt
\* is written to the socket.
Ask(h, p) ==
    /\ MayAsk(h, p)
    /\ pc' = [pc EXCEPT ![p] = "sending"]
    /\ home' = [home EXCEPT ![p] = h]
    /\ fut' = [fut EXCEPT ![p] = "open"]
    /\ response' = [response EXCEPT ![h] = p]
    /\ pending' = p
    /\ Send(p) /\ Mix(p)
    /\ UNCHANGED <<conn, flows, socket, answers, last>>

\* Mutant: the handler keeps the future it used.
FinishKeeps(p) ==
    /\ pc' = [pc EXCEPT ![p] = "returned"]
    /\ home' = [home EXCEPT ![p] = None]
    /\ pending' = None
    /\ UNCHANGED response

\* The finally clause: it clears what the registry and the handler hold by
\* then, of whatever prompt it is.
Finish(p) ==
    /\ pc' = [pc EXCEPT ![p] = "returned"]
    /\ home' = [home EXCEPT ![p] = None]
    /\ pending' = None
    /\ response' = [response EXCEPT ![home[p]] = None]

\* The socket has taken the message, or failed.  A notice wants no answer.
Sent(p) ==
    /\ pc[p] = "sending"
    /\ IF p \in Notices
       THEN Finish(p)
       ELSE pc' = [pc EXCEPT ![p] = "waiting"] /\ UNCHANGED <<home, pending, response>>
    /\ UNCHANGED <<conn, flows, socket, fut, mixed, shown, answers, last>>

\* Mutant: only a prompt that reached a browser times out.
TimeoutShown(p) ==
    /\ pc[p] = "waiting" /\ p \in shown
    /\ \/ fut[p] = "open" /\ fut' = [fut EXCEPT ![p] = "cancelled"]
       \/ fut[p] = "answered" /\ fut' = [fut EXCEPT ![p] = "late"]
    /\ UNCHANGED <<conn, flows, response, registryVars, pc, home, mixed, shown, answers, last>>

\* wait_for() gives up.  An answer that was accepted in the same iteration of
\* the event loop may be lost with it (Python 3.12 and later).
Timeout(p) ==
    /\ pc[p] = "waiting"
    /\ \/ fut[p] = "open" /\ fut' = [fut EXCEPT ![p] = "cancelled"]
       \/ fut[p] = "answered" /\ fut' = [fut EXCEPT ![p] = "late"]
    /\ UNCHANGED <<conn, flows, response, registryVars, pc, home, mixed, shown, answers, last>>

\* The callback goes on, with the answer or with "skip".
Return(p) ==
    /\ pc[p] = "waiting" /\ fut[p] # "open"
    /\ Finish(p)
    /\ UNCHANGED <<conn, flows, socket, fut, mixed, shown, answers, last>>

-----------------------------------------------------------------------------
Next ==
    \/ \E h \in Handlers :
          \/ Open(h) \/ Drop(h) \/ Gone(h) \/ UserMessage(h) \/ Answer(h)
          \/ \E p \in Prompts : Ask(h, p)
    \/ \E p \in Prompts : Sent(p) \/ Timeout(p) \/ Return(p)

Spec == Init /\ [][Next]_vars

\* Sending to a socket ends, by success or an error, timers fire and the event
\* loop runs what is ready.  Users and networks owe nothing.
FairSpec ==
    /\ Spec
    /\ \A p \in Prompts : WF_vars(Sent(p)) /\ WF_vars(Timeout(p)) /\ WF_vars(Return(p))

-----------------------------------------------------------------------------
TypeOK ==
    /\ conn \in [Handlers -> {"new", "open", "lost", "gone", "dead"}]
    /\ flows \in [Handlers -> Nat]
    /\ response \in [Handlers -> Prompts \cup {None}]
    /\ socket \in Handlers \cup {None} /\ pending \in Prompts \cup {None}
    /\ pc \in [Prompts -> {"unused", "sending", "waiting", "returned"}]
    /\ home \in [Prompts -> Handlers \cup {None}]
    /\ fut \in [Prompts -> {"none", "open", "answered", "cancelled", "late"}]
    /\ \A p \in Prompts : /\ p \in UnderWay <=> home[p] # None
                          /\ pc[p] = "unused" <=> fut[p] = "none"
    /\ shown \subseteq Prompts /\ mixed \subseteq Prompts
    /\ answers \in Nat
    /\ last \in Handlers \cup {None}

\* The connection that spoke last is the one that prompts and responses go to,
\* as long as it is open: an older connection of the conversation whose end is
\* noticed late does not take it away.
LatestIsServed == last # None /\ conn[last] = "open" => socket = last

\* Neither the registry nor a handler holds the future of a call that has
\* returned, so no answer is swallowed by one.
NoStaleFuture ==
    /\ pending # None => pending \in UnderWay
    /\ \A h \in Handlers :
          response[h] # None => response[h] \in UnderWay /\ home[response[h]] = h

\* A prompt that is the only one asked in its conversation from beginning to
\* end gets the first answer, on whichever connection that arrives, also when
\* its own connection is gone, and although answers do not name their prompt.
LonePromptIsAnswered ==
    [][\A p \in UnderWay \ mixed :
          fut[p] = "open" /\ answers' # answers => fut'[p] = "answered"]_vars

\* Every prompt returns, answered or not, delivered or not, whatever happens
\* to its connection.
PromptsReturn == \A p \in Prompts : pc[p] = "sending" ~> pc[p] = "returned"
=============================================================================
