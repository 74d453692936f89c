------------------------- MODULE Conversation_proofs -------------------------
(***************************************************************************)
(* Proofs about one conversation: its connections and prompts              *)
(* (WebSocketSessions), for any number of connections, prompts, user       *)
(* messages and answers, and its turns (ChatTurns), for any number of      *)
(* turns, questions, plans and visits of the clarifier's model, with and   *)
(* without plan approval and escalation.                                   *)
(***************************************************************************)
EXTENDS WebSocketSessions, ChatTurns, TLAPS

\* Only a connection that was opened has spoken.
SpokenIsOpened == last # None => conn[last] # "new"

\* A prompt that is not mixed is the only one under way, and the registry holds
\* its future until an answer has come.
AloneIsRegistered ==
    \A p \in UnderWay \ mixed :
        UnderWay = {p} /\ (fut[p] = "open" => pending = p)

IInv == TypeOK /\ NoStaleFuture /\ LatestIsServed /\ SpokenIsOpened /\ AloneIsRegistered

-----------------------------------------------------------------------------
LEMMA InitIInv == Init => IInv
  BY SessionAssumption
  DEF Init, IInv, TypeOK, NoStaleFuture, LatestIsServed, SpokenIsOpened,
      AloneIsRegistered, UnderWay

-----------------------------------------------------------------------------
(* Connections and messages *)

LEMMA OpenStep ==
    ASSUME IInv, NEW h \in Handlers, Open(h) PROVE IInv'
<1>1. TypeOK' /\ UNCHANGED <<flows, response, registryVars, askVars, answers, last>>
  BY DEF Open, IInv, TypeOK, UnderWay, registryVars, askVars
<1>2. NoStaleFuture' /\ AloneIsRegistered'
  BY <1>1 DEF IInv, NoStaleFuture, AloneIsRegistered, UnderWay, registryVars, askVars
<1>3. LatestIsServed' /\ SpokenIsOpened'
  BY <1>1 DEF Open, IInv, TypeOK, LatestIsServed, SpokenIsOpened, registryVars
<1>4. QED
  BY <1>1, <1>2, <1>3 DEF IInv

LEMMA DropStep ==
    ASSUME IInv, NEW h \in Handlers, Drop(h) PROVE IInv'
<1>1. TypeOK' /\ UNCHANGED <<flows, response, registryVars, askVars, answers, last>>
  BY DEF Drop, IInv, TypeOK, UnderWay, registryVars, askVars
<1>2. NoStaleFuture' /\ AloneIsRegistered'
  BY <1>1 DEF IInv, NoStaleFuture, AloneIsRegistered, UnderWay, registryVars, askVars
<1>3. LatestIsServed' /\ SpokenIsOpened'
  BY <1>1 DEF Drop, IInv, TypeOK, LatestIsServed, SpokenIsOpened, registryVars
<1>4. QED
  BY <1>1, <1>2, <1>3 DEF IInv

\* The handler that ends was lost, so it is not the open one that spoke last.
LEMMA GoneStep ==
    ASSUME IInv, NEW h \in Handlers, Gone(h) PROVE IInv'
<1>1. TypeOK' /\ UNCHANGED <<flows, response, pending, askVars, answers, last>>
  BY DEF Gone, IInv, TypeOK, UnderWay, askVars
<1>2. NoStaleFuture' /\ AloneIsRegistered'
  BY <1>1 DEF IInv, NoStaleFuture, AloneIsRegistered, UnderWay, askVars
<1>3. LatestIsServed' /\ SpokenIsOpened'
  BY <1>1 DEF Gone, IInv, TypeOK, LatestIsServed, SpokenIsOpened
<1>4. QED
  BY <1>1, <1>2, <1>3 DEF IInv

LEMMA UserMessageStep ==
    ASSUME IInv, NEW h \in Handlers, UserMessage(h) PROVE IInv'
<1>1. TypeOK' /\ UNCHANGED <<conn, response, pending, askVars, answers>>
  <2>1. /\ UNCHANGED <<conn, response, pending, askVars, shown, answers>>
        /\ flows' = [flows EXCEPT ![h] = @ + 1] /\ socket' = h /\ last' = h
    BY DEF UserMessage, Speaks
  <2>2. QED
    BY <2>1 DEF IInv, TypeOK, UnderWay, askVars
<1>2. NoStaleFuture' /\ AloneIsRegistered'
  BY <1>1 DEF IInv, NoStaleFuture, AloneIsRegistered, UnderWay, askVars
<1>3. LatestIsServed' /\ SpokenIsOpened'
  BY DEF UserMessage, Speaks, LatestIsServed, SpokenIsOpened
<1>4. QED
  BY <1>1, <1>2, <1>3 DEF IInv

\* An answer changes futures from "open" to "answered" and nothing else of the
\* prompts; where it takes the registry's future, that is done.
LEMMA AnswerStep ==
    ASSUME IInv, NEW h \in Handlers, Answer(h) PROVE IInv'
<1>1. /\ UNCHANGED <<flows, response, pc, home, mixed, shown>>
      /\ answers' = answers + 1 /\ socket' = h /\ last' = h /\ conn[h] = "open"
  BY DEF Answer, Speaks
<1>2. /\ conn' = conn \/ conn' = [conn EXCEPT ![h] = "dead"]
      /\ \/ fut' = fut /\ pending' = pending
         \/ \E p \in Prompts : /\ fut[p] = "open" /\ fut' = [fut EXCEPT ![p] = "answered"]
                               /\ pending' \in {pending, None}
                               /\ pending' # pending => pending = p
  BY DEF Answer, ResolvePending, IInv, TypeOK
<1>3. TypeOK'
  BY <1>1, <1>2 DEF IInv, TypeOK, UnderWay
<1>4. NoStaleFuture'
  BY <1>1, <1>2 DEF IInv, NoStaleFuture, UnderWay
<1>5. AloneIsRegistered'
  <2>1. UnderWay' = UnderWay
    BY <1>1 DEF UnderWay
  <2>2. \A p \in Prompts : fut'[p] = "open" => fut[p] = "open" /\ (pending = p => pending' = p)
    BY <1>2 DEF IInv, TypeOK
  <2>3. QED
    BY <1>1, <2>1, <2>2 DEF IInv, AloneIsRegistered, UnderWay
<1>6. LatestIsServed' /\ SpokenIsOpened'
  BY <1>1, <1>2 DEF IInv, TypeOK, LatestIsServed, SpokenIsOpened
<1>7. QED
  BY <1>3, <1>4, <1>5, <1>6 DEF IInv

-----------------------------------------------------------------------------
(* Prompts *)

LEMMA AskStep ==
    ASSUME IInv, NEW h \in Handlers, NEW p \in Prompts, Ask(h, p) PROVE IInv'
<1>1. /\ pc[p] = "unused" /\ p \notin UnderWay
      /\ UNCHANGED <<conn, flows, socket, answers, last>>
  BY DEF Ask, MayAsk, UnderWay
<1>2. UnderWay' = UnderWay \cup {p}
  BY DEF Ask, UnderWay, IInv, TypeOK
<1>3. TypeOK'
  BY <1>1, <1>2, SessionAssumption DEF Ask, Send, Mix, IInv, TypeOK, UnderWay
<1>4. NoStaleFuture'
  <2>1. pending' = p /\ response' = [response EXCEPT ![h] = p] /\ home' = [home EXCEPT ![p] = h]
    BY DEF Ask
  <2>2. QED
    BY <1>1, <1>2, <2>1 DEF IInv, TypeOK, NoStaleFuture
<1>5. AloneIsRegistered'
  <2>1. CASE UnderWay = {}
    BY <1>2, <2>1 DEF Ask, AloneIsRegistered
  <2>2. CASE UnderWay # {}
    BY <1>2, <2>2 DEF Ask, Mix, AloneIsRegistered
  <2>3. QED
    BY <2>1, <2>2
<1>6. LatestIsServed' /\ SpokenIsOpened'
  BY <1>1 DEF IInv, LatestIsServed, SpokenIsOpened
<1>7. QED
  BY <1>3, <1>4, <1>5, <1>6 DEF IInv

\* What a callback does when it returns.
LEMMA FinishStep ==
    ASSUME IInv, NEW p \in UnderWay, Finish(p),
           UNCHANGED <<conn, flows, socket, fut, mixed, shown, answers, last>>
    PROVE  IInv'
<1>1. UnderWay' = UnderWay \ {p}
  BY DEF Finish, UnderWay, IInv, TypeOK
<1>2. p \in Prompts /\ home[p] \in Handlers
  BY DEF UnderWay, IInv, TypeOK
<1>3. TypeOK'
  BY <1>1, <1>2 DEF Finish, IInv, TypeOK, UnderWay
<1>4. NoStaleFuture'
  <2>1. \A g \in Handlers : response'[g] # None => response'[g] = response[g] /\ g # home[p]
    BY <1>2 DEF Finish, IInv, TypeOK
  <2>2. \A g \in Handlers : response'[g] # None => response'[g] # p
    BY <1>2, <2>1 DEF IInv, NoStaleFuture
  <2>3. QED
    BY <1>1, <2>1, <2>2 DEF Finish, IInv, TypeOK, NoStaleFuture
<1>5. AloneIsRegistered'
  BY <1>1 DEF IInv, AloneIsRegistered
<1>6. LatestIsServed' /\ SpokenIsOpened'
  BY DEF IInv, LatestIsServed, SpokenIsOpened
<1>7. QED
  BY <1>3, <1>4, <1>5, <1>6 DEF IInv

LEMMA SentStep ==
    ASSUME IInv, NEW p \in Prompts, Sent(p) PROVE IInv'
<1>1. CASE p \in Notices
  BY <1>1, FinishStep DEF Sent, UnderWay
<1>2. CASE p \notin Notices
  <2>1. /\ pc[p] = "sending" /\ pc' = [pc EXCEPT ![p] = "waiting"]
        /\ UNCHANGED <<conn, flows, response, registryVars, home, fut, mixed, shown, answers, last>>
    BY <1>2 DEF Sent, registryVars
  <2>2. UnderWay' = UnderWay
    BY <2>1 DEF UnderWay, IInv, TypeOK
  <2>3. TypeOK'
    BY <2>1, <2>2 DEF IInv, TypeOK, registryVars
  <2>4. NoStaleFuture' /\ AloneIsRegistered' /\ LatestIsServed' /\ SpokenIsOpened'
    BY <2>1, <2>2 DEF IInv, NoStaleFuture, AloneIsRegistered, LatestIsServed,
       SpokenIsOpened, registryVars
  <2>5. QED
    BY <2>3, <2>4 DEF IInv
<1>3. QED
  BY <1>1, <1>2

LEMMA TimeoutStep ==
    ASSUME IInv, NEW p \in Prompts, Timeout(p) PROVE IInv'
<1>1. UNCHANGED <<conn, flows, response, registryVars, pc, home, mixed, shown, answers, last>>
  BY DEF Timeout
<1>2. UnderWay' = UnderWay
  BY <1>1 DEF UnderWay
<1>3. TypeOK'
  BY <1>1, <1>2 DEF Timeout, IInv, TypeOK, registryVars
<1>4. AloneIsRegistered'
  BY <1>1, <1>2 DEF Timeout, IInv, TypeOK, AloneIsRegistered, registryVars, UnderWay
<1>5. NoStaleFuture' /\ LatestIsServed' /\ SpokenIsOpened'
  BY <1>1, <1>2 DEF IInv, NoStaleFuture, LatestIsServed, SpokenIsOpened, registryVars
<1>6. QED
  BY <1>3, <1>4, <1>5 DEF IInv

LEMMA ReturnStep ==
    ASSUME IInv, NEW p \in Prompts, Return(p) PROVE IInv'
  BY FinishStep DEF Return, UnderWay

-----------------------------------------------------------------------------
LEMMA NextIInv == IInv /\ [Next]_vars => IInv'
<1> SUFFICES ASSUME IInv, [Next]_vars PROVE IInv'
  OBVIOUS
<1>1. CASE UNCHANGED vars
  BY <1>1 DEF vars, registryVars, askVars, IInv, TypeOK, NoStaleFuture, LatestIsServed,
     SpokenIsOpened, AloneIsRegistered, UnderWay
<1>2. ASSUME NEW h \in Handlers,
             Open(h) \/ Drop(h) \/ Gone(h) \/ UserMessage(h) \/ Answer(h)
      PROVE  IInv'
  BY <1>2, OpenStep, DropStep, GoneStep, UserMessageStep, AnswerStep
<1>3. ASSUME NEW h \in Handlers, NEW p \in Prompts, Ask(h, p)
      PROVE  IInv'
  BY <1>3, AskStep
<1>4. ASSUME NEW p \in Prompts, Sent(p) \/ Timeout(p) \/ Return(p)
      PROVE  IInv'
  BY <1>4, SentStep, TimeoutStep, ReturnStep
<1>5. QED
  BY <1>1, <1>2, <1>3, <1>4 DEF Next

LEMMA SpecIInv == Spec => []IInv
  BY InitIInv, NextIInv, PTL DEF Spec

-----------------------------------------------------------------------------
\* The state of every conversation has its type (websocket_reconnect.py).
THEOREM TypeCorrect == Spec => []TypeOK
  BY SpecIInv, PTL DEF IInv

\* clear_socket() never takes the connection away that spoke last and is open.
THEOREM LatestConnectionIsServed == Spec => []LatestIsServed
  BY SpecIInv, PTL DEF IInv

\* A callback that has returned leaves its future neither in the registry nor
\* in a handler.
THEOREM FuturesDoNotOutliveCalls == Spec => []NoStaleFuture
  BY SpecIInv, PTL DEF IInv

\* The first answer in a conversation reaches the prompt that is asked alone,
\* whichever connection it comes from.
THEOREM AlonePromptTakesAnswer == Spec => LonePromptIsAnswered
<1>1. ASSUME IInv, [Next]_vars, NEW p \in UnderWay \ mixed,
             fut[p] = "open", answers' # answers
      PROVE  fut'[p] = "answered"
  <2>1. PICK h \in Handlers : Answer(h)
    BY <1>1 DEF Next, vars, Open, Drop, Gone, UserMessage, Ask, Sent, Timeout, Return
  <2>2. p \in Prompts /\ UnderWay = {p} /\ pending = p
    BY <1>1 DEF IInv, AloneIsRegistered, UnderWay
  <2>3. response[h] \in {None, p}
    BY <1>1, <2>2 DEF IInv, NoStaleFuture
  <2>4. QED
    BY <1>1, <2>1, <2>2, <2>3, SessionAssumption DEF Answer, ResolvePending, IInv, TypeOK
<1>2. IInv /\ [Next]_vars =>
        [\A p \in UnderWay \ mixed :
            fut[p] = "open" /\ answers' # answers => fut'[p] = "answered"]_vars
  BY <1>1
<1>3. QED
  BY <1>2, SpecIInv, PTL DEF Spec, LonePromptIsAnswered

-----------------------------------------------------------------------------
\* How many steps a prompt's callback may still take before it has returned:
\* send, wait, time out, return.
StepsOwed(p) ==
    CASE pc[p] = "unused"                         -> 5
      [] pc[p] = "sending"                        -> 4
      [] pc[p] = "waiting" /\ fut[p] = "open"     -> 3
      [] pc[p] = "waiting" /\ fut[p] = "answered" -> 2
      [] pc[p] = "returned"                       -> 0
      [] OTHER                                    -> 1

\* Every step of a callback brings it nearer to its return, and nothing puts
\* that off: no other prompt that takes its place in the handler or the registry,
\* no answer, whichever future that finds, and no connection that ends or raises.
PromptsRunDown ==
    \A p \in Prompts :
        /\ StepsOwed(p)' <= StepsOwed(p)
        /\ (Sent(p) \/ Timeout(p) \/ Return(p)) => StepsOwed(p)' < StepsOwed(p)

LEMMA OwedIsNat ==
    ASSUME NEW p \in Prompts
    PROVE  StepsOwed(p) \in Nat /\ StepsOwed(p)' \in Nat
  BY DEF StepsOwed

\* A step that leaves a prompt where it was, or at most answers its future.
LEMMA OwedStays ==
    ASSUME NEW p \in Prompts, pc'[p] = pc[p],
           fut'[p] = fut[p] \/ (fut[p] = "open" /\ fut'[p] = "answered")
    PROVE  StepsOwed(p)' <= StepsOwed(p)
  BY DEF StepsOwed

LEMMA OwnStepLowers ==
    ASSUME IInv, NEW p \in Prompts, Sent(p) \/ Timeout(p) \/ Return(p)
    PROVE  StepsOwed(p)' < StepsOwed(p)
<1>1. pc[p] \in {"sending", "waiting"} /\ fut[p] \in {"open", "answered", "cancelled", "late"}
  BY DEF IInv, TypeOK, Sent, Timeout, Return
<1>2. CASE Sent(p)
  <2>1. pc[p] = "sending" /\ pc'[p] \in {"waiting", "returned"}
    BY <1>2 DEF Sent, Finish, IInv, TypeOK
  <2>2. QED
    BY <2>1 DEF StepsOwed
<1>3. CASE Timeout(p)
  <2>1. /\ pc[p] = "waiting" /\ pc'[p] = "waiting"
        /\ fut[p] \in {"open", "answered"} /\ fut'[p] \in {"cancelled", "late"}
    BY <1>3 DEF Timeout, IInv, TypeOK
  <2>2. QED
    BY <2>1 DEF StepsOwed
<1>4. CASE Return(p)
  <2>1. pc[p] = "waiting" /\ fut[p] # "open" /\ pc'[p] = "returned"
    BY <1>4 DEF Return, Finish, IInv, TypeOK
  <2>2. QED
    BY <2>1 DEF StepsOwed
<1>5. QED
  BY <1>2, <1>3, <1>4

LEMMA NextRunsDown ==
    ASSUME IInv, Next
    PROVE  PromptsRunDown
<1> SUFFICES ASSUME NEW p \in Prompts PROVE StepsOwed(p)' <= StepsOwed(p)
  BY OwnStepLowers DEF PromptsRunDown
<1>1. ASSUME NEW h \in Handlers, Open(h) \/ Drop(h) \/ Gone(h) \/ UserMessage(h)
      PROVE  StepsOwed(p)' <= StepsOwed(p)
  <2>1. UNCHANGED <<pc, fut>>
    BY <1>1 DEF Open, Drop, Gone, UserMessage, askVars
  <2>2. QED
    BY <2>1, OwedStays
<1>2. ASSUME NEW h \in Handlers, Answer(h)
      PROVE  StepsOwed(p)' <= StepsOwed(p)
  <2>1. pc' = pc
    BY <1>2 DEF Answer
  <2>2. fut' = fut \/ \E q \in Prompts : fut[q] = "open" /\ fut' = [fut EXCEPT ![q] = "answered"]
    BY <1>2 DEF Answer, ResolvePending, IInv, TypeOK
  <2>3. fut'[p] = fut[p] \/ (fut[p] = "open" /\ fut'[p] = "answered")
    BY <2>2 DEF IInv, TypeOK
  <2>4. QED
    BY <2>1, <2>3, OwedStays
<1>3. ASSUME NEW h \in Handlers, NEW q \in Prompts, Ask(h, q)
      PROVE  StepsOwed(p)' <= StepsOwed(p)
  <2>1. /\ pc[q] = "unused" /\ pc' = [pc EXCEPT ![q] = "sending"]
        /\ fut' = [fut EXCEPT ![q] = "open"]
    BY <1>3 DEF Ask, MayAsk
  <2>2. CASE p = q
    <3>1. pc[p] = "unused" /\ pc'[p] = "sending"
      BY <2>1, <2>2 DEF IInv, TypeOK
    <3>2. QED
      BY <3>1 DEF StepsOwed
  <2>3. CASE p # q
    <3>1. pc'[p] = pc[p] /\ fut'[p] = fut[p]
      BY <2>1, <2>3 DEF IInv, TypeOK
    <3>2. QED
      BY <3>1, OwedStays
  <2>4. QED
    BY <2>2, <2>3
<1>4. ASSUME NEW q \in Prompts, Sent(q) \/ Timeout(q) \/ Return(q)
      PROVE  StepsOwed(p)' <= StepsOwed(p)
  <2>1. CASE p = q
    BY <1>4, <2>1, OwnStepLowers, OwedIsNat
  <2>2. CASE p # q
    <3>1. pc'[p] = pc[p] /\ fut'[p] = fut[p]
      BY <1>4, <2>2 DEF Sent, Timeout, Return, Finish, IInv, TypeOK
    <3>2. QED
      BY <3>1, OwedStays
  <2>3. QED
    BY <2>1, <2>2
<1>5. QED
  BY <1>1, <1>2, <1>3, <1>4 DEF Next

\* Every prompt returns after at most four steps of its callback, answered or
\* not, whatever happens to its connection and its future: what PromptsReturn
\* has without fairness.
THEOREM PromptsRunOut == Spec => [][PromptsRunDown]_vars
<1>1. IInv /\ [Next]_vars => [PromptsRunDown]_vars
  BY NextRunsDown
<1>2. QED
  BY <1>1, SpecIInv, PTL DEF Spec

-----------------------------------------------------------------------------
(* The turns *)

Early == {"none", "classify", "shallow_research", "clarifier", "agent", "question"}
Late == {"deep_research", "researching", "done", "unanswered", "failed"}

\* What a dialogue that ends well has come to.
Consented(t) ==
    /\ word[t] # "reject"
    /\ PlanApproval => word[t] \in {"approve", "silence"} \/ rounds[t] = MaxPlans[t]

\* The user saw this plan last, or could see none.
Shown(t, p) == p = seen[t] \/ (PlanApproval /\ MaxPlans[t] = 0)

\* What each place of a dialogue means for its counters, its plan and the user's
\* last word.
DialogueFollows ==
    \A t \in Turns :
        /\ at[t] = "question" => iteration[t] < MaxTurns
        /\ at[t] \in Early => plan[t] = NoPlan /\ word[t] = "none" /\ rounds[t] = 0
        /\ at[t] \in {"draft", "preview", "focused"} => PlanApproval /\ word[t] # "reject"
        /\ at[t] \in {"preview", "focused"} => rounds[t] < MaxPlans[t]
        /\ at[t] = "draft" => rounds[t] < MaxPlans[t] \/ MaxPlans[t] = 0
        /\ at[t] = "agreed" => Consented(t)
        /\ Shown(t, plan[t])

\* A context is that of a dialogue that is over and was agreed on.
IsAgreed(c) == c # NoResult => at[c.of] \in Late /\ Shown(c.of, c.plan) /\ Consented(c.of)

ContextsAreAgreed ==
    /\ IsAgreed(saved.context)
    /\ \A t \in Turns : IsAgreed(state[t].context) /\ IsAgreed(told[t])

OfOwn(t, c) == c # NoResult /\ c.of = t

\* After a dialogue the context is its own, until the research is told of it.
OwnContext ==
    \A t \in Turns : ~skip[t] =>
        /\ at[t] = "deep_research" => OfOwn(t, state[t].context)
        /\ at[t] = "researching" => OfOwn(t, told[t])

RunAlone == \A t \in Running \ overlapped : Running = {t}

Said(t) == {m \in {"question", "answer"} \X {t} :
              at[t] # "none" /\ (m[1] = "answer" => at[t] = "done")}

\* What a turn that ran alone has said is known to the checkpoint and to every
\* turn that is running.
SaidIsKnown ==
    \A t \in Turns \ overlapped :
        Said(t) \subseteq saved.said /\ \A u \in Running : Said(t) \subseteq state[u].said

ChatIInv ==
    /\ ChatTypeOK /\ DialogueFollows /\ ContextsAreAgreed /\ OwnContext
    /\ RunAlone /\ SaidIsKnown

LEMMA InitChatIInv == ChatInit => ChatIInv
<1> SUFFICES ASSUME ChatInit PROVE ChatIInv
  OBVIOUS
<1> USE DEF ChatInit, DialogInit
<1>1. ChatTypeOK
  <2>1. NoPlan \in Plans /\ 0 \in 0 .. MaxTurns /\ 0 \in 0 .. MaxSteps /\ \A t \in Turns : 0 <= MaxPlans[t]
    BY DialogAssumption DEF NoPlan, Plans, Forms
  <2>2. Empty \in States
    BY DEF Empty, States, Contexts
  <2> QED
    BY <2>1, <2>2 DEF ChatTypeOK, Places, Contexts
<1>2. DialogueFollows /\ ContextsAreAgreed /\ OwnContext
  BY DEF DialogueFollows, ContextsAreAgreed, OwnContext, IsAgreed, Empty, Shown
<1>3. RunAlone /\ SaidIsKnown
  BY DEF RunAlone, SaidIsKnown, Running, Said
<1> QED
  BY <1>1, <1>2, <1>3 DEF ChatIInv

Step(t) == Begin(t) \/ Node(t) \/ Fail(t)

-----------------------------------------------------------------------------
(* Types *)

LEMMA ReplyIsState ==
    ASSUME NEW s \in States, NEW t \in Turns, NEW kind \in {"question", "answer"}
    PROVE  [s EXCEPT !.said = @ \cup {<<kind, t>>}] \in States
BY DEF States

\* The end of a node keeps the types, whatever of its own a turn saves.
LEMMA SaveType ==
    ASSUME ChatTypeOK, NEW t \in Turns, NEW s \in States, NEW next \in Places, Save(t, s, next)
    PROVE  /\ UNCHANGED <<iteration, steps, rounds, plan, seen, word>>
           /\ at' \in [Turns -> Places] /\ saved' \in States /\ state' \in [Turns -> States]
BY DEF Save, Go, ChatTypeOK

LEMMA DialogType ==
    ASSUME ChatTypeOK, DialogueFollows, NEW t \in Turns, Dialog(t)
    PROVE  /\ at' \in [Turns -> Places]
           /\ iteration' \in [Turns -> 0 .. MaxTurns] /\ steps' \in [Turns -> 0 .. MaxSteps]
           /\ rounds' \in [Turns -> Nat] /\ \A u \in Turns : rounds'[u] <= MaxPlans[u]
           /\ plan' \in [Turns -> Plans] /\ seen' \in [Turns -> Plans]
           /\ word' \in [Turns -> {"none", "approve", "silence", "reject", "feedback"}]
<1> USE DialogAssumption DEF ChatTypeOK, Go, Places
<1>1. CASE Agent(t) \/ Content(t) \/ OutOfSteps(t)
  BY <1>1 DEF Agent, Content, OutOfSteps, Ended
<1>2. CASE AnswerQuestion(t)
  BY <1>2 DEF AnswerQuestion, DialogueFollows
<1>3. CASE Draft(t) \/ ApproveUnseen(t) \/ Narrow(t)
  <2>1. /\ <<rounds[t], "full">> \in Plans /\ <<rounds[t], "unseen">> \in Plans
        /\ <<rounds[t], "focused">> \in Plans
    BY DEF Plans, Forms
  <2> QED
    BY <1>3, <2>1 DEF Draft, ApproveUnseen, Narrow, Show
<1>4. CASE Feedback(t)
  BY <1>4 DEF Feedback, DialogueFollows
<1>5. CASE Approve(t) \/ Reject(t)
  BY <1>5 DEF Approve, Reject
<1> QED
  BY <1>1, <1>2, <1>3, <1>4, <1>5 DEF Dialog

LEMMA StepType ==
    ASSUME ChatTypeOK, DialogueFollows, NEW t \in Turns, Step(t)
    PROVE  ChatTypeOK'
<1>1. state[t] \in States /\ saved \in States /\ plan[t] \in Plans
  BY DEF ChatTypeOK
<1>2. ASSUME NEW next \in Places, Reply(t, next) \/ Silent(t, next), UNCHANGED <<skip, told, overlapped>>
      PROVE  ChatTypeOK'
  BY <1>1, <1>2, SaveType, ReplyIsState DEF Reply, Silent, ChatTypeOK
<1>3. CASE Begin(t)
  BY <1>1, <1>3, SaveType, ReplyIsState DEF Begin, ChatTypeOK, Places, Running
<1>4. CASE Classify(t) \/ ShallowResearch(t) \/ NoTools(t) \/ SkipClarifier(t) \/ Rejected(t) \/ Report(t)
  BY <1>2, <1>4
     DEF Classify, Route, ShallowResearch, Escalate, NoTools, SkipClarifier, Rejected, Report,
         Places, Ended
<1>5. CASE Clarify(t)
  BY <1>5 DEF Clarify, StartDialog, Go, chat, ChatTypeOK, Places
<1>6. CASE Dialog(t) /\ UNCHANGED chat
  BY <1>6, DialogType DEF chat, ChatTypeOK
<1>7. CASE Agreed(t)
  <2>1. [state[t] EXCEPT !.context = [of |-> t, plan |-> plan[t]]] \in States
    BY <1>1 DEF States, Contexts
  <2> QED
    BY <1>7, <2>1, SaveType DEF Agreed, ChatTypeOK, Places
<1>8. CASE DeepResearch(t)
  BY <1>1, <1>8 DEF DeepResearch, Go, ChatTypeOK, Places, States
<1>9. CASE Fail(t)
  BY <1>9 DEF Fail, Go, chat, ChatTypeOK, Places, Ended
<1> QED
  BY <1>3, <1>4, <1>5, <1>6, <1>7, <1>8, <1>9 DEF Step, Node

-----------------------------------------------------------------------------
(* What a step changes *)

SameDialog(u) ==
    /\ iteration'[u] = iteration[u] /\ steps'[u] = steps[u] /\ rounds'[u] = rounds[u]
    /\ plan'[u] = plan[u] /\ seen'[u] = seen[u] /\ word'[u] = word[u]

SameTurn(u) ==
    /\ at'[u] = at[u] /\ SameDialog(u)
    /\ state'[u] = state[u] /\ skip'[u] = skip[u] /\ told'[u] = told[u]

\* A step of a turn changes nothing that belongs to another turn, and saves what
\* its own invocation has, if anything.
LEMMA OthersStay ==
    ASSUME ChatTypeOK, NEW t \in Turns, Step(t)
    PROVE  /\ \A u \in Turns : u # t => SameTurn(u)
           /\ saved' = state'[t] \/ (saved' = saved /\ state' = state)
<1> USE DEF ChatTypeOK, Go, chat, SameTurn, SameDialog
<1>1. CASE Begin(t)
  BY <1>1 DEF Begin, Save
<1>2. CASE Classify(t) \/ ShallowResearch(t) \/ NoTools(t) \/ SkipClarifier(t) \/ Rejected(t) \/ Report(t)
  BY <1>2 DEF Classify, Route, ShallowResearch, Escalate, NoTools, SkipClarifier, Rejected, Report,
              Reply, Silent, Save
<1>3. CASE Agreed(t)
  BY <1>3 DEF Agreed, Save
<1>4. CASE Clarify(t) \/ DeepResearch(t) \/ Fail(t)
  BY <1>4 DEF Clarify, StartDialog, DeepResearch, Fail
<1>5. CASE Dialog(t) /\ UNCHANGED chat
  <2>1. CASE Agent(t) \/ Content(t) \/ OutOfSteps(t) \/ AnswerQuestion(t)
    BY <1>5, <2>1 DEF Agent, Content, OutOfSteps, AnswerQuestion
  <2>2. CASE Draft(t) \/ ApproveUnseen(t) \/ Narrow(t) \/ Feedback(t) \/ Approve(t) \/ Reject(t)
    BY <1>5, <2>2 DEF Draft, ApproveUnseen, Narrow, Feedback, Approve, Reject, Show
  <2> QED
    BY <1>5, <2>1, <2>2 DEF Dialog
<1> QED
  BY <1>1, <1>2, <1>3, <1>4, <1>5 DEF Step, Node

\* The nodes of the chat graph leave the dialogue alone.
LEMMA NodesKeepDialog ==
    ASSUME ChatTypeOK, NEW t \in Turns, Step(t), ~Dialog(t)
    PROVE  SameDialog(t)
<1> USE DEF SameDialog
<1>1. CASE Begin(t) \/ Agreed(t)
  BY <1>1 DEF Begin, Agreed, Save
<1>2. CASE Classify(t) \/ ShallowResearch(t) \/ NoTools(t) \/ SkipClarifier(t) \/ Rejected(t) \/ Report(t)
  BY <1>2 DEF Classify, Route, ShallowResearch, Escalate, NoTools, SkipClarifier, Rejected, Report,
              Reply, Silent, Save
<1>3. CASE Clarify(t) \/ DeepResearch(t) \/ Fail(t)
  BY <1>3 DEF Clarify, StartDialog, DeepResearch, Fail
<1> QED
  BY <1>1, <1>2, <1>3 DEF Step, Node

\* Where the nodes of the chat graph lead, and what they do to the context.
LEMMA NodesMove ==
    ASSUME ChatTypeOK, NEW t \in Turns, Step(t), ~Dialog(t)
    PROVE  /\ at'[t] \in Early => at[t] \in Early
           /\ at'[t] \in Early \cup Late
           /\ at'[t] = "question" => at[t] = "question"
           /\ at[t] \in Late => at'[t] \in Late
           /\ \/ at[t] # "none" /\ state'[t].context = state[t].context
              \/ at[t] = "none" /\ state'[t].context = saved.context
              \/ /\ at[t] = "agreed" /\ at'[t] = "deep_research"
                 /\ state'[t].context = [of |-> t, plan |-> plan[t]]
           /\ told'[t] = IF at[t] = "deep_research" /\ at'[t] = "researching"
                         THEN state[t].context ELSE told[t]
           /\ at'[t] = "researching" => at[t] = "deep_research"
           /\ at'[t] = "deep_research" /\ ~skip'[t] =>
                 state'[t].context = [of |-> t, plan |-> plan[t]]
           /\ at[t] # "none" => skip' = skip /\ overlapped' = overlapped
<1> USE DEF ChatTypeOK, Go, chat, Early, Late, States
<1>1. CASE Begin(t)
  BY <1>1 DEF Begin, Save
<1>2. CASE Classify(t) \/ ShallowResearch(t)
  BY <1>2 DEF Classify, Route, ShallowResearch, Escalate, Reply, Silent, Save
<1>3. CASE NoTools(t) \/ SkipClarifier(t) \/ Rejected(t) \/ Report(t)
  BY <1>3 DEF NoTools, SkipClarifier, Rejected, Report, Reply, Silent, Save
<1>4. CASE Agreed(t)
  BY <1>4 DEF Agreed, Save
<1>5. CASE Clarify(t) \/ DeepResearch(t)
  BY <1>5 DEF Clarify, StartDialog, DeepResearch
<1>6. CASE Fail(t)
  BY <1>6 DEF Fail, Running, Ended
<1> QED
  BY <1>1, <1>2, <1>3, <1>4, <1>5, <1>6 DEF Step, Node

-----------------------------------------------------------------------------
(* Dialogues and contexts *)

LEMMA DialogueStep ==
    ASSUME ChatTypeOK, DialogueFollows, NEW t \in Turns, Step(t)
    PROVE  DialogueFollows'
<1>1. ASSUME NEW u \in Turns, u # t
      PROVE  SameTurn(u)
  BY <1>1, OthersStay
<1>2. /\ at'[t] = "question" => iteration'[t] < MaxTurns
      /\ at'[t] \in Early => plan'[t] = NoPlan /\ word'[t] = "none" /\ rounds'[t] = 0
      /\ at'[t] \in {"draft", "preview", "focused"} => PlanApproval /\ word'[t] # "reject"
      /\ at'[t] \in {"preview", "focused"} => rounds'[t] < MaxPlans[t]
      /\ at'[t] = "draft" => rounds'[t] < MaxPlans[t] \/ MaxPlans[t] = 0
      /\ at'[t] = "agreed" => Consented(t)'
      /\ Shown(t, plan[t])'
  <2> USE DialogAssumption DEF DialogueFollows
  <2>1. CASE ~Dialog(t)
    <3>1. SameDialog(t) /\ (at'[t] \in Early => at[t] \in Early) /\ at'[t] \in Early \cup Late
      BY <2>1, NodesKeepDialog, NodesMove
    <3>2. at'[t] = "question" => at[t] = "question"
      BY <2>1, NodesMove
    <3> QED
      BY <3>1, <3>2 DEF SameDialog, Early, Late, Shown
  <2>2. CASE Agent(t) \/ Content(t) \/ OutOfSteps(t) \/ AnswerQuestion(t)
    BY <2>2 DEF Agent, Content, OutOfSteps, AnswerQuestion, ChatTypeOK, Go, Early, Consented, Shown
  <2>3. CASE Draft(t) \/ Narrow(t)
    BY <2>3 DEF Draft, Narrow, Show, ChatTypeOK, Go, Early, Shown
  <2>6. CASE ApproveUnseen(t)
    BY <2>6 DEF ApproveUnseen, ChatTypeOK, Go, Early, Shown, Consented
  <2>4. CASE Feedback(t)
    <3>1. rounds[t] \in Nat /\ MaxPlans[t] \in Nat /\ rounds[t] < MaxPlans[t]
      BY <2>4 DEF Feedback, ChatTypeOK
    <3>2. /\ at'[t] = IF rounds[t] + 1 < MaxPlans[t] THEN "draft" ELSE "agreed"
          /\ rounds'[t] = rounds[t] + 1 /\ word'[t] = "feedback"
          /\ plan'[t] = plan[t] /\ seen'[t] = seen[t]
      BY <2>4 DEF Feedback, ChatTypeOK, Go
    <3>3. PlanApproval
      BY <2>4 DEF Feedback
    <3> QED
      BY <3>1, <3>2, <3>3 DEF Early, Consented, Shown
  <2>5. CASE Approve(t) \/ Reject(t)
    BY <2>5 DEF Approve, Reject, ChatTypeOK, Go, Early, Consented, Shown
  <2> QED
    BY <2>1, <2>2, <2>3, <2>4, <2>5, <2>6 DEF Dialog
<1> QED
  BY <1>1, <1>2 DEF DialogueFollows, SameTurn, SameDialog, Consented, Shown

\* A dialogue that is over is not changed any more, and what was agreed on stays
\* agreed.
LEMMA AgreedForGood ==
    ASSUME ChatTypeOK, NEW t \in Turns, Step(t), NEW c \in Contexts, IsAgreed(c)
    PROVE  IsAgreed(c)'
<1>1. CASE c = NoResult
  BY <1>1 DEF IsAgreed
<1>2. CASE c # NoResult
  <2>1. c.of \in Turns /\ at[c.of] \in Late /\ Shown(c.of, c.plan) /\ Consented(c.of)
    BY <1>2 DEF IsAgreed, Contexts
  <2>2. CASE c.of # t
    BY <2>1, <2>2, OthersStay DEF IsAgreed, Consented, Shown, SameTurn, SameDialog
  <2>3. CASE c.of = t
    <3>1. ~Dialog(t)
      BY <2>1, <2>3
         DEF Dialog, Agent, Content, OutOfSteps, AnswerQuestion, Draft, ApproveUnseen, Narrow, Feedback, Approve,
             Reject, Late
    <3>2. SameDialog(t) /\ at'[t] \in Late
      BY <2>1, <2>3, <3>1, NodesKeepDialog, NodesMove
    <3> QED
      BY <2>1, <2>3, <3>2 DEF IsAgreed, Consented, Shown, SameDialog
  <2> QED
    BY <2>2, <2>3
<1> QED
  BY <1>1, <1>2

\* A dialogue goes on without the chat graph.
LEMMA DialogIsApart ==
    ASSUME ChatTypeOK, NEW t \in Turns, Step(t), Dialog(t)
    PROVE  UNCHANGED chat /\ at[t] \notin Late /\ at'[t] \notin {"deep_research", "researching", "done"}
<1>1. at[t] \in {"agent", "question", "draft", "preview", "focused"}
      /\ at'[t] \notin {"deep_research", "researching", "done"}
  BY DEF Dialog, Agent, Content, OutOfSteps, AnswerQuestion, Draft, ApproveUnseen, Narrow, Feedback, Approve, Reject,
         ChatTypeOK, Go
<1>2. ~(Begin(t) \/ Classify(t) \/ ShallowResearch(t) \/ NoTools(t) \/ SkipClarifier(t) \/ Clarify(t)
        \/ Agreed(t) \/ Rejected(t) \/ DeepResearch(t) \/ Report(t))
  BY <1>1 DEF Begin, Classify, ShallowResearch, NoTools, SkipClarifier, Clarify, Agreed, Rejected,
              DeepResearch, Report
<1> QED
  BY <1>1, <1>2 DEF Step, Node, Fail, Late

LEMMA ContextStep ==
    ASSUME ChatTypeOK, ChatTypeOK', DialogueFollows, ContextsAreAgreed, NEW t \in Turns, Step(t)
    PROVE  ContextsAreAgreed'
<1>1. \A c \in Contexts : IsAgreed(c) => IsAgreed(c)'
  BY AgreedForGood
<1>2. saved.context \in Contexts
      /\ \A u \in Turns : state[u].context \in Contexts /\ told[u] \in Contexts
  BY DEF ChatTypeOK, States
<1>3. \A u \in Turns : u # t => IsAgreed(state[u].context)' /\ IsAgreed(told[u])'
  BY <1>1, <1>2, OthersStay DEF ContextsAreAgreed, SameTurn, IsAgreed
<1>4. IsAgreed(state[t].context)' /\ IsAgreed(told[t])'
  <2>1. CASE Dialog(t)
    BY <1>1, <1>2, <2>1, DialogIsApart DEF chat, ContextsAreAgreed, IsAgreed
  <2>2. CASE ~Dialog(t)
    <3>1. told'[t] \in {state[t].context, told[t]}
      BY <2>2, NodesMove
    <3>2. IsAgreed(told[t])'
      BY <1>1, <1>2, <3>1 DEF ContextsAreAgreed, IsAgreed
    <3>3. CASE state'[t].context \in {state[t].context, saved.context}
      BY <1>1, <1>2, <3>2, <3>3 DEF ContextsAreAgreed, IsAgreed
    <3>4. CASE at[t] = "agreed" /\ at'[t] = "deep_research"
               /\ state'[t].context = [of |-> t, plan |-> plan[t]]
      <4>1. Consented(t) /\ Shown(t, plan[t]) /\ SameDialog(t)
        BY <2>2, <3>4, NodesKeepDialog DEF DialogueFollows
      <4>2. Consented(t)' /\ Shown(t, plan[t])'
        BY <4>1 DEF Consented, Shown, SameDialog
      <4> QED
        BY <3>2, <3>4, <4>1, <4>2 DEF IsAgreed, Late, Shown, Consented, SameDialog
    <3> QED
      BY <2>2, <3>3, <3>4, NodesMove
  <2> QED
    BY <2>1, <2>2
<1>5. IsAgreed(saved.context)'
  <2>1. CASE saved' = state'[t]
    BY <1>4, <2>1 DEF IsAgreed
  <2>2. CASE saved' = saved
    BY <1>1, <1>2, <2>2 DEF ContextsAreAgreed, IsAgreed
  <2> QED
    BY <2>1, <2>2, OthersStay
<1> QED
  BY <1>3, <1>4, <1>5 DEF ContextsAreAgreed

LEMMA OwnContextStep ==
    ASSUME ChatTypeOK, OwnContext, NEW t \in Turns, Step(t)
    PROVE  OwnContext'
<1>1. \A u \in Turns : u # t => SameTurn(u)
  BY OthersStay
<1>2. ~skip'[t] => /\ at'[t] = "deep_research" => OfOwn(t, state'[t].context)
                   /\ at'[t] = "researching" => OfOwn(t, told'[t])
  <2>1. CASE Dialog(t)
    BY <2>1, DialogIsApart
  <2>2. CASE ~Dialog(t)
    <3>1. at'[t] = "deep_research" /\ ~skip'[t] => state'[t].context = [of |-> t, plan |-> plan[t]]
      BY <2>2, NodesMove
    <3>2. at'[t] = "researching" => at[t] = "deep_research" /\ told'[t] = state[t].context /\ skip' = skip
      BY <2>2, NodesMove
    <3>3. [of |-> t, plan |-> plan[t]] # NoResult
      BY ChatAssumption DEF ChatTypeOK
    <3> QED
      BY <3>1, <3>2, <3>3 DEF OwnContext, OfOwn
  <2> QED
    BY <2>1, <2>2
<1> QED
  BY <1>1, <1>2 DEF OwnContext, SameTurn, OfOwn

-----------------------------------------------------------------------------
(* The conversation's history *)

LEMMA BeginsOrRuns ==
    ASSUME NEW t \in Turns, Step(t)
    PROVE  (Begin(t) /\ at[t] = "none") \/ (~Begin(t) /\ t \in Running)
<1>1. CASE Begin(t)
  BY <1>1 DEF Begin
<1>2. CASE Node(t)
  <2>1. at[t] \in {"classify", "shallow_research", "clarifier", "agent", "question", "draft", "preview",
                   "focused", "agreed", "rejected", "deep_research", "researching"}
    BY <1>2 DEF Node, Classify, ShallowResearch, NoTools, SkipClarifier, Clarify, Dialog, Agent,
                Content, OutOfSteps, AnswerQuestion, Draft, ApproveUnseen, Narrow, Feedback, Approve, Reject, Agreed,
                Rejected, DeepResearch, Report
  <2> QED
    BY <2>1 DEF Begin, Running, Ended
<1>3. CASE Fail(t)
  BY <1>3 DEF Fail, Begin, Running
<1> QED
  BY <1>1, <1>2, <1>3 DEF Step

\* Overlapping is noted by the turn that begins.
LEMMA BeginNotes ==
    ASSUME ChatTypeOK, NEW t \in Turns, Begin(t)
    PROVE  /\ overlapped' = IF Running = {} THEN overlapped ELSE overlapped \cup Running \cup {t}
           /\ Running' = Running \cup {t} /\ at'[t] = "classify"
           /\ saved' = state'[t] /\ state'[t].said = saved.said \cup {<<"question", t>>}
<1>1. at'[t] = "classify" /\ \A u \in Turns : u # t => at'[u] = at[u]
  BY DEF Begin, Save, Go, ChatTypeOK
<1>2. saved' = state'[t] /\ state'[t].said = saved.said \cup {<<"question", t>>}
  BY DEF Begin, Save, ChatTypeOK, States
<1> QED
  BY <1>1, <1>2 DEF Begin, Running, Ended

LEMMA RunningStep ==
    ASSUME ChatTypeOK, NEW t \in Turns, Step(t), ~Begin(t)
    PROVE  t \in Running /\ Running' \subseteq Running /\ overlapped' = overlapped
<1>1. t \in Running /\ at[t] # "none"
  BY BeginsOrRuns DEF Running
<1>2. \A u \in Turns : u # t => at'[u] = at[u]
  BY OthersStay DEF SameTurn
<1>3. overlapped' = overlapped
  BY <1>1, NodesMove, DialogIsApart DEF chat
<1> QED
  BY <1>1, <1>2, <1>3 DEF Running

LEMMA RunAloneStep ==
    ASSUME ChatTypeOK, RunAlone, NEW t \in Turns, Step(t)
    PROVE  RunAlone'
<1>1. CASE Begin(t)
  BY <1>1, BeginNotes DEF RunAlone
<1>2. CASE ~Begin(t)
  BY <1>2, RunningStep DEF RunAlone
<1> QED
  BY <1>1, <1>2

LEMMA SilentSays ==
    ASSUME ChatTypeOK, NEW t \in Turns, NEW next, Silent(t, next)
    PROVE  state'[t] = state[t] /\ saved' = state'[t] /\ at'[t] = next
BY DEF Silent, Save, Go, ChatTypeOK

LEMMA ReplySays ==
    ASSUME ChatTypeOK, NEW t \in Turns, NEW next, Reply(t, next)
    PROVE  /\ state'[t].said = state[t].said \cup {<<"answer", t>>}
           /\ saved' = state'[t] /\ at'[t] = next
BY DEF Reply, Save, Go, ChatTypeOK, States

\* What an invocation has heard it keeps, and it ends with an answer.
LEMMA TurnSpeaks ==
    ASSUME ChatTypeOK, NEW t \in Turns, Step(t), ~Begin(t)
    PROVE  /\ state[t].said \subseteq state'[t].said /\ at'[t] # "none"
           /\ at'[t] = "done" => <<"answer", t>> \in state'[t].said /\ saved' = state'[t]
<1> USE DEF ChatTypeOK, States, Go
<1>1. CASE Dialog(t)
  <2>1. state' = state /\ at'[t] # "done"
    BY <1>1, DialogIsApart DEF chat
  <2>2. at'[t] # "none"
    BY <1>1 DEF Dialog, Agent, Content, OutOfSteps, AnswerQuestion, Draft, ApproveUnseen, Narrow, Feedback, Approve,
                Reject
  <2> QED
    BY <2>1, <2>2
<1>2. CASE Classify(t) \/ ShallowResearch(t) \/ NoTools(t) \/ SkipClarifier(t) \/ Rejected(t) \/ Report(t)
  BY <1>2, SilentSays, ReplySays
     DEF Classify, Route, ShallowResearch, Escalate, NoTools, SkipClarifier, Rejected, Report
<1>3. CASE Agreed(t)
  BY <1>3 DEF Agreed, Save
<1>4. CASE Clarify(t) \/ DeepResearch(t) \/ Fail(t)
  BY <1>4 DEF Clarify, StartDialog, DeepResearch, Fail, chat
<1> QED
  BY <1>1, <1>2, <1>3, <1>4 DEF Step, Node

LEMMA SaidStep ==
    ASSUME ChatTypeOK, RunAlone, SaidIsKnown, NEW t \in Turns, Step(t)
    PROVE  SaidIsKnown'
<1> SUFFICES ASSUME NEW w \in Turns, w \notin overlapped'
             PROVE  /\ Said(w)' \subseteq saved'.said
                    /\ \A u \in Running' : Said(w)' \subseteq state'[u].said
  BY DEF SaidIsKnown
<1>1. \A u \in Turns : u # t => at'[u] = at[u] /\ state'[u] = state[u]
  BY OthersStay DEF SameTurn
<1>2. \A u \in Running' : u = t \/ u \in Running
  BY <1>1 DEF Running
<1>3. w \notin overlapped
  BY BeginNotes, RunningStep
<1>4. /\ Said(w) \subseteq saved.said
      /\ \A u \in Running : Said(w) \subseteq state[u].said
  BY <1>3 DEF SaidIsKnown
<1>5. CASE w # t
  <2>1. Said(w)' = Said(w)
    BY <1>1, <1>5 DEF Said
  <2>2. Said(w) \subseteq state'[t].said
    BY <1>4, BeginNotes, RunningStep, TurnSpeaks
  <2>3. Said(w) \subseteq saved'.said
    BY <1>4, <2>2, OthersStay
  <2>4. \A u \in Running : u # t => Said(w) \subseteq state'[u].said
    BY <1>1, <1>4 DEF Running
  <2> QED
    BY <1>2, <2>1, <2>2, <2>3, <2>4
<1>6. CASE w = t /\ Begin(t)
  <2>1. Running = {} /\ Said(t)' = {<<"question", t>>}
    BY <1>6, BeginNotes DEF Said
  <2> QED
    BY <1>2, <1>6, <2>1, BeginNotes
<1>7. CASE w = t /\ ~Begin(t)
  <2>1. Running = {t} /\ at[t] \notin {"none", "done"}
    BY <1>3, <1>7, RunningStep DEF RunAlone, Running, Ended
  <2>2. Said(t) = {<<"question", t>>}
        /\ (Said(t)' = Said(t) \/ (at'[t] = "done" /\ Said(t)' = {<<"question", t>>, <<"answer", t>>}))
    <3>1. {"question", "answer"} \X {t} = {<<"question", t>>, <<"answer", t>>}
      OBVIOUS
    <3>2. at'[t] # "none"
      BY <1>7, TurnSpeaks
    <3> QED
      BY <2>1, <3>1, <3>2 DEF Said
  <2>3. Said(t)' \subseteq state'[t].said
    BY <1>4, <1>7, <2>1, <2>2, TurnSpeaks
  <2>4. Said(t)' \subseteq saved'.said
    BY <1>4, <1>7, <2>2, <2>3, TurnSpeaks, OthersStay
  <2> QED
    BY <1>2, <1>7, <2>1, <2>3, <2>4
<1> QED
  BY <1>5, <1>6, <1>7

-----------------------------------------------------------------------------
LEMMA NextChatIInv == ChatIInv /\ [ChatNext]_chatVars => ChatIInv'
<1> SUFFICES ASSUME ChatIInv, [ChatNext]_chatVars PROVE ChatIInv'
  OBVIOUS
<1> USE DEF ChatIInv
<1>1. ASSUME NEW t \in Turns, Step(t) PROVE ChatIInv'
  <2>1. ChatTypeOK' /\ DialogueFollows'
    BY <1>1, StepType, DialogueStep
  <2>2. ContextsAreAgreed' /\ OwnContext'
    BY <1>1, <2>1, ContextStep, OwnContextStep
  <2>3. RunAlone' /\ SaidIsKnown'
    BY <1>1, RunAloneStep, SaidStep
  <2> QED
    BY <2>1, <2>2, <2>3
<1>2. CASE UNCHANGED chatVars
  BY <1>2 DEF chatVars, chat, dialog, ChatTypeOK, DialogueFollows, ContextsAreAgreed, OwnContext,
              OfOwn, RunAlone, SaidIsKnown, IsAgreed, Consented, Shown, Running, Said
<1> QED
  BY <1>1, <1>2 DEF ChatNext, Step

\* The inductive invariant holds of every conversation.
THEOREM ChatInvariance == ChatSpec => []ChatIInv
<1> QED
  BY InitChatIInv, NextChatIInv, PTL DEF ChatSpec

\* Turns are at a place of their graphs, and no dialogue goes past its limits of
\* questions, visits and plans.
THEOREM ChatTypeCorrect == ChatSpec => []ChatTypeOK
<1>1. ChatIInv => ChatTypeOK
  BY DEF ChatIInv
<1> QED
  BY <1>1, ChatInvariance, PTL

\* The conversation keeps the question and the answer of every turn that ran
\* alone, however many others run, overlap and fail before or after it.
THEOREM HistoryStays == ChatSpec => []HistoryIsKept
<1>1. ChatIInv => HistoryIsKept
  BY DEF ChatIInv, SaidIsKnown, Said, HistoryIsKept
<1> QED
  BY <1>1, ChatInvariance, PTL

\* A research that follows a dialogue of its turn is told of that dialogue, also
\* when turns overlap and the checkpoint holds the dialogue of another one.
THEOREM ResearchKnowsItsDialogue == ChatSpec => []OwnDialogue
<1>1. ChatIInv => OwnDialogue
  BY DEF ChatIInv, OwnContext, OfOwn, OwnDialogue
<1> QED
  BY <1>1, ChatInvariance, PTL

\* No research, of whichever turn, is ever told of a plan that its user rejected,
\* or did not let pass in one of the ways the code knows, or, where plans may be
\* shown at all, did not see last.
THEOREM PlansAreAgreed == ChatSpec => []PlanIsAgreed
<1>1. ChatIInv => PlanIsAgreed
  BY DEF ChatIInv, ContextsAreAgreed, IsAgreed, Consented, Shown, PlanIsAgreed
<1> QED
  BY <1>1, ChatInvariance, PTL

-----------------------------------------------------------------------------
(* No turn goes on for ever *)

\* How much is before a turn at most: visits of the clarifier's model and the
\* questions between them, then plans, each drafted, narrowed and sent back at
\* most once, then the research.
RankOf(place, s, r, m) ==
    LET visits == 2 * (MaxSteps - s)
        plans  == 3 * (m - r)
        all    == 2 * MaxSteps + 3 * m
    IN  CASE place = "none"                    -> all + 10
          [] place = "classify"                -> all + 9
          [] place = "shallow_research"        -> all + 8
          [] place = "clarifier"               -> all + 7
          [] place = "question"                -> visits + 3 * m + 7
          [] place = "agent"                   -> visits + 3 * m + 6
          [] place = "draft"                   -> plans + 5
          [] place = "preview"                 -> plans + 4
          [] place = "focused"                 -> plans + 3
          [] place \in {"agreed", "rejected"}  -> 3
          [] place = "deep_research"           -> 2
          [] place = "researching"             -> 1
          [] OTHER                             -> 0

Rank(t) == RankOf(at[t], steps[t], rounds[t], MaxPlans[t])

MaxRank(t) == 2 * MaxSteps + 3 * MaxPlans[t] + 10

LEMMA RankValues ==
    ASSUME NEW s, NEW r, NEW m
    PROVE  /\ RankOf("none", s, r, m) = 2 * MaxSteps + 3 * m + 10
           /\ RankOf("classify", s, r, m) = 2 * MaxSteps + 3 * m + 9
           /\ RankOf("shallow_research", s, r, m) = 2 * MaxSteps + 3 * m + 8
           /\ RankOf("clarifier", s, r, m) = 2 * MaxSteps + 3 * m + 7
           /\ RankOf("question", s, r, m) = 2 * (MaxSteps - s) + 3 * m + 7
           /\ RankOf("agent", s, r, m) = 2 * (MaxSteps - s) + 3 * m + 6
           /\ RankOf("draft", s, r, m) = 3 * (m - r) + 5
           /\ RankOf("preview", s, r, m) = 3 * (m - r) + 4
           /\ RankOf("focused", s, r, m) = 3 * (m - r) + 3
           /\ RankOf("agreed", s, r, m) = 3 /\ RankOf("rejected", s, r, m) = 3
           /\ RankOf("deep_research", s, r, m) = 2 /\ RankOf("researching", s, r, m) = 1
           /\ RankOf("done", s, r, m) = 0 /\ RankOf("unanswered", s, r, m) = 0
           /\ RankOf("failed", s, r, m) = 0
BY DEF RankOf

LEMMA RankType ==
    ASSUME ChatTypeOK, NEW t \in Turns
    PROVE  Rank(t) \in 0 .. MaxRank(t) /\ (at[t] \notin Ended => Rank(t) > 0)
<1>1. /\ MaxSteps \in Nat /\ MaxPlans[t] \in Nat
      /\ steps[t] \in 0 .. MaxSteps /\ rounds[t] \in 0 .. MaxPlans[t] /\ at[t] \in Places
  BY DialogAssumption DEF ChatTypeOK
<1> DEFINE s == steps[t]
           r == rounds[t]
           m == MaxPlans[t]
<1> HIDE DEF s, r, m
<1>2. /\ s \in 0 .. MaxSteps /\ r \in 0 .. m /\ m \in Nat /\ MaxSteps \in Nat
      /\ Rank(t) = RankOf(at[t], s, r, m) /\ MaxRank(t) = 2 * MaxSteps + 3 * m + 10
  BY <1>1 DEF Rank, MaxRank, s, r, m
<1>3. CASE at[t] \in {"none", "classify", "shallow_research", "clarifier"}
  BY <1>1, <1>2, <1>3, RankValues
<1>4. CASE at[t] \in {"question", "agent", "draft", "preview", "focused"}
  BY <1>1, <1>2, <1>4, RankValues
<1>5. CASE at[t] \in {"agreed", "rejected", "deep_research", "researching"} \cup Ended
  BY <1>1, <1>2, <1>5, RankValues DEF Ended
<1> QED
  BY <1>1, <1>3, <1>4, <1>5 DEF Places

\* The ways from place to place, but for failures, another visit of the model and
\* feedback, which count.
Edges ==
    {<<"none", "classify">>, <<"classify", "done">>, <<"classify", "clarifier">>,
     <<"classify", "shallow_research">>, <<"shallow_research", "done">>,
     <<"shallow_research", "unanswered">>, <<"shallow_research", "clarifier">>,
     <<"clarifier", "done">>, <<"clarifier", "deep_research">>,
     <<"clarifier", "agent">>, <<"question", "agent">>, <<"agent", "draft">>, <<"agent", "agreed">>,
     <<"draft", "preview">>, <<"draft", "agreed">>, <<"preview", "focused">>, <<"preview", "agreed">>,
     <<"focused", "agreed">>, <<"preview", "rejected">>, <<"focused", "rejected">>,
     <<"agreed", "deep_research">>, <<"rejected", "done">>, <<"deep_research", "researching">>,
     <<"researching", "done">>}

\* What a step does to a turn's place and counters.
LEMMA StepMoves ==
    ASSUME ChatTypeOK, NEW t \in Turns, Step(t)
    PROVE  \/ at'[t] = "failed" /\ at[t] \notin Ended
           \/ /\ <<at[t], at'[t]>> \in Edges
              /\ rounds'[t] = rounds[t] /\ (at[t] = "agent" \/ steps'[t] = steps[t])
           \/ /\ at[t] = "agent" /\ at'[t] \in {"agent", "question"}
              /\ steps'[t] = steps[t] + 1 /\ rounds'[t] = rounds[t]
           \/ /\ at[t] \in {"preview", "focused"} /\ at'[t] \in {"draft", "agreed"}
              /\ rounds'[t] = rounds[t] + 1
<1> USE DEF Go, ChatTypeOK, Edges
<1>1. CASE Begin(t)
  BY <1>1, BeginNotes DEF Begin, Save
<1>2. CASE Classify(t) \/ ShallowResearch(t) \/ NoTools(t) \/ SkipClarifier(t) \/ Rejected(t) \/ Report(t)
  <2>1. /\ at'[t] \in (IF at[t] = "classify" THEN {"done", "clarifier", "shallow_research"}
                       ELSE IF at[t] = "shallow_research" THEN {"done", "unanswered", "clarifier"}
                       ELSE IF at[t] = "clarifier" THEN {"done", "deep_research"}
                       ELSE {"done"})
        /\ at[t] \in {"classify", "shallow_research", "clarifier", "rejected", "researching"}
        /\ rounds' = rounds /\ steps' = steps
    BY <1>2 DEF Classify, Route, ShallowResearch, Escalate, NoTools, SkipClarifier, Rejected, Report,
                Reply, Silent, Save
  <2> QED
    BY <2>1
<1>3. CASE Agreed(t) \/ Clarify(t) \/ DeepResearch(t)
  BY <1>3 DEF Agreed, Save, Clarify, StartDialog, DeepResearch
<1>4. CASE Fail(t)
  BY <1>4 DEF Fail, Running
<1>5. CASE Agent(t) \/ AnswerQuestion(t)
  BY <1>5 DEF Agent, AnswerQuestion
<1>6. CASE Content(t) \/ OutOfSteps(t)
  BY <1>6 DEF Content, OutOfSteps, Ended
<1>7. CASE Draft(t) \/ ApproveUnseen(t) \/ Narrow(t) \/ Approve(t) \/ Reject(t) \/ Feedback(t)
  BY <1>7 DEF Draft, ApproveUnseen, Narrow, Approve, Reject, Feedback
<1> QED
  BY <1>1, <1>2, <1>3, <1>4, <1>5, <1>6, <1>7 DEF Step, Node, Dialog

LEMMA StepLowers ==
    ASSUME ChatTypeOK, ChatTypeOK', DialogueFollows, NEW t \in Turns, Step(t)
    PROVE  Rank(t)' < Rank(t)
<1> DEFINE s == steps[t]
           r == rounds[t]
           s1 == steps'[t]
           r1 == rounds'[t]
           m == MaxPlans[t]
<1>1. /\ MaxSteps \in Nat /\ m \in Nat
      /\ s \in 0 .. MaxSteps /\ r \in 0 .. m
      /\ s1 \in 0 .. MaxSteps /\ r1 \in 0 .. m
  BY DialogAssumption DEF ChatTypeOK
<1>2. Rank(t) = RankOf(at[t], s, r, m) /\ Rank(t)' = RankOf(at'[t], s1, r1, m)
  BY DEF Rank, RankOf
<1>3. /\ at[t] \in Early => r = 0
      /\ at[t] \in {"preview", "focused"} => r < m
  BY DEF DialogueFollows
<1>4. CASE at'[t] = "failed" /\ at[t] \notin Ended
  <2>1. Rank(t) > 0 /\ Rank(t)' = 0
    BY <1>2, <1>4, RankType, RankValues
  <2> QED
    BY <2>1
<1>5. CASE at'[t] # "failed"
  <2>1. \/ /\ <<at[t], at'[t]>> \in Edges
              /\ r1 = r /\ (at[t] = "agent" \/ s1 = s)
        \/ at[t] = "agent" /\ at'[t] \in {"agent", "question"} /\ s1 = s + 1 /\ r1 = r
        \/ at[t] \in {"preview", "focused"} /\ at'[t] \in {"draft", "agreed"} /\ r1 = r + 1
    BY <1>5, StepMoves
  <2> HIDE DEF s, r, s1, r1, m
  <2>2. CASE at[t] \in {"none", "classify", "shallow_research", "clarifier"}
    <3>1. CASE at[t] = "clarifier"
      <4>1. r1 = r /\ s1 = s /\ at'[t] \in {"done", "deep_research", "agent"}
        BY <2>1, <3>1 DEF Edges
      <4> QED
        BY <1>1, <1>2, <3>1, <4>1, RankValues
    <3>2. CASE at[t] # "clarifier"
      <4>1. \/ at[t] = "none" /\ at'[t] = "classify"
            \/ at[t] = "classify" /\ at'[t] \in {"done", "clarifier", "shallow_research"}
            \/ at[t] = "shallow_research" /\ at'[t] \in {"done", "unanswered", "clarifier"}
        BY <2>1, <2>2, <3>2 DEF Edges
      <4> QED
        BY <1>1, <1>2, <4>1, RankValues
    <3> QED
      BY <3>1, <3>2
  <2>3. CASE at[t] \in {"question", "agent"}
    <3>1. r = 0
      BY <1>3, <2>3 DEF Early
    <3> QED
      BY <1>1, <1>2, <2>1, <2>3, <3>1, RankValues DEF Edges
  <2>4. CASE at[t] \in {"draft", "preview", "focused"}
    <3>1. CASE at[t] = "draft"
      <4>1. r1 = r /\ at'[t] \in {"preview", "agreed"}
        BY <2>1, <3>1 DEF Edges
      <4> QED
        BY <1>1, <1>2, <3>1, <4>1, RankValues
    <3>2. CASE at[t] \in {"preview", "focused"}
      <4>1. r < m
        BY <1>3, <3>2
      <4>2. \/ r1 = r + 1 /\ at'[t] \in {"draft", "agreed"}
            \/ r1 = r /\ at'[t] \in {"agreed", "rejected"}
            \/ r1 = r /\ at[t] = "preview" /\ at'[t] = "focused"
        BY <2>1, <3>2 DEF Edges
      <4> QED
        BY <1>1, <1>2, <3>2, <4>1, <4>2, RankValues
    <3> QED
      BY <2>4, <3>1, <3>2
  <2>5. CASE at[t] \in {"agreed", "rejected", "deep_research", "researching"}
    BY <1>1, <1>2, <2>1, <2>5, RankValues DEF Edges
  <2> QED
    BY <2>1, <2>2, <2>3, <2>4, <2>5 DEF Edges
<1> QED
  BY <1>4, <1>5, StepMoves DEF Edges

LEMMA OthersKeepRank ==
    ASSUME ChatTypeOK, NEW t \in Turns, Step(t), NEW u \in Turns, u # t
    PROVE  Rank(u)' = Rank(u)
BY OthersStay DEF SameTurn, SameDialog, Rank, RankOf

\* Each step of the conversation lowers the rank of its turn, a natural number
\* not above MaxRank of the turn that is 0 only when the turn has ended, and of
\* no other: a turn ends after at most that many steps, whatever models, tools
\* and users do, and no turn can be sent back by another.  (That it takes its
\* next step as long as it has not ended is TurnsEnd.)
THEOREM TurnsRunDown ==
    ChatSpec => /\ [](\A t \in Turns : Rank(t) \in 0 .. MaxRank(t) /\ (at[t] \notin Ended => Rank(t) > 0))
                /\ [][\E t \in Turns : /\ Rank(t)' < Rank(t)
                                       /\ \A u \in Turns \ {t} : Rank(u)' = Rank(u)]_chatVars
<1>1. ChatIInv => \A t \in Turns : Rank(t) \in 0 .. MaxRank(t) /\ (at[t] \notin Ended => Rank(t) > 0)
  BY RankType DEF ChatIInv
<1>2. ChatIInv /\ ChatIInv' /\ [ChatNext]_chatVars =>
        [\E t \in Turns : /\ Rank(t)' < Rank(t)
                          /\ \A u \in Turns \ {t} : Rank(u)' = Rank(u)]_chatVars
  <2> SUFFICES ASSUME ChatIInv, ChatIInv', NEW t \in Turns, Step(t)
               PROVE  Rank(t)' < Rank(t) /\ \A u \in Turns \ {t} : Rank(u)' = Rank(u)
    BY DEF ChatNext, Step
  <2>1. Rank(t)' < Rank(t)
    BY StepLowers DEF ChatIInv
  <2>2. \A u \in Turns \ {t} : Rank(u)' = Rank(u)
    BY OthersKeepRank DEF ChatIInv
  <2> QED
    BY <2>1, <2>2
<1> QED
  BY <1>1, <1>2, ChatInvariance, PTL DEF ChatSpec
=============================================================================
