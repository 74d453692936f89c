----------------------------- MODULE ChatTurns -----------------------------
(***************************************************************************)
(* The turns of one conversation through the chat researcher.              *)
(*                                                                         *)
(*   aiq_agent/agents/chat_researcher/agent.py      the graph and run      *)
(*   aiq_agent/agents/chat_researcher/register.py   one request            *)
(*   aiq_agent/agents/chat_researcher/nodes/intent_classifier.py           *)
(*                                                                         *)
(* Each message of the user starts an invocation of the graph, which loads *)
(* the conversation's checkpoint, adds the message, and saves what it has  *)
(* after each node.  Nothing keeps two invocations of one conversation     *)
(* apart: the checkpoint is that of whoever saved last.  An invocation     *)
(* that raises leaves the checkpoint of its last complete node.            *)
(*                                                                         *)
(* The checkpointer is external: its latest checkpoint is the last saved.  *)
(***************************************************************************)
EXTENDS ClarifierDialog, FiniteSets

CONSTANTS
    Escalation,   \* enable_escalation
    NoResult      \* clarifier_result of a conversation without a dialogue

ASSUME ChatAssumption ==
    Escalation \in BOOLEAN /\ NoResult \notin [of : Turns, plan : Plans]

VARIABLES
    saved,        \* the checkpoint: questions and answers of turns, and clarifier_result
    state,        \* each invocation's own
    skip,         \* skip_clarifier of each request
    told,         \* history: the clarifier_result that each deep research was given
    overlapped    \* history: turns that ran at the same time as another

chat == <<saved, state, skip, told, overlapped>>
chatVars == <<dialog, chat>>

Empty == [said |-> {}, context |-> NoResult]

ChatInit ==
    /\ DialogInit
    /\ saved = Empty /\ state = [t \in Turns |-> Empty]
    /\ skip = [t \in Turns |-> FALSE]
    /\ told = [t \in Turns |-> NoResult] /\ overlapped = {}

Ended == {"done", "unanswered", "failed"}
Running == {t \in Turns : at[t] \notin Ended \cup {"none"}}

\* A node ends: its update is applied, and what the invocation has is saved.
Save(t, s, next) ==
    /\ state' = [state EXCEPT ![t] = s] /\ saved' = s
    /\ Go(t, next)
    /\ UNCHANGED <<iteration, steps, rounds, plan, seen, word>>

Silent(t, next) == Save(t, state[t], next)
Reply(t, next) == Save(t, [state[t] EXCEPT !.said = @ \cup {<<"answer", t>>}], next)

-----------------------------------------------------------------------------
\* Mutant: the invocation starts from the message alone.
BeginAlone(t) ==
    /\ at[t] = "none"
    /\ \E b \in BOOLEAN : skip' = [skip EXCEPT ![t] = b]
    /\ overlapped' = IF Running = {} THEN overlapped ELSE overlapped \cup Running \cup {t}
    /\ Save(t, [said |-> {<<"question", t>>}, context |-> saved.context], "classify")
    /\ UNCHANGED told

Begin(t) ==
    /\ at[t] = "none"
    /\ \E b \in BOOLEAN : skip' = [skip EXCEPT ![t] = b]
    /\ overlapped' = IF Running = {} THEN overlapped ELSE overlapped \cup Running \cup {t}
    /\ Save(t, [saved EXCEPT !.said = @ \cup {<<"question", t>>}], "classify")
    /\ UNCHANGED told

\* The depth selected for the request decides, and any may be; the one that the
\* classifier found is not asked for, as every request has one selected.
Route(t) == Silent(t, "clarifier") \/ Silent(t, "shallow_research")

\* Chatter, approvals that belong to no prompt, and failures of the model are
\* answered at once.
Classify(t) ==
    /\ at[t] = "classify"
    /\ Reply(t, "done") \/ Route(t)
    /\ UNCHANGED <<skip, told, overlapped>>

\* An answer that found too little, or none, is followed by a deep research.
Escalate(t) == Escalation /\ (Reply(t, "clarifier") \/ Silent(t, "clarifier"))

\* An answer, or that there was an error; where the agent has no message to add,
\* the turn ends without a word.
ShallowResearch(t) ==
    /\ at[t] = "shallow_research"
    /\ Reply(t, "done") \/ Silent(t, "unanswered") \/ Escalate(t)
    /\ UNCHANGED <<skip, told, overlapped>>

\* Without search tools there is no research.
NoTools(t) ==
    /\ at[t] = "clarifier" /\ Reply(t, "done")
    /\ UNCHANGED <<skip, told, overlapped>>

SkipClarifier(t) ==
    /\ at[t] = "clarifier" /\ skip[t] /\ Silent(t, "deep_research")
    /\ UNCHANGED <<skip, told, overlapped>>

Clarify(t) ==
    /\ at[t] = "clarifier" /\ ~skip[t] /\ StartDialog(t)
    /\ UNCHANGED chat

\* Mutant: a context that is there already is kept.
AgreedFirst(t) ==
    /\ at[t] = "agreed"
    /\ Save(t, [state[t] EXCEPT !.context = IF @ = NoResult THEN [of |-> t, plan |-> plan[t]] ELSE @],
            "deep_research")
    /\ UNCHANGED <<skip, told, overlapped>>

\* The dialogue has ended well: its log and plan are the research's context.
Agreed(t) ==
    /\ at[t] = "agreed"
    /\ Save(t, [state[t] EXCEPT !.context = [of |-> t, plan |-> plan[t]]], "deep_research")
    /\ UNCHANGED <<skip, told, overlapped>>

\* Mutant: the result of the dialogue is kept before the rejection is looked at.
RejectedKept(t) ==
    /\ at[t] = "rejected"
    /\ Save(t, [said |-> state[t].said \cup {<<"answer", t>>},
                context |-> [of |-> t, plan |-> plan[t]]], "done")
    /\ UNCHANGED <<skip, told, overlapped>>

\* The user is told that there will be no research.
Rejected(t) ==
    /\ at[t] = "rejected" /\ Reply(t, "done")
    /\ UNCHANGED <<skip, told, overlapped>>

\* The research is run or submitted as a job, with the invocation's context.
DeepResearch(t) ==
    /\ at[t] = "deep_research" /\ Go(t, "researching")
    /\ told' = [told EXCEPT ![t] = state[t].context]
    /\ UNCHANGED <<iteration, steps, rounds, plan, seen, word, saved, state, skip, overlapped>>

\* Its report, the ID of its job, or that there was an error.
Report(t) ==
    /\ at[t] = "researching" /\ Reply(t, "done")
    /\ UNCHANGED <<skip, told, overlapped>>

\* A node or a prompt raises, or the backend stops.
Fail(t) ==
    /\ t \in Running /\ Go(t, "failed")
    /\ UNCHANGED <<iteration, steps, rounds, plan, seen, word, chat>>

Node(t) ==
    \/ Classify(t) \/ ShallowResearch(t)
    \/ NoTools(t) \/ SkipClarifier(t) \/ Clarify(t)
    \/ Dialog(t) /\ UNCHANGED chat
    \/ Agreed(t) \/ Rejected(t) \/ DeepResearch(t) \/ Report(t)

ChatNext == \E t \in Turns : Begin(t) \/ Node(t) \/ Fail(t)

ChatSpec == ChatInit /\ [][ChatNext]_chatVars

\* Models and tools answer or raise, and a prompt returns by its timeout at last.
FairChatSpec == ChatSpec /\ \A t \in Turns : WF_chatVars(Node(t))

-----------------------------------------------------------------------------
Places == Ended \cup
    {"question", "preview", "focused", "none", "classify", "shallow_research", "clarifier", "agent", "draft",
     "agreed", "rejected", "deep_research", "researching"}
Contexts == [of : Turns, plan : Plans] \cup {NoResult}
States == [said : SUBSET ({"question", "answer"} \X Turns), context : Contexts]

\* Turns are at a place of their graphs, and no dialogue goes past its limits.
ChatTypeOK ==
    /\ at \in [Turns -> Places]
    /\ iteration \in [Turns -> 0 .. MaxTurns] /\ steps \in [Turns -> 0 .. MaxSteps]
    /\ rounds \in [Turns -> Nat] /\ \A t \in Turns : rounds[t] <= MaxPlans[t]
    /\ plan \in [Turns -> Plans] /\ seen \in [Turns -> Plans]
    /\ word \in [Turns -> {"none", "approve", "silence", "reject", "feedback"}]
    /\ saved \in States /\ state \in [Turns -> States]
    /\ skip \in [Turns -> BOOLEAN] /\ told \in [Turns -> Contexts] /\ overlapped \subseteq Turns

\* What a turn asked, and what it was answered, stays in the conversation,
\* whatever later turns do and however they fail, but for turns that ran at the
\* same time as another.
HistoryIsKept ==
    \A t \in Turns \ overlapped :
        /\ at[t] # "none" => <<"question", t>> \in saved.said
        /\ at[t] = "done" => <<"answer", t>> \in saved.said

\* A research that follows a dialogue of its turn is told of that dialogue, and
\* of no other that the conversation has had.
OwnDialogue ==
    \A t \in Turns :
        at[t] = "researching" /\ ~skip[t] => told[t] # NoResult /\ told[t].of = t

\* The plan of a dialogue that any research is ever told of, also a later one of
\* the conversation, is the one its user saw last; and the user approved it, or
\* said nothing to it in time, or had MaxPlans rounds of feedback and did not
\* reject it (clarifier/agent.py:1836-1902).  Only where max_plan_iterations
\* allows no plan has the user seen none.
PlanIsAgreed ==
    \A t \in Turns : told[t] # NoResult =>
        LET u == told[t].of IN
        /\ told[t].plan = seen[u] \/ (PlanApproval /\ MaxPlans[u] = 0)
        /\ word[u] # "reject"
        /\ PlanApproval => word[u] \in {"approve", "silence"} \/ rounds[u] = MaxPlans[u]

\* Every turn ends, however long models, tools and users go on.
TurnsEnd == \A t \in Turns : at[t] # "none" ~> at[t] \in Ended
=============================================================================
