-------------------------- MODULE ClarifierDialog --------------------------
(***************************************************************************)
(* The clarification dialogue of a chat turn before its deep research.     *)
(*                                                                         *)
(*   aiq_agent/agents/clarifier/agent.py   the graph of ClarifierAgent:    *)
(*       agent, tools, ask_for_clarification, plan_preview                 *)
(*                                                                         *)
(* A model asks the user questions, perhaps after searching, until it has  *)
(* no more or the user wants none; then the user is shown a plan, which is *)
(* approved, rejected, or revised by feedback.  What is asked, planned and *)
(* answered is left out; which plan is shown and which one is handed on is *)
(* not.  A prompt that nobody answers in time is answered with "skip" for  *)
(* the user: no more questions, and the plan is approved.  Where no plans  *)
(* are allowed, the turn goes on with one that nobody saw.                 *)
(***************************************************************************)
EXTENDS Naturals

CONSTANTS
    Turns,
    MaxTurns,      \* max_turns of the dialogue's state
    MaxPlans,      \* max_plan_iterations of the server that runs each turn, which
                   \* nothing bounds from below; 0 stands for negative ones as well
    MaxSteps,      \* the graph's recursion limit, in visits of its agent node
    PlanApproval   \* enable_plan_approval

ASSUME DialogAssumption ==
    /\ MaxTurns \in Nat /\ MaxPlans \in [Turns -> Nat] /\ MaxSteps \in Nat
    /\ PlanApproval \in BOOLEAN

VARIABLES
    at,          \* where each turn is
    iteration,   \* questions answered; MaxTurns when the user wants no more
    steps,       \* visits of the agent node; both 0 once no question is left
    rounds,      \* plans that were given feedback
    plan,        \* the plan as it stands: the round it is of and its form
    seen,        \* history: the plan that the user was shown last
    word         \* history: the user's last word on a plan, or that there was none

dialog == <<at, iteration, steps, rounds, plan, seen, word>>

Forms == {"none", "full", "focused", "unseen"}
Plans == Nat \X Forms
NoPlan == <<0, "none">>

DialogInit ==
    /\ at = [t \in Turns |-> "none"]
    /\ iteration = [t \in Turns |-> 0] /\ steps = [t \in Turns |-> 0]
    /\ rounds = [t \in Turns |-> 0]
    /\ plan = [t \in Turns |-> NoPlan] /\ seen = [t \in Turns |-> NoPlan]
    /\ word = [t \in Turns |-> "none"]

Go(t, place) == at' = [at EXCEPT ![t] = place]

StartDialog(t) == Go(t, "agent") /\ UNCHANGED <<iteration, steps, rounds, plan, seen, word>>

\* The model is asked only while questions are left: it asks one, also when what
\* it says cannot be parsed, or calls tools and comes back.
Agent(t) ==
    /\ at[t] = "agent" /\ steps[t] < MaxSteps /\ iteration[t] < MaxTurns
    /\ steps' = [steps EXCEPT ![t] = @ + 1]
    /\ Go(t, "question") \/ UNCHANGED at
    /\ UNCHANGED <<iteration, rounds, plan, seen, word>>

\* The model is content, or no questions are left.
Content(t) ==
    /\ at[t] = "agent" /\ steps[t] < MaxSteps
    /\ Go(t, IF PlanApproval THEN "draft" ELSE "agreed")
    /\ iteration' = [iteration EXCEPT ![t] = 0] /\ steps' = [steps EXCEPT ![t] = 0]
    /\ UNCHANGED <<rounds, plan, seen, word>>

\* The graph gives up a model that does not come to an end.
OutOfSteps(t) ==
    /\ at[t] = "agent" /\ steps[t] = MaxSteps /\ Go(t, "failed")
    /\ UNCHANGED <<iteration, steps, rounds, plan, seen, word>>

\* The user answers, or wants no more questions, or the time is over.
AnswerQuestion(t) ==
    /\ at[t] = "question" /\ Go(t, "agent")
    /\ \E n \in {iteration[t] + 1, MaxTurns} : iteration' = [iteration EXCEPT ![t] = n]
    /\ UNCHANGED <<steps, rounds, plan, seen, word>>

Show(t, p) == plan' = [plan EXCEPT ![t] = p] /\ seen' = [seen EXCEPT ![t] = p]

\* A plan is generated, repaired or derived from the query, and shown.
Draft(t) ==
    /\ at[t] = "draft" /\ MaxPlans[t] > 0 /\ Go(t, "preview")
    /\ Show(t, <<rounds[t], "full">>)
    /\ UNCHANGED <<iteration, steps, rounds, word>>

\* No plan may be shown: whatever there is counts as approved.
ApproveUnseen(t) ==
    /\ at[t] = "draft" /\ MaxPlans[t] = 0 /\ Go(t, "agreed")
    /\ plan' = [plan EXCEPT ![t] = <<rounds[t], "unseen">>]
    /\ UNCHANGED <<iteration, steps, rounds, seen, word>>

Approve(t) ==
    /\ at[t] \in {"preview", "focused"} /\ Go(t, "agreed")
    /\ \E w \in {"approve", "silence"} : word' = [word EXCEPT ![t] = w]
    /\ UNCHANGED <<iteration, steps, rounds, plan, seen>>

Reject(t) ==
    /\ at[t] \in {"preview", "focused"} /\ Go(t, "rejected")
    /\ word' = [word EXCEPT ![t] = "reject"]
    /\ UNCHANGED <<iteration, steps, rounds, plan, seen>>

\* Feedback that names a section of the plan is applied and shown at once.
Narrow(t) ==
    /\ at[t] = "preview" /\ Go(t, "focused")
    /\ Show(t, <<rounds[t], "focused">>)
    /\ word' = [word EXCEPT ![t] = "feedback"]
    /\ UNCHANGED <<iteration, steps, rounds>>

\* Mutant: feedback on a focused plan does not use up a round.
FeedbackFree(t) ==
    /\ at[t] \in {"preview", "focused"}
    /\ LET n == IF at[t] = "focused" THEN rounds[t] ELSE rounds[t] + 1
       IN rounds' = [rounds EXCEPT ![t] = n] /\ Go(t, IF n < MaxPlans[t] THEN "draft" ELSE "agreed")
    /\ word' = [word EXCEPT ![t] = "feedback"]
    /\ UNCHANGED <<iteration, steps, plan, seen>>

\* Mutant: one plan more than MaxPlans is drafted.
FeedbackAgain(t) ==
    /\ at[t] \in {"preview", "focused"}
    /\ rounds' = [rounds EXCEPT ![t] = @ + 1]
    /\ word' = [word EXCEPT ![t] = "feedback"]
    /\ Go(t, IF rounds[t] + 1 <= MaxPlans[t] THEN "draft" ELSE "agreed")
    /\ UNCHANGED <<iteration, steps, plan, seen>>

\* Other feedback asks for another plan, until there were MaxPlans of them:
\* then the last one counts as approved.
Feedback(t) ==
    /\ at[t] \in {"preview", "focused"}
    /\ rounds' = [rounds EXCEPT ![t] = @ + 1]
    /\ word' = [word EXCEPT ![t] = "feedback"]
    /\ Go(t, IF rounds[t] + 1 < MaxPlans[t] THEN "draft" ELSE "agreed")
    /\ UNCHANGED <<iteration, steps, plan, seen>>

Dialog(t) ==
    \/ Agent(t) \/ Content(t) \/ OutOfSteps(t) \/ AnswerQuestion(t)
    \/ Draft(t) \/ ApproveUnseen(t) \/ Narrow(t) \/ Feedback(t) \/ Approve(t) \/ Reject(t)
=============================================================================
