----------------------------- MODULE ResearchRun -----------------------------
(***************************************************************************)
(* One run of the deep researcher: its invocations of the orchestrator,    *)
(* the sub-agents these start in parallel, and the search budgets that     *)
(* all of them share.                                                      *)
(*                                                                         *)
(*   agents/deep_researcher/agent.py              run, the order of the    *)
(*                                                middleware, the limits   *)
(*   agents/deep_researcher/custom_middleware.py  TaskBatchLimit,          *)
(*       SequentialSearch, SearchBudgetExhaustionRepair, TaskSearchBudget, *)
(*       ToolBudget, ToolRetry, ToolNameSanitization                       *)
(*                                                                         *)
(* An agent is a loop: its model responds with tool calls, which run in    *)
(* parallel, until a response has none.  The middleware sees a response    *)
(* from the inside out: calls of a spent budget are dropped, more than     *)
(* PerTurn searches are trimmed, and only then are garbled names           *)
(* ("web_search_tool.run") set right.  It sees a call from the outside in: *)
(* the task's budget, the run's budget, retries.                           *)
(*                                                                         *)
(* What language models say is any response; a failing tool or model ends  *)
(* the invocation.  Tools other than searches only keep an agent going.    *)
(***************************************************************************)
EXTENDS Naturals, FiniteSets

CONSTANTS
    Planners, Researchers,  \* sub-agents of the two kinds under way at a time
    Calls,                  \* search calls under way at a time
    Keys, NoKey,            \* tasks whose search budget can be read; any other task
    SearchLimit,            \* searches of all researchers of the run
    PlannerLimit,           \* searches of all planners of the run
    TaskLimit,              \* searches of a task
    Parallel,               \* sub-agents that run in one batch
    PerTurn                 \* searches in one response

Agents == Planners \cup Researchers

ASSUME ResearchAssumption ==
    /\ IsFiniteSet(Agents) /\ IsFiniteSet(Calls) /\ IsFiniteSet(Keys)
    /\ Planners \cap Researchers = {} /\ NoKey \notin Keys \cup Agents
    /\ SearchLimit \in Nat /\ PlannerLimit \in Nat
    /\ TaskLimit \in Nat \ {0} /\ Parallel \in Nat \ {0} /\ PerTurn \in Nat \ {0}

Scopes == {"planner", "researcher"}

VARIABLES
    counts,     \* _session_tool_counts: searches of each scope
    tcounts,    \* _session_task_search_counts
    exhausted,  \* _session_exhausted_tools
    at,         \* where each sub-agent is: its model, its tools, or not started
    task,       \* the task it works on
    call,       \* each search call: asked for, being tried once or again, or free
    of,         \* the sub-agent that asked for it
    lead,       \* where the orchestrator is: its model, its sub-agents, or over
    phase,      \* the invocation under way, or how the run ended
    attempt,
    result,     \* the newest result of an invocation: "none" or "some"
    started,    \* history: searches of each scope that were started
    retried,    \* history: searches of each scope that were tried again
    garbled,    \* history: a response named a search tool wrongly
    uncapped    \* history: a researcher had a task without a budget

budgetVars == <<counts, tcounts, exhausted, started, retried>>
agentVars == <<at, task, call, of>>
runVars == <<lead, phase, attempt, result>>
oddities == <<garbled, uncapped>>
vars == <<budgetVars, agentVars, runVars, oddities>>

\* The session variables are set once, before the first attempt.
Init ==
    /\ counts = [s \in Scopes |-> 0] /\ tcounts = [k \in Keys |-> 0] /\ exhausted = {}
    /\ started = [s \in Scopes |-> 0] /\ retried = [s \in Scopes |-> 0]
    /\ at = [a \in Agents |-> "idle"] /\ task = [a \in Agents |-> NoKey]
    /\ call = [c \in Calls |-> "free"] /\ of = [c \in Calls |-> NoKey]
    /\ lead = "model" /\ phase = "primary" /\ attempt = 1
    /\ result = "none"
    /\ garbled = FALSE /\ uncapped = FALSE

Scope(a) == IF a \in Planners THEN "planner" ELSE "researcher"
Limit(s) == IF s = "planner" THEN PlannerLimit ELSE SearchLimit
Spent(s) == s \in exhausted \/ counts[s] >= Limit(s)

\* The calls that a set of calls is cut down to when at most n may stay.
FirstOf(n, C) == {D \in SUBSET C : IF Cardinality(C) <= n THEN D = C ELSE Cardinality(D) = n}

-----------------------------------------------------------------------------
(* The orchestrator *)

\* Of the sub-agents a response asks for, those that start; the others become
\* defer_task calls.
TaskBatch(S) == FirstOf(Parallel, S)

\* The orchestrator asks for sub-agents.
Delegate ==
    /\ lead = "model" /\ lead' = "tools"
    /\ \E S \in SUBSET Agents : \E B \in TaskBatch(S) :
          \E k \in [B -> Keys \cup {NoKey}] :
             /\ \A a \in B \cap Planners : k[a] = NoKey
             /\ at' = [a \in Agents |-> IF a \in B THEN "model" ELSE at[a]]
             /\ task' = [a \in Agents |-> IF a \in B THEN k[a] ELSE task[a]]
             /\ uncapped' = (uncapped \/ \E a \in B \cap Researchers : k[a] = NoKey)
    /\ UNCHANGED <<budgetVars, call, of, phase, attempt, result, garbled>>

\* All of them are done.
Gather ==
    /\ lead = "tools" /\ \A a \in Agents : at[a] = "idle"
    /\ lead' = "model"
    /\ UNCHANGED <<budgetVars, agentVars, phase, attempt, result, oddities>>

-----------------------------------------------------------------------------
(* A sub-agent *)

\* SearchBudgetExhaustionRepair drops all searches of a spent budget.
Strip(s, C) == IF Spent(s) THEN {} ELSE C

\* Mutant: searches are not trimmed.
TrimNot(C) == {C}

\* SequentialSearch keeps the first ones.
Trim(C) == FirstOf(PerTurn, C)

\* Its model responds with searches under their names, searches under garbled
\* names, which are set right after the others were dropped or trimmed, and
\* perhaps other calls; without a call left it is done.
Respond(a) ==
    /\ at[a] = "model"
    /\ \E plain, wrong \in SUBSET {c \in Calls : call[c] = "free"} : \E more \in BOOLEAN :
          /\ plain \cap wrong = {}
          /\ garbled' = (garbled \/ wrong # {})
          /\ \E kept \in Trim(Strip(Scope(a), plain)) :
                LET asked == kept \cup wrong
                IN  /\ call' = [c \in Calls |-> IF c \in asked THEN "asked" ELSE call[c]]
                    /\ of' = [c \in Calls |-> IF c \in asked THEN a ELSE of[c]]
                    /\ \/ /\ asked # {} \/ more
                          /\ at' = [at EXCEPT ![a] = "tools"] /\ UNCHANGED task
                       \/ /\ asked = {} /\ ~more
                          /\ at' = [at EXCEPT ![a] = "idle"]
                          /\ task' = [task EXCEPT ![a] = NoKey]
    /\ UNCHANGED <<budgetVars, runVars, uncapped>>

\* All calls of its response have returned.
ToolsDone(a) ==
    /\ at[a] = "tools" /\ \A c \in Calls : of[c] # a
    /\ at' = [at EXCEPT ![a] = "model"]
    /\ UNCHANGED <<budgetVars, task, call, of, runVars, oddities>>

-----------------------------------------------------------------------------
(* A search *)

Release(c) ==
    /\ call' = [call EXCEPT ![c] = "free"]
    /\ of' = [of EXCEPT ![c] = NoKey]

\* Mutant: the run's budget is outside the task's, and counts a call before the
\* task refuses it.
BeginSwapped(c) ==
    /\ call[c] = "asked"
    /\ LET s == Scope(of[c])  k == task[of[c]] IN
       \/ /\ counts[s] >= Limit(s)
          /\ exhausted' = exhausted \cup {s}
          /\ Release(c) /\ UNCHANGED <<counts, tcounts, started>>
       \/ /\ counts[s] < Limit(s)
          /\ counts' = [counts EXCEPT ![s] = @ + 1]
          /\ \/ /\ k \in Keys /\ tcounts[k] >= TaskLimit
                /\ Release(c) /\ UNCHANGED <<tcounts, started>>
             \/ /\ k \in Keys => tcounts[k] < TaskLimit
                /\ tcounts' = [j \in Keys |-> IF j = k THEN tcounts[j] + 1 ELSE tcounts[j]]
                /\ started' = [started EXCEPT ![s] = @ + 1]
                /\ call' = [call EXCEPT ![c] = "first"] /\ UNCHANGED of
          /\ UNCHANGED exhausted
    /\ UNCHANGED <<retried, at, task, runVars, oddities>>

\* A search passes the budget of its task, which counts it, and then that of
\* the run; nothing awaits in between.  A refusal is its result.
Begin(c) ==
    /\ call[c] = "asked"
    /\ LET s == Scope(of[c])  k == task[of[c]] IN
       \/ /\ k \in Keys /\ tcounts[k] >= TaskLimit
          /\ Release(c) /\ UNCHANGED <<counts, tcounts, exhausted, started>>
       \/ /\ k \in Keys => tcounts[k] < TaskLimit
          /\ tcounts' = [j \in Keys |-> IF j = k THEN tcounts[j] + 1 ELSE tcounts[j]]
          /\ \/ /\ counts[s] >= Limit(s)
                /\ exhausted' = exhausted \cup {s}
                /\ Release(c) /\ UNCHANGED <<counts, started>>
             \/ /\ counts[s] < Limit(s)
                /\ counts' = [counts EXCEPT ![s] = @ + 1]
                /\ started' = [started EXCEPT ![s] = @ + 1]
                /\ call' = [call EXCEPT ![c] = "first"]
                /\ UNCHANGED <<exhausted, of>>
    /\ UNCHANGED <<retried, at, task, runVars, oddities>>

Answered(c) ==
    /\ call[c] \in {"first", "second"} /\ Release(c)
    /\ UNCHANGED <<budgetVars, at, task, runVars, oddities>>

\* Mutant: a search is tried for as long as it fails.
RetryAlways(c) ==
    /\ call[c] \in {"first", "second"}
    /\ call' = [call EXCEPT ![c] = IF @ = "first" THEN "second" ELSE "first"]
    /\ UNCHANGED <<budgetVars, of, at, task, runVars, oddities>>

\* ToolRetry: it failed, and is tried once more after a while.
Retry(c) ==
    /\ call[c] = "first" /\ call' = [call EXCEPT ![c] = "second"]
    /\ retried' = [retried EXCEPT ![Scope(of[c])] = @ + 1]
    /\ UNCHANGED <<counts, tcounts, exhausted, started, of, at, task, runVars, oddities>>

-----------------------------------------------------------------------------
(* The run *)

\* Its sub-agents end with an invocation that fails, or returned before it.
NoAgents ==
    /\ at' = [a \in Agents |-> "idle"] /\ task' = [a \in Agents |-> NoKey]
    /\ call' = [c \in Calls |-> "free"] /\ of' = [c \in Calls |-> NoKey]

\* The end: without any result the last error is raised; a result is made a
\* report and returned, unless it is too short, off the topic or without sources.
Finish(res) ==
    /\ lead' = "over"
    /\ \/ res = "none" /\ phase' = "error"
       \/ res # "none" /\ phase' \in {"returned", "rejected"}

\* Mutant: the session variables are set for every attempt.
NextAttemptFresh(res) ==
    /\ NoAgents /\ result' = res
    /\ \/ /\ attempt < 2 /\ attempt' = attempt + 1
          /\ counts' = [s \in Scopes |-> 0] /\ tcounts' = [k \in Keys |-> 0] /\ exhausted' = {}
          /\ lead' = "model" /\ phase' = "primary"
       \/ attempt = 2 /\ Finish(res) /\ UNCHANGED <<attempt, counts, tcounts, exhausted>>
    /\ UNCHANGED <<started, retried, oddities>>

\* The next attempt, if there is one.  It finds the budgets as they are.
NextAttempt(res) ==
    /\ NoAgents /\ result' = res
    /\ \/ attempt < 2 /\ attempt' = attempt + 1 /\ lead' = "model" /\ phase' = "primary"
       \/ attempt = 2 /\ Finish(res) /\ UNCHANGED attempt
    /\ UNCHANGED <<budgetVars, oddities>>

\* The invocation returns a complete report, which ends the run, or another: the
\* orchestrator is invoked again with feedback, and after that the next attempt.
Return ==
    /\ lead = "model"
    /\ \/ /\ NoAgents /\ result' = "some" /\ Finish("some")
          /\ UNCHANGED <<budgetVars, attempt, oddities>>
       \/ /\ phase = "primary" /\ phase' = "feedback" /\ lead' = "model"
          /\ NoAgents /\ result' = "some" /\ UNCHANGED <<budgetVars, attempt, oddities>>
       \/ phase = "feedback" /\ NextAttempt("some")

\* It raises: the result there was stays, and the next attempt begins.
Fail == lead # "over" /\ NextAttempt(result)

\* An authentication or recursion error, or the cancellation of the job.
Abort ==
    /\ lead # "over" /\ lead' = "over" /\ phase' = "aborted" /\ NoAgents
    /\ UNCHANGED <<budgetVars, attempt, result, oddities>>

-----------------------------------------------------------------------------
Next ==
    \/ Delegate \/ Gather \/ Return \/ Fail \/ Abort
    \/ \E a \in Agents : Respond(a) \/ ToolsDone(a)
    \/ \E c \in Calls : Begin(c) \/ Answered(c) \/ Retry(c)

Spec == Init /\ [][Next]_vars

\* A search returns or fails.  No model need respond, and nothing need be begun.
FairSpec ==
    /\ Spec
    /\ \A c \in Calls : WF_vars(Answered(c) \/ Retry(c) \/ (call[c] = "second" /\ Fail))

-----------------------------------------------------------------------------
TypeOK ==
    /\ counts \in [Scopes -> Nat] /\ tcounts \in [Keys -> Nat] /\ exhausted \subseteq Scopes
    /\ started \in [Scopes -> Nat] /\ retried \in [Scopes -> Nat]
    /\ at \in [Agents -> {"idle", "model", "tools"}]
    /\ task \in [Agents -> Keys \cup {NoKey}]
    /\ call \in [Calls -> {"free", "asked", "first", "second"}]
    /\ of \in [Calls -> Agents \cup {NoKey}]
    /\ \A c \in Calls : IF call[c] = "free" THEN of[c] = NoKey
                        ELSE of[c] \in Agents /\ at[of[c]] = "tools"
    /\ lead \in {"model", "tools", "over"}
    /\ lead # "tools" => \A a \in Agents : at[a] = "idle"
    /\ phase \in {"primary", "feedback", "returned", "rejected", "error", "aborted"}
    /\ attempt \in {1, 2} /\ result \in {"none", "some"}
    /\ garbled \in BOOLEAN /\ uncapped \in BOOLEAN

\* Over both attempts, their feedback invocations and all parallel sub-agents, a
\* scope starts no more searches than its budget, and each is tried at most twice.
SearchesWithinBudget ==
    \A s \in Scopes : started[s] <= Limit(s) /\ retried[s] <= started[s]

\* Where the budgets of all tasks fit into that of the run, the run's is spent
\* only when every task has had its own: no early task takes the searches of a
\* later one, and a call that its task refuses costs the run nothing.
ShareIsReserved ==
    (Cardinality(Keys) * TaskLimit <= SearchLimit /\ ~uncapped /\ Spent("researcher"))
        => \A k \in Keys : tcounts[k] >= TaskLimit

\* At most Parallel sub-agents run, each with at most PerTurn searches; with
\* garbled names it may be more.
SearchBurst ==
    ~garbled => /\ Cardinality({a \in Agents : at[a] # "idle"}) <= Parallel
                /\ \A a \in Agents : Cardinality({c \in Calls : of[c] = a}) <= PerTurn

\* A spent budget means that soon nothing is searched in that scope any more,
\* in the next attempt neither, and no search goes on for ever.
SpendingStops ==
    \A s \in Scopes :
        Spent(s) ~> [](\A c \in Calls :
                          call[c] \in {"first", "second"} => Scope(of[c]) # s)
=============================================================================
