------------------------- MODULE ResearchRun_proofs -------------------------
(***************************************************************************)
(* Proofs about ResearchRun, for any number of sub-agents, calls and tasks *)
(* and all limits.                                                         *)
(***************************************************************************)
EXTENDS ResearchRun, FiniteSetTheorems, TLAPS

LEMMA ScopeType ==
    /\ \A a : Scope(a) \in Scopes
    /\ \A s : Limit(s) \in Nat
  BY ResearchAssumption DEF Scope, Scopes, Limit

\* No sub-agent is also the mark of there being none.
LEMMA NobodyIsNoAgent == NoKey \notin Agents /\ NoKey \notin Keys
  BY ResearchAssumption

-----------------------------------------------------------------------------
\* An invocation that ends or is started again leaves everything in its type.
LEMMA NoAgentsType ==
    ASSUME TypeOK, NoAgents
    PROVE  /\ at' \in [Agents -> {"idle", "model", "tools"}]
           /\ task' \in [Agents -> Keys \cup {NoKey}]
           /\ call' \in [Calls -> {"free", "asked", "first", "second"}]
           /\ of' \in [Calls -> Agents \cup {NoKey}]
           /\ \A c \in Calls : call'[c] = "free" /\ of'[c] = NoKey
           /\ \A a \in Agents : at'[a] = "idle"
  BY DEF NoAgents

LEMMA NextAttemptType ==
    ASSUME TypeOK, NEW res \in {"none", "some"}, NextAttempt(res) PROVE TypeOK'
<1>1. UNCHANGED <<counts, tcounts, exhausted, started, retried, garbled, uncapped>>
  BY DEF NextAttempt, budgetVars, oddities
<1>2. /\ lead' \in {"model", "over"}
      /\ phase' \in {"primary", "returned", "rejected", "error"}
      /\ attempt' \in {1, 2} /\ result' \in {"none", "some"} /\ NoAgents
  BY DEF NextAttempt, Finish, TypeOK
<1>3. QED
  BY <1>1, <1>2, NoAgentsType DEF TypeOK

\* What a response leaves: some free calls become those of the sub-agent.
LEMMA RespondAsks ==
    ASSUME NEW a \in Agents, Respond(a)
    PROVE  \E asked \in SUBSET {c \in Calls : call[c] = "free"} :
              /\ call' = [c \in Calls |-> IF c \in asked THEN "asked" ELSE call[c]]
              /\ of' = [c \in Calls |-> IF c \in asked THEN a ELSE of[c]]
              /\ \/ at' = [at EXCEPT ![a] = "tools"] /\ UNCHANGED task
                 \/ /\ asked = {}
                    /\ at' = [at EXCEPT ![a] = "idle"]
                    /\ task' = [task EXCEPT ![a] = NoKey]
<1> DEFINE Free == {c \in Calls : call[c] = "free"}
<1>1. PICK plain \in SUBSET Free, wrong \in SUBSET Free : \E kept \in Trim(Strip(Scope(a), plain)) :
         /\ call' = [c \in Calls |-> IF c \in kept \cup wrong THEN "asked" ELSE call[c]]
         /\ of' = [c \in Calls |-> IF c \in kept \cup wrong THEN a ELSE of[c]]
         /\ \/ at' = [at EXCEPT ![a] = "tools"] /\ UNCHANGED task
            \/ /\ kept \cup wrong = {}
               /\ at' = [at EXCEPT ![a] = "idle"]
               /\ task' = [task EXCEPT ![a] = NoKey]
  BY DEF Respond
<1>2. \A kept \in Trim(Strip(Scope(a), plain)) : kept \cup wrong \in SUBSET Free
  BY DEF Trim, FirstOf, Strip
<1> HIDE DEF Free
<1>3. QED
  BY <1>1, <1>2 DEF Free

\* Every step keeps the type invariant.
LEMMA TypeStep == TypeOK /\ [Next]_vars => TypeOK'
<1> SUFFICES ASSUME TypeOK, [Next]_vars PROVE TypeOK'
  OBVIOUS
<1>1. CASE Delegate
  <2>1. PICK B \in SUBSET Agents : \E k \in [B -> Keys \cup {NoKey}] :
           /\ at' = [a \in Agents |-> IF a \in B THEN "model" ELSE at[a]]
           /\ task' = [a \in Agents |-> IF a \in B THEN k[a] ELSE task[a]]
    BY <1>1 DEF Delegate, TaskBatch, FirstOf
  <2>2. at' \in [Agents -> {"idle", "model", "tools"}] /\ task' \in [Agents -> Keys \cup {NoKey}]
    BY <2>1 DEF TypeOK
  <2>3. uncapped' \in BOOLEAN
    BY <1>1 DEF Delegate, TypeOK
  <2>4. /\ lead = "model" /\ lead' = "tools"
        /\ UNCHANGED <<counts, tcounts, exhausted, started, retried, call, of, phase, attempt, result, garbled>>
    BY <1>1 DEF Delegate, budgetVars
  <2>5. \A c \in Calls : call[c] = "free"
    BY <2>4 DEF TypeOK
  <2>6. QED
    BY <2>2, <2>3, <2>4, <2>5 DEF TypeOK
<1>2. CASE Gather
  BY <1>2 DEF Gather, TypeOK, budgetVars, agentVars, oddities
<1>3. CASE Return
  <2>1. CASE phase = "feedback" /\ NextAttempt("some")
    BY <2>1, NextAttemptType
  <2>2. CASE ~(phase = "feedback" /\ NextAttempt("some"))
    <3>1. /\ UNCHANGED <<counts, tcounts, exhausted, started, retried, garbled, uncapped, attempt>>
          /\ NoAgents /\ result' = "some" /\ lead' \in {"model", "over"}
          /\ phase' \in {"feedback", "returned", "rejected", "error"}
      BY <1>3, <2>2 DEF Return, Finish, budgetVars, oddities, TypeOK
    <3>2. QED
      BY <3>1, NoAgentsType DEF TypeOK
  <2>3. QED
    BY <2>1, <2>2
<1>4. CASE Fail
  BY <1>4, NextAttemptType DEF Fail, TypeOK
<1>5. CASE Abort
  <2>1. /\ UNCHANGED <<counts, tcounts, exhausted, started, retried, garbled, uncapped, attempt, result>>
        /\ NoAgents /\ lead' = "over" /\ phase' = "aborted"
    BY <1>5 DEF Abort, budgetVars, oddities
  <2>2. QED
    BY <2>1, NoAgentsType DEF TypeOK
<1>6. ASSUME NEW a \in Agents, Respond(a) PROVE TypeOK'
  <2>1. PICK asked \in SUBSET {c \in Calls : call[c] = "free"} :
           /\ call' = [c \in Calls |-> IF c \in asked THEN "asked" ELSE call[c]]
           /\ of' = [c \in Calls |-> IF c \in asked THEN a ELSE of[c]]
           /\ \/ /\ at' = [at EXCEPT ![a] = "tools"] /\ UNCHANGED task
              \/ /\ asked = {}
                 /\ at' = [at EXCEPT ![a] = "idle"]
                 /\ task' = [task EXCEPT ![a] = NoKey]
    BY <1>6, RespondAsks
  <2>2. at[a] = "model" /\ lead = "tools"
    BY <1>6 DEF Respond, TypeOK
  <2>3. garbled' \in BOOLEAN
    BY <1>6 DEF Respond, TypeOK
  <2>4. UNCHANGED <<counts, tcounts, exhausted, started, retried, lead, phase, attempt, result, uncapped>>
    BY <1>6 DEF Respond, budgetVars, runVars
  <2>5. /\ at' \in [Agents -> {"idle", "model", "tools"}] /\ task' \in [Agents -> Keys \cup {NoKey}]
        /\ call' \in [Calls -> {"free", "asked", "first", "second"}]
        /\ of' \in [Calls -> Agents \cup {NoKey}]
    BY <2>1 DEF TypeOK
  <2>6. ASSUME NEW c \in Calls
        PROVE  IF call'[c] = "free" THEN of'[c] = NoKey ELSE of'[c] \in Agents /\ at'[of'[c]] = "tools"
    <3>1. CASE c \in asked
      BY <2>1, <3>1 DEF TypeOK
    <3>2. CASE c \notin asked
      BY <2>1, <2>2, <3>2 DEF TypeOK
    <3>3. QED
      BY <3>1, <3>2
  <2>7. QED
    BY <2>2, <2>3, <2>4, <2>5, <2>6 DEF TypeOK
<1>7. ASSUME NEW a \in Agents, ToolsDone(a) PROVE TypeOK'
  BY <1>7 DEF ToolsDone, TypeOK, budgetVars, runVars, oddities
<1>8. ASSUME NEW c \in Calls, Begin(c) PROVE TypeOK'
  <2>1. /\ call[c] = "asked" /\ of[c] \in Agents /\ at[of[c]] = "tools"
        /\ UNCHANGED <<retried, at, task, lead, phase, attempt, result, garbled, uncapped>>
    BY <1>8 DEF Begin, runVars, oddities, TypeOK
  <2>2. Scope(of[c]) \in Scopes
    BY ScopeType
  <2>3. /\ counts' \in [Scopes -> Nat] /\ started' \in [Scopes -> Nat] /\ tcounts' \in [Keys -> Nat]
        /\ exhausted' \subseteq Scopes
    BY <1>8, <2>2 DEF Begin, TypeOK
  <2>4. \/ call' = [call EXCEPT ![c] = "free"] /\ of' = [of EXCEPT ![c] = NoKey]
        \/ call' = [call EXCEPT ![c] = "first"] /\ of' = of
    BY <1>8 DEF Begin, Release
  <2>5. QED
    BY <2>1, <2>3, <2>4 DEF TypeOK
<1>9. ASSUME NEW c \in Calls, Answered(c) PROVE TypeOK'
  BY <1>9 DEF Answered, Release, TypeOK, budgetVars, runVars, oddities
<1>10. ASSUME NEW c \in Calls, Retry(c) PROVE TypeOK'
  <2>1. Scope(of[c]) \in Scopes
    BY ScopeType
  <2>2. QED
    BY <1>10, <2>1 DEF Retry, TypeOK, runVars, oddities
<1>11. CASE UNCHANGED vars
  BY <1>11 DEF TypeOK, vars, budgetVars, agentVars, runVars, oddities
<1>12. QED
  BY <1>1, <1>2, <1>3, <1>4, <1>5, <1>6, <1>7, <1>8, <1>9, <1>10, <1>11 DEF Next

LEMMA InitType == Init => TypeOK
<1> SUFFICES ASSUME Init PROVE TypeOK
  OBVIOUS
<1>1. garbled \in BOOLEAN /\ uncapped \in BOOLEAN
  BY Zenon DEF Init
<1>2. /\ counts \in [Scopes -> Nat] /\ tcounts \in [Keys -> Nat] /\ exhausted \subseteq Scopes
      /\ started \in [Scopes -> Nat] /\ retried \in [Scopes -> Nat]
      /\ attempt \in {1, 2} /\ result \in {"none", "some"}
      /\ lead = "model" /\ phase = "primary"
  BY DEF Init
<1>3. /\ at \in [Agents -> {"idle", "model", "tools"}] /\ task \in [Agents -> Keys \cup {NoKey}]
      /\ call \in [Calls -> {"free", "asked", "first", "second"}]
      /\ of \in [Calls -> Agents \cup {NoKey}]
      /\ \A c \in Calls : call[c] = "free" /\ of[c] = NoKey
      /\ \A a \in Agents : at[a] = "idle"
  BY DEF Init
<1>4. QED
  BY <1>1, <1>2, <1>3 DEF TypeOK

\* Every call that is not free belongs to a sub-agent that waits for its tools,
\* and sub-agents exist only while the orchestrator waits for them.
THEOREM TypeCorrect == Spec => []TypeOK
  BY InitType, TypeStep, PTL DEF Spec

-----------------------------------------------------------------------------
\* Searches under way that were not yet tried again.
FirstTries(s) == {c \in Calls : call[c] = "first" /\ Scope(of[c]) = s}

\* The budget counts what was started, and each of these may be tried again.
Counted ==
    \A s \in Scopes :
        /\ started[s] = counts[s] /\ counts[s] <= Limit(s)
        /\ retried[s] + Cardinality(FirstTries(s)) <= started[s]

LEMMA FirstTriesFinite ==
    ASSUME NEW s
    PROVE  IsFiniteSet(FirstTries(s)) /\ Cardinality(FirstTries(s)) \in Nat
  BY ResearchAssumption, FS_Subset, FS_CardinalityType DEF FirstTries

\* A step that counts nothing and begins no search keeps the count.
LEMMA CountedStays ==
    ASSUME TypeOK, Counted, UNCHANGED <<counts, started, retried>>,
           \A s \in Scopes : FirstTries(s)' \subseteq FirstTries(s)
    PROVE  Counted'
<1> SUFFICES ASSUME NEW s \in Scopes
             PROVE  /\ started'[s] = counts'[s] /\ counts'[s] <= Limit(s)
                    /\ retried'[s] + Cardinality(FirstTries(s)') <= started'[s]
  BY DEF Counted, Limit
<1>1. /\ IsFiniteSet(FirstTries(s)) /\ Cardinality(FirstTries(s)) \in Nat
      /\ Cardinality(FirstTries(s)') \in Nat
      /\ Cardinality(FirstTries(s)') <= Cardinality(FirstTries(s))
  <2>1. IsFiniteSet(FirstTries(s)) /\ FirstTries(s)' \in SUBSET FirstTries(s)
    BY FirstTriesFinite
  <2>2. IsFiniteSet(FirstTries(s)') /\ Cardinality(FirstTries(s)') <= Cardinality(FirstTries(s))
    BY <2>1, FS_Subset
  <2>3. QED
    BY <2>1, <2>2, FS_CardinalityType
<1>2. started[s] \in Nat /\ counts[s] \in Nat /\ retried[s] \in Nat
  BY DEF TypeOK
<1>3. QED
  BY <1>1, <1>2 DEF Counted

LEMMA CountedStep == TypeOK /\ Counted /\ [Next]_vars => Counted'
<1> SUFFICES ASSUME TypeOK, Counted, [Next]_vars PROVE Counted'
  OBVIOUS
<1>1. ASSUME NEW c \in Calls, Begin(c) PROVE Counted'
  <2>0. PICK s0 \in Scopes : s0 = Scope(of[c])
    BY ScopeType
  <2>1. call[c] = "asked" /\ UNCHANGED retried
    BY <1>1 DEF Begin
  <2>2. CASE Release(c) /\ UNCHANGED <<counts, started>>
    <3>1. \A s \in Scopes : FirstTries(s)' \subseteq FirstTries(s)
      BY <2>2 DEF Release, FirstTries, Scope, TypeOK
    <3>2. QED
      BY <2>1, <2>2, <3>1, CountedStays
  <2>3. CASE /\ counts[s0] < Limit(s0)
             /\ counts' = [counts EXCEPT ![s0] = @ + 1]
             /\ started' = [started EXCEPT ![s0] = @ + 1]
             /\ call' = [call EXCEPT ![c] = "first"] /\ of' = of
    <3>1. FirstTries(s0)' = FirstTries(s0) \cup {c} /\ c \notin FirstTries(s0)
      BY <2>0, <2>1, <2>3 DEF FirstTries, Scope, TypeOK
    <3>2. \A s \in Scopes : s # s0 => FirstTries(s)' = FirstTries(s)
      BY <2>0, <2>1, <2>3 DEF FirstTries, Scope, TypeOK
    <3>3. Cardinality(FirstTries(s0)') = Cardinality(FirstTries(s0)) + 1
      BY <3>1, FirstTriesFinite, FS_AddElement
    <3> SUFFICES ASSUME NEW s \in Scopes
                 PROVE  /\ started'[s] = counts'[s] /\ counts'[s] <= Limit(s)
                        /\ retried'[s] + Cardinality(FirstTries(s)') <= started'[s]
      BY DEF Counted, Limit
    <3>4. /\ started[s] \in Nat /\ counts[s] \in Nat /\ retried[s] \in Nat
          /\ Cardinality(FirstTries(s)) \in Nat /\ Limit(s) \in Nat
      BY FirstTriesFinite, ScopeType DEF TypeOK
    <3>5. CASE s = s0
      <4>1. counts'[s] = counts[s] + 1 /\ started'[s] = started[s] + 1 /\ retried'[s] = retried[s]
        BY <2>1, <2>3, <3>5 DEF TypeOK
      <4>2. counts[s] < Limit(s)
        BY <2>3, <3>5
      <4>3. Cardinality(FirstTries(s)') = Cardinality(FirstTries(s)) + 1
        BY <3>3, <3>5
      <4>4. QED
        BY <4>1, <4>2, <4>3, <3>4 DEF Counted
    <3>6. CASE s # s0
      <4>1. counts'[s] = counts[s] /\ started'[s] = started[s] /\ retried'[s] = retried[s]
        BY <2>1, <2>3, <3>6 DEF TypeOK
      <4>2. QED
        BY <3>2, <3>6, <4>1 DEF Counted
    <3>7. QED
      BY <3>5, <3>6
  <2>4. QED
    BY <1>1, <2>0, <2>2, <2>3 DEF Begin
<1>2. ASSUME NEW c \in Calls, Retry(c) PROVE Counted'
  <2>0. PICK s0 \in Scopes : s0 = Scope(of[c])
    BY ScopeType
  <2>1. /\ call[c] = "first" /\ call' = [call EXCEPT ![c] = "second"] /\ of' = of
        /\ retried' = [retried EXCEPT ![s0] = @ + 1] /\ UNCHANGED <<counts, started>>
    BY <1>2, <2>0 DEF Retry
  <2>2. FirstTries(s0)' = FirstTries(s0) \ {c} /\ c \in FirstTries(s0)
    BY <2>0, <2>1 DEF FirstTries, Scope, TypeOK
  <2>3. \A s \in Scopes : s # s0 => FirstTries(s)' = FirstTries(s)
    BY <2>0, <2>1 DEF FirstTries, Scope, TypeOK
  <2>4. Cardinality(FirstTries(s0)') = Cardinality(FirstTries(s0)) - 1
    BY <2>2, FirstTriesFinite, FS_RemoveElement
  <2> SUFFICES ASSUME NEW s \in Scopes
               PROVE  /\ started'[s] = counts'[s] /\ counts'[s] <= Limit(s)
                      /\ retried'[s] + Cardinality(FirstTries(s)') <= started'[s]
    BY DEF Counted, Limit
  <2>5. /\ started[s] \in Nat /\ counts[s] \in Nat /\ retried[s] \in Nat
        /\ Cardinality(FirstTries(s)) \in Nat
    BY FirstTriesFinite DEF TypeOK
  <2>6. CASE s = s0
    <3>1. counts'[s] = counts[s] /\ started'[s] = started[s] /\ retried'[s] = retried[s] + 1
      BY <2>1, <2>6 DEF TypeOK
    <3>2. Cardinality(FirstTries(s)') = Cardinality(FirstTries(s)) - 1
      BY <2>4, <2>6
    <3>3. QED
      BY <2>5, <3>1, <3>2 DEF Counted
  <2>7. CASE s # s0
    <3>1. counts'[s] = counts[s] /\ started'[s] = started[s] /\ retried'[s] = retried[s]
      BY <2>1, <2>7 DEF TypeOK
    <3>2. QED
      BY <2>3, <2>7, <3>1 DEF Counted
  <2>8. QED
    BY <2>6, <2>7
<1>3. CASE UNCHANGED <<counts, started, retried>> /\ NoAgents
  <2>1. \A s \in Scopes : FirstTries(s)' \subseteq FirstTries(s)
    BY <1>3 DEF NoAgents, FirstTries
  <2>2. QED
    BY <1>3, <2>1, CountedStays
<1>4. CASE UNCHANGED <<counts, started, retried, call, of>>
  <2>1. \A s \in Scopes : FirstTries(s)' \subseteq FirstTries(s)
    BY <1>4 DEF FirstTries
  <2>2. QED
    BY <1>4, <2>1, CountedStays
<1>5. ASSUME NEW c \in Calls, Answered(c) PROVE Counted'
  <2>1. \A s \in Scopes : FirstTries(s)' \subseteq FirstTries(s)
    BY <1>5 DEF Answered, Release, FirstTries, Scope, TypeOK
  <2>2. QED
    BY <1>5, <2>1, CountedStays DEF Answered, budgetVars
<1>6. ASSUME NEW a \in Agents, Respond(a) PROVE Counted'
  <2>1. PICK asked \in SUBSET {c \in Calls : call[c] = "free"} :
           /\ call' = [c \in Calls |-> IF c \in asked THEN "asked" ELSE call[c]]
           /\ of' = [c \in Calls |-> IF c \in asked THEN a ELSE of[c]]
    BY <1>6, RespondAsks
  <2>2. \A s \in Scopes : FirstTries(s)' \subseteq FirstTries(s)
    BY <2>1 DEF FirstTries
  <2>3. QED
    BY <1>6, <2>2, CountedStays DEF Respond, budgetVars
<1>7. QED
  BY <1>1, <1>2, <1>3, <1>4, <1>5, <1>6
     DEF Next, Delegate, Gather, ToolsDone, Return, Fail, Abort, NextAttempt, budgetVars, agentVars, vars

\* Over both attempts, all their invocations and all parallel sub-agents, no
\* scope starts more searches than its budget, and none is tried three times.
THEOREM BudgetHolds == Spec => []SearchesWithinBudget
<1>1. Init => Counted
  <2> SUFFICES ASSUME Init, NEW s \in Scopes
               PROVE  /\ started[s] = counts[s] /\ counts[s] <= Limit(s)
                      /\ retried[s] + Cardinality(FirstTries(s)) <= started[s]
    BY DEF Counted
  <2>1. FirstTries(s) = {}
    BY DEF Init, FirstTries
  <2>2. started[s] = 0 /\ counts[s] = 0 /\ retried[s] = 0 /\ Limit(s) \in Nat
    BY ScopeType DEF Init
  <2>3. QED
    BY <2>1, <2>2, FS_EmptySet
<1>2. TypeOK /\ Counted => SearchesWithinBudget
  <2> SUFFICES ASSUME TypeOK, Counted, NEW s \in Scopes
               PROVE  started[s] <= Limit(s) /\ retried[s] <= started[s]
    BY DEF SearchesWithinBudget
  <2>1. started[s] \in Nat /\ retried[s] \in Nat /\ Cardinality(FirstTries(s)) \in Nat
    BY FirstTriesFinite DEF TypeOK
  <2>2. QED
    BY <2>1 DEF Counted
<1>3. QED
  BY <1>1, <1>2, InitType, TypeStep, CountedStep, PTL DEF Spec

-----------------------------------------------------------------------------
\* The searches that tasks have had of their budgets.
Shares == {p \in Keys \X (1 .. TaskLimit) : p[2] <= tcounts[p[1]]}

\* A researcher at work has a task with a budget.
AllCapped == ~uncapped => \A a \in Researchers : at[a] # "idle" => task[a] \in Keys

\* Each search of the researchers was taken from the budget of a task.
SharesCover ==
    /\ \A k \in Keys : tcounts[k] <= TaskLimit
    /\ "researcher" \in exhausted => counts["researcher"] >= SearchLimit
    /\ ~uncapped => counts["researcher"] <= Cardinality(Shares)

LEMMA AllShares ==
    /\ IsFiniteSet(Keys \X (1 .. TaskLimit))
    /\ Cardinality(Keys \X (1 .. TaskLimit)) = Cardinality(Keys) * TaskLimit
    /\ Cardinality(Keys) * TaskLimit \in Nat
<1>1. IsFiniteSet(1 .. TaskLimit) /\ Cardinality(1 .. TaskLimit) = TaskLimit
  BY ResearchAssumption, FS_Interval
<1>2. IsFiniteSet(Keys)
  BY ResearchAssumption
<1>3. Cardinality(Keys) \in Nat /\ TaskLimit \in Nat
  BY <1>2, ResearchAssumption, FS_CardinalityType
<1>4. /\ IsFiniteSet(Keys \X (1 .. TaskLimit))
      /\ Cardinality(Keys \X (1 .. TaskLimit)) = Cardinality(Keys) * Cardinality(1 .. TaskLimit)
  BY <1>1, <1>2, FS_Product
<1>5. QED
  BY <1>1, <1>3, <1>4

LEMMA SharesFinite ==
    /\ Shares \in SUBSET (Keys \X (1 .. TaskLimit))
    /\ IsFiniteSet(Shares) /\ Cardinality(Shares) \in Nat
<1>1. Shares \in SUBSET (Keys \X (1 .. TaskLimit))
  BY DEF Shares
<1>2. QED
  BY <1>1, AllShares, FS_Subset, FS_CardinalityType

\* A researcher gets a task with a budget, or the run is no longer capped.
LEMMA AllCappedStep == TypeOK /\ AllCapped /\ [Next]_vars => AllCapped'
<1> SUFFICES ASSUME TypeOK, AllCapped, [Next]_vars, ~uncapped',
                    NEW a \in Researchers, at'[a] # "idle"
             PROVE  task'[a] \in Keys
  BY Zenon DEF AllCapped
<1>0. a \in Agents
  BY DEF Agents
<1>1. CASE Delegate
  <2>1. PICK S \in SUBSET Agents : \E B \in TaskBatch(S) : \E k \in [B -> Keys \cup {NoKey}] :
           /\ at' = [b \in Agents |-> IF b \in B THEN "model" ELSE at[b]]
           /\ task' = [b \in Agents |-> IF b \in B THEN k[b] ELSE task[b]]
           /\ uncapped' = (uncapped \/ \E b \in B \cap Researchers : k[b] = NoKey)
    BY <1>1, Zenon DEF Delegate
  <2>2. PICK B \in SUBSET Agents : \E k \in [B -> Keys \cup {NoKey}] :
           /\ at' = [b \in Agents |-> IF b \in B THEN "model" ELSE at[b]]
           /\ task' = [b \in Agents |-> IF b \in B THEN k[b] ELSE task[b]]
           /\ uncapped' = (uncapped \/ \E b \in B \cap Researchers : k[b] = NoKey)
    BY <2>1, Zenon DEF TaskBatch, FirstOf
  <2>3. PICK k \in [B -> Keys \cup {NoKey}] :
           /\ at' = [b \in Agents |-> IF b \in B THEN "model" ELSE at[b]]
           /\ task' = [b \in Agents |-> IF b \in B THEN k[b] ELSE task[b]]
           /\ uncapped' = (uncapped \/ \E b \in B \cap Researchers : k[b] = NoKey)
    BY <2>2, Zenon
  <2>4. ~uncapped /\ \A b \in B \cap Researchers : k[b] # NoKey
    BY <2>3, Zenon
  <2>5. at[a] = "idle"
    BY <1>0, <1>1 DEF Delegate, TypeOK
  <2>6. a \in B
    BY <1>0, <2>3, <2>5
  <2>7. QED
    BY <1>0, <2>3, <2>4, <2>6
<1>2. ASSUME NEW b \in Agents, Respond(b) PROVE task'[a] \in Keys
  <2>1. ~uncapped
    BY <1>2, Zenon DEF Respond
  <2>2. /\ at[b] = "model"
        /\ \/ at' = [at EXCEPT ![b] = "tools"] /\ UNCHANGED task
           \/ /\ at' = [at EXCEPT ![b] = "idle"]
              /\ task' = [task EXCEPT ![b] = NoKey]
    BY <1>2 DEF Respond
  <2>3. QED
    BY <1>0, <2>1, <2>2 DEF AllCapped, TypeOK
<1>3. CASE NoAgents
  BY <1>0, <1>3 DEF NoAgents
<1>4. ASSUME NEW b \in Agents, ToolsDone(b) PROVE task'[a] \in Keys
  <2>1. ~uncapped
    BY <1>4, Zenon DEF ToolsDone, oddities
  <2>2. at[b] = "tools" /\ at' = [at EXCEPT ![b] = "model"] /\ task' = task
    BY <1>4 DEF ToolsDone
  <2>3. QED
    BY <1>0, <2>1, <2>2 DEF AllCapped, TypeOK
<1>5. CASE UNCHANGED <<at, task, uncapped>>
  <2>1. ~uncapped /\ at' = at /\ task' = task
    BY <1>5, Zenon
  <2>2. QED
    BY <2>1 DEF AllCapped
<1>6. Gather => UNCHANGED <<at, task, uncapped>>
  BY Zenon DEF Gather, agentVars, oddities
<1>7. ASSUME NEW c \in Calls, Begin(c) \/ Answered(c) \/ Retry(c)
      PROVE  UNCHANGED <<at, task, uncapped>>
  BY <1>7, Zenon DEF Begin, Answered, Retry, oddities
<1>8. Return \/ Fail \/ Abort => NoAgents
  BY Zenon DEF Return, Fail, Abort, NextAttempt
<1>9. UNCHANGED vars => UNCHANGED <<at, task, uncapped>>
  BY Zenon DEF vars, agentVars, oddities
<1>10. QED
  BY <1>1, <1>2, <1>3, <1>4, <1>5, <1>6, <1>7, <1>8, <1>9, Zenon DEF Next

\* A search takes one share of its task, and one of the run's if there is one.
LEMMA SharesBegin ==
    ASSUME TypeOK, AllCapped, SharesCover, NEW c \in Calls, Begin(c)
    PROVE  SharesCover'
<1>1. /\ call[c] = "asked" /\ of[c] \in Agents /\ at[of[c]] = "tools"
      /\ counts["researcher"] \in Nat /\ \A k \in Keys : tcounts[k] \in Nat
      /\ SearchLimit \in Nat /\ TaskLimit \in Nat
  BY ResearchAssumption DEF Begin, TypeOK, Scopes
<1>2. UNCHANGED uncapped
  BY Zenon DEF Begin, oddities
<1>3. CASE UNCHANGED <<counts, tcounts, exhausted>>
  <2>1. Shares' = Shares
    BY <1>3 DEF Shares
  <2>2. QED
    BY <1>2, <1>3, <2>1, Zenon DEF SharesCover
<1>4. CASE ~UNCHANGED <<counts, tcounts, exhausted>>
  <2>1. PICK s, k : /\ s = Scope(of[c]) /\ k = task[of[c]]
                    /\ k \in Keys => tcounts[k] < TaskLimit
                    /\ tcounts' = [j \in Keys |-> IF j = k THEN tcounts[j] + 1 ELSE tcounts[j]]
                    /\ \/ /\ counts[s] >= Limit(s) /\ exhausted' = exhausted \cup {s}
                          /\ counts' = counts
                       \/ /\ counts' = [counts EXCEPT ![s] = @ + 1] /\ exhausted' = exhausted
    BY <1>4 DEF Begin
  <2>2. \A j \in Keys : tcounts'[j] <= TaskLimit /\ tcounts[j] <= tcounts'[j]
    BY <1>1, <2>1 DEF SharesCover
  <2>3. /\ counts'["researcher"] \in Nat
        /\ "researcher" \in exhausted' => counts'["researcher"] >= SearchLimit
    BY <1>1, <2>1 DEF SharesCover, Limit, TypeOK, Scopes
  <2>4. /\ IsFiniteSet(Shares) /\ IsFiniteSet(Shares') /\ Shares \subseteq Shares'
        /\ Cardinality(Shares) \in Nat /\ Cardinality(Shares') \in Nat
    <3>1. Shares' \in SUBSET (Keys \X (1 .. TaskLimit))
      BY DEF Shares
    <3>2. IsFiniteSet(Shares')
      BY <3>1, AllShares, FS_Subset
    <3>3. ASSUME NEW p \in Shares PROVE p \in Shares'
      <4>1. p \in Keys \X (1 .. TaskLimit) /\ p[2] <= tcounts[p[1]] /\ p[1] \in Keys /\ p[2] \in Nat
        BY DEF Shares
      <4>2. tcounts'[p[1]] \in Nat /\ p[2] <= tcounts'[p[1]]
        BY <1>1, <2>1, <2>2, <4>1
      <4>3. QED
        BY <4>1, <4>2 DEF Shares
    <3>4. QED
      BY <3>2, <3>3, SharesFinite, FS_CardinalityType
  <2>5. Cardinality(Shares) <= Cardinality(Shares')
    BY <2>4, FS_Subset
  <2>6. ASSUME ~uncapped PROVE counts'["researcher"] <= Cardinality(Shares')
    <3>0. counts["researcher"] <= Cardinality(Shares)
      BY <2>6, Zenon DEF SharesCover
    <3>1. CASE s # "researcher" \/ counts' = counts
      <4>1. counts'["researcher"] = counts["researcher"]
        BY <2>1, <3>1 DEF TypeOK, Scopes
      <4>2. QED
        BY <1>1, <2>4, <2>5, <3>0, <4>1
    <3>2. CASE s = "researcher" /\ counts' # counts
      <4>1. counts'["researcher"] = counts["researcher"] + 1
        BY <2>1, <3>2 DEF TypeOK, Scopes
      <4>2. of[c] \in Researchers
        BY <1>1, <2>1, <3>2 DEF Scope, Agents
      <4>3. k \in Keys
        BY <1>1, <2>1, <2>6, <4>2 DEF AllCapped
      <4> DEFINE p == <<k, tcounts[k] + 1>>
      <4>4. p \notin Shares
        BY <1>1, <4>3 DEF Shares
      <4>5. p \in Shares'
        <5>1. tcounts'[k] = tcounts[k] + 1 /\ tcounts[k] < TaskLimit
          BY <2>1, <4>3
        <5>2. p \in Keys \X (1 .. TaskLimit) /\ p[2] <= tcounts'[p[1]]
          BY <1>1, <4>3, <5>1
        <5>3. QED
          BY <5>2 DEF Shares
      <4> HIDE DEF p
      <4>6. IsFiniteSet(Shares \cup {p}) /\ Cardinality(Shares \cup {p}) = Cardinality(Shares) + 1
        BY <2>4, <4>4, FS_AddElement
      <4>7. Cardinality(Shares \cup {p}) <= Cardinality(Shares')
        BY <2>4, <4>5, FS_Subset
      <4>8. QED
        BY <1>1, <2>4, <3>0, <4>1, <4>6, <4>7
    <3>3. QED
      BY <3>1, <3>2
  <2>7. QED
    BY <1>2, <2>2, <2>3, <2>6, Zenon DEF SharesCover
<1>5. QED
  BY <1>3, <1>4

LEMMA SharesCoverStep == TypeOK /\ AllCapped /\ SharesCover /\ [Next]_vars => SharesCover'
<1> SUFFICES ASSUME TypeOK, AllCapped, SharesCover, [Next]_vars PROVE SharesCover'
  OBVIOUS
<1>1. CASE UNCHANGED <<counts, tcounts, exhausted>> /\ (~uncapped' => ~uncapped)
  <2>1. Shares' = Shares
    BY <1>1 DEF Shares
  <2>2. QED
    BY <1>1, <2>1, Zenon DEF SharesCover
<1>2. Delegate => UNCHANGED <<counts, tcounts, exhausted>> /\ (~uncapped' => ~uncapped)
  BY Zenon DEF Delegate, budgetVars
<1>3. \/ Gather \/ Return \/ Fail \/ Abort \/ UNCHANGED vars
      \/ \E a \in Agents : Respond(a) \/ ToolsDone(a)
      \/ \E c \in Calls : Answered(c) \/ Retry(c)
      => UNCHANGED <<counts, tcounts, exhausted, uncapped>>
  BY Zenon DEF Gather, Return, Fail, Abort, Respond, ToolsDone, Answered, Retry, NextAttempt,
               vars, budgetVars, oddities
<1>4. QED
  BY <1>1, <1>2, <1>3, SharesBegin, Zenon DEF Next

\* Where the budgets of all tasks fit into that of the run and every researcher
\* has a task with a budget, the run's is spent only when every task has had its
\* own, in whatever order parallel sub-agents search and tasks are refused.
THEOREM SharesAreReserved == Spec => []ShareIsReserved
<1>1. Init => AllCapped /\ SharesCover
  <2> SUFFICES ASSUME Init PROVE AllCapped /\ SharesCover
    OBVIOUS
  <2>1. \A a \in Researchers : at[a] = "idle"
    BY DEF Init, Agents
  <2>2. /\ \A k \in Keys : tcounts[k] <= TaskLimit
        /\ "researcher" \notin exhausted /\ counts["researcher"] = 0
    BY ResearchAssumption DEF Init, Scopes
  <2>3. counts["researcher"] <= Cardinality(Shares)
    BY <2>2, SharesFinite
  <2>4. QED
    BY <2>1, <2>2, <2>3, Zenon DEF AllCapped, SharesCover
<1>2. TypeOK /\ SharesCover => ShareIsReserved
  <2> SUFFICES ASSUME TypeOK, SharesCover, Cardinality(Keys) * TaskLimit <= SearchLimit,
                      ~uncapped, Spent("researcher"), NEW k \in Keys, ~(tcounts[k] >= TaskLimit)
               PROVE  FALSE
    BY Zenon DEF ShareIsReserved
  <2>1. /\ counts["researcher"] \in Nat /\ tcounts[k] \in Nat
        /\ SearchLimit \in Nat /\ TaskLimit \in Nat \ {0}
    BY ResearchAssumption DEF TypeOK, Scopes
  <2>2. counts["researcher"] >= SearchLimit
    BY DEF Spent, SharesCover, Limit
  <2>3. counts["researcher"] <= Cardinality(Shares)
    BY Zenon DEF SharesCover
  <2>4. <<k, TaskLimit>> \in Keys \X (1 .. TaskLimit) /\ <<k, TaskLimit>> \notin Shares
    BY <2>1 DEF Shares
  <2>5. /\ Cardinality(Shares) <= Cardinality(Keys \X (1 .. TaskLimit))
        /\ Cardinality(Shares) # Cardinality(Keys \X (1 .. TaskLimit))
    BY <2>4, AllShares, SharesFinite, FS_Subset
  <2>6. QED
    BY <2>1, <2>2, <2>3, <2>5, AllShares, SharesFinite
<1>3. QED
  BY <1>1, <1>2, InitType, TypeStep, AllCappedStep, SharesCoverStep, PTL DEF Spec

-----------------------------------------------------------------------------
Busy == {a \in Agents : at[a] # "idle"}
CallsOf(a) == {c \in Calls : of[c] = a}

LEMMA BurstStays ==
    ASSUME SearchBurst, ~garbled' => ~garbled,
           Busy' \subseteq Busy, \A a \in Agents : CallsOf(a)' \subseteq CallsOf(a)
    PROVE  SearchBurst'
<1> SUFFICES ASSUME ~garbled'
             PROVE  /\ Cardinality(Busy') <= Parallel
                    /\ \A a \in Agents : Cardinality(CallsOf(a)') <= PerTurn
  BY Zenon DEF SearchBurst, Busy, CallsOf
<1>0. Parallel \in Nat /\ PerTurn \in Nat
  BY ResearchAssumption
<1>1. /\ Cardinality(Busy) <= Parallel
      /\ \A a \in Agents : Cardinality(CallsOf(a)) <= PerTurn
  BY Zenon DEF SearchBurst, Busy, CallsOf
<1>2. Cardinality(Busy') <= Parallel
  <2>1. IsFiniteSet(Busy) /\ Busy' \in SUBSET Busy
    BY ResearchAssumption, FS_Subset DEF Busy
  <2>2. IsFiniteSet(Busy') /\ Cardinality(Busy') <= Cardinality(Busy)
    BY <2>1, FS_Subset
  <2>3. QED
    BY <1>0, <1>1, <2>1, <2>2, FS_CardinalityType
<1>3. ASSUME NEW a \in Agents PROVE Cardinality(CallsOf(a)') <= PerTurn
  <2>1. IsFiniteSet(CallsOf(a)) /\ CallsOf(a)' \in SUBSET CallsOf(a)
    BY ResearchAssumption, FS_Subset DEF CallsOf
  <2>2. IsFiniteSet(CallsOf(a)') /\ Cardinality(CallsOf(a)') <= Cardinality(CallsOf(a))
    BY <2>1, FS_Subset
  <2>3. QED
    BY <1>0, <1>1, <2>1, <2>2, FS_CardinalityType
<1>4. QED
  BY <1>2, <1>3

LEMMA FirstOfBounded ==
    ASSUME NEW n \in Nat, NEW C, IsFiniteSet(C), NEW D \in FirstOf(n, C)
    PROVE  D \subseteq C /\ IsFiniteSet(D) /\ Cardinality(D) <= n
<1>1. D \in SUBSET C /\ IF Cardinality(C) <= n THEN D = C ELSE Cardinality(D) = n
  BY DEF FirstOf
<1>2. IsFiniteSet(D)
  BY <1>1, FS_Subset
<1>3. QED
  BY <1>1, <1>2

LEMMA BurstStep == TypeOK /\ SearchBurst /\ [Next]_vars => SearchBurst'
<1> SUFFICES ASSUME TypeOK, SearchBurst, [Next]_vars PROVE SearchBurst'
  OBVIOUS
<1>0. Parallel \in Nat /\ PerTurn \in Nat /\ NoKey \notin Agents
  BY ResearchAssumption
<1>1. CASE Delegate
  <2>1. PICK S \in SUBSET Agents : \E B \in TaskBatch(S) :
           at' = [a \in Agents |-> IF a \in B THEN "model" ELSE at[a]]
    BY <1>1, Zenon DEF Delegate
  <2>2. PICK B \in TaskBatch(S) :
           at' = [a \in Agents |-> IF a \in B THEN "model" ELSE at[a]]
    BY <2>1, Zenon
  <2>3. IsFiniteSet(S)
    BY ResearchAssumption, FS_Subset
  <2>4. B \subseteq S /\ Cardinality(B) <= Parallel
    BY <1>0, <2>2, <2>3, FirstOfBounded DEF TaskBatch
  <2>5. \A a \in Agents : at[a] = "idle"
    BY <1>1 DEF Delegate, TypeOK
  <2>6. Busy' = B
    BY <2>2, <2>4, <2>5 DEF Busy
  <2>7. (~garbled' => ~garbled) /\ of' = of
    BY <1>1, Zenon DEF Delegate
  <2>8. ASSUME ~garbled' PROVE \A a \in Agents : Cardinality({c \in Calls : of'[c] = a}) <= PerTurn
    BY <2>7, <2>8, Zenon DEF SearchBurst
  <2>9. QED
    BY <2>4, <2>6, <2>8, Zenon DEF SearchBurst, Busy
<1>2. ASSUME NEW a \in Agents, Respond(a) PROVE SearchBurst'
  <2> SUFFICES ASSUME ~garbled'
               PROVE  /\ Cardinality(Busy') <= Parallel
                      /\ \A b \in Agents : Cardinality(CallsOf(b)') <= PerTurn
    BY Zenon DEF SearchBurst, Busy, CallsOf
  <2>1. PICK plain \in SUBSET {c \in Calls : call[c] = "free"} :
        \E wrong \in SUBSET {c \in Calls : call[c] = "free"} : \E kept \in Trim(Strip(Scope(a), plain)) :
           /\ garbled' = (garbled \/ wrong # {})
           /\ of' = [c \in Calls |-> IF c \in kept \cup wrong THEN a ELSE of[c]]
    BY <1>2 DEF Respond
  <2>2. PICK wrong \in SUBSET {c \in Calls : call[c] = "free"} : \E kept \in Trim(Strip(Scope(a), plain)) :
           /\ garbled' = (garbled \/ wrong # {})
           /\ of' = [c \in Calls |-> IF c \in kept \cup wrong THEN a ELSE of[c]]
    BY <2>1, Zenon
  <2>3. PICK kept \in Trim(Strip(Scope(a), plain)) :
           /\ garbled' = (garbled \/ wrong # {})
           /\ of' = [c \in Calls |-> IF c \in kept \cup wrong THEN a ELSE of[c]]
    BY <2>2, Zenon
  <2>4. /\ ~garbled /\ wrong = {}
        /\ of' = [c \in Calls |-> IF c \in kept \cup wrong THEN a ELSE of[c]]
    BY <2>3, Zenon
  <2>5. IsFiniteSet(Strip(Scope(a), plain)) /\ Strip(Scope(a), plain) \subseteq plain
    BY ResearchAssumption, FS_Subset, FS_EmptySet DEF Strip
  <2>6. kept \subseteq plain /\ Cardinality(kept) <= PerTurn
    BY <1>0, <2>5, FirstOfBounded DEF Trim
  <2>7. /\ Cardinality(Busy) <= Parallel
        /\ \A b \in Agents : Cardinality(CallsOf(b)) <= PerTurn
    BY <2>4, Zenon DEF SearchBurst, Busy, CallsOf
  <2>8. /\ at[a] = "model"
        /\ \/ at' = [at EXCEPT ![a] = "tools"]
           \/ at' = [at EXCEPT ![a] = "idle"]
    BY <1>2 DEF Respond
  <2>9. Cardinality(Busy') <= Parallel
    <3>1. Busy' \in SUBSET Busy
      BY <2>8 DEF Busy, TypeOK
    <3>2. IsFiniteSet(Busy)
      BY ResearchAssumption, FS_Subset DEF Busy
    <3>3. IsFiniteSet(Busy') /\ Cardinality(Busy') <= Cardinality(Busy)
      BY <3>1, <3>2, FS_Subset
    <3>4. QED
      BY <1>0, <2>7, <3>2, <3>3, FS_CardinalityType
  <2>10. CallsOf(a)' = kept
    <3>1. \A c \in Calls : of[c] # a
      <4>1. at[a] = "model"
        BY <2>8
      <4>2. \A c \in Calls : of[c] = NoKey \/ at[of[c]] = "tools"
        BY Zenon DEF TypeOK
      <4>3. QED
        BY <1>0, <4>1, <4>2
    <3>2. ASSUME NEW c \in Calls PROVE of'[c] = a <=> c \in kept
      <4>1. of'[c] = IF c \in kept \cup wrong THEN a ELSE of[c]
        BY <2>4
      <4>2. wrong = {} /\ of[c] # a
        BY <2>4, <3>1
      <4>3. QED
        BY <4>1, <4>2
    <3>3. kept \subseteq Calls
      BY <2>6
    <3>4. QED
      BY <3>2, <3>3 DEF CallsOf
  <2>11. ASSUME NEW b \in Agents, b # a PROVE CallsOf(b)' = CallsOf(b)
    <3>1. \A c \in kept : of[c] = NoKey
      BY <2>6 DEF TypeOK
    <3>2. QED
      BY <1>0, <2>4, <2>11, <3>1 DEF CallsOf
  <2>12. QED
    BY <2>6, <2>7, <2>9, <2>10, <2>11
<1>3. CASE NoAgents /\ UNCHANGED garbled
  <2>1. Busy' = {} /\ \A a \in Agents : CallsOf(a)' = {}
    BY <1>0, <1>3 DEF NoAgents, Busy, CallsOf
  <2>2. ~garbled' => ~garbled
    BY <1>3, Zenon
  <2>3. QED
    BY <2>1, <2>2, BurstStays
<1>4. ASSUME NEW c \in Calls, Release(c), UNCHANGED <<at, garbled>> PROVE SearchBurst'
  <2>1. Busy' \subseteq Busy /\ \A a \in Agents : CallsOf(a)' \subseteq CallsOf(a)
    BY <1>0, <1>4 DEF Release, Busy, CallsOf, TypeOK
  <2>2. ~garbled' => ~garbled
    BY <1>4, Zenon
  <2>3. QED
    BY <2>1, <2>2, BurstStays
<1>5. ASSUME NEW a \in Agents, ToolsDone(a) PROVE SearchBurst'
  <2>1. at[a] = "tools" /\ at' = [at EXCEPT ![a] = "model"] /\ of' = of
    BY <1>5 DEF ToolsDone
  <2>2. Busy' \subseteq Busy /\ \A b \in Agents : CallsOf(b)' \subseteq CallsOf(b)
    BY <2>1 DEF Busy, CallsOf, TypeOK
  <2>3. ~garbled' => ~garbled
    BY <1>5, Zenon DEF ToolsDone, oddities
  <2>4. QED
    BY <2>2, <2>3, BurstStays
<1>6. CASE UNCHANGED <<at, of, garbled>>
  BY <1>6, Zenon DEF SearchBurst
<1>7. \/ Gather \/ UNCHANGED vars
      \/ \E c \in Calls : Retry(c)
      => UNCHANGED <<at, of, garbled>>
  BY Zenon DEF Gather, Retry, vars, agentVars, oddities
<1>8. Return \/ Fail \/ Abort => NoAgents /\ UNCHANGED garbled
  BY Zenon DEF Return, Fail, Abort, NextAttempt, oddities
<1>9. ASSUME NEW c \in Calls, Begin(c) \/ Answered(c)
      PROVE  UNCHANGED <<at, garbled>> /\ (Release(c) \/ UNCHANGED of)
  BY <1>9, Zenon DEF Begin, Answered, oddities
<1>10. QED
  BY <1>1, <1>2, <1>3, <1>4, <1>5, <1>6, <1>7, <1>8, <1>9, Zenon DEF Next

\* As long as no response names a search tool wrongly, no more than Parallel
\* sub-agents are at work, and none has more than PerTurn searches at a time.
THEOREM BurstsAreBounded == Spec => []SearchBurst
<1>1. Init => SearchBurst
  <2> SUFFICES ASSUME Init PROVE SearchBurst
    OBVIOUS
  <2>1. Busy = {} /\ \A a \in Agents : CallsOf(a) = {}
    BY ResearchAssumption DEF Init, Busy, CallsOf
  <2>2. Cardinality(Busy) = 0 /\ \A a \in Agents : Cardinality(CallsOf(a)) = 0
    BY <2>1, FS_EmptySet
  <2>3. Cardinality(Busy) <= Parallel /\ \A a \in Agents : Cardinality(CallsOf(a)) <= PerTurn
    BY <2>2, ResearchAssumption
  <2>4. QED
    BY <2>3, Zenon DEF SearchBurst, Busy, CallsOf
<1>2. QED
  BY <1>1, InitType, TypeStep, BurstStep, PTL DEF Spec
-----------------------------------------------------------------------------
(* After a budget is spent *)

\* A spent budget stays spent, nothing is begun on it, and the searches under way
\* come to an end: a first try may be followed by a second one, and that by none.
SpentRunsDown(s) ==
    /\ Spent(s)' /\ started'[s] = started[s]
    /\ \A c \in Calls :
          call'[c] \in {"first", "second"} /\ Scope(of'[c]) = s =>
              /\ call[c] \in {"first", "second"} /\ Scope(of[c]) = s
              /\ call[c] = "second" => call'[c] = "second"

\* A scope is only marked when its counter is at the limit, so that the counter,
\* which is all that a call looks at, refuses as well.
MarkedIsSpent == \A s \in exhausted : counts[s] >= Limit(s)

LEMMA MarkedStep == TypeOK /\ MarkedIsSpent /\ [Next]_vars => MarkedIsSpent'
<1> SUFFICES ASSUME TypeOK, MarkedIsSpent, [Next]_vars PROVE MarkedIsSpent'
  OBVIOUS
<1> USE DEF budgetVars, agentVars, runVars, oddities
<1>1. ASSUME NEW c \in Calls, Begin(c) PROVE MarkedIsSpent'
  <2>0. PICK s0 \in Scopes : s0 = Scope(of[c])
    BY ScopeType
  <2>1. CASE UNCHANGED <<counts, exhausted>>
    BY <2>1 DEF MarkedIsSpent, Limit
  <2>2. CASE counts[s0] >= Limit(s0) /\ exhausted' = exhausted \cup {s0} /\ UNCHANGED counts
    BY <2>2 DEF MarkedIsSpent, Limit
  <2>3. CASE counts[s0] < Limit(s0) /\ counts' = [counts EXCEPT ![s0] = @ + 1] /\ UNCHANGED exhausted
    <3>1. \A s \in Scopes : counts'[s] >= counts[s] /\ counts[s] \in Nat /\ Limit(s) \in Nat
      BY <2>3, ScopeType DEF TypeOK
    <3>2. \A s \in exhausted : counts'[s] >= Limit(s)
      <4>1. ASSUME NEW s \in exhausted PROVE counts'[s] >= Limit(s)
        <5>1. s \in Scopes /\ counts[s] >= Limit(s)
          BY DEF TypeOK, MarkedIsSpent
        <5>2. counts'[s] \in Nat
          BY <2>3, <5>1 DEF TypeOK
        <5> QED
          BY <3>1, <5>1, <5>2
      <4> QED
        BY <4>1
    <3> QED
      BY <2>3, <3>2 DEF MarkedIsSpent, Limit
  <2> QED
    BY <1>1, <2>0, <2>1, <2>2, <2>3 DEF Begin
<1>2. CASE UNCHANGED <<counts, exhausted>>
  BY <1>2 DEF MarkedIsSpent, Limit
<1>3. CASE Delegate \/ Gather \/ UNCHANGED vars
  BY <1>2, <1>3 DEF Delegate, Gather, vars
<1>4. CASE Return \/ Fail \/ Abort
  BY <1>2, <1>4 DEF Return, Fail, Abort, NextAttempt
<1>5. ASSUME NEW a \in Agents, Respond(a) \/ ToolsDone(a) PROVE MarkedIsSpent'
  BY <1>2, <1>5 DEF Respond, ToolsDone
<1>6. ASSUME NEW c \in Calls, Answered(c) \/ Retry(c) PROVE MarkedIsSpent'
  BY <1>2, <1>6 DEF Answered, Retry
<1> QED
  BY <1>1, <1>3, <1>4, <1>5, <1>6 DEF Next

LEMMA SpentStep ==
    ASSUME TypeOK, MarkedIsSpent, [Next]_vars, NEW s \in Scopes, Spent(s)
    PROVE  SpentRunsDown(s)
<1> USE DEF SpentRunsDown, budgetVars, agentVars, runVars, oddities
<1>1. ASSUME UNCHANGED <<counts, exhausted, started>>,
             \A c \in Calls : \/ call'[c] = call[c] /\ of'[c] = of[c]
                              \/ call'[c] \in {"free", "asked"}
                              \/ call[c] = "first" /\ of'[c] = of[c]
      PROVE  SpentRunsDown(s)
  BY <1>1 DEF Spent, Limit
<1>2. CASE Delegate \/ Gather \/ UNCHANGED vars
  BY <1>2, <1>1 DEF Delegate, Gather, vars
<1>3. CASE Return \/ Fail \/ Abort
  <2>1. NoAgents /\ UNCHANGED <<counts, exhausted, started>>
    BY <1>3 DEF Return, Fail, Abort, NextAttempt
  <2> QED
    BY <1>1, <2>1 DEF NoAgents
<1>4. ASSUME NEW a \in Agents, Respond(a) PROVE SpentRunsDown(s)
  <2>1. PICK asked \in SUBSET {c \in Calls : call[c] = "free"} :
           /\ call' = [c \in Calls |-> IF c \in asked THEN "asked" ELSE call[c]]
           /\ of' = [c \in Calls |-> IF c \in asked THEN a ELSE of[c]]
    BY <1>4, RespondAsks
  <2>2. UNCHANGED <<counts, exhausted, started>>
    BY <1>4 DEF Respond
  <2> QED
    BY <1>1, <2>1, <2>2
<1>5. ASSUME NEW a \in Agents, ToolsDone(a) PROVE SpentRunsDown(s)
  BY <1>1, <1>5 DEF ToolsDone
<1>6. ASSUME NEW c \in Calls, Begin(c) PROVE SpentRunsDown(s)
  <2>0. PICK s0 \in Scopes : s0 = Scope(of[c])
    BY ScopeType
  <2>1. CASE /\ call' = [call EXCEPT ![c] = "free"] /\ of' = [of EXCEPT ![c] = NoKey]
             /\ UNCHANGED <<counts, started>> /\ exhausted \subseteq exhausted'
    BY <2>1 DEF Spent, Limit, TypeOK
  <2>2. CASE /\ counts[s0] < Limit(s0) /\ counts' = [counts EXCEPT ![s0] = @ + 1]
             /\ started' = [started EXCEPT ![s0] = @ + 1]
             /\ call' = [call EXCEPT ![c] = "first"] /\ UNCHANGED <<exhausted, of>>
    <3>1. counts[s] >= Limit(s) /\ \A x \in Scopes : counts[x] \in Nat /\ Limit(x) \in Nat
      BY ScopeType DEF Spent, MarkedIsSpent, TypeOK
    <3>2. s # s0
      BY <2>2, <3>1
    <3> QED
      BY <2>0, <2>2, <3>1, <3>2 DEF Spent, Limit, TypeOK
  <2> QED
    BY <1>6, <2>0, <2>1, <2>2 DEF Begin, Release
<1>7. ASSUME NEW c \in Calls, Answered(c) \/ Retry(c) PROVE SpentRunsDown(s)
  BY <1>1, <1>7 DEF Answered, Retry, Release, TypeOK
<1> QED
  BY <1>2, <1>3, <1>4, <1>5, <1>6, <1>7 DEF Next

\* What SpendingStops says without time: over attempts, feedback and parallel
\* sub-agents, once a scope has spent its budget its searches only run down.
THEOREM SpentSearchesRunDown == Spec => [][\A s \in Scopes : Spent(s) => SpentRunsDown(s)]_vars
<1>1. Init => TypeOK /\ MarkedIsSpent
  BY InitType DEF Init, MarkedIsSpent
<1>2. TypeOK /\ MarkedIsSpent /\ [Next]_vars => [\A s \in Scopes : Spent(s) => SpentRunsDown(s)]_vars
  BY SpentStep
<1> QED
  BY <1>1, <1>2, TypeStep, MarkedStep, PTL DEF Spec
=============================================================================
