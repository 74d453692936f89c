------------------------ MODULE JobLifecycle_proofs ------------------------
(***************************************************************************)
(* Proofs about JobLifecycle, for any number of runs, submissions of the   *)
(* same ID, cancel and resume requests, with or without authentication,    *)
(* local workers and failing event inserts.                                *)
(***************************************************************************)
EXTENDS JobLifecycle, TLAPS

\* Every step keeps the type invariant.
LEMMA TypeStep ==
    ASSUME TypeOK, [Next]_vars
    PROVE  TypeOK'
<1> USE LifecycleAssumption DEF TypeOK, Status, Kinds, RunStates, SubStates, ReqStates, Sweepers, jobVars, runVars, apiVars
<1>1. ASSUME NEW s \in Submitters, SubmitCreate(s) PROVE TypeOK'
  BY <1>1 DEF SubmitCreate, SubGo
<1>2. ASSUME NEW s \in Submitters, SubmitDispatch(s) PROVE TypeOK'
  BY <1>2 DEF SubmitDispatch, SubGo, Dispatched, Go, Unused
<1>3. ASSUME NEW s \in Submitters, SubmitAccess(s) PROVE TypeOK'
  BY <1>3 DEF SubmitAccess, SubGo
<1>4. ASSUME NEW s \in Submitters, SubmitReturn(s) PROVE TypeOK'
  BY <1>4 DEF SubmitReturn, SubGo, Stored
<1>5. ASSUME NEW s \in Submitters, SubmitRollback(s) PROVE TypeOK'
  BY <1>5 DEF SubmitRollback, SubGo
<1>6. ASSUME NEW q \in Requests, CancelRead(q) PROVE TypeOK'
  BY <1>6 DEF CancelRead, ReqGo
<1>7. ASSUME NEW q \in Requests, CancelMark(q) PROVE TypeOK'
  BY <1>7 DEF CancelMark, ReqGo, SetStatus
<1>8. ASSUME NEW q \in Requests, CancelLog(q) PROVE TypeOK'
  BY <1>8 DEF CancelLog, ReqGo, Stored
<1>9. ASSUME NEW q \in Requests, CancelTask(q) PROVE TypeOK'
  BY <1>9 DEF CancelTask, ReqGo, Go, RunCancelled, Live
<1>10. ASSUME NEW q \in Requests, ResumeRead(q) PROVE TypeOK'
  BY <1>10 DEF ResumeRead, ReqGo
<1>11. ASSUME NEW q \in Requests, ResumeMark(q) PROVE TypeOK'
  BY <1>11 DEF ResumeMark, ReqGo, SetStatus
<1>12. ASSUME NEW q \in Requests, RecoverLog(q) PROVE TypeOK'
  BY <1>12 DEF RecoverLog, ReqGo, Stored
<1>13. ASSUME NEW q \in Requests, ResumeLog(q) PROVE TypeOK'
  BY <1>13 DEF ResumeLog, ReqGo, Stored
<1>14. ASSUME NEW q \in Requests, ResumeDispatch(q) PROVE TypeOK'
  BY <1>14 DEF ResumeDispatch, ReqGo, Dispatched, Go, Unused
<1>15. ASSUME NEW r \in Runs, RunStart(r) PROVE TypeOK'
  BY <1>15 DEF RunStart, SetStatus, Go
<1>16. ASSUME NEW r \in Runs, RunBuild(r) PROVE TypeOK'
  BY <1>16 DEF RunBuild, Go
<1>17. ASSUME NEW r \in Runs, RunReport(r) PROVE TypeOK'
  BY <1>17 DEF RunReport, Working
<1>18. ASSUME NEW r \in Runs, RunFlush(r) PROVE TypeOK'
  BY <1>18 DEF RunFlush, Stored, Live
<1>19. ASSUME NEW r \in Runs, MonitorPoll(r) PROVE TypeOK'
  BY <1>19 DEF MonitorPoll, Go
<1>20. ASSUME NEW r \in Runs, RunCancelSeen(r) PROVE TypeOK'
  BY <1>20 DEF RunCancelSeen, Go
<1>21. ASSUME NEW r \in Runs, RunAgentEnds(r) PROVE TypeOK'
  BY <1>21 DEF RunAgentEnds, Go, Working
<1>22. ASSUME NEW r \in Runs, RunAccept(r) PROVE TypeOK'
  <2>1. PICK kept \in SUBSET Kinds : buf' = [buf EXCEPT ![r] = kept]
    <3>1. CASE \E quality \in SUBSET {"outcome"} : buf' = [buf EXCEPT ![r] = quality]
      BY <3>1
    <3>2. CASE buf' = [buf EXCEPT ![r] = {}]
      BY <3>2
    <3>3. QED
      BY <1>22, <3>1, <3>2 DEF RunAccept
  <2>2. QED
    BY <1>22, <2>1 DEF RunAccept, Go, Stored
<1>23. ASSUME NEW r \in Runs, RunPublish(r) PROVE TypeOK'
  BY <1>23 DEF RunPublish, SetStatus, Go
<1>24. ASSUME NEW r \in Runs, RunUnwind(r) PROVE TypeOK'
  <2>1. PICK hook \in SUBSET Kinds : buf' = [buf EXCEPT ![r] = @ \cup hook]
    BY <1>24 DEF RunUnwind
  <2>2. QED
    BY <1>24, <2>1 DEF RunUnwind, Go
<1>25. ASSUME NEW r \in Runs, RunFail(r) PROVE TypeOK'
  BY <1>25 DEF RunFail, SetStatus, Go
<1>26. ASSUME NEW r \in Runs, RunCancelRead(r) PROVE TypeOK'
  <2>1. CASE Go(r, "cancelRead") /\ UNCHANGED <<buf, lapsed>>
    BY <1>26, <2>1 DEF RunCancelRead, Go
  <2>2. CASE Go(r, "closing") /\ buf' = [buf EXCEPT ![r] = @ \cup {"outcome"}] /\ lapsed' \in BOOLEAN
    BY <1>26, <2>2 DEF RunCancelRead, Go
  <2>3. QED
    BY <1>26, <2>1, <2>2 DEF RunCancelRead
<1>27. ASSUME NEW r \in Runs, RunCancelWrite(r) PROVE TypeOK'
  BY <1>27 DEF RunCancelWrite, SetStatus, Go
<1>28. ASSUME NEW r \in Runs, RunClose(r) PROVE TypeOK'
  BY <1>28 DEF RunClose, Go, Stored
<1>29. ASSUME NEW r \in Runs, WorkerCloses(r) PROVE TypeOK'
  BY <1>29 DEF WorkerCloses, RunCancelled, Go, Live
<1>30. ASSUME NEW r \in Runs, WorkerDies(r) PROVE TypeOK'
  BY <1>30 DEF WorkerDies, Go, Live
<1>31. ASSUME ReapFind PROVE TypeOK'
  BY <1>31 DEF ReapFind, SweepGo
<1>32. ASSUME StartupFind PROVE TypeOK'
  BY <1>32 DEF StartupFind, SweepGo
<1>33. ASSUME NEW w \in Sweepers, SweepMark(w) PROVE TypeOK'
  BY <1>33 DEF SweepMark, SweepGo, SetStatus
<1>34. ASSUME NEW w \in Sweepers, SweepLog(w) PROVE TypeOK'
  BY <1>34 DEF SweepLog, SweepGo, Stored
<1>35. ASSUME BackendRestart PROVE TypeOK'
  BY <1>35 DEF BackendRestart, Live
<1>36. CASE UNCHANGED vars
  BY <1>36 DEF vars
<1>37. QED
  BY <1>1, <1>2, <1>3, <1>4, <1>5, <1>6, <1>7, <1>8, <1>9, <1>10, <1>11,
     <1>12, <1>13, <1>14, <1>15, <1>16, <1>17, <1>18, <1>19, <1>20, <1>21,
     <1>22, <1>23, <1>24, <1>25, <1>26, <1>27, <1>28, <1>29, <1>30, <1>31,
     <1>32, <1>33, <1>34, <1>35, <1>36 DEF Next, Submission, Cancelling,
     Resuming, RunStep

-----------------------------------------------------------------------------
\* Every step keeps an owner for a RUNNING job.
LEMMA OwnerStep ==
    ASSUME TypeOK, RunningHasOwner, [Next]_vars
    PROVE  RunningHasOwner'
<1> USE LifecycleAssumption DEF RunningHasOwner, Owned, TypeOK, RunStates, ReqStates, jobVars, runVars, apiVars
<1>1. ASSUME NEW s \in Submitters, SubmitCreate(s) PROVE RunningHasOwner'
  BY <1>1 DEF SubmitCreate, SubGo
<1>2. ASSUME NEW s \in Submitters, SubmitDispatch(s) PROVE RunningHasOwner'
  BY <1>2 DEF SubmitDispatch, SubGo, Dispatched, Go, Unused
<1>3. ASSUME NEW s \in Submitters, SubmitAccess(s) PROVE RunningHasOwner'
  BY <1>3 DEF SubmitAccess, SubGo
<1>4. ASSUME NEW s \in Submitters, SubmitReturn(s) PROVE RunningHasOwner'
  BY <1>4 DEF SubmitReturn, SubGo, Stored
<1>5. ASSUME NEW s \in Submitters, SubmitRollback(s) PROVE RunningHasOwner'
  BY <1>5 DEF SubmitRollback, SubGo
<1>6. ASSUME NEW q \in Requests, CancelRead(q) PROVE RunningHasOwner'
  BY <1>6 DEF CancelRead, ReqGo
<1>7. ASSUME NEW q \in Requests, CancelMark(q) PROVE RunningHasOwner'
  BY <1>7 DEF CancelMark, ReqGo, SetStatus
<1>8. ASSUME NEW q \in Requests, CancelLog(q) PROVE RunningHasOwner'
  BY <1>8 DEF CancelLog, ReqGo, Stored
<1>9. ASSUME NEW q \in Requests, CancelTask(q) PROVE RunningHasOwner'
  BY <1>9 DEF CancelTask, ReqGo, Go, RunCancelled, Live
<1>10. ASSUME NEW q \in Requests, ResumeRead(q) PROVE RunningHasOwner'
  BY <1>10 DEF ResumeRead, ReqGo
<1>11. ASSUME NEW q \in Requests, ResumeMark(q) PROVE RunningHasOwner'
  BY <1>11 DEF ResumeMark, ReqGo, SetStatus
<1>12. ASSUME NEW q \in Requests, RecoverLog(q) PROVE RunningHasOwner'
  BY <1>12 DEF RecoverLog, ReqGo, Stored
<1>13. ASSUME NEW q \in Requests, ResumeLog(q) PROVE RunningHasOwner'
  BY <1>13 DEF ResumeLog, ReqGo, Stored
<1>14. ASSUME NEW q \in Requests, ResumeDispatch(q) PROVE RunningHasOwner'
  BY <1>14 DEF ResumeDispatch, ReqGo, Dispatched, Go, Unused
<1>15. ASSUME NEW r \in Runs, RunStart(r) PROVE RunningHasOwner'
  BY <1>15 DEF RunStart, SetStatus, Go
<1>16. ASSUME NEW r \in Runs, RunBuild(r) PROVE RunningHasOwner'
  BY <1>16 DEF RunBuild, Go
<1>17. ASSUME NEW r \in Runs, RunReport(r) PROVE RunningHasOwner'
  BY <1>17 DEF RunReport, Working
<1>18. ASSUME NEW r \in Runs, RunFlush(r) PROVE RunningHasOwner'
  BY <1>18 DEF RunFlush, Stored, Live
<1>19. ASSUME NEW r \in Runs, MonitorPoll(r) PROVE RunningHasOwner'
  BY <1>19 DEF MonitorPoll, Go
<1>20. ASSUME NEW r \in Runs, RunCancelSeen(r) PROVE RunningHasOwner'
  BY <1>20 DEF RunCancelSeen, Go
<1>21. ASSUME NEW r \in Runs, RunAgentEnds(r) PROVE RunningHasOwner'
  BY <1>21 DEF RunAgentEnds, Go, Working
<1>22. ASSUME NEW r \in Runs, RunAccept(r) PROVE RunningHasOwner'
  BY <1>22 DEF RunAccept, Go, Stored
<1>23. ASSUME NEW r \in Runs, RunPublish(r) PROVE RunningHasOwner'
  BY <1>23 DEF RunPublish, SetStatus, Go
<1>24. ASSUME NEW r \in Runs, RunUnwind(r) PROVE RunningHasOwner'
  BY <1>24 DEF RunUnwind, Go
<1>25. ASSUME NEW r \in Runs, RunFail(r) PROVE RunningHasOwner'
  BY <1>25 DEF RunFail, SetStatus, Go
<1>26. ASSUME NEW r \in Runs, RunCancelRead(r) PROVE RunningHasOwner'
  BY <1>26 DEF RunCancelRead, Go
<1>27. ASSUME NEW r \in Runs, RunCancelWrite(r) PROVE RunningHasOwner'
  BY <1>27 DEF RunCancelWrite, SetStatus, Go
<1>28. ASSUME NEW r \in Runs, RunClose(r) PROVE RunningHasOwner'
  BY <1>28 DEF RunClose, Go, Stored
<1>29. ASSUME NEW r \in Runs, WorkerCloses(r) PROVE RunningHasOwner'
  BY <1>29 DEF WorkerCloses, RunCancelled, Go, Live
<1>30. ASSUME NEW r \in Runs, WorkerDies(r) PROVE RunningHasOwner'
  BY <1>30 DEF WorkerDies, Go, Live
<1>31. ASSUME ReapFind PROVE RunningHasOwner'
  BY <1>31 DEF ReapFind, SweepGo
<1>32. ASSUME StartupFind PROVE RunningHasOwner'
  BY <1>32 DEF StartupFind, SweepGo
<1>33. ASSUME NEW w \in Sweepers, SweepMark(w) PROVE RunningHasOwner'
  BY <1>33 DEF SweepMark, SweepGo, SetStatus
<1>34. ASSUME NEW w \in Sweepers, SweepLog(w) PROVE RunningHasOwner'
  BY <1>34 DEF SweepLog, SweepGo, Stored
<1>35. ASSUME BackendRestart PROVE RunningHasOwner'
  BY <1>35 DEF BackendRestart, Live
<1>36. CASE UNCHANGED vars
  BY <1>36 DEF vars
<1>37. QED
  BY <1>1, <1>2, <1>3, <1>4, <1>5, <1>6, <1>7, <1>8, <1>9, <1>10, <1>11,
     <1>12, <1>13, <1>14, <1>15, <1>16, <1>17, <1>18, <1>19, <1>20, <1>21,
     <1>22, <1>23, <1>24, <1>25, <1>26, <1>27, <1>28, <1>29, <1>30, <1>31,
     <1>32, <1>33, <1>34, <1>35, <1>36 DEF Next, Submission, Cancelling,
     Resuming, RunStep

-----------------------------------------------------------------------------
\* Every step keeps an ownerless job on its way out.
LEMMA OwnerlessStep ==
    ASSUME TypeOK, NoOwnerlessJob, [Next]_vars
    PROVE  NoOwnerlessJob'
<1> USE LifecycleAssumption DEF NoOwnerlessJob, TypeOK, SubStates, jobVars, runVars, apiVars
<1>1. ASSUME NEW s \in Submitters, SubmitCreate(s) PROVE NoOwnerlessJob'
  BY <1>1 DEF SubmitCreate, SubGo
<1>2. ASSUME NEW s \in Submitters, SubmitDispatch(s) PROVE NoOwnerlessJob'
  BY <1>2 DEF SubmitDispatch, SubGo, Dispatched, Go, Unused
<1>3. ASSUME NEW s \in Submitters, SubmitAccess(s) PROVE NoOwnerlessJob'
  BY <1>3 DEF SubmitAccess, SubGo
<1>4. ASSUME NEW s \in Submitters, SubmitReturn(s) PROVE NoOwnerlessJob'
  BY <1>4 DEF SubmitReturn, SubGo, Stored
<1>5. ASSUME NEW s \in Submitters, SubmitRollback(s) PROVE NoOwnerlessJob'
  BY <1>5 DEF SubmitRollback, SubGo
<1>6. ASSUME NEW q \in Requests, CancelRead(q) PROVE NoOwnerlessJob'
  BY <1>6 DEF CancelRead, ReqGo
<1>7. ASSUME NEW q \in Requests, CancelMark(q) PROVE NoOwnerlessJob'
  BY <1>7 DEF CancelMark, ReqGo, SetStatus
<1>8. ASSUME NEW q \in Requests, CancelLog(q) PROVE NoOwnerlessJob'
  BY <1>8 DEF CancelLog, ReqGo, Stored
<1>9. ASSUME NEW q \in Requests, CancelTask(q) PROVE NoOwnerlessJob'
  BY <1>9 DEF CancelTask, ReqGo, Go, RunCancelled, Live
<1>10. ASSUME NEW q \in Requests, ResumeRead(q) PROVE NoOwnerlessJob'
  BY <1>10 DEF ResumeRead, ReqGo
<1>11. ASSUME NEW q \in Requests, ResumeMark(q) PROVE NoOwnerlessJob'
  BY <1>11 DEF ResumeMark, ReqGo, SetStatus
<1>12. ASSUME NEW q \in Requests, RecoverLog(q) PROVE NoOwnerlessJob'
  BY <1>12 DEF RecoverLog, ReqGo, Stored
<1>13. ASSUME NEW q \in Requests, ResumeLog(q) PROVE NoOwnerlessJob'
  BY <1>13 DEF ResumeLog, ReqGo, Stored
<1>14. ASSUME NEW q \in Requests, ResumeDispatch(q) PROVE NoOwnerlessJob'
  BY <1>14 DEF ResumeDispatch, ReqGo, Dispatched, Go, Unused
<1>15. ASSUME NEW r \in Runs, RunStart(r) PROVE NoOwnerlessJob'
  BY <1>15 DEF RunStart, SetStatus, Go
<1>16. ASSUME NEW r \in Runs, RunBuild(r) PROVE NoOwnerlessJob'
  BY <1>16 DEF RunBuild, Go
<1>17. ASSUME NEW r \in Runs, RunReport(r) PROVE NoOwnerlessJob'
  BY <1>17 DEF RunReport, Working
<1>18. ASSUME NEW r \in Runs, RunFlush(r) PROVE NoOwnerlessJob'
  BY <1>18 DEF RunFlush, Stored, Live
<1>19. ASSUME NEW r \in Runs, MonitorPoll(r) PROVE NoOwnerlessJob'
  BY <1>19 DEF MonitorPoll, Go
<1>20. ASSUME NEW r \in Runs, RunCancelSeen(r) PROVE NoOwnerlessJob'
  BY <1>20 DEF RunCancelSeen, Go
<1>21. ASSUME NEW r \in Runs, RunAgentEnds(r) PROVE NoOwnerlessJob'
  BY <1>21 DEF RunAgentEnds, Go, Working
<1>22. ASSUME NEW r \in Runs, RunAccept(r) PROVE NoOwnerlessJob'
  BY <1>22 DEF RunAccept, Go, Stored
<1>23. ASSUME NEW r \in Runs, RunPublish(r) PROVE NoOwnerlessJob'
  BY <1>23 DEF RunPublish, SetStatus, Go
<1>24. ASSUME NEW r \in Runs, RunUnwind(r) PROVE NoOwnerlessJob'
  BY <1>24 DEF RunUnwind, Go
<1>25. ASSUME NEW r \in Runs, RunFail(r) PROVE NoOwnerlessJob'
  BY <1>25 DEF RunFail, SetStatus, Go
<1>26. ASSUME NEW r \in Runs, RunCancelRead(r) PROVE NoOwnerlessJob'
  BY <1>26 DEF RunCancelRead, Go
<1>27. ASSUME NEW r \in Runs, RunCancelWrite(r) PROVE NoOwnerlessJob'
  BY <1>27 DEF RunCancelWrite, SetStatus, Go
<1>28. ASSUME NEW r \in Runs, RunClose(r) PROVE NoOwnerlessJob'
  BY <1>28 DEF RunClose, Go, Stored
<1>29. ASSUME NEW r \in Runs, WorkerCloses(r) PROVE NoOwnerlessJob'
  BY <1>29 DEF WorkerCloses, RunCancelled, Go, Live
<1>30. ASSUME NEW r \in Runs, WorkerDies(r) PROVE NoOwnerlessJob'
  BY <1>30 DEF WorkerDies, Go, Live
<1>31. ASSUME ReapFind PROVE NoOwnerlessJob'
  BY <1>31 DEF ReapFind, SweepGo
<1>32. ASSUME StartupFind PROVE NoOwnerlessJob'
  BY <1>32 DEF StartupFind, SweepGo
<1>33. ASSUME NEW w \in Sweepers, SweepMark(w) PROVE NoOwnerlessJob'
  BY <1>33 DEF SweepMark, SweepGo, SetStatus
<1>34. ASSUME NEW w \in Sweepers, SweepLog(w) PROVE NoOwnerlessJob'
  BY <1>34 DEF SweepLog, SweepGo, Stored
<1>35. ASSUME BackendRestart PROVE NoOwnerlessJob'
  BY <1>35 DEF BackendRestart, Live
<1>36. CASE UNCHANGED vars
  BY <1>36 DEF vars
<1>37. QED
  BY <1>1, <1>2, <1>3, <1>4, <1>5, <1>6, <1>7, <1>8, <1>9, <1>10, <1>11,
     <1>12, <1>13, <1>14, <1>15, <1>16, <1>17, <1>18, <1>19, <1>20, <1>21,
     <1>22, <1>23, <1>24, <1>25, <1>26, <1>27, <1>28, <1>29, <1>30, <1>31,
     <1>32, <1>33, <1>34, <1>35, <1>36 DEF Next, Submission, Cancelling,
     Resuming, RunStep

-----------------------------------------------------------------------------
\* Every step leaves a settled job settled.
LEMMA SettledStep ==
    ASSUME TypeOK, Settled, [Next]_vars
    PROVE  Settled'
<1> USE LifecycleAssumption DEF Settled, TypeOK, RunStates, ReqStates, SubStates, Sweepers, jobVars, runVars, apiVars
<1>1. ASSUME NEW s \in Submitters, SubmitCreate(s) PROVE Settled'
  BY <1>1 DEF SubmitCreate, SubGo
<1>2. ASSUME NEW s \in Submitters, SubmitDispatch(s) PROVE Settled'
  BY <1>2 DEF SubmitDispatch, SubGo, Dispatched, Go, Unused
<1>3. ASSUME NEW s \in Submitters, SubmitAccess(s) PROVE Settled'
  BY <1>3 DEF SubmitAccess, SubGo
<1>4. ASSUME NEW s \in Submitters, SubmitReturn(s) PROVE Settled'
  BY <1>4 DEF SubmitReturn, SubGo, Stored
<1>5. ASSUME NEW s \in Submitters, SubmitRollback(s) PROVE Settled'
  BY <1>5 DEF SubmitRollback, SubGo
<1>6. ASSUME NEW q \in Requests, CancelRead(q) PROVE Settled'
  BY <1>6 DEF CancelRead, ReqGo
<1>7. ASSUME NEW q \in Requests, CancelMark(q) PROVE Settled'
  BY <1>7 DEF CancelMark, ReqGo, SetStatus
<1>8. ASSUME NEW q \in Requests, CancelLog(q) PROVE Settled'
  BY <1>8 DEF CancelLog, ReqGo, Stored
<1>9. ASSUME NEW q \in Requests, CancelTask(q) PROVE Settled'
  BY <1>9 DEF CancelTask, ReqGo, Go, RunCancelled, Live
<1>10. ASSUME NEW q \in Requests, ResumeRead(q) PROVE Settled'
  BY <1>10 DEF ResumeRead, ReqGo
<1>11. ASSUME NEW q \in Requests, ResumeMark(q) PROVE Settled'
  BY <1>11 DEF ResumeMark, ReqGo, SetStatus
<1>12. ASSUME NEW q \in Requests, RecoverLog(q) PROVE Settled'
  BY <1>12 DEF RecoverLog, ReqGo, Stored
<1>13. ASSUME NEW q \in Requests, ResumeLog(q) PROVE Settled'
  BY <1>13 DEF ResumeLog, ReqGo, Stored
<1>14. ASSUME NEW q \in Requests, ResumeDispatch(q) PROVE Settled'
  BY <1>14 DEF ResumeDispatch, ReqGo, Dispatched, Go, Unused
<1>15. ASSUME NEW r \in Runs, RunStart(r) PROVE Settled'
  BY <1>15 DEF RunStart, SetStatus, Go
<1>16. ASSUME NEW r \in Runs, RunBuild(r) PROVE Settled'
  BY <1>16 DEF RunBuild, Go
<1>17. ASSUME NEW r \in Runs, RunReport(r) PROVE Settled'
  BY <1>17 DEF RunReport, Working
<1>18. ASSUME NEW r \in Runs, RunFlush(r) PROVE Settled'
  BY <1>18 DEF RunFlush, Stored, Live
<1>19. ASSUME NEW r \in Runs, MonitorPoll(r) PROVE Settled'
  BY <1>19 DEF MonitorPoll, Go
<1>20. ASSUME NEW r \in Runs, RunCancelSeen(r) PROVE Settled'
  BY <1>20 DEF RunCancelSeen, Go
<1>21. ASSUME NEW r \in Runs, RunAgentEnds(r) PROVE Settled'
  BY <1>21 DEF RunAgentEnds, Go, Working
<1>22. ASSUME NEW r \in Runs, RunAccept(r) PROVE Settled'
  BY <1>22 DEF RunAccept, Go, Stored
<1>23. ASSUME NEW r \in Runs, RunPublish(r) PROVE Settled'
  BY <1>23 DEF RunPublish, SetStatus, Go
<1>24. ASSUME NEW r \in Runs, RunUnwind(r) PROVE Settled'
  BY <1>24 DEF RunUnwind, Go
<1>25. ASSUME NEW r \in Runs, RunFail(r) PROVE Settled'
  BY <1>25 DEF RunFail, SetStatus, Go
<1>26. ASSUME NEW r \in Runs, RunCancelRead(r) PROVE Settled'
  BY <1>26 DEF RunCancelRead, Go
<1>27. ASSUME NEW r \in Runs, RunCancelWrite(r) PROVE Settled'
  BY <1>27 DEF RunCancelWrite, SetStatus, Go
<1>28. ASSUME NEW r \in Runs, RunClose(r) PROVE Settled'
  BY <1>28 DEF RunClose, Go, Stored
<1>29. ASSUME NEW r \in Runs, WorkerCloses(r) PROVE Settled'
  BY <1>29 DEF WorkerCloses, RunCancelled, Go, Live
<1>30. ASSUME NEW r \in Runs, WorkerDies(r) PROVE Settled'
  BY <1>30 DEF WorkerDies, Go, Live
<1>31. ASSUME ReapFind PROVE Settled'
  BY <1>31 DEF ReapFind, SweepGo
<1>32. ASSUME StartupFind PROVE Settled'
  BY <1>32 DEF StartupFind, SweepGo
<1>33. ASSUME NEW w \in Sweepers, SweepMark(w) PROVE Settled'
  BY <1>33 DEF SweepMark, SweepGo, SetStatus
<1>34. ASSUME NEW w \in Sweepers, SweepLog(w) PROVE Settled'
  BY <1>34 DEF SweepLog, SweepGo, Stored
<1>35. ASSUME BackendRestart PROVE Settled'
  BY <1>35 DEF BackendRestart, Live
<1>36. CASE UNCHANGED vars
  BY <1>36 DEF vars
<1>37. QED
  BY <1>1, <1>2, <1>3, <1>4, <1>5, <1>6, <1>7, <1>8, <1>9, <1>10, <1>11,
     <1>12, <1>13, <1>14, <1>15, <1>16, <1>17, <1>18, <1>19, <1>20, <1>21,
     <1>22, <1>23, <1>24, <1>25, <1>26, <1>27, <1>28, <1>29, <1>30, <1>31,
     <1>32, <1>33, <1>34, <1>35, <1>36 DEF Next, Submission, Cancelling,
     Resuming, RunStep

-----------------------------------------------------------------------------
IInv == TypeOK /\ RunningHasOwner /\ NoOwnerlessJob

\* IInv is inductive, whatever overlaps.
THEOREM Invariance == Spec => []IInv
<1>1. Init => IInv
  <2> SUFFICES ASSUME Init PROVE IInv
    OBVIOUS
  <2>1. buf \in [Runs -> SUBSET Kinds]
    BY DEF Init
  <2>2. pc \in [Runs -> RunStates] /\ future \in Runs \cup {None}
    BY DEF Init, RunStates
  <2>3. /\ sub \in [Submitters -> SubStates] /\ req \in [Requests -> ReqStates]
        /\ sweep \in [Sweepers -> {"idle", "boot", "found", "marked"}]
    BY DEF Init, SubStates, ReqStates
  <2>4. row = "none" /\ access \in BOOLEAN /\ events \subseteq Kinds /\ lapsed \in BOOLEAN
    BY DEF Init
  <2>5. TypeOK
    BY <2>1, <2>2, <2>3, <2>4 DEF TypeOK, Status
  <2>6. QED
    BY <2>4, <2>5 DEF IInv, RunningHasOwner, NoOwnerlessJob
<1>2. IInv /\ [Next]_vars => IInv'
  BY TypeStep, OwnerStep, OwnerlessStep DEF IInv
<1>3. QED
  BY <1>1, <1>2, PTL DEF Spec

\* The status is one of the five of job_info, or there is no row; runs,
\* requests and sweepers are where their code can be (TypeOK).
THEOREM TypeCorrect == Spec => []TypeOK
<1>1. IInv => TypeOK
  BY DEF IInv
<1>2. QED
  BY <1>1, Invariance, PTL

\* A job that says RUNNING has a run or a resume that will move it on, unless
\* a process died or a task was torn down (RunningHasOwner).
THEOREM RunningJobsHaveOwners == Spec => []RunningHasOwner
<1>1. IInv => RunningHasOwner
  BY DEF IInv
<1>2. QED
  BY Invariance, <1>1, PTL

\* No submission leaves a job without an owner row once its ID was returned
\* (NoOwnerlessJob).
THEOREM ReturnedJobsAreOwned == Spec => []NoOwnerlessJob
<1>1. IInv => NoOwnerlessJob
  BY DEF IInv
<1>2. QED
  BY Invariance, <1>1, PTL

\* A finished job that nobody acts on any more stays SUCCESS
\* (SettledSuccessStays).
THEOREM SettledStays == Spec => SettledSuccessStays
<1>1. IInv /\ [Next]_vars => [Settled => Settled']_vars
  BY SettledStep DEF IInv
<1>2. QED
  BY Invariance, <1>1, PTL DEF Spec, SettledSuccessStays
-----------------------------------------------------------------------------
(* How often the status can change *)

\* How far a run, a submission and a request have come.
RunRank(st) ==
    CASE st = "unused" -> 0 [] st = "queued" -> 1 [] st = "building" -> 2 [] st = "running" -> 3
      [] st = "flagged" -> 4 [] st = "returned" -> 5 [] st = "accepted" -> 6
      [] st = "published" -> 7 [] st = "failing" -> 8 [] st = "cancelling" -> 9
      [] st = "cancelRead" -> 10 [] st = "closing" -> 11 [] OTHER -> 12
SubRank(st) ==
    CASE st = "new" -> 0 [] st = "created" -> 1 [] st = "dispatched" -> 2 [] st = "owned" -> 3
      [] st = "failing" -> 4 [] OTHER -> 5
ReqRank(st) ==
    CASE st = "new" -> 0 [] st \in {"cancelRead", "resumeRead"} -> 1
      [] st \in {"cancelMarked", "resumeMarked", "recoverMarked"} -> 2
      [] st \in {"cancelLogged", "resumeLogged"} -> 3 [] OTHER -> 4

NobodyFallsBack ==
    /\ \A r \in Runs : RunRank(pc[r]) <= RunRank(pc'[r])
    /\ \A s \in Submitters : SubRank(sub[s]) <= SubRank(sub'[s])
    /\ \A q \in Requests : ReqRank(req[q]) <= ReqRank(req'[q])

SomebodyMovesOn ==
    \/ \E r \in Runs : RunRank(pc[r]) < RunRank(pc'[r])
    \/ \E s \in Submitters : SubRank(sub[s]) < SubRank(sub'[s])
    \/ \E q \in Requests : ReqRank(req[q]) < ReqRank(req'[q])

StatusIsPaidFor == NobodyFallsBack /\ (row' # row => SomebodyMovesOn \/ row' = "INTERRUPTED")

\* A step of one actor moves that actor on and leaves the others where they are;
\* only the sweepers change a status and stay, and they only interrupt.
LEMMA PaidStep ==
    ASSUME TypeOK, [Next]_vars
    PROVE  StatusIsPaidFor
<1> USE DEF TypeOK, RunStates, SubStates, ReqStates, jobVars, runVars, apiVars,
            RunRank, SubRank, ReqRank, NobodyFallsBack, SomebodyMovesOn, StatusIsPaidFor
<1>1. ASSUME NEW s \in Submitters, SubmitCreate(s) PROVE StatusIsPaidFor
  BY <1>1 DEF SubmitCreate, SubGo
<1>2. ASSUME NEW s \in Submitters, SubmitDispatch(s) PROVE StatusIsPaidFor
  BY <1>2 DEF SubmitDispatch, SubGo, Dispatched, Go, Unused
<1>3. ASSUME NEW s \in Submitters, SubmitAccess(s) PROVE StatusIsPaidFor
  BY <1>3 DEF SubmitAccess, SubGo
<1>4. ASSUME NEW s \in Submitters, SubmitReturn(s) PROVE StatusIsPaidFor
  BY <1>4 DEF SubmitReturn, SubGo
<1>5. ASSUME NEW s \in Submitters, SubmitRollback(s) PROVE StatusIsPaidFor
  BY <1>5 DEF SubmitRollback, SubGo
<1>6. ASSUME NEW q \in Requests, CancelRead(q) PROVE StatusIsPaidFor
  BY <1>6 DEF CancelRead, ReqGo
<1>7. ASSUME NEW q \in Requests, CancelMark(q) PROVE StatusIsPaidFor
  BY <1>7 DEF CancelMark, ReqGo, SetStatus
<1>8. ASSUME NEW q \in Requests, CancelLog(q) PROVE StatusIsPaidFor
  BY <1>8 DEF CancelLog, ReqGo
<1>9. ASSUME NEW q \in Requests, CancelTask(q) PROVE StatusIsPaidFor
  BY <1>9 DEF CancelTask, ReqGo, Go, RunCancelled, Live
<1>10. ASSUME NEW q \in Requests, ResumeRead(q) PROVE StatusIsPaidFor
  BY <1>10 DEF ResumeRead, ReqGo
<1>11. ASSUME NEW q \in Requests, ResumeMark(q) PROVE StatusIsPaidFor
  BY <1>11 DEF ResumeMark, ReqGo, SetStatus
<1>12. ASSUME NEW q \in Requests, RecoverLog(q) PROVE StatusIsPaidFor
  BY <1>12 DEF RecoverLog, ReqGo
<1>13. ASSUME NEW q \in Requests, ResumeLog(q) PROVE StatusIsPaidFor
  BY <1>13 DEF ResumeLog, ReqGo
<1>14. ASSUME NEW q \in Requests, ResumeDispatch(q) PROVE StatusIsPaidFor
  BY <1>14 DEF ResumeDispatch, ReqGo, Dispatched, Go, Unused
<1>15. ASSUME NEW r \in Runs, RunStart(r) PROVE StatusIsPaidFor
  BY <1>15 DEF RunStart, SetStatus, Go
<1>16. ASSUME NEW r \in Runs, RunBuild(r) PROVE StatusIsPaidFor
  BY <1>16 DEF RunBuild, Go
<1>17. ASSUME NEW r \in Runs, RunReport(r) PROVE StatusIsPaidFor
  BY <1>17 DEF RunReport
<1>18. ASSUME NEW r \in Runs, RunFlush(r) PROVE StatusIsPaidFor
  BY <1>18 DEF RunFlush
<1>19. ASSUME NEW r \in Runs, MonitorPoll(r) PROVE StatusIsPaidFor
  BY <1>19 DEF MonitorPoll, Go
<1>20. ASSUME NEW r \in Runs, RunCancelSeen(r) PROVE StatusIsPaidFor
  BY <1>20 DEF RunCancelSeen, Go
<1>21. ASSUME NEW r \in Runs, RunAgentEnds(r) PROVE StatusIsPaidFor
  BY <1>21 DEF RunAgentEnds, Go, Working
<1>22. ASSUME NEW r \in Runs, RunAccept(r) PROVE StatusIsPaidFor
  BY <1>22 DEF RunAccept, Go
<1>23. ASSUME NEW r \in Runs, RunPublish(r) PROVE StatusIsPaidFor
  BY <1>23 DEF RunPublish, SetStatus, Go
<1>24. ASSUME NEW r \in Runs, RunUnwind(r) PROVE StatusIsPaidFor
  BY <1>24 DEF RunUnwind, Go
<1>25. ASSUME NEW r \in Runs, RunFail(r) PROVE StatusIsPaidFor
  BY <1>25 DEF RunFail, SetStatus, Go
<1>26. ASSUME NEW r \in Runs, RunCancelRead(r) PROVE StatusIsPaidFor
  BY <1>26 DEF RunCancelRead, Go
<1>27. ASSUME NEW r \in Runs, RunCancelWrite(r) PROVE StatusIsPaidFor
  BY <1>27 DEF RunCancelWrite, SetStatus, Go
<1>28. ASSUME NEW r \in Runs, RunClose(r) PROVE StatusIsPaidFor
  BY <1>28 DEF RunClose, Go
<1>29. ASSUME NEW r \in Runs, WorkerCloses(r) PROVE StatusIsPaidFor
  BY <1>29 DEF WorkerCloses, RunCancelled, Go, Live
<1>30. ASSUME NEW r \in Runs, WorkerDies(r) PROVE StatusIsPaidFor
  BY <1>30 DEF WorkerDies, Go, Live
<1>31. ASSUME ReapFind PROVE StatusIsPaidFor
  BY <1>31 DEF ReapFind
<1>32. ASSUME StartupFind PROVE StatusIsPaidFor
  BY <1>32 DEF StartupFind
<1>33. ASSUME NEW w \in Sweepers, SweepMark(w) \/ SweepLog(w) PROVE StatusIsPaidFor
  BY <1>33 DEF SweepMark, SweepLog, SetStatus
<1>34. ASSUME BackendRestart PROVE StatusIsPaidFor
  BY <1>34 DEF BackendRestart, Live
<1>35. CASE UNCHANGED vars
  BY <1>35 DEF vars
<1> QED
  BY <1>1, <1>2, <1>3, <1>4, <1>5, <1>6, <1>7, <1>8, <1>9, <1>10, <1>11,
     <1>12, <1>13, <1>14, <1>15, <1>16, <1>17, <1>18, <1>19, <1>20, <1>21,
     <1>22, <1>23, <1>24, <1>25, <1>26, <1>27, <1>28, <1>29, <1>30, <1>31,
     <1>32, <1>33, <1>34, <1>35
     DEF Next, Submission, Cancelling, Resuming, RunStep

\* Runs, submissions and requests only go forward, and the status changes only
\* when one of them does, or when the reaper or the start-up interrupts the job:
\* after as many changes as there are places ahead of them, an INTERRUPTED in
\* between each, nothing writes it any more.  Cancel, resume, workers and sweepers
\* cannot overwrite each other's status for ever.
THEOREM StatusChangesRunOut == Spec => [][StatusIsPaidFor]_vars
<1>1. IInv /\ [Next]_vars => [StatusIsPaidFor]_vars
  BY PaidStep DEF IInv
<1> QED
  BY Invariance, <1>1, PTL DEF Spec
=============================================================================
