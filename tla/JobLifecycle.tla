---------------------------- MODULE JobLifecycle ----------------------------
(***************************************************************************)
(* One research job of the async job service: its rows in the database,    *)
(* the worker runs that execute it, and everybody who writes its status.   *)
(*                                                                         *)
(*   jobs/submit.py     submit_agent_job, resume_agent_job                 *)
(*   jobs/access.py     ownership row and rollback of a failed submission  *)
(*   jobs/runner.py     run_agent_job, CancellationMonitor                 *)
(*   routes/jobs.py     cancel_job, resume_job, the ghost reaper, the      *)
(*                      start-up recovery, _cancel_dask_task               *)
(*                                                                         *)
(* Nobody holds a lock on the job.  A handler reads the status, decides,   *)
(* and writes later; update_status() writes blindly, and raises when the   *)
(* job has no row.  Each database call is therefore a step of its own.     *)
(***************************************************************************)
EXTENDS Naturals, FiniteSets

CONSTANTS
    Runs,           \* executions of run_agent_job for this job
    Submitters,     \* POST /submit requests that name this job ID
    Requests,       \* POST /cancel and POST /resume requests
    None,           \* no run: the Dask Variable of the job is unset
    RequireAuth,    \* REQUIRE_AUTH: a request needs the owner row
    LocalWorkers,   \* the workers run, and die, with the backend process
    StoreMayFail    \* an INSERT into job_events may fail (logged, ignored)

ASSUME LifecycleAssumption ==
    /\ None \notin Runs
    /\ RequireAuth \in BOOLEAN
    /\ LocalWorkers \in BOOLEAN
    /\ StoreMayFail \in BOOLEAN

VARIABLES
    row,       \* status in job_info, or "none"
    access,    \* the job has an owner row in job_access
    events,    \* the kinds of events in job_events for the job
    pc,        \* of each run: where run_agent_job stands
    buf,       \* of each run: the kinds of events in its batch buffer
    future,    \* the run the Dask Variable of the job names
    sub,       \* of each submitter: where submit_agent_job stands
    req,       \* of each request: where its handler stands
    sweep,     \* where the reaper and the start-up recovery stand
    lapsed     \* history: something ended without leaving a status behind

jobVars == <<row, access>>
runVars == <<pc, buf, future>>
apiVars == <<sub, req, sweep>>
vars == <<jobVars, events, runVars, apiVars, lapsed>>

Status == {"SUBMITTED", "RUNNING", "SUCCESS", "FAILURE", "INTERRUPTED"}

\* Event kinds, as far as anybody tells them apart: job.submitted; the
\* artifacts from which _recover_report_from_events gets a usable report; what
\* a run says at its end (quality artifacts, job.cancelled, job.error,
\* job.recovered); what the service says about the job
\* (job.cancellation_requested, job.resumed, job.interrupted, job.recovered).
Kinds == {"submitted", "report", "outcome", "notice"}
RunStates == {"unused", "queued", "building", "running", "flagged", "returned", "accepted",
              "published", "failing", "cancelling", "cancelRead", "closing", "done", "dead"}
SubStates == {"new", "created", "dispatched", "owned", "returned", "failing", "failed", "lost"}
ReqStates == {"new", "cancelRead", "cancelMarked", "cancelLogged",
              "resumeRead", "recoverMarked", "resumeMarked", "resumeLogged", "done"}
Sweepers == {"reaper", "startup"}

\* Runs inside run_agent_job: a CancelledError may reach them.
Live == {r \in Runs : pc[r] \in {"building", "running", "flagged", "returned", "accepted", "published",
                                 "failing", "cancelling", "cancelRead", "closing"}}
\* The agent runs; a flagged one until its CancelledError.
Working == {r \in Runs : pc[r] \in {"running", "flagged"}}
Unused == {r \in Runs : pc[r] = "unused"}

\* authorize_job_access finds the job and, when it is required, its owner.
Authorized == row # "none" /\ (RequireAuth => access)

\* The backend takes requests once its start-up recovery is over.
Serving == sweep["startup"] = "idle"

Init ==
    /\ row = "none" /\ access = FALSE
    /\ events = {}
    /\ pc = [r \in Runs |-> "unused"]
    /\ buf = [r \in Runs |-> {}]
    /\ future = None
    /\ sub = [s \in Submitters |-> "new"]
    /\ req = [q \in Requests |-> "new"]
    /\ sweep = [w \in Sweepers |-> "idle"]
    /\ lapsed = FALSE

-----------------------------------------------------------------------------
(* Database calls *)

\* job_store.update_status(): a blind write of an existing row.
SetStatus(st) == row # "none" /\ row' = st /\ UNCHANGED access

\* EventStore.store() or store_batch() of the kinds in ks: inserted, or
\* dropped with a warning.
Stored(ks) ==
    \/ events' = events \cup ks
    \/ StoreMayFail /\ UNCHANGED events

\* Where a run, a submission, a request or a sweeper goes next.
Go(r, st) == pc' = [pc EXCEPT ![r] = st]
SubGo(s, st) == sub' = [sub EXCEPT ![s] = st]
ReqGo(q, st) == req' = [req EXCEPT ![q] = st]
SweepGo(w, st) == sweep' = [sweep EXCEPT ![w] = st]

\* A run is handed to Dask and the job's Variable names it.
Dispatched(r) == Go(r, "queued") /\ future' = r /\ UNCHANGED buf

-----------------------------------------------------------------------------
(* submit_agent_job *)

\* NAT's submit_job inserts the row first; the job ID is its primary key.
SubmitCreate(s) ==
    /\ Serving /\ sub[s] = "new"
    /\ \/ /\ row = "none"
          /\ row' = "SUBMITTED" /\ UNCHANGED access
          /\ SubGo(s, "created")
       \/ /\ row # "none"
          /\ SubGo(s, "failing") /\ UNCHANGED jobVars
    /\ UNCHANGED <<events, runVars, req, sweep, lapsed>>

\* ... then hands the job to Dask; the scheduler may be unreachable.
SubmitDispatch(s) ==
    /\ sub[s] = "created"
    /\ \/ /\ \E r \in Unused : Dispatched(r)
          /\ SubGo(s, "dispatched")
       \/ /\ SubGo(s, "failing") /\ UNCHANGED runVars
    /\ UNCHANGED <<jobVars, events, req, sweep, lapsed>>

\* Mutant: a failure to write the owner row is ignored.
SubmitAccessIgnored(s) ==
    /\ sub[s] = "dispatched"
    /\ \/ access' = TRUE /\ UNCHANGED row
       \/ UNCHANGED jobVars
    /\ SubGo(s, "owned")
    /\ UNCHANGED <<events, runVars, req, sweep, lapsed>>

\* create_job_access: the owner row.
SubmitAccess(s) ==
    /\ sub[s] = "dispatched"
    /\ \/ /\ access' = TRUE /\ UNCHANGED row
          /\ SubGo(s, "owned")
       \/ /\ SubGo(s, "failing") /\ UNCHANGED jobVars
    /\ UNCHANGED <<events, runVars, req, sweep, lapsed>>

\* The job.submitted event with the metadata that resume needs; the ID is
\* returned.
SubmitReturn(s) ==
    /\ sub[s] = "owned"
    /\ Stored({"submitted"})
    /\ SubGo(s, "returned")
    /\ UNCHANGED <<jobVars, runVars, req, sweep, lapsed>>

\* rollback_job_submission: delete the owner row, the events and the job row
\* in one transaction; its failure is logged.  The worker is not stopped.
SubmitRollback(s) ==
    /\ sub[s] = "failing"
    /\ SubGo(s, "failed")
    /\ \/ row' = "none" /\ access' = FALSE /\ events' = {}
       \/ UNCHANGED <<jobVars, events>>
    /\ UNCHANGED <<runVars, req, sweep, lapsed>>

-----------------------------------------------------------------------------
(* run_agent_job *)

\* The worker picks the job up and sets RUNNING, whatever the status was.
\* update_status raises without a row, and when the database does not answer.
RunStart(r) ==
    /\ pc[r] = "queued"
    /\ \/ SetStatus("RUNNING") /\ Go(r, "building")
       \/ Go(r, "failing") /\ UNCHANGED jobVars
    /\ UNCHANGED <<events, buf, future, apiVars, lapsed>>

\* Configuration, agent class, workflow and tools are loaded.
RunBuild(r) ==
    /\ pc[r] = "building"
    /\ Go(r, "running") \/ Go(r, "failing")
    /\ UNCHANGED <<jobVars, events, buf, future, apiVars, lapsed>>

\* The agent emits a report artifact.
RunReport(r) ==
    /\ r \in Working
    /\ buf' = [buf EXCEPT ![r] = @ \cup {"report"}]
    /\ UNCHANGED <<jobVars, events, pc, future, apiVars, lapsed>>

\* The batch timer of the run's buffer.
RunFlush(r) ==
    /\ r \in Live /\ buf[r] # {}
    /\ Stored(buf[r])
    /\ buf' = [buf EXCEPT ![r] = {}]
    /\ UNCHANGED <<jobVars, pc, future, apiVars, lapsed>>

\* Mutant: the monitor looks for another status.
MonitorPollFailure(r) ==
    /\ pc[r] = "running"
    /\ row = "FAILURE"
    /\ Go(r, "flagged")
    /\ UNCHANGED <<jobVars, events, buf, future, apiVars, lapsed>>

\* CancellationMonitor._poll_job_status sees INTERRUPTED and sets the flag.
MonitorPoll(r) ==
    /\ pc[r] = "running"
    /\ row = "INTERRUPTED"
    /\ Go(r, "flagged")
    /\ UNCHANGED <<jobVars, events, buf, future, apiVars, lapsed>>

\* run_with_cancellation sees the flag, stops the agent and raises.
RunCancelSeen(r) ==
    /\ pc[r] = "flagged"
    /\ Go(r, "cancelling")
    /\ UNCHANGED <<jobVars, events, buf, future, apiVars, lapsed>>

\* The agent ends, with a result or an exception, before the flag is looked at.
RunAgentEnds(r) ==
    /\ r \in Working
    /\ Go(r, "returned") \/ Go(r, "failing")
    /\ UNCHANGED <<jobVars, events, buf, future, apiVars, lapsed>>

\* Flush; choose the report; reject an empty, failed or drifted one; then
\* buffer the quality artifacts of a deep research.
RunAccept(r) ==
    /\ pc[r] = "returned"
    /\ Stored(buf[r])
    /\ \/ /\ Go(r, "accepted")
          /\ \E quality \in SUBSET {"outcome"} : buf' = [buf EXCEPT ![r] = quality]
       \/ Go(r, "failing") /\ buf' = [buf EXCEPT ![r] = {}]
    /\ UNCHANGED <<jobVars, future, apiVars, lapsed>>

\* SUCCESS is written, or update_status raises.
RunPublish(r) ==
    /\ pc[r] = "accepted"
    /\ \/ SetStatus("SUCCESS") /\ Go(r, "published")
       \/ Go(r, "failing") /\ UNCHANGED jobVars
    /\ UNCHANGED <<events, buf, future, apiVars, lapsed>>

\* Webhook, which reports its delivery, exporters and the clean-up of the
\* workflow; the latter may raise.
RunUnwind(r) ==
    /\ pc[r] = "published"
    /\ Go(r, "closing") \/ Go(r, "failing")
    /\ \E hook \in SUBSET {"outcome"} : buf' = [buf EXCEPT ![r] = @ \cup hook]
    /\ UNCHANGED <<jobVars, events, future, apiVars, lapsed>>

\* except Exception: a report among the stored artifacts turns the failure
\* into SUCCESS.  update_status may raise out of the handler: then the status
\* stays what it was, and nobody is left to write another.
RunFail(r) ==
    /\ pc[r] = "failing"
    /\ Go(r, "closing")
    /\ \/ /\ SetStatus(IF "report" \in events THEN "SUCCESS" ELSE "FAILURE")
          /\ buf' = [buf EXCEPT ![r] = @ \cup {"outcome"}]
          /\ UNCHANGED lapsed
       \/ /\ lapsed' = (lapsed \/ row # "none")
          /\ UNCHANGED <<jobVars, buf>>
    /\ UNCHANGED <<events, future, apiVars>>

\* Mutant: every CancelledError is taken for a requested cancellation.
RunCancelReadAny(r) ==
    /\ pc[r] = "cancelling"
    /\ Go(r, "closing")
    /\ buf' = [buf EXCEPT ![r] = @ \cup {"outcome"}]
    /\ UNCHANGED <<jobVars, events, future, apiVars, lapsed>>

\* except CancelledError, the read: INTERRUPTED means a requested
\* cancellation; a connection error is ignored and the status left alone.
RunCancelRead(r) ==
    /\ pc[r] = "cancelling"
    /\ \/ /\ row = "INTERRUPTED"
          /\ Go(r, "closing")
          /\ buf' = [buf EXCEPT ![r] = @ \cup {"outcome"}]
          /\ UNCHANGED lapsed
       \/ /\ row # "INTERRUPTED"
          /\ Go(r, "cancelRead")
          /\ UNCHANGED <<buf, lapsed>>
       \/ /\ Go(r, "closing")
          /\ buf' = [buf EXCEPT ![r] = @ \cup {"outcome"}]
          /\ lapsed' = TRUE
    /\ UNCHANGED <<jobVars, events, future, apiVars>>

\* ... and the write, if the status was anything else.
RunCancelWrite(r) ==
    /\ pc[r] = "cancelRead"
    /\ Go(r, "closing")
    /\ \/ /\ SetStatus("FAILURE")
          /\ buf' = [buf EXCEPT ![r] = @ \cup {"outcome"}]
       \/ row = "none" /\ UNCHANGED <<jobVars, buf>>
    /\ UNCHANGED <<events, future, apiVars, lapsed>>

\* The terminal event, after the webhook, is flushed and the run is over.
RunClose(r) ==
    /\ pc[r] = "closing"
    /\ Stored(buf[r])
    /\ buf' = [buf EXCEPT ![r] = {}]
    /\ Go(r, "done")
    /\ UNCHANGED <<jobVars, future, apiVars, lapsed>>

\* Dask closes the worker or drops its task: a CancelledError reaches the run.
\* Inside an exception handler it ends the handler, with whatever it had not
\* written yet; `finally` still flushes.
RunCancelled(r) ==
    /\ IF pc[r] \in {"failing", "cancelling", "cancelRead"}
       THEN Go(r, "closing") /\ lapsed' = TRUE
       ELSE Go(r, "cancelling") /\ UNCHANGED lapsed
    /\ UNCHANGED buf

WorkerCloses(r) ==
    /\ r \in Live /\ pc[r] # "closing"
    /\ RunCancelled(r)
    /\ UNCHANGED <<jobVars, events, future, apiVars>>

\* The worker process dies with everything it had buffered.
WorkerDies(r) ==
    /\ r \in Live
    /\ Go(r, "dead")
    /\ buf' = [buf EXCEPT ![r] = {}]
    /\ lapsed' = TRUE
    /\ UNCHANGED <<jobVars, events, future, apiVars>>

-----------------------------------------------------------------------------
(* POST /cancel and POST /resume *)

\* The status check of cancel_job.
CancelRead(q) ==
    /\ Serving /\ req[q] = "new"
    /\ Authorized
    /\ IF row = "RUNNING" THEN ReqGo(q, "cancelRead") ELSE ReqGo(q, "done")
    /\ UNCHANGED <<jobVars, events, runVars, sub, sweep, lapsed>>

CancelMark(q) ==
    /\ req[q] = "cancelRead"
    /\ \/ SetStatus("INTERRUPTED") /\ ReqGo(q, "cancelMarked")
       \/ row = "none" /\ ReqGo(q, "done") /\ UNCHANGED jobVars
    /\ UNCHANGED <<events, runVars, sub, sweep, lapsed>>

CancelLog(q) ==
    /\ req[q] = "cancelMarked"
    /\ Stored({"notice"})
    /\ ReqGo(q, "cancelLogged")
    /\ UNCHANGED <<jobVars, runVars, sub, sweep, lapsed>>

\* _cancel_dask_task: a queued run is dropped; a live one gets a
\* CancelledError at its next await, or is left alone; the Variable is
\* deleted.  A finished run is not affected.
CancelTask(q) ==
    /\ req[q] = "cancelLogged"
    /\ ReqGo(q, "done")
    /\ future' = None
    /\ \/ /\ future # None /\ pc[future] = "queued"
          /\ Go(future, "done")
          /\ lapsed' = TRUE
          /\ UNCHANGED buf
       \/ /\ future # None /\ future \in Live /\ pc[future] # "closing"
          /\ RunCancelled(future)
       \/ UNCHANGED <<pc, buf, lapsed>>
    /\ UNCHANGED <<jobVars, events, sub, sweep>>

\* resume_job: only a FAILURE or INTERRUPTED job goes on; a report among the
\* artifacts recovers it; without submission metadata it cannot be resumed.
ResumeRead(q) ==
    /\ Serving /\ req[q] = "new"
    /\ Authorized
    /\ IF row \in {"FAILURE", "INTERRUPTED"} THEN ReqGo(q, "resumeRead") ELSE ReqGo(q, "done")
    /\ UNCHANGED <<jobVars, events, runVars, sub, sweep, lapsed>>

ResumeMark(q) ==
    /\ req[q] = "resumeRead"
    /\ \/ "report" \in events /\ SetStatus("SUCCESS") /\ ReqGo(q, "recoverMarked")
       \/ /\ "report" \notin events /\ "submitted" \in events
          /\ SetStatus("RUNNING") /\ ReqGo(q, "resumeMarked")
       \/ /\ "report" \notin events /\ "submitted" \notin events
          /\ ReqGo(q, "done") /\ UNCHANGED jobVars
       \/ row = "none" /\ ReqGo(q, "done") /\ UNCHANGED jobVars
    /\ UNCHANGED <<events, runVars, sub, sweep, lapsed>>

RecoverLog(q) ==
    /\ req[q] = "recoverMarked"
    /\ Stored({"notice"})
    /\ ReqGo(q, "done")
    /\ UNCHANGED <<jobVars, runVars, sub, sweep, lapsed>>

ResumeLog(q) ==
    /\ req[q] = "resumeMarked"
    /\ Stored({"notice"})
    /\ ReqGo(q, "resumeLogged")
    /\ UNCHANGED <<jobVars, runVars, sub, sweep, lapsed>>

\* The resumed run is handed to Dask; the scheduler may be unreachable.
ResumeDispatch(q) ==
    /\ req[q] = "resumeLogged"
    /\ ReqGo(q, "done")
    /\ \/ (\E r \in Unused : Dispatched(r)) /\ UNCHANGED lapsed
       \/ lapsed' = TRUE /\ UNCHANGED runVars
    /\ UNCHANGED <<jobVars, events, sub, sweep>>

-----------------------------------------------------------------------------
(* The ghost reaper and the start-up recovery *)

\* Mutant: the reaper looks for jobs that wait, not for jobs that run.
ReapFindSubmitted ==
    /\ Serving /\ sweep["reaper"] = "idle"
    /\ row = "SUBMITTED" /\ events # {}
    /\ StoreMayFail \/ Working = {}
    /\ SweepGo("reaper", "found")
    /\ UNCHANGED <<jobVars, events, runVars, sub, req, lapsed>>

\* _find_stale_jobs: RUNNING, with events, the newest older than
\* GHOST_JOB_TIMEOUT_SECONDS.  That time may pass between any two steps, but
\* not while an agent is at work and its heartbeats reach the table.
ReapFind ==
    /\ Serving /\ sweep["reaper"] = "idle"
    /\ row = "RUNNING" /\ events # {}
    /\ StoreMayFail \/ Working = {}
    /\ SweepGo("reaper", "found")
    /\ UNCHANGED <<jobVars, events, runVars, sub, req, lapsed>>

\* Mutant: the status filter is missing.
StartupFindAll ==
    /\ sweep["startup"] = "boot"
    /\ IF row # "none" THEN SweepGo("startup", "found") ELSE SweepGo("startup", "idle")
    /\ UNCHANGED <<jobVars, events, runVars, sub, req, lapsed>>

\* _find_jobs_by_status at start-up; nothing found opens the service.
StartupFind ==
    /\ sweep["startup"] = "boot"
    /\ IF row \in {"SUBMITTED", "RUNNING"} THEN SweepGo("startup", "found")
                                           ELSE SweepGo("startup", "idle")
    /\ UNCHANGED <<jobVars, events, runVars, sub, req, lapsed>>

\* Mutant: a status that job_info does not know.
SweepMarkGhost(w) ==
    /\ sweep[w] = "found"
    /\ \/ SetStatus("GHOST") /\ SweepGo(w, "marked")
       \/ row = "none" /\ SweepGo(w, "idle") /\ UNCHANGED jobVars
    /\ UNCHANGED <<events, runVars, sub, req, lapsed>>

\* Both then interrupt what they found; without a row that raises and is logged.
SweepMark(w) ==
    /\ sweep[w] = "found"
    /\ \/ SetStatus("INTERRUPTED") /\ SweepGo(w, "marked")
       \/ row = "none" /\ SweepGo(w, "idle") /\ UNCHANGED jobVars
    /\ UNCHANGED <<events, runVars, sub, req, lapsed>>

SweepLog(w) ==
    /\ sweep[w] = "marked"
    /\ Stored({"notice"})
    /\ SweepGo(w, "idle")
    /\ UNCHANGED <<jobVars, runVars, sub, req, lapsed>>

\* The backend process dies and starts again: the requests it was serving
\* are gone; its local workers, and the queue of its scheduler, too.
BackendRestart ==
    /\ Serving
    /\ sweep' = [w \in Sweepers |-> IF w = "startup" THEN "boot" ELSE "idle"]
    /\ sub' = [s \in Submitters |->
                  IF sub[s] \in {"created", "dispatched", "owned", "failing"} THEN "lost" ELSE sub[s]]
    /\ req' = [q \in Requests |-> IF req[q] = "new" THEN "new" ELSE "done"]
    /\ lapsed' = TRUE
    /\ IF LocalWorkers
       THEN /\ pc' = [r \in Runs |-> IF r \in Live \/ pc[r] = "queued" THEN "dead" ELSE pc[r]]
            /\ buf' = [r \in Runs |-> {}]
            /\ future' = None
       ELSE UNCHANGED runVars
    /\ UNCHANGED <<jobVars, events>>

-----------------------------------------------------------------------------
Submission(s) ==
    \/ SubmitCreate(s) \/ SubmitDispatch(s) \/ SubmitAccess(s)
    \/ SubmitReturn(s) \/ SubmitRollback(s)

Cancelling(q) == CancelRead(q) \/ CancelMark(q) \/ CancelLog(q) \/ CancelTask(q)

Resuming(q) ==
    \/ ResumeRead(q) \/ ResumeMark(q) \/ RecoverLog(q)
    \/ ResumeLog(q) \/ ResumeDispatch(q)

\* The steps a run takes unless its process dies.
RunStep(r) ==
    \/ RunStart(r) \/ RunBuild(r) \/ RunReport(r) \/ RunFlush(r)
    \/ MonitorPoll(r) \/ RunCancelSeen(r) \/ RunAgentEnds(r)
    \/ RunAccept(r) \/ RunPublish(r) \/ RunUnwind(r) \/ RunFail(r)
    \/ RunCancelRead(r) \/ RunCancelWrite(r) \/ RunClose(r)

Next ==
    \/ \E s \in Submitters : Submission(s)
    \/ \E q \in Requests : Cancelling(q) \/ Resuming(q)
    \/ \E r \in Runs : RunStep(r) \/ WorkerCloses(r) \/ WorkerDies(r)
    \/ ReapFind \/ StartupFind
    \/ \E w \in Sweepers : SweepMark(w) \/ SweepLog(w)
    \/ BackendRestart

Spec == Init /\ [][Next]_vars

\* The event loops of the worker and of the backend keep running their
\* coroutines and time passes.  The agent need not end, nobody need send a
\* request, no process need die, and a queued run need not start.
FairSpec ==
    /\ Spec
    /\ \A r \in Runs :
          /\ WF_vars(MonitorPoll(r)) /\ WF_vars(RunCancelSeen(r))
          /\ WF_vars(RunFail(r)) /\ WF_vars(RunCancelRead(r)) /\ WF_vars(RunCancelWrite(r))
          /\ WF_vars(RunPublish(r)) /\ WF_vars(RunClose(r))
    /\ \A s \in Submitters : WF_vars(Submission(s) /\ sub[s] # "new")
    /\ \A q \in Requests : WF_vars((Cancelling(q) \/ Resuming(q)) /\ req[q] # "new")
    /\ WF_vars(ReapFind) /\ WF_vars(StartupFind)
    /\ \A w \in Sweepers : WF_vars(SweepMark(w)) /\ WF_vars(SweepLog(w))

-----------------------------------------------------------------------------
TypeOK ==
    /\ row \in Status \cup {"none"} /\ access \in BOOLEAN
    /\ events \subseteq Kinds
    /\ pc \in [Runs -> RunStates]
    /\ buf \in [Runs -> SUBSET Kinds]
    /\ future \in Runs \cup {None}
    /\ sub \in [Submitters -> SubStates]
    /\ req \in [Requests -> ReqStates]
    /\ sweep \in [Sweepers -> {"idle", "boot", "found", "marked"}]
    /\ lapsed \in BOOLEAN

\* Somebody who will give a RUNNING job another status, or a worker: a run
\* that has yet to write its outcome, or a resume about to dispatch one.
Owned ==
    \/ \E r \in Runs : pc[r] \in {"queued", "building", "running", "flagged", "returned", "accepted",
                                 "failing", "cancelling", "cancelRead"}
    \/ \E q \in Requests : req[q] \in {"resumeMarked", "resumeLogged"}

\* A job that says RUNNING has such an owner, however its runs, cancellations,
\* resumes and sweeps overlap, unless something lapsed: a process
\* died, a resumed run was not handed to Dask, a cancellation dropped a queued
\* run, or a run was torn down before it could write its outcome or could not
\* write it because the database failed.
RunningHasOwner == row = "RUNNING" => Owned \/ lapsed

\* A job without an owner row is only ever one whose submission is under way
\* or did not return its ID (access.py: "The submit path must not return an
\* ownerless job ID"), also when submissions of the same ID overlap.
NoOwnerlessJob ==
    row # "none" /\ ~access =>
        \E s \in Submitters : sub[s] \in {"created", "dispatched", "failing", "failed", "lost"}

\* Nobody is left who acts on a status read earlier.
Settled ==
    /\ row = "SUCCESS"
    /\ \A r \in Runs : pc[r] \in {"unused", "closing", "done", "dead"}
    /\ \A q \in Requests : req[q] \notin {"cancelRead", "resumeRead", "resumeMarked", "resumeLogged"}
    /\ \A w \in Sweepers : sweep[w] # "found"
    /\ \A s \in Submitters : sub[s] \notin {"new", "created", "dispatched", "failing"}

\* Once settled, a SUCCESS stays: cancel, resume, the reaper, a restart of the
\* backend and late clean-up all leave a finished job alone.
SettledSuccessStays == [][Settled => Settled']_vars

\* A worker does not work on for ever while its job is INTERRUPTED.
InterruptStopsWorker ==
    \A r \in Runs : ~<>[](row = "INTERRUPTED" /\ r \in Working)

Orphaned == row = "RUNNING" /\ events # {} /\ ~Owned

\* A RUNNING job with at least one event that has lost its owner, for whatever
\* reason, does not stay that way: the reaper, a restart or a user interrupts
\* it, or a resume that was already under way takes it over.
OrphanIsReaped == Orphaned ~> ~Orphaned
=============================================================================
