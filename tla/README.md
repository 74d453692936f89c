# Verification of the research job service

TLA+ models, model-checking runs and machine-checked proofs for the stateful
core of this repository (`srijan816/researcher`, an AI research assistant built
on NVIDIA's NeMo Agent Toolkit, "NAT"). Paths below are relative to the root of
the repository; `aiq_api/` stands for `src/frontends/aiq_api/src/aiq_api/`.

Contents: [the system](#1-the-system), [the modules](#2-the-modules),
[the runs](#3-the-runs), [fairness](#4-fairness), [the proofs](#5-the-proofs),
[what the code does otherwise than it says](#6-findings),
[what is not modelled](#7-what-is-not-modelled), [the plan](#8-the-plan),
[how to run it](#9-how-to-run-it).

## 1. The system

A browser (or the CLI) talks to a FastAPI backend. A chat goes over a WebSocket:
an intent classifier routes a question to a shallow researcher that answers at
once, or, after a clarification dialogue with the user, to a deep researcher
that runs for minutes to hours. A deep research is a **job**: a row in a
database, executed by a Dask worker, which reports what it does as **events** in
a second table; the browser follows these by server-sent events (SSE). Documents
the user uploads are ingested by threads into a vector store the researchers
search.

No lock and no transaction spans two of these parts. What keeps them consistent
is the order in which each of them reads and writes, and that is what this
project is about.

### 1.1 Components with state

| Component | State | Operations | Talks to |
|---|---|---|---|
| Batching event store (`aiq_api/jobs/event_store.py`) | `_buffer`, `_timer`, `_lock`; table `job_events` | `store`, `flush`, the Timer's callback | written by a run's callbacks; read by SSE, reaper, resume |
| Job lifecycle (`aiq_api/jobs/{submit,runner,access}.py`, `aiq_api/routes/jobs.py`) | `job_info.status`, `job_access`, `job_events`; each run's position, its buffer; the Dask Variable | submit, run, cancel, resume, ghost reaper, start-up recovery | database calls and Dask only; a cancellation reaches a run by a status it polls |
| SSE stream, polling (`aiq_api/routes/jobs.py` `_sse_generator_polling`) | `last_event_id`, `sequence_id`, replay mode, last status; `is_shutting_down`; the tab's URL and saved ID | stream, hang up, reconnect | reads `job_events` and the status; the browser's EventSource |
| SSE stream, PostgreSQL (`_sse_generator_postgres`) | the same, an own connection and its notification queue | LISTEN, replay, reconcile, notifications, fall-back | PostgreSQL `NOTIFY`, sent in the transaction that inserts a row |
| Connection manager, shutdown (`jobs/connection_manager.py`, `plugin.py`) | the set of stream tasks, the flag | register, shutdown, second signal | every stream |
| Engines and retention (`event_store.py`, `_run_event_cleanup`) | cache of database engines (10, one hour); rows by age | get engine, clean up | every user of the event store |
| WebSocket sessions (`aiq_api/websocket_reconnect.py`) | per conversation: registered socket, pending future; per handler: its own future | connect, user message, prompt, answer, timeout, disconnect | workflows (callbacks), browser |
| Knowledge layer, LlamaIndex (`src/sources/knowledge_layer/src/llamaindex/adapter.py`) | ChromaDB collection and its `updated_at`; `_jobs`, `_files`; the table of summaries | upload, ingestion thread, delete file or collection, TTL clean-up | REST routes, retrieval, the agents' list of documents |
| Knowledge layer, remote (`src/sources/knowledge_layer/src/foundational_rag/adapter.py`) | `_jobs` with the details of their files; the service's tasks and collection | upload thread, status request, delete files or collection, prune | a remote ingestion service over HTTP |
| Research middleware (`src/src/aiq_agent/agents/deep_researcher/custom_middleware.py`) | counters of searches per run and per task, source registry, locks | wrap each model or tool call | the deep researcher's parallel sub-agents |
| Deep researcher (`deep_researcher/agent.py`) | the session variables, the attempt, the newest result | invoke the orchestrator, with feedback, a second time | its middleware; the runner |
| Chat researcher (`src/src/aiq_agent/agents/chat_researcher/`) | the conversation's checkpoint; each invocation's state | classify, shallow research, clarify, deep research | language models, clarifier, job submission |
| Clarifier (`src/src/aiq_agent/agents/clarifier/agent.py`) | questions asked, rounds of plans, the plan | ask, search, draft, narrow, revise, approve, reject | language models, WebSocket prompts |
| Web interface (`src/frontends/ui/`) | browser stores, reconnect timers | display, resume, upload polling | all of the above |

Components with little or no state of their own: job callbacks, webhooks, the
research plan schema, the Claude researcher and claim verifier,
citation verification and report quality, source and evidence helpers, search
sources, authentication, the other REST routes, tokenomics and observability,
and the command line, scripts, benchmarks and deployment. `PROJECT.json` lists
each of these with the reason it is left out, and every hazard at its line.

### 1.2 What is hard, and what makes each component correct

* **Batching event store.** A Timer that has fired cannot be cancelled: its
  callback may wait for the lock while a full batch is flushed and a new Timer
  is armed. Correct: no buffered event is ever without a Timer that will flush
  it; rows keep the order of the calls; nothing is written twice; at most one
  batch is lost by a crash.
* **Job lifecycle.** Every handler reads a status, awaits, and writes blindly.
  Workers die silently, the backend restarts, cancels race with success, a
  resumed job has two runs. Correct: a RUNNING job has somebody who will end it,
  or the reaper does; a finished job stays finished; an interrupted worker stops;
  nobody is given the ID of a job without an owner.
* **SSE stream.** Rows and status are written while the generator reads; fetches
  are cut off at three different limits, or fail and look empty; the browser
  reconnects in two ways. Correct: no row is passed over, the end is announced
  after the rows unless the last query failed, failed queries only delay rows,
  streams end.
* **SSE stream, PostgreSQL.** Transactions commit out of order, notifications
  come late or, once the connection is lost, never, a fetch may fail, and the
  stream has three sources of rows (history, notifications, fetches after a
  timeout). Correct: no row is lost between them but for reasons that can be
  named; none is sent twice; a lost connection only delays rows.
* **Research middleware and deep researcher.** Sub-agents search in parallel
  and share counters, attempts follow each other with what was spent before, and
  six layers of middleware see a call in a fixed order. Correct: budgets are
  upper bounds for the whole run, a task cannot take the share of another, and a
  run that spent its budget stops searching.
* **WebSocket sessions.** The end of a connection is noticed late, prompts and
  answers do not name each other, workflows outlive their connection. Correct:
  the newest connection is served, no answer goes to a call that is over, a lone
  prompt takes the first answer, every prompt returns.
* **Ingestion.** Threads, requests and a clean-up share a store without
  transactions; each file may fail, or hold nothing to index. Correct: what is
  reported as ingested went into the index whole, and can be searched unless it
  has no text; each file is accounted for, what was deleted does not come back.
* **Remote ingestion.** An upload's thread and the requests share a list without
  a lock, POSTs fail after the service has begun, and what became of a document
  is learnt only by asking. Correct: what a file's status says is true of the
  service, no status goes backward, a job that is asked for comes to an end.

* **Chat turns and clarification.** The messages of a conversation share a
  checkpoint that no lock protects, and a turn may raise half-way; a dialogue has
  questions, plans, feedback and timeouts. Correct: what was said is kept, a
  research that follows a dialogue is told of that one, a plan that could be
  shown is the one last on the screen, every turn ends.

Of those not modelled yet, correct would mean:

* **Connection manager and shutdown**: every stream ends within the grace time (that
  a stream notices the flag, also one opened after `shutdown()` took its snapshot
  of tasks, is in both stream models); a second signal ends all.
* **Engines and retention**: an engine is not disposed while in use; nothing that
  a resume needs is deleted before the job itself (today the clean-up of
  `aiq_api/routes/jobs.py:1447` goes by the age of events alone).
* **Shallow researcher**: the tool loop ends within its limit.
* **Web interface**: automatic resumes are bounded; a page refresh loses neither a
  running job nor an upload under way.
* **Authentication, other routes, webhooks, callbacks**: request by request, for
  ordinary tests.

## 2. The modules

| Module | What it is |
|---|---|
| `EventLog` | abstract: a log with a window of unsettled events, appended to or lost in order |
| `BatchingEventStore` | the class with its lock, buffer, Timers and database call; implements `EventLog` |
| `JobLifecycle` | one job: submissions, runs, cancels, resumes, reaper, start-up |
| `JobClaims` | a statement of the code's comments about a failed submission |
| `EventStream` | abstract: a stream that starts after an ID and delivers the next row each time |
| `SseStream` | one job's rows and status, the polling generator, one browser tab; implements `EventStream` |
| `SseClaims` | a statement of the web interface about reconnection |
| `SsePubSub` | one job's transactions and notifications, the PostgreSQL generator; implements `EventStream` |
| `ResearchRun` | one deep research: attempts, parallel sub-agents, the search budgets they share |
| `WebSocketSessions` | one conversation: connections, workflows, prompts, answers |
| `Ingestion` | one collection of the LlamaIndex backend: uploads, ingestion threads, deletions, clean-up; implements `IngestionReport` |
| `IngestionReport` | abstract: what a client may see of its uploads, whichever backend ingests them |
| `RemoteIngestion` | one collection of the remote backend: upload threads, the service's tasks, polling, deletions; implements `IngestionReport` |
| `ClarifierDialog` | the dialogues of turns with their user: questions, plans, approval |
| `ChatTurns` | the turns of one conversation, each with its dialogue, and their checkpoint |
| `MC*` | what a run adds to a module: symmetry, definitions for constants |
| `*_proofs` | the theorems about a module |

Common conventions. One action is what the code does without another actor being
able to interleave: up to the next `await` or database call for a coroutine, a
locked section for a thread, one call on a shared table or dict for an unlocked
thread. Operations named `Mutant: ...` in their comment are not used by any
action; each is the form a plausible mistake would give the definition after it,
kept to show that a property would notice. History variables (`lapsed`, `got`,
`seen`, `final`, `over`, `mixed`, `overlapped`, `last`, `gone`, `deleted`,
`blank`, `lossy`, `failed`, `unheard`, `started`, `retried`, `garbled`,
`uncapped`, `refused`, `cut`, `word`, `told`) record what a property needs and
guard nothing.

### 2.1 BatchingEventStore

`buffer`, `timer` and `lock` are `_buffer`, `_timer` and `_lock`; `timerState`
is where each Timer object stands: waiting (`armed`) or with its callback
started (`expired`), from where `cancel()` has no effect. The lock holder's
unwritten events are `batch`. `Store` and `Flush` take the lock, `Expire` and
`TimerFlush` are a Timer's two steps, `BatchStored` and `BatchFailed` the two
ends of `store_batch()` (a failure is logged and swallowed), `Crash` the death of
the worker. An event is the number of its `store()` call. The mapping to
`EventLog` takes `submitted` for `accepted` and `table` for `log`; the window is
the batch size. Left out: the event's content and the PostgreSQL notification
sent in the same transaction.

### 2.2 JobLifecycle

`row` is `job_info.status` ("none": no row), `access` the owner row, `events` the
kinds of events in the table, `pc[r]` where the run `r` of `run_agent_job` is,
`buf[r]` what its batch buffer holds, `future` what the Dask Variable names,
`sub`, `req` and `sweep` where each submission, request, and the reaper and
start-up recovery are. A step is one database or Dask call together with the local
computation up to the next one. `RunCancelled` is what a `CancelledError` does to
a run: elsewhere than in an exception handler it starts the handler; inside one it
ends it. `lapsed` records the cases in which the code leaves a job without a
writer (a process died, a queued task was dropped, Dask was unreachable on resume,
a handler was torn down, or the database failed when the exception handler of a
run wrote the outcome), after which the reaper is the only remedy. `update_status`
of a run raises without a row, and may raise at any time: in `RunStart` and
`RunPublish` that leads to the exception handler, whose own write (`RunFail`) is
the last. Abstracted: events are sets of four kinds; a report is usable or not,
nondeterministically; the reaper's and the heartbeat's times are one condition (a
job is not stale while an agent works and its heartbeats can be stored).
`RequireAuth`, `LocalWorkers` and `StoreMayFail` are the settings of a deployment.

### 2.3 SseStream

The generator's local variables have their names (`cursor` is `last_event_id`,
`seq` is `sequence_id`, `told` is `last_status`), `pc` is where it stands.
`FetchFails` is a query that fails on both engines: `get_events_async` falls back
to `get_events`, which logs the error and returns no rows, so that the generator
takes it for an empty fetch (`tail`), and with a terminal status announces the
end. The history variable `failed` says that the last fetch was one of these.
`Insert`, `Commit` and `SetStatus` are what workers do meanwhile; IDs may go to
rows of other jobs. `link`, `url` and `saved` are the browser's side: its
EventSource reconnects by itself to its URL (`Retry`), the tab opens a new one
after the ID it saved (`Reconnect`), which is the ID of a `stream.mode` or
`job.status` frame and not of a row. A frame is received in the step that yields
it; a cut connection ends the stream between frames. `Serial` says whether inserts
commit in the order of their IDs: SQLite's write lock makes them, and the polling
generator is what the code uses with SQLite. With PostgreSQL (`Serial = FALSE`)
the polling generator, there a fall-back, can pass over a row that becomes visible
late, for the reason `SsePubSub` models; the theorems about `SseStream` assume
`Serial`, and `sse_stream` checks it. A stream is an `EventStream` while the
generator runs; its mapping takes the committed rows, the ID of the URL and the
cursor, and needs no excuse for leaving rows out (`lossy <- ~Serial`).

### 2.4 SsePubSub

`open` are the transactions that inserted a row and have not committed; `Commit`
makes the row visible and its notification (`notes`) in one step, as `pg_notify`
in the same transaction does. `pc` and `stage` are where the generator stands:
it listens (`Listen`), reads the status (`First`), fetches the history, fetches
once more (`stage = "reconcile"`), and then waits for a notification
(`Notified`) or for 5 seconds (`TimedOut`, after which it fetches). `Status` is
`get_job` in the loop, `Drain` and `DrainEnd` what follows a terminal status.
`LoseConnection` loses the listening connection with any part of what was sent:
the generator has no handler for it and waits on. `FetchFails` is a query that
failed on both engines, which returns no rows; a `Take` with `lossy' = TRUE` is a
notification whose row could not be looked up. `Leave("polling")` is the
hand-over to the polling generator, which is that of `SseStream` and is not
followed here; it happens before the loop only, an exception in the loop ends the
stream with `job.error`.

The code can leave rows out, and the history variables say exactly when. `lossy`:
a row committed below one that was there already, a look-up or the second fetch
failed, or the second fetch was cut off at 1000 rows (its rest is not fetched
until a wait times out, and a notification that comes before moves the cursor
past it). `unheard`: the end came with notifications undelivered, lost with the
connection or not yet there half a second after the terminal status. The
properties are about every stream to which none of these happened, and
`RowsArrive` holds for the `unheard` ones too.

### 2.5 ResearchRun

A run is a session of ContextVars set once in `run`: `counts`
(`_session_tool_counts`), `tcounts` (`_session_task_search_counts`),
`exhausted`. `lead` is the orchestrator, `at[a]` a sub-agent, `call[c]` a search
under way. The order of the middleware decides what the model does: on a
response, `Strip` (searches of a spent budget are dropped), then `Trim` (no more
than `PerTurn`), and only then are garbled tool names repaired, so that a
garbled search (`wrong`) meets neither; on a call (`Begin`), the task's budget,
the run's budget, then the search with one retry (`Retry`). `Begin` is one action
because nothing between the two counters awaits. `Return`, `Fail` and `Abort` are
the ends of an invocation in `run`: a complete report ends the run, an incomplete
one is followed by an invocation with feedback and then by the second attempt, an
error by the second attempt, a fatal error by nothing. `Finish` is what `run`
returns or raises.

`NoKey` is the task of a sub-agent whose budget cannot be read from its prompt
(all planners, and researchers whose prompt lacks the fields). What models ask
for is nondeterministic; of the tools only searches are counted, by kind of agent
and not by tool. That an invocation which ends takes its sub-agents and calls with
it (`NoAgents`) is how the agent library runs them, as tasks of the invocation,
and is taken from there.

### 2.6 WebSocketSessions

`conn[h]` is a connection's handler: open, lost but not noticed, gone, or ended
by an exception. `response[h]` is the handler's `_user_interaction_response`,
`socket` and `pending` the registry's two entries for the conversation. A prompt
is one call of `human_interaction_callback` (`Ask`, `Sent`, `Timeout`,
`Return`); it keeps its `home` handler. `fut[p] = "late"` is an answer accepted
in the event-loop iteration in which `wait_for` gives up: whether it is lost
depends on the version of Python. NAT's base class is external; that its
`_running_workflow_task` is `None` whenever a message arrives, so that several
workflows of a conversation may run, is taken from how its methods are used.
Notices are prompts for which the callback returns without waiting; it registers
and clears a future for them all the same.

### 2.7 Ingestion

`coll` names the current incarnation of the collection (ChromaDB calls on an
older object raise), `chunks` the files of which it holds chunks, `summaries`
the table of summaries, `tracked` and `named` the entries of `self._files` under
file IDs and (the summary's fall-back key) under names, `job` and `detail` the
job status and its per-file details. A thread's actions are the calls of
`_run_ingestion` in order, each with its failure. Requests hold the event loop
(`op`) because the routes call the synchronous ingestor without awaiting; an
upload awaits only while its files are read. The clean-up is a thread of its
own. All chunks of one file come and go together. The
documents extracted from a file (`doc`) are `"empty"` (there are none, and the
file is FAILED), `"blank"` (there are some and the splitter makes no node of
them: the file is SUCCESS by the number of its documents, may get a summary, and
has no chunk) or `"text"`; the history variable `blank` has the files of the
second kind that went through the index. `detail` becomes `INGESTING` in the step
that extracts the file rather than in one before: nothing reads that
status to decide. `Expire` assumes that no upload takes the 24 hours of the
time to live.

### 2.8 RemoteIngestion and IngestionReport

`job` and `detail` are `self._jobs` and the `file_details` of each job ("gone":
removed from that list), `pc` and `at` the upload's thread and its loop index,
`known` whether `metadata["task_ids"]` names the task. `Begin`, `MarkFile` (one
iteration of the loop that marks and opens files), `Post`, `MarkFailed` (one
iteration of the `except` branch) and `StoreTask` are `_upload_files_async`;
`Poll` is `get_job_status` with the service's answer and `PollBlind` the same
without one; `Prune` the forgetting of jobs that were over for an hour, at the
head of a status request; `DeleteFiles` and `DeleteUnheard` are `delete_files`
with and without an answer. A request is one step because routes call the
adapter without awaiting; the thread is cut wherever a request can see a
difference. `Place` is the reason why the model numbers the files that are left:
`delete_files` replaces the list the thread is indexing by a shorter one, so that
the thread marks another file than it opened, or runs out of the list and dies.

The service is external, and is taken from how the adapter reads its answers: it
takes in or rejects one document after the other, its task ends finished (with its
rejected documents named) or failed or is forgotten, and a document that it calls
completed is in the collection. `bad` are the documents rejected with an error
message, `mute` those rejected with an empty one, which the adapter takes for
ingested (`Verdict`; line 966 tests the message). `MaxFaults` bounds deletions,
rejections and faults together (`Fault`). `lapsed` are the jobs that nothing can
end any more: their thread died, their task has no name or was forgotten, or one
of the files they count was deleted.

`IngestionReport` has the statuses only. Jobs and files go forward; an upload
whose job is over changes no more but for deletions; a completed job has settled
every file; files may be dropped, also several at once, and finished jobs
forgotten. `Ingestion` implements it with its own `job` and `detail`, without
dropping or forgetting, and `RemoteIngestion` with all of it.

### 2.9 ClarifierDialog and ChatTurns

`ChatTurns` EXTENDS `ClarifierDialog`: a turn is one message and one invocation of
the chat researcher's graph, `at` the node it is in, those of the clarifier's
graph included, which runs inside the node `clarifier`. `state[t]` is what an
invocation has, `saved` the conversation's latest checkpoint: of the messages
which turns' questions and answers they hold (`said`), and `clarifier_result`
(`context`, as the turn whose dialogue it is and the plan). `Save` is the end of a
node: its update is applied and saved. `Begin` starts from the checkpoint, also
while another turn is running (`overlapped`). `Classify` is the classifier with
every answer it can give, `Route` the edge after it, `Escalate` the edge after a
shallow research. `Agent`, `Content` and `AnswerQuestion` are the loop of the
clarifier over its nodes `agent`, `tools` and `ask_for_clarification`, with
`iteration` as in the code and `steps` for the library's recursion limit; `Draft`,
`Narrow`, `Feedback`, `Approve` and `Reject` are `plan_preview_node`, cut at its
prompts. `MaxPlans[t]` is `max_plan_iterations` of the server that runs the turn,
0 for 0 and less: then the loop of that node has no round, and `ApproveUnseen` is
what follows it. A shallow research that has no message to add ends its turn
`"unanswered"`. A plan is known by its round and by whether it was narrowed. A
prompt that nobody answers for 300 s returns "skip"
(`aiq_api/websocket_reconnect.py:410`), which ends the questions and approves a
plan. Of a request, `skip` is its `skip_clarifier`; the depth it selected is a
choice of `Route`.

## 3. The runs

All runs use TLC exhaustively, no run truncates its state space by a constraint,
and every bound is a constant of the module (`MaxEvents`, `MaxId`, `Starts`,
`MaxFlows`, `MaxAnswers`, `MaxFiles`, `MaxCreated`, `MaxDeletes`, `MaxFaults`,
`MaxTurns`, `MaxPlans`, `MaxSteps`) or the size of a set. `jobs` uses the symmetry
of runs, submissions and requests, which no safety property tells apart; the
liveness runs use none. Deadlock is not checked: every one of these systems may
come to rest (all jobs finished, all uploads ended, no user).

| Run | Distinct states | Instance |
|---|---|---|
| `batching` | 6 235 | 2 reporting threads, 3 Timers, batches of 3, 6 events |
| `jobs` | 878 120 | 1 submission, 2 cancels or resumes, 2 runs, local workers, inserts and status writes may fail |
| `job_liveness` | 157 770 | 1 submission, 1 request, 2 runs, authentication required |
| `sse_stream` | 266 656 | 3 row IDs, fetch limits 1, 2 and 3, failed fetches and reconnections unbounded |
| `sse_pubsub` | 266 792 | 3 row IDs, all fetch limits 1, streams from the first row, reopened without bound |
| `research_run` | 571 309 | 1 planner, 2 researchers, 2 at a time, 2 searches under way, 2 tasks, budgets 2, 1 and 1 per task |
| `websocket` | 586 430 | 2 connections, 3 prompts (1 a notice), 2 user messages, 2 answers |
| `ingestion` | 3 005 868 | uploads of `<<a, b>>` and `<<a>>`, the first file empty, blank or text, 1 created collection, 1 deletion, clean-up unbounded |
| `chat_turns` | 137 021 | 2 turns, 2 questions, 2 plans in one turn and none in the other, 3 visits of the clarifier's agent, plan approval, escalation |
| `remote` | 141 094 | uploads of `<<a, b>>` and `<<a>>`, 2 deletions or faults, polls unbounded |

What they show, and why the bounds suffice:

* `batching`. `BufferedIsTimed`: with a stale callback waiting, a full batch
  flushed and a new Timer armed (three Timers: one stale, one cancelled, one
  armed), buffered events always have a Timer that will flush them. `StoreOrder`:
  rows keep the order of the calls, without duplicates. Six events fill a batch
  twice, so a stale callback meets the batch after the one it was meant for.
  `EventuallySettled` (liveness) and `ImplementsLog` (refinement of `EventLog`:
  nothing is lost but a failed batch or what a crash takes).
* `jobs`. `RunningHasOwner`, `NoOwnerlessJob`, `SettledSuccessStays` for every
  interleaving of database calls. Two runs let a resumed job run beside the one
  it replaces; two requests give cancel and resume, two cancels or two resumes. A
  third run or request would only repeat a role. A restart of the backend takes
  its workers with it, and inserts of events may fail; the other settings, and
  overlapping submissions of one ID, are left to the theorems (which hold for
  every setting) and to `claim_rollback_own`.
* `job_liveness`. `InterruptStopsWorker` and `OrphanIsReaped`.
* `sse_stream`. `EndIsComplete`, `RowsArrive`, `StreamsEnd`, `StreamSpec`
  (refinement of `EventStream`). The limits stand for 100, 1000 and 10000: with
  three rows each limit is hit exactly, exceeded, or not reached, and live mode is
  entered from a full and from a partial fetch. A fetch may fail at any time and
  any number of times.
* `sse_pubsub`. `EndIsComplete`, `NothingTwice`, `RowsArrive`,
  `StreamsEnd`, `StreamSpec`. Limits of 1 make every fetch meet its limit, so
  that the second fetch is cut off and the fallback needs several rounds; three
  rows give one for each of history, gap and notification, committed in any
  order. A stream that starts behind the first row adds nothing here
  (`Starts = {0}`); the theorems cover every start.
* `research_run`. `SearchesWithinBudget`, `ShareIsReserved`, `SearchBurst`,
  `SpendingStops`. Two researchers share the run's budget and, on the same task,
  the task's; a planner has its own budget; two calls under way race for the last
  place. The two tasks' budgets fit exactly into the run's, where
  `ShareIsReserved` is tightest. Both attempts and their feedback run.
* `websocket`. `LatestIsServed`, `NoStaleFuture`, `LonePromptIsAnswered`,
  `PromptsReturn`. Two connections give old and new; three prompts give one per
  workflow and one after them; a notice takes the place of others' futures as a
  question does.
* `ingestion`. `SuccessIsSearchable`, `CompletedIsAccounted`,
  `SummariesWereIndexed`, `DeleteSticks`, `ReportSpec` (refinement of
  `IngestionReport`). Two uploads share a name so that a
  deletion by name meets a file of another job; threads may create the
  collection again after the request that made it, so that there are up to three
  incarnations. The second file of the first upload makes the index of a failed
  or blank first one matter: `Contents` lets the first file be empty, blank or
  text, the second be empty or text, and that of the second upload, which meets
  the others in the collection, be text. The theorems leave every file free.
* `remote`. `DetailsAreTrue`, `JobsEnd`, `ReportSpec` (refinement of
  `IngestionReport`). Two faults are enough for a fault to meet another: a
  rejected document (with or without an error message) and a failed task, a
  deletion during the loop of an upload that then fails, two deletions that empty
  a list. The upload of two files has a loop to interrupt, and a name of both
  uploads lets a deletion hit two jobs.
* `chat_turns`. `ChatTypeOK` (with the limits of a dialogue), `HistoryIsKept`,
  `OwnDialogue`, `PlanIsAgreed`, `TurnsEnd`. Two turns give a turn and one after
  it that finds its checkpoint, complete or broken off, and two at once; two plans
  give a first one and a last one, and the turn without plans (as after a new
  configuration) meets one with them in either order; two questions one that is
  answered before the last. `MaxTurns`, `MaxPlans` and `MaxSteps` stand for 3, 10
  (by default) and about 12 in the code.
* `claim_*`: see section 6.

Each property has a mutant in `PROJECT.json`: a definition changed as a
plausible bug would change it, under which TLC finds the property violated.

## 4. Fairness

| Module | Assumed | Because |
|---|---|---|
| BatchingEventStore | weak fairness of each Timer's two steps and of the end of a database call | threads run, `Timer` fires, a transaction ends or raises. Nobody need call `store()` |
| JobLifecycle | weak fairness of the monitor, of a run's steps that wait only for the database, of a request or submission under way, of the sweepers | event loops keep running and time passes. An agent need not end, a queued task need not start, nobody need send a request or restart anything |
| SseStream | weak fairness of the generator, strong fairness of `Fetch` | the event loop runs it and the client takes its frames; a query made again and again does not fail for ever. No row need be written, no tab need reconnect |
| SsePubSub | weak fairness of the generator, strong fairness of `FetchRows` | the same, and the wait for a notification ends after 5 s; a query made again and again does not fail for ever. No notification need arrive |
| ResearchRun | weak fairness of the end of each search | a search tool returns, or raises and is retried once, or its second failure ends the invocation. No model need respond, nothing need be begun |
| WebSocketSessions | weak fairness of the end of a send, of the timeout and of the return | sends end or raise, the 300 s timer fires. Users and networks owe nothing |
| RemoteIngestion | weak fairness of each thread, of the service's work on each task, and of a status request that is answered | threads run; the service ends a task or forgets it; the browser polls a job until it is over, for up to 420 times. Nothing need be uploaded, deleted, rejected or pruned |
| ChatTurns | weak fairness of each turn's nodes | models and tools answer or raise, prompts are answered or time out after 300 s, the library limits the visits of a graph's nodes. No message need be sent |
| Ingestion | none | its threads are straight-line code; that they end depends on libraries only |

`OrphanIsReaped` is about a job with at least one event: the reaper looks for an
old newest event and cannot see a job whose events were all lost. `RowsArrive`
and `StreamsEnd` say "or the connection ends", which a network may always do.

## 5. The proofs

TLAPS checks the theorems for every value of the constants. Each component's proof
has the same shape: an inductive invariant `IInv`, one lemma per action or group
of actions that it is preserved, and a last temporal step. Assumptions are only
the named `ASSUME`s of the modules (`BatchAssumption`, `LifecycleAssumption`,
`StreamAssumption`, `PubSubAssumption`, `ResearchAssumption`, `SessionAssumption`,
`DialogAssumption`, `ChatAssumption`, `NamesAssumption`, `UploadsAssumption`,
`BoundsAssumption`, `RemoteAssumption`) and, for SseStream, the hypothesis
`Serial`, stated in its theorems. All of them say what kind of value a constant
has, and TLC evaluates them in each run.

* **BatchingEventStore_proofs**: `TypeCorrect`, `OrderAndLoss`,
  `TimersCoverBuffer`, `Refinement`. The invariant joins the properties with
  `LockedBatch` (a batch exists only under the lock) and `TableSettled` (the
  table holds settled events only), without which the order of the rows is not
  inductive: a batch must be known to continue exactly where the table may end.
  `TimerRuns` relates `_timer` to the Timers' states. The refinement proof maps
  `Store` to `Accept`, `BatchStored` to `Append1`, `BatchFailed` to `Lose`, and
  the rest to stuttering, `Crash` included (what was in memory stays unsettled
  for ever); `AppendRun` is the lemma on sequences it rests on.
* **JobLifecycle_proofs**: `TypeCorrect`, `RunningJobsHaveOwners`,
  `ReturnedJobsAreOwned`, `SettledStays`. The properties are inductive together
  with the type invariant; the work is the case analysis over all handlers, for
  any number of runs, requests and submissions. `SettledStays` is an action
  property: no step leaves the set of settled states. `StatusChangesRunOut` gives
  each run, submission and request a rank that no step lowers, and says that a
  change of the status raises one, or is a sweeper's INTERRUPTED: handlers that
  read, wait and write blindly may overwrite each other, but not for ever.
* **SseStream_proofs**: `TypeCorrect`, `StreamIsGapless`, `EndAfterRows`,
  `ImplementsEventStream`, these with `Serial`; `StreamsRunOut`,
  `PassesAreNotInVain`. What makes the first four inductive: `OpenIsNewest` (an
  uncommitted row has the newest ID), `CursorIsRow`, `BatchFollows` (the batch is
  what follows the cursor, up to its newest row), `LastBatch`, and `EndIsKnown`
  and `EndIsComplete` through the positions between reading the status and
  announcing it; each of them says what it says of a last fetch that did not fail.
  `StreamIsGapless` is about `NoRowPassedOver`, which the refinement run covers.
  `StreamsRunOut` and `PassesAreNotInVain` need no `Serial`, only the types
  (`RowTypes`): a stream that is to end has at most `2 MaxId + 8` steps left
  (`StepsLeft`), and a fetch that works, with a row after its cursor, returns one.
  The latter rests on `LeastOf`, a set of numbers that is not empty has a least
  one, from the well-founded order of the naturals.
* **SsePubSub_proofs**: `TypeCorrect`, `StreamIsGapless`, `EndAfterRows`,
  `NoRowTwice`, `ImplementsEventStream`, `StreamsRunOut`, `FetchesAreNotInVain`,
  without any assumption on the order of commits. `Quiet` says what a stream that
  is not up has; `HearsAll`, `NotesInOrder`, `NotesFollow` and `AllOnTheWay` say
  that, unless the stream is lossy, the notifications not yet taken are ascending
  and that, while the connection lives, every row beyond the cursor is in the
  batch, in the queue or still to be fetched; `BatchFollows` and `CursorIsRow` are
  as in SseStream; `ReplayComplete` and `EndIsKnown` carry this to the two ways a
  stream can end. The rank of `StreamsRunOut` counts in `ToHear` the notifications
  in the queue and one for each row still to commit: a commit moves one from the
  latter to the former, so that draining a queue that others fill still ends.
* **ResearchRun_proofs**: `TypeCorrect`, `BudgetHolds`, `SharesAreReserved`,
  `BurstsAreBounded`, for any number of sub-agents, calls and tasks. `Counted`
  ties the counters to the searches started, `FirstTries` the retries to the
  searches whose first try is under way (by a cardinality argument, as a retry
  uses up one of them). `SharesCover` says that the run's counter is at most the
  sum of the tasks' counters as long as every researcher has a task with a
  budget (`AllCapped`); with each of these at most `TaskLimit`, a spent run leaves
  none of them below. `Busy` and `CallsOf` bound the sub-agents and their calls.
  `SpentSearchesRunDown` is what `SpendingStops` says without time: from a spent
  scope nothing begins a search any more, and those under way only go from their
  first try to their second. `MarkedIsSpent` had to be added: a scope is marked as
  exhausted only with its counter at the limit, because a call tests the counter
  and not the mark.
* **Conversation_proofs** is about both modules of one conversation.
  `WebSocketSessions`: `TypeCorrect`, `LatestConnectionIsServed`,
  `FuturesDoNotOutliveCalls`, `AlonePromptTakesAnswer`. The last rests on
  `AloneIsRegistered`: the registry holds the future of a prompt under way that
  has not overlapped with another, until it is answered. `PromptsRunOut` needs the
  types only: a callback owes four steps at most (`StepsOwed`), each of its steps
  lowers that and nothing raises it. `ChatTurns`:
  `ChatTypeCorrect`, `HistoryStays`, `ResearchKnowsItsDialogue`, `PlansAreAgreed`,
  `TurnsRunDown`. Their invariant is `ChatIInv`. `DialogueFollows` says what each
  place of a dialogue means for its plan and for the user's word on it;
  `ContextsAreAgreed` that every context a turn or the checkpoint holds, of
  whichever turn, names a dialogue that is over, its last plan, and no refusal,
  where `Shown` has the plan as the one its user saw last, or one that the server
  was not to show;
  `OwnContext` that a turn whose dialogue is over has its own in its state, so
  that another turn's save cannot take its place; `RunAlone` that a turn which has
  not overlapped is the only one running, and `SaidIsKnown` that everything said
  alone before is in its state and in the checkpoint. `TurnsRunDown` gives a turn a
  natural number, at most `2 MaxSteps + 3 MaxPlans[t] + 10`, that each of its
  steps lowers and no other turn's step changes, and that is 0 only at its end.
* **Ingestion_proofs**: `TypeCorrect`, `IngestedIsSearchable`,
  `CompletedJobsAccount`, `SummariesAnnounceIndexed`, `DeletedStaysDeleted`,
  `UploadsReport`, `FinishedIsFinal`, `ThreadsRunOut`.
  `Position` ties a thread's place to its file number and job status,
  `PastIsAccounted` says that files before it are settled, `IndexedBeforeMarked`
  that what it is about to report went into the index, and `NamesInPeace` that no
  thread handles a name that was deleted in peace or is being so (while the
  deletion holds the event loop, no upload can be submitted). The refinement of
  `IngestionReport` (`UploadsReport`) needs besides that the statuses go with the
  thread: `JobFollowsThread` gives the job's for each place, and
  `DetailFollowsThread` says that the files ahead of the thread are UPLOADING, and
  the one in its hands INGESTING, so that a file is settled once. The steps of a
  thread are first sorted by what a client sees of them (`ThreadSeen`).
  `FinishedIsFinal` says that a job which is over is not touched by anything.
  `ThreadsRunOut` is what an upload's end rests on: each step takes the thread to
  a later stage or to the next file, and nobody else moves it.
* **RemoteIngestion_proofs**: `TypeCorrect`, `StatusIsTrue`, `NothingComesBack`,
  `RemoteReports`, `FinishedIsFinal`, `JobsAreFollowed`, `TaskEndIsHeard`,
  `ThreadsRunOut`. The invariant adds to the types what the thread's place means
  for the service: `UnbornIsIdle` and `EarlyHasNoTask` (no task before the POST),
  `FailingIsRefused` (the marking of failures follows a failed POST),
  `FinishedDecides` and `TakenAreStored` (a finished task has decided each
  document, and what it took is in the store or was erased). For the refinement,
  `ThreadAhead` and `OverIsSettled` are needed besides: an uploading thread's job
  is not over, so that no loop touches the files of a finished job, and a job
  that is over has no file under way, so that no later answer does. The last three
  are what `JobsEnd` rests on: a job that has not lapsed is followed (`Followed`
  says by whom, and what its files say meanwhile), a thread goes on to its end,
  and the first answered status request after the end of a task settles every
  file that is left. The induction needs `LoopsBegin`, that each loop of an
  upload starts from its first file, and `PlaceIsNumber`, that the place in the
  list is the number of the file as long as none was deleted, which is a
  cardinality argument.

Only model-checked: the liveness properties (`EventuallySettled`,
`InterruptStopsWorker`, `OrphanIsReaped`, `RowsArrive` and `StreamsEnd` of both
streams, `PromptsReturn`, `SpendingStops`, `JobsEnd`, `TurnsEnd`) and the two
claims. Every invariant, every action property and every refinement that a run
checks is a theorem. Temporal reasoning with fairness and `ENABLED`, induction
over data and `RECURSIVE` operators are outside what the prover can do; no module
here needs recursion. Of most of the liveness properties the part that fairness
has no share in is proved: that every step lowers a rank (`TurnsRunDown` for
`TurnsEnd`, `PromptsRunOut` for `PromptsReturn`, `StreamsRunOut` for the
`StreamsEnd` of each stream), that no step is in vain (`PassesAreNotInVain` and
`FetchesAreNotInVain` for `RowsArrive`), that nothing new begins
(`SpentSearchesRunDown` for `SpendingStops`), and that somebody holds each job and
brings it to its end (`JobsAreFollowed`, `TaskEndIsHeard` and `ThreadsRunOut` for
`JobsEnd`). What is left to TLC there is
that the steps which fairness promises are enabled and are taken.

The type invariants of the modules with proofs are theorems; where they say little
else no run repeats them.

## 6. Findings

Two runs check a statement of the documentation, a comment or an interface that
the code does not keep. TLC's counterexamples are short:

1. `claim_rollback_own` (`aiq_api/jobs/submit.py:279`). A second submission with
   an existing ID fails on the primary key, and its rollback deletes the rows of
   the job that was there.
2. `claim_reconnect_skips`
   (`src/frontends/ui/src/features/chat/hooks/use-deep-research.ts:448`). The
   tab resumes after the ID of a `job.status` frame, one more than the last
   row's: the row that gets that ID is never received.

Seen while modelling, without a run of their own:

* jobs: cancel documents that a job which is not RUNNING is refused, but decides
  on a status read before another `await` and writes INTERRUPTED over a job that
  has finished (`aiq_api/routes/jobs.py:551`); quality artifacts are buffered
  after the last flush before SUCCESS, so a stream may announce the end without
  them (`aiq_api/jobs/runner.py:611`); start-up recovery interrupts jobs whose
  shared workers are alive, and which then stop at their next poll;
* ingestion: the clean-up goes by `updated_at`, which is written when a job has
  ended, and so deletes a collection into which a running job has just inserted
  chunks, although `src/src/aiq_agent/knowledge/base.py:122` promises to spare
  updated ones; if the first file of an upload fails before the index is made, the
  later ones fail too (`IndexFails`); a deletion by a name that is itself a key
  of `self._files` forgets that key only (`DeleteByName`); a file's detail stays
  UPLOADING when its job fails as a whole (`JobFails`); a file of nothing but
  blanks is reported as SUCCESS by the number of its documents
  (`llamaindex/adapter.py:1472`) and announced by a summary, and no search can
  find it (`MarkFile`);
* remote ingestion: `delete_files` removes every deleted file from the jobs' lists,
  although its comment (`foundational_rag/adapter.py:1455`) is about failed files,
  and the total of a job still counts them: a job under way with such a file never
  ends, and is never pruned (`Count`); if its thread is still in a loop over the
  list, it marks the wrong file or dies of an IndexError (`Mark`). A file that
  cannot be opened (`OpenFails`), an answer without a task ID (`PostUnnamed`) and a
  task the service has forgotten (`TaskLost`) leave a job PROCESSING for ever as
  well. An upload reported FAILED because its answer was lost may still be ingested
  (`PostFails`); its summaries are registered whatever became of it. The HTTP
  session also retries a POST after a server error, which may start two tasks. A
  job that was pruned is reported FAILED, as one that never was. A rejected
  document whose error message is empty is reported as SUCCESS
  (`foundational_rag/adapter.py:966` tests the message; `mute` in the model);
* SSE: a query that fails returns no rows (`aiq_api/jobs/event_store.py:517`), so
  that both generators tell the end of a finished job without its last rows when
  the last query fails (`FetchFails`). With PostgreSQL, the generator tells the
  terminal status while notifications of rows stored before it are still in its
  queue (`aiq_api/routes/jobs.py:1885`); only the drain half a second later yields
  them, and the browser closes its stream on the status, although
  `docs/source/architecture/data-flow.md` has the final events first;
* chat: `run` resets `shallow_result` only, so that a turn without a clarification
  of its own researches with the `clarifier_result` of an older one
  (`chat_researcher/agent.py:455`); turns of one conversation that overlap lose
  each other's messages from the checkpoint; every request has a depth (by default
  "deeper", `common/research_depth.py:12`), so what the classifier finds about
  depth and entities decides nothing (`Route`), although
  `docs/source/get-started/quick-start.md:95` says that queries are routed by
  their complexity; the configured `max_turns` of the clarifier is passed to its
  constructor, and the dialogue goes by the default 3 of its state; "no" to a
  question ends the questions and "no" to a plan the turn; an empty last answer
  ends a turn where a blank one escalates it; `max_plan_iterations` has no lower
  bound (`clarifier/register.py:96`), and with 0 or less a plan that nobody saw
  counts as approved (`ApproveUnseen`), which
  `tests/aiq_agent/agents/clarifier/test_agent.py:1390` asserts;
* WebSocket: a prompt that reaches no browser still waits its 300 seconds
  (`Timeout`);
* research: a search under a garbled name is repaired only after the middleware
  that strips and trims searches has seen the response, so only the counters
  limit it (`Respond`); the task budget reads the prompt from `request.messages`
  (`custom_middleware.py:1337`), which the requests of the tests have but the
  library's tool requests may lack, in which case no task has a budget (`NoKey`);
  the turn count of the planner's commit guard is an integer in a ContextVar
  (`custom_middleware.py:1209`), whose changes are lost where a call runs in a
  copied context; after a failed invocation with feedback the second attempt
  starts from the original state, not from the incomplete report; it also starts
  with the budgets as the first one left them, so a first attempt that spent them
  leaves it without searches (`NextAttempt`); a fatal error discards a result that
  was there (`Abort`); the budgets of all tasks fit into the run's for each of the
  four depth tiers, but not with the limits of the financial screen.

## 7. What is not modelled

* What language models say, prompts, report text, citation checking, parsing of
  documents: data, not control. Where control depends on it (is there a usable
  report? did the file have text?) the model chooses nondeterministically.
* Retrieval and search sources: calls without state that outlives them.
* Authentication of requests beyond who owns a job.
* Within modelled components: the recovery of a report from artifacts is one
  condition; webhooks are an optional event; the tab's replay buffer and
  display; temporary files and `upload_file` of the ingestor, which the routes
  do not call; the handshake and message formats of the WebSocket.
  In `ResearchRun`: the middleware that rewrites or checks content (report quality,
  plan commitment, read-back of written files), the registry of sources, and
  tools other than searches.
* The connection manager's shutdown beyond its effect on one stream, retention of
  events and the cache of database engines, and the web interface beyond streams:
  planned.
  In `ChatTurns`: how answers are parsed, the generation and repair of plans, the
  trimming of the history, the shallow researcher's tool loop, and the session's
  registry of sources.
  In `JobLifecycle`: database errors of the status reads and writes of requests and
  sweepers, which leave the status as it was.
  In `RemoteIngestion`: summaries, `list_files`, the retries of the HTTP session,
  and the single-file methods, which the routes do not call.

## 8. The plan

Done, in this order: batching store, job lifecycle, SSE stream, WebSocket
sessions, ingestion, the PostgreSQL stream with the abstract `EventStream` that
both generators implement, the search budgets of the deep researcher, the remote
knowledge backend with the abstract `IngestionReport` that both backends
implement, and the turns of a conversation with their clarification. Next, most
important first:

1. Connection manager and shutdown: streams that register during the shutdown,
   the snapshot of tasks, the second signal.
2. Retention and engines: clean-up loops, events of a job that is resumed later,
   disposal of an engine that is in use.
3. The composition of `ChatTurns` with `WebSocketSessions`: the prompts of a
   dialogue as the prompts of a connection.
4. Web interface: automatic resume limits and the documents orchestrator,
   composed with `SseStream` and `Ingestion`.
5. Composition: `BatchingEventStore` as the source of the rows the streams read,
   through `EventLog` and `EventStream`; the hand-over from `SsePubSub` to
   `SseStream` in one behaviour.

Where a further run answers a larger question, one of the claim runs makes room
for it.

## 9. How to run it

    tlc -config MCJobLifecycle.cfg MCJobLifecycle.tla
    tlapm JobLifecycle_proofs.tla

with the community modules on the library path. `PROJECT.json` names the module
and configuration of each run. `ingestion`, the largest, takes about two
minutes with two workers; the proofs take a few minutes each.
