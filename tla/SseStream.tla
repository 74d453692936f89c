------------------------------ MODULE SseStream ------------------------------
(***************************************************************************)
(* The event stream of one job to one browser tab.                         *)
(*                                                                         *)
(*   routes/jobs.py                _sse_generator_polling                  *)
(*   jobs/event_store.py           job_events rows and get_events_async    *)
(*   jobs/connection_manager.py    the shutdown flag                       *)
(*   ui deep-research-client.ts    EventSource, last event ID              *)
(*   ui use-deep-research.ts       saved cursor and reconnection           *)
(*                                                                         *)
(* The generator reads the job's status, fetches the rows after its cursor *)
(* and yields them one by one, while workers go on writing rows.  Frames   *)
(* that are not rows (stream.mode, job.status) carry an ID all the same:   *)
(* one more than the frame before.  The browser reconnects by itself to    *)
(* the URL it was given; the tab opens a new stream after the cursor it    *)
(* saved, which is the ID of a stream.mode or job.status frame.            *)
(*                                                                         *)
(* A frame is received in the step that yields it; a broken connection     *)
(* ends the stream between two frames.                                     *)
(***************************************************************************)
EXTENDS Naturals, FiniteSets

CONSTANTS
    LiveLimit, ReplayLimit, FinalLimit,  \* rows per fetch: 100, 1000, 10000
    Serial,   \* transactions on job_events are serialised (SQLite)
    MaxId     \* bound: row IDs in a behaviour

ASSUME StreamAssumption ==
    /\ LiveLimit \in Nat \ {0} /\ ReplayLimit \in Nat \ {0} /\ FinalLimit \in Nat \ {0}
    /\ LiveLimit <= ReplayLimit /\ ReplayLimit <= FinalLimit
    /\ Serial \in BOOLEAN
    /\ MaxId \in Nat

VARIABLES
    lastId,    \* the newest ID the autoincrement column of job_events gave
    open,      \* IDs of rows of this job in transactions not yet committed
    rows,      \* IDs of the committed rows of this job
    status,    \* of the job: "RUNNING", "DONE" (any terminal one), "none"
    stopping,  \* is_shutting_down
    pc,        \* where the generator stands; "closed": there is none
    job,       \* the status it read at the top of the loop
    cursor,    \* last_event_id
    seq,       \* sequence_id
    replay,    \* in_replay_mode
    told,      \* last_status
    batch,     \* fetched rows not yet yielded
    tail,      \* the last fetch got less than its limit
    failed,    \* history: the last fetch failed
    link,      \* of the tab: "new" | "up" | "down" | "ended"
    url,       \* the ID in the URL of its EventSource
    saved,     \* deepResearchLastEventId
    got,       \* history: rows received on this stream
    seen,      \* history: rows the tab ever received
    over,      \* history: the job has been DONE
    final      \* history: rows there when the job was first DONE

dbVars == <<lastId, open, rows, status, over, final>>
loopVars == <<job, cursor, replay, told, batch, tail, failed>>
tabVars == <<url, got, seen>>
vars == <<dbVars, stopping, pc, seq, loopVars, link, tabVars, saved>>

Init ==
    /\ lastId = 0 /\ open = {} /\ rows = {}
    /\ status = "RUNNING" /\ over = FALSE /\ final = {}
    /\ stopping = FALSE
    /\ pc = "closed" /\ job = "none" /\ cursor = 0 /\ seq = 0
    /\ replay = TRUE /\ told = "none" /\ batch = {} /\ tail = FALSE /\ failed = FALSE
    /\ link = "new" /\ url = 0 /\ saved = 0
    /\ got = {} /\ seen = {}

-----------------------------------------------------------------------------
(* The database *)

\* A transaction inserts a row, of this job or of another one.
Insert ==
    /\ lastId < MaxId
    /\ Serial => open = {}
    /\ lastId' = lastId + 1
    /\ open' \in {open, open \cup {lastId'}}
    /\ UNCHANGED <<rows, status, over, final, stopping, pc, seq, loopVars, link, tabVars, saved>>

\* It commits, or fails and its ID stays unused.
Commit(i) ==
    /\ i \in open
    /\ open' = open \ {i}
    /\ rows' \in {rows, rows \cup {i}}
    /\ UNCHANGED <<lastId, status, over, final, stopping, pc, seq, loopVars, link, tabVars, saved>>

\* The job ends, is resumed, or is deleted.
SetStatus(st) ==
    /\ status # "none" /\ st # status
    /\ status' = st
    /\ over' = (over \/ st = "DONE")
    /\ final' = IF st = "DONE" /\ ~over THEN rows ELSE final
    /\ UNCHANGED <<lastId, open, rows, stopping, pc, seq, loopVars, link, tabVars, saved>>

-----------------------------------------------------------------------------
(* The generator *)

\* The stream is over and the tab was not told that the job is.
Hangup ==
    /\ pc' = "closed" /\ link' = "down"
    /\ UNCHANGED <<dbVars, stopping, seq, loopVars, tabVars, saved>>

\* Mutant: the job is read once and kept.
TopCached ==
    /\ pc = "top"
    /\ \/ (stopping \/ status = "none") /\ Hangup
       \/ /\ ~stopping /\ status # "none"
          /\ job' = IF job = "none" THEN status ELSE job
          /\ pc' = "fetch"
          /\ UNCHANGED <<dbVars, stopping, seq, cursor, replay, told, batch, tail, failed,
                         link, tabVars, saved>>

\* The top of the loop: the shutdown flag, then get_job.
Top ==
    /\ pc = "top"
    /\ \/ (stopping \/ status = "none") /\ Hangup
       \/ /\ ~stopping /\ status # "none"
          /\ job' = status
          /\ pc' = "fetch"
          /\ UNCHANGED <<dbVars, stopping, seq, cursor, replay, told, batch, tail, failed,
                         link, tabVars, saved>>

\* Mutant: ORDER BY id DESC.
Newest(n, ids) == {i \in ids : Cardinality({j \in ids : j > i}) < n}

\* ORDER BY id LIMIT n
First(n, ids) == {i \in ids : Cardinality({j \in ids : j < i}) < n}

Limit == IF job = "DONE" THEN FinalLimit ELSE IF replay THEN ReplayLimit ELSE LiveLimit

\* get_events_async: rows of the job after the cursor.
Fetch ==
    /\ pc = "fetch"
    /\ LET after == {i \in rows : i > cursor} IN
       /\ batch' = First(Limit, after)
       /\ tail' = (Cardinality(after) < Limit)
    /\ failed' = FALSE
    /\ pc' = "send"
    /\ UNCHANGED <<dbVars, stopping, seq, job, cursor, replay, told, link, tabVars, saved>>

\* A failing query is logged, tried once more without await, and then answered
\* by no rows: the generator cannot tell it from a job that has none.
FetchFails ==
    /\ pc = "fetch"
    /\ batch' = {} /\ tail' = TRUE /\ failed' = TRUE
    /\ pc' = "send"
    /\ UNCHANGED <<dbVars, stopping, seq, job, cursor, replay, told, link, tabVars, saved>>

\* One row of the batch is yielded, unless the backend is shutting down.
Send ==
    /\ pc = "send" /\ batch # {}
    /\ \/ stopping /\ Hangup
       \/ /\ ~stopping
          /\ \E i \in batch :
                /\ \A j \in batch : i <= j
                /\ batch' = batch \ {i}
                /\ cursor' = i /\ seq' = i
                /\ got' = got \cup {i} /\ seen' = seen \cup {i}
          /\ UNCHANGED <<dbVars, stopping, pc, job, replay, told, tail, failed, link, url, saved>>

\* The batch is out.  A replay that has come to the tail announces live mode;
\* a tab that still holds the replayed events back saves the ID of the frame.
Mode ==
    /\ pc = "send" /\ batch = {}
    /\ pc' = "status"
    /\ \/ /\ replay /\ tail
          /\ replay' = FALSE
          /\ seq' = seq + 1
          /\ saved' \in {saved, seq + 1}
       \/ ~(replay /\ tail) /\ UNCHANGED <<replay, seq, saved>>
    /\ UNCHANGED <<dbVars, stopping, job, cursor, told, batch, tail, failed, link, tabVars>>

\* Mutant: the frame tells the status of now, not the one read before the fetch.
StatusFresh ==
    /\ pc = "status"
    /\ told' = status
    /\ IF status # told THEN seq' = seq + 1 /\ saved' = seq + 1
                        ELSE UNCHANGED <<seq, saved>>
    /\ IF status = "DONE" THEN pc' = "closed" /\ link' = "ended"
       ELSE pc' = (IF replay THEN "top" ELSE "wait") /\ UNCHANGED link
    /\ UNCHANGED <<dbVars, stopping, job, cursor, replay, batch, tail, failed, tabVars>>

\* A changed status is told, in a frame whose ID the tab saves; a terminal one
\* ends the stream, and the tab closes its EventSource.  A replay goes on
\* without a pause.
Status ==
    /\ pc = "status"
    /\ told' = job
    /\ IF job # told THEN seq' = seq + 1 /\ saved' = seq + 1
                     ELSE UNCHANGED <<seq, saved>>
    /\ IF job = "DONE" THEN pc' = "closed" /\ link' = "ended"
       ELSE pc' = (IF replay THEN "top" ELSE "wait") /\ UNCHANGED link
    /\ UNCHANGED <<dbVars, stopping, job, cursor, replay, batch, tail, failed, tabVars>>

\* Mutant: a shutdown leaves the pause waiting.
WaitDeaf ==
    /\ pc = "wait" /\ ~stopping
    /\ pc' = "top"
    /\ UNCHANGED <<dbVars, stopping, seq, loopVars, link, tabVars, saved>>

\* wait_or_shutdown(0.5)
Wait ==
    /\ pc = "wait"
    /\ \/ stopping /\ Hangup
       \/ /\ ~stopping
          /\ pc' = "top"
          /\ UNCHANGED <<dbVars, stopping, seq, loopVars, link, tabVars, saved>>

\* The backend is told to shut down; it starts again without any stream.
Shutdown ==
    /\ ~stopping
    /\ stopping' = TRUE
    /\ UNCHANGED <<dbVars, pc, seq, loopVars, link, tabVars, saved>>

Restart ==
    /\ stopping /\ pc = "closed"
    /\ stopping' = FALSE
    /\ UNCHANGED <<dbVars, pc, seq, loopVars, link, tabVars, saved>>

-----------------------------------------------------------------------------
(* The tab *)

\* A stream after row ID start is opened; it begins with a stream.mode frame.
Stream(start) ==
    /\ link' = "up" /\ url' = start
    /\ pc' = "top" /\ job' = "none" /\ cursor' = start
    /\ seq' = start + 1
    /\ replay' = TRUE /\ told' = "none" /\ batch' = {} /\ tail' = FALSE /\ failed' = FALSE
    /\ got' = {}
    /\ UNCHANGED <<dbVars, stopping, seen, saved>>

\* A job is followed from its first row, as it starts or after a page refresh.
Connect == link = "new" /\ Stream(0)

\* EventSource reconnects by itself, to its URL.
Retry == link = "down" /\ Stream(url)

\* scheduleReconnect, after EventSource gave up, or after an automatic resume
\* of the interrupted job: a new EventSource after the saved ID.
Reconnect ==
    /\ link = "down" \/ (link = "ended" /\ status = "RUNNING")
    /\ saved <= MaxId
    /\ Stream(saved)

\* The connection breaks, or the generator ends on an error.
Break == link = "up" /\ Hangup

-----------------------------------------------------------------------------
Generator == Top \/ Fetch \/ FetchFails \/ Send \/ Mode \/ Status \/ Wait

Next ==
    \/ Insert
    \/ \E i \in open : Commit(i)
    \/ \E st \in {"RUNNING", "DONE", "none"} : SetStatus(st)
    \/ Generator
    \/ Shutdown \/ Restart
    \/ Connect \/ Retry \/ Reconnect \/ Break

Spec == Init /\ [][Next]_vars

\* The backend's event loop keeps running a generator whose client takes its
\* frames, and a database that is asked again and again answers in the end.
\* Nothing else has to happen.
FairSpec == Spec /\ WF_vars(Generator) /\ SF_vars(Fetch)

-----------------------------------------------------------------------------
TypeOK ==
    /\ lastId \in 0 .. MaxId /\ url \in 0 .. MaxId
    /\ rows \subseteq 1 .. lastId /\ open \subseteq 1 .. lastId
    /\ status \in {"RUNNING", "DONE", "none"}
    /\ stopping \in BOOLEAN /\ over \in BOOLEAN
    /\ pc \in {"closed", "top", "fetch", "send", "status", "wait"}
    /\ job \in {"RUNNING", "DONE", "none"} /\ told \in {"RUNNING", "DONE", "none"}
    /\ cursor \in Nat /\ seq \in Nat /\ saved \in Nat
    /\ replay \in BOOLEAN /\ tail \in BOOLEAN /\ failed \in BOOLEAN
    /\ batch \subseteq rows /\ got \subseteq rows /\ seen \subseteq rows
    /\ final \subseteq rows
    /\ link \in {"new", "up", "down", "ended"}
    /\ pc # "closed" <=> link = "up"

\* A stream has delivered exactly the job's rows between the ID it was opened
\* with and its cursor: none is passed over, although rows are written while
\* a batch is under way, and fetches are cut off at three different limits.
NoRowPassedOver ==
    pc # "closed" => got = {i \in rows : url < i /\ i <= cursor}

\* When the tab is told that the job is over, it has every row after its URL
\* that was there when the job first ended: the status is read before the rows
\* are fetched, so rows and then status cannot be written in between unseen.
\* That is so whatever failed before; a failure of the last fetch itself, or
\* more rows left than one fetch returns, goes unnoticed.
EndIsComplete ==
    link = "ended" /\ tail /\ ~failed => \A i \in final : i <= url \/ i \in got

\* A row after the URL of a stream is delivered on it, unless the stream ends:
\* fetches that fail delay it.
RowsArrive ==
    \A i \in 1 .. MaxId :
        link = "up" /\ i \in rows /\ url < i ~> link # "up" \/ i \in got

\* A stream of a job that stays in a terminal status ends, as does every
\* stream of a backend that shuts down.
StreamsEnd ==
    /\ <>[](status = "DONE") => []<>(link # "up")
    /\ stopping /\ link = "up" ~> link # "up"

\* Rows, cursor and stream are an EventStream that leaves no row out, when
\* transactions are serialised.
Promise == INSTANCE EventStream WITH
    Ids <- 0 .. MaxId, up <- pc # "closed", start <- url, at <- cursor, lossy <- ~Serial
StreamSpec == Promise!StreamSpec
=============================================================================
