------------------------------ MODULE SsePubSub ------------------------------
(***************************************************************************)
(* The event stream of one job from PostgreSQL.                            *)
(*                                                                         *)
(*   routes/jobs.py        _sse_generator, _sse_generator_postgres         *)
(*   jobs/event_store.py   INSERT and pg_notify in one transaction,        *)
(*                         get_events_async, get_event_by_id_async         *)
(*                                                                         *)
(* The generator listens on the job's channel before it fetches the rows   *)
(* there are, fetches once more what was written meanwhile, and then takes *)
(* one notification at a time: the ID of a row, which it looks up.  When   *)
(* none came for 5 seconds it fetches the rows after its cursor.  After    *)
(* the job's terminal status it only drains the notifications it has.      *)
(*                                                                         *)
(* Transactions of several writers commit in any order.  Notifications of  *)
(* committed transactions come in the order of the commits, at any time    *)
(* later, until the listening connection is lost, which the generator      *)
(* never notices.  A fetch whose query fails twice returns no rows, and    *)
(* the look-up of a row that fails returns none.                           *)
(***************************************************************************)
EXTENDS Naturals, Sequences, FiniteSets

CONSTANTS
    HistoryLimit, ReconcileLimit, FallbackLimit,  \* 10000, 1000 and 100 rows
    MaxId,    \* bound: row IDs in a behaviour
    Starts    \* bound: the IDs that clients ask for the rows after

ASSUME PubSubAssumption ==
    /\ HistoryLimit \in Nat \ {0} /\ ReconcileLimit \in Nat \ {0}
    /\ FallbackLimit \in Nat \ {0}
    /\ MaxId \in Nat /\ Starts \subseteq 0 .. MaxId

VARIABLES
    lastId,    \* the newest ID the sequence of job_events gave
    open,      \* IDs of rows of this job in transactions not yet committed
    rows,      \* IDs of the committed rows of this job
    status,    \* of the job: "RUNNING", "DONE" (any terminal one), "none"
    over,      \* history: the job has been DONE
    final,     \* history: rows there when the job was first DONE
    stopping,  \* is_shutting_down
    pc,        \* where the generator stands; "closed": there is none
    stage,     \* which fetch: "history", "reconcile" or, in the loop, "live"
    job,       \* the status it read before the history
    cursor,    \* last_event_id
    batch,     \* fetched rows not yet yielded
    listening, \* its asyncpg connection is up and has the listener
    notes,     \* notifications sent to it and not yet taken, in order
    url,       \* start_event_id
    got,       \* history: rows delivered on this stream
    lossy,     \* history: this stream may leave rows out, since a row committed
               \* below another one, a query failed or the second fetch was cut off
    unheard    \* history: notifications were lost or come too late for its end

dbVars == <<lastId, open, rows, status, over, final>>
noteVars == <<listening, notes>>
mishaps == <<lossy, unheard>>
streamVars == <<stage, job, cursor, batch, url, got>>
vars == <<dbVars, stopping, pc, noteVars, streamVars, mishaps>>

Init ==
    /\ lastId = 0 /\ open = {} /\ rows = {}
    /\ status = "RUNNING" /\ over = FALSE /\ final = {}
    /\ stopping = FALSE
    /\ pc = "closed" /\ stage = "history" /\ job = "none" /\ cursor = 0
    /\ batch = {} /\ listening = FALSE /\ notes = <<>>
    /\ url = 0 /\ got = {} /\ lossy = FALSE /\ unheard = FALSE

\* There is a stream.
Up == pc \notin {"closed", "ended", "polling"}

-----------------------------------------------------------------------------
(* The database *)

\* A transaction of some writer inserts a row.
Insert ==
    /\ lastId < MaxId
    /\ lastId' = lastId + 1
    /\ open' = open \cup {lastId'}
    /\ UNCHANGED <<rows, status, over, final, stopping, pc, noteVars, streamVars, mishaps>>

\* It fails, or commits and with it its notification goes out.
Commit(i) ==
    /\ i \in open /\ open' = open \ {i}
    /\ \/ UNCHANGED <<rows, notes, mishaps>>
       \/ /\ rows' = rows \cup {i}
          /\ notes' = IF listening THEN Append(notes, i) ELSE notes
          /\ lossy' = (lossy \/ (Up /\ \E j \in rows : i < j))
          /\ UNCHANGED unheard
    /\ UNCHANGED <<lastId, status, over, final, stopping, pc, listening, streamVars>>

\* The job ends, is resumed, or is deleted.
SetStatus(st) ==
    /\ status # "none" /\ st # status
    /\ status' = st
    /\ over' = (over \/ st = "DONE")
    /\ final' = IF st = "DONE" /\ ~over THEN rows ELSE final
    /\ UNCHANGED <<lastId, open, rows, stopping, pc, noteVars, streamVars, mishaps>>

\* The listening connection is lost, with what had not arrived.
LoseConnection ==
    /\ listening /\ listening' = FALSE
    /\ \E n \in 0 .. Len(notes) : notes' = SubSeq(notes, 1, n)
    /\ unheard' = TRUE
    /\ UNCHANGED <<dbVars, stopping, pc, streamVars, lossy>>

-----------------------------------------------------------------------------
(* The generator *)

Leave(to) ==
    /\ pc' = to
    /\ listening' = FALSE /\ notes' = <<>> /\ batch' = {}
    /\ stage' = "history" /\ job' = "none" /\ cursor' = 0
    /\ \/ /\ to = "ended"
          /\ unheard' = (unheard \/ (pc = "drain" /\ notes # <<>>))
          /\ UNCHANGED <<url, got, lossy>>
       \/ /\ to # "ended"
          /\ url' = 0 /\ got' = {} /\ lossy' = FALSE /\ unheard' = FALSE
    /\ UNCHANGED <<dbVars, stopping>>

\* A client asks for the rows after an ID.
Open(s) ==
    /\ pc \in {"closed", "ended", "polling"}
    /\ pc' = "listen" /\ cursor' = s /\ url' = s /\ got' = {}
    /\ lossy' = FALSE /\ unheard' = FALSE
    /\ UNCHANGED <<dbVars, stopping, stage, job, batch, noteVars>>

\* connect and add_listener; an exception starts the polling generator.
Listen ==
    /\ pc = "listen"
    /\ \/ /\ pc' = "first" /\ listening' = TRUE
          /\ UNCHANGED <<dbVars, stopping, notes, streamVars, mishaps>>
       \/ Leave("polling")

\* get_job, before anything is fetched; a job that is over is replayed.
First ==
    /\ pc = "first"
    /\ \/ /\ status # "none"
          /\ job' = status /\ pc' = "fetch"
          /\ UNCHANGED <<dbVars, stopping, noteVars, stage, cursor, batch, url, got, mishaps>>
       \/ status = "none" /\ Leave("closed")
       \/ Leave("polling")

Limit == CASE stage = "history"   -> HistoryLimit
           [] stage = "reconcile" -> ReconcileLimit
           [] stage = "live"      -> FallbackLimit

\* ORDER BY id LIMIT n
FirstOf(n, ids) == {i \in ids : Cardinality({j \in ids : j < i}) < n}

\* get_events_async: rows after the cursor.  What the second fetch leaves behind
\* is not fetched again.
FetchRows ==
    /\ pc = "fetch" /\ pc' = "send"
    /\ LET after == {i \in rows : i > cursor} IN
       /\ batch' = FirstOf(Limit, after)
       /\ lossy' = (lossy \/ (stage = "reconcile" /\ Cardinality(after) > Limit))
    /\ UNCHANGED <<dbVars, stopping, noteVars, stage, job, cursor, url, got, unheard>>

\* Its query fails, on both engines: it returns no rows.
FetchFails ==
    /\ pc = "fetch" /\ pc' = "send"
    /\ lossy' = (lossy \/ stage = "reconcile")
    /\ UNCHANGED <<dbVars, stopping, noteVars, streamVars, unheard>>

\* One row of the batch is yielded.
Send ==
    /\ pc = "send"
    /\ \E i \in batch :
          /\ \A j \in batch : i <= j
          /\ batch' = batch \ {i}
          /\ cursor' = i /\ got' = got \cup {i}
    /\ UNCHANGED <<dbVars, stopping, pc, noteVars, stage, job, url, mishaps>>

\* Mutant: no second fetch.
SentNoReconcile ==
    /\ pc = "send" /\ batch = {}
    /\ \/ /\ stage # "live" /\ job = "DONE"
          /\ Leave("ended")
       \/ /\ stage # "live" /\ job # "DONE"
          /\ stage' = "live" /\ pc' = "top"
          /\ UNCHANGED <<dbVars, stopping, noteVars, job, cursor, batch, url, got, mishaps>>
       \/ /\ stage = "live"
          /\ pc' = "status"
          /\ UNCHANGED <<dbVars, stopping, noteVars, streamVars, mishaps>>

\* The batch is out.  After the history stream.mode is told and a second fetch
\* follows; after that, the stream of a job that was already over ends.
Sent ==
    /\ pc = "send" /\ batch = {}
    /\ \/ /\ stage = "history"
          /\ stage' = "reconcile" /\ pc' = "fetch"
          /\ UNCHANGED <<dbVars, stopping, noteVars, job, cursor, batch, url, got, mishaps>>
       \/ /\ stage = "reconcile" /\ job = "DONE"
          /\ Leave("ended")
       \/ /\ stage = "reconcile" /\ job # "DONE"
          /\ stage' = "live" /\ pc' = "top"
          /\ UNCHANGED <<dbVars, stopping, noteVars, job, cursor, batch, url, got, mishaps>>
       \/ /\ stage = "live"
          /\ pc' = "status"
          /\ UNCHANGED <<dbVars, stopping, noteVars, streamVars, mishaps>>

\* Mutant: the loop does not look at the shutdown flag.
TopBlind ==
    /\ pc = "top" /\ pc' = "wait"
    /\ UNCHANGED <<dbVars, stopping, noteVars, streamVars, mishaps>>

\* The top of the loop: job.shutdown ends the stream.
Top ==
    /\ pc = "top"
    /\ \/ stopping /\ Leave("closed")
       \/ ~stopping /\ pc' = "wait" /\ UNCHANGED <<dbVars, stopping, noteVars, streamVars, mishaps>>

\* The notification at the head of the queue: a row after the cursor is looked
\* up and yielded; a look-up that fails leaves it out.
Take ==
    /\ notes # <<>> /\ notes' = Tail(notes)
    /\ \/ /\ Head(notes) > cursor
          /\ cursor' = Head(notes) /\ got' = got \cup {Head(notes)}
          /\ UNCHANGED lossy
       \/ /\ Head(notes) > cursor
          /\ lossy' = TRUE
          /\ UNCHANGED <<cursor, got>>
       \/ Head(notes) <= cursor /\ UNCHANGED <<cursor, got, lossy>>
    /\ UNCHANGED <<unheard, dbVars, stopping, listening, stage, job, batch, url>>

Notified == pc = "wait" /\ pc' = "status" /\ Take

\* Mutant: a wait that times out fetches nothing.
TimedOutIdle ==
    /\ pc = "wait" /\ pc' = "status"
    /\ UNCHANGED <<dbVars, stopping, noteVars, streamVars, mishaps>>

\* None came within 5 seconds.
TimedOut ==
    /\ pc = "wait" /\ pc' = "fetch"
    /\ UNCHANGED <<dbVars, stopping, noteVars, streamVars, mishaps>>

\* Mutant: the stream ends with the terminal status.
StatusEnds ==
    /\ pc = "status"
    /\ \/ /\ status = "DONE" /\ Leave("ended")
       \/ /\ status = "RUNNING"
          /\ pc' = "top"
          /\ UNCHANGED <<dbVars, stopping, noteVars, stage, job, cursor, batch, url, got, mishaps>>
       \/ Leave("closed")

\* Mutant: an exception in the loop starts the polling generator.
StatusFallsBack ==
    /\ pc = "status"
    /\ \/ /\ status # "none"
          /\ pc' = IF status = "DONE" THEN "drain" ELSE "top"
          /\ UNCHANGED <<dbVars, stopping, noteVars, stage, job, cursor, batch, url, got, mishaps>>
       \/ Leave("polling")

\* get_job; a changed status is told.  When the job is gone, or on an exception,
\* job.error ends the stream.
Status ==
    /\ pc = "status"
    /\ \/ /\ status # "none"
          /\ pc' = IF status = "DONE" THEN "drain" ELSE "top"
          /\ UNCHANGED <<dbVars, stopping, noteVars, stage, job, cursor, batch, url, got, mishaps>>
       \/ Leave("closed")

\* Half a second after the terminal status was told, the notifications that
\* are there are taken; then the stream ends.
Drain == pc = "drain" /\ pc' = "drain" /\ Take

DrainEnd == pc = "drain" /\ Leave("ended")

-----------------------------------------------------------------------------
\* The backend is told to shut down; it starts again without any stream.
Shutdown ==
    /\ ~stopping /\ stopping' = TRUE
    /\ UNCHANGED <<dbVars, pc, noteVars, streamVars, mishaps>>

Restart ==
    /\ stopping /\ pc \in {"closed", "ended"} /\ stopping' = FALSE
    /\ UNCHANGED <<dbVars, pc, noteVars, streamVars, mishaps>>

\* The client goes away, or the shutdown cancels the generator's task.
Break ==
    /\ pc \notin {"closed", "ended"} /\ Leave("closed")

Generator ==
    \/ Listen \/ First \/ FetchRows \/ FetchFails \/ Send \/ Sent \/ Top \/ Notified \/ TimedOut
    \/ Status \/ Drain \/ DrainEnd

Next ==
    \/ Insert
    \/ \E i \in open : Commit(i)
    \/ \E st \in {"RUNNING", "DONE", "none"} : SetStatus(st)
    \/ LoseConnection
    \/ \E s \in Starts : Open(s)
    \/ Generator
    \/ Shutdown \/ Restart \/ Break

Spec == Init /\ [][Next]_vars

\* The backend's event loop keeps running a generator whose client takes its
\* frames, and a wait for a notification ends after 5 seconds.  A query that is
\* made again and again does not fail for ever.
FairSpec == Spec /\ WF_vars(Generator) /\ SF_vars(FetchRows)

-----------------------------------------------------------------------------
TypeOK ==
    /\ lastId \in 0 .. MaxId
    /\ rows \subseteq 1 .. lastId /\ open \subseteq 1 .. lastId
    /\ open \cap rows = {}
    /\ status \in {"RUNNING", "DONE", "none"} /\ over \in BOOLEAN /\ final \subseteq rows
    /\ stopping \in BOOLEAN
    /\ pc \in {"closed", "ended", "polling", "listen", "first", "fetch", "send",
               "top", "wait", "status", "drain"}
    /\ stage \in {"history", "reconcile", "live"}
    /\ job \in {"RUNNING", "DONE", "none"}
    /\ cursor \in Nat /\ url \in Nat
    /\ batch \subseteq rows /\ got \subseteq rows
    /\ pc = "send" \/ batch = {}
    /\ listening \in BOOLEAN /\ (listening => Up)
    /\ notes \in Seq(Nat) /\ \A n \in 1 .. Len(notes) : notes[n] \in rows
    /\ lossy \in BOOLEAN /\ unheard \in BOOLEAN

\* A stream has delivered exactly the rows between the ID it was opened with
\* and its cursor, over history, reconciliation, notifications and fallback
\* fetches, even when it has long lost its notifications; unless rows committed
\* below others, a query failed or the second fetch was cut off.
NoRowPassedOver ==
    Up /\ ~lossy => got = {i \in rows : url < i /\ i <= cursor}

\* A stream that ends after the terminal status has delivered every row that
\* was there when the job first ended, whichever order rows, notifications and
\* status came in.
EndIsComplete ==
    pc = "ended" /\ ~lossy /\ ~unheard => \A i \in final : i <= url \/ i \in got

\* The polling generator takes over from the first ID only before a row was
\* delivered, so the hand-over repeats none; afterwards the cursor only
\* goes forward.
NothingTwice ==
    [][ /\ pc' = "polling" => got = {}
        /\ Up /\ got' # got /\ got' # {} => cursor' > cursor ]_vars

\* A row after the ID that a stream was opened with is delivered, unless the
\* stream ends, or leaves rows out for one of the reasons above: a lost
\* connection or notification is none.
RowsArrive ==
    \A i \in 1 .. MaxId :
        Up /\ i \in rows /\ url < i ~> ~Up \/ lossy \/ i \in got

\* A stream of a job that stays in a terminal status ends, as does every
\* stream of a backend that shuts down.
StreamsEnd ==
    /\ <>[](status = "DONE") => []<>~Up
    /\ stopping /\ Up ~> ~Up

\* Rows, cursor and stream are an EventStream.
Promise == INSTANCE EventStream WITH
    Ids <- 0 .. MaxId, up <- Up, start <- url, at <- cursor
StreamSpec == Promise!StreamSpec
=============================================================================
