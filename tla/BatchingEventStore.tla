------------------------- MODULE BatchingEventStore -------------------------
(***************************************************************************)
(* jobs/event_store.py, class BatchingEventStore: the buffer in front of   *)
(* the job_events table of one job run.  The threads that report progress  *)
(* call store(), the runner calls flush(), and a threading.Timer armed by  *)
(* the first buffered event calls _flush().  All of them work under _lock, *)
(* which stays held during the database transaction of store_batch().      *)
(*                                                                         *)
(* Cancelling a Timer has no effect once its callback has started to run:  *)
(* such a callback ("expired") waits for the lock and flushes whatever the *)
(* buffer holds by then, even when _timer is another Timer or None.        *)
(*                                                                         *)
(* An event is the number of the store() call that buffered it, in the     *)
(* order in which the calls got the lock.                                  *)
(***************************************************************************)
EXTENDS Naturals, Sequences

CONSTANTS Callers,    \* threads that call store() and flush()
          Timers,     \* Timer objects; an idle one is not running
          NoOne,      \* Python's None, for _timer and for a free lock
          MaxBatch,   \* MAX_BATCH_SIZE
          MaxEvents   \* bound: calls of store() in a behaviour

ASSUME BatchAssumption ==
    /\ MaxBatch \in Nat \ {0}
    /\ MaxEvents \in Nat
    /\ Callers \cap Timers = {}
    /\ NoOne \notin Callers \cup Timers

VARIABLES
    buffer,     \* _buffer
    timer,      \* _timer
    lock,       \* the thread that holds _lock
    timerState, \* of each Timer: "idle" | "armed" | "expired"
    batch,      \* the batch the lock holder is writing
    table,      \* the rows of job_events of this job, oldest first
    submitted,  \* store() calls so far
    settled,    \* the newest event a finished store_batch() has dealt with
    alive       \* the worker process runs

bufferVars == <<buffer, timer, timerState>>
dbVars == <<table, settled>>
vars == <<buffer, timer, lock, timerState, batch, table, submitted, settled, alive>>

Threads == Callers \cup Timers
Idle == {t \in Timers : timerState[t] = "idle"}

Init ==
    /\ buffer = <<>>
    /\ timer = NoOne
    /\ lock = NoOne
    /\ timerState = [t \in Timers |-> "idle"]
    /\ batch = <<>>
    /\ table = <<>>
    /\ submitted = 0
    /\ settled = 0
    /\ alive = TRUE

-----------------------------------------------------------------------------
\* Timer.cancel(): stops a Timer that still waits, and only that.
Cancelled(ts, t) ==
    IF t # NoOne /\ ts[t] = "armed" THEN [ts EXCEPT ![t] = "idle"] ELSE ts

\* Mutant: the flush cancels the Timer and keeps the reference.
FlushKeepsTimer(th, buf, ts) ==
    /\ timerState' = Cancelled(ts, timer)
    /\ timer' = timer
    /\ buffer' = <<>>
    /\ batch' = buf
    /\ lock' = IF buf = <<>> THEN NoOne ELSE th

\* Mutant: the flushed events stay in the buffer.
FlushKeepsBuffer(th, buf, ts) ==
    /\ timerState' = Cancelled(ts, timer)
    /\ timer' = NoOne
    /\ buffer' = buf
    /\ batch' = buf
    /\ lock' = IF buf = <<>> THEN NoOne ELSE th

\* _flush_locked() of thread th up to the database call, on a buffer holding
\* buf, with ts the state of the Timers: the timer is dropped first, then an
\* empty buffer ends the flush; otherwise the buffer becomes the batch that
\* th writes while it keeps the lock.
FlushLocked(th, buf, ts) ==
    /\ timerState' = Cancelled(ts, timer)
    /\ timer' = NoOne
    /\ buffer' = <<>>
    /\ batch' = buf
    /\ lock' = IF buf = <<>> THEN NoOne ELSE th

StartTimer ==
    \E t \in Idle : /\ timer' = t
                    /\ timerState' = [timerState EXCEPT ![t] = "armed"]

\* store(): append; a full buffer is flushed, otherwise the first buffered
\* event arms the timer.
Store(c) ==
    /\ alive /\ lock = NoOne
    /\ submitted < MaxEvents
    /\ submitted' = submitted + 1
    /\ LET buf == Append(buffer, submitted + 1) IN
       \/ /\ Len(buf) >= MaxBatch
          /\ FlushLocked(c, buf, timerState)
       \/ /\ Len(buf) < MaxBatch
          /\ buffer' = buf
          /\ IF timer = NoOne THEN StartTimer ELSE UNCHANGED <<timer, timerState>>
          /\ UNCHANGED <<lock, batch>>
    /\ UNCHANGED <<dbVars, alive>>

\* flush(), the runner's forced flush.
Flush(c) ==
    /\ alive /\ lock = NoOne
    /\ FlushLocked(c, buffer, timerState)
    /\ UNCHANGED <<dbVars, submitted, alive>>

\* The interval of an armed Timer is over: its callback starts.
Expire(t) ==
    /\ alive /\ timerState[t] = "armed"
    /\ timerState' = [timerState EXCEPT ![t] = "expired"]
    /\ UNCHANGED <<buffer, timer, lock, batch, dbVars, submitted, alive>>

\* _flush() in the callback, once it has the lock.
TimerFlush(t) ==
    /\ alive /\ lock = NoOne
    /\ timerState[t] = "expired"
    /\ FlushLocked(t, buffer, [timerState EXCEPT ![t] = "idle"])
    /\ UNCHANGED <<dbVars, submitted, alive>>

\* EventStore.store_batch(): one transaction inserts the rows in order.
BatchStored ==
    /\ alive /\ lock # NoOne
    /\ table' = table \o batch
    /\ settled' = batch[Len(batch)]
    /\ batch' = <<>>
    /\ lock' = NoOne
    /\ UNCHANGED <<bufferVars, submitted, alive>>

\* store_batch() fails: the database error is logged and dropped, or
\* json.dumps raises out of store_batch; either way no row is inserted, the
\* batch is already gone from the buffer, and `with` releases the lock.
BatchFailed ==
    /\ alive /\ lock # NoOne
    /\ settled' = batch[Len(batch)]
    /\ batch' = <<>>
    /\ lock' = NoOne
    /\ UNCHANGED <<bufferVars, table, submitted, alive>>

\* The worker process dies; its memory is gone, its daemon Timers with it.
Crash ==
    /\ alive
    /\ alive' = FALSE
    /\ buffer' = <<>> /\ batch' = <<>>
    /\ lock' = NoOne /\ timer' = NoOne
    /\ timerState' = [t \in Timers |-> "idle"]
    /\ UNCHANGED <<dbVars, submitted>>

Next ==
    \/ \E c \in Callers : Store(c) \/ Flush(c)
    \/ \E t \in Timers : Expire(t) \/ TimerFlush(t)
    \/ BatchStored
    \/ BatchFailed
    \/ Crash

Spec == Init /\ [][Next]_vars

\* The interpreter runs a started Timer and lets a waiting callback have the
\* lock; the database driver returns or raises.  Nobody has to call store()
\* or flush().
FairSpec ==
    /\ Spec
    /\ \A t \in Timers : WF_vars(Expire(t)) /\ WF_vars(TimerFlush(t))
    /\ WF_vars(BatchStored \/ BatchFailed)

-----------------------------------------------------------------------------
TypeOK ==
    /\ buffer \in Seq(Nat) /\ batch \in Seq(Nat) /\ table \in Seq(Nat)
    /\ timer \in Timers \cup {NoOne}
    /\ lock \in Threads \cup {NoOne}
    /\ timerState \in [Timers -> {"idle", "armed", "expired"}]
    /\ submitted \in Nat /\ settled \in Nat
    /\ alive \in BOOLEAN

\* Events that a buffered event waits for: whenever the lock is free and the
\* buffer holds something, the Timer that _timer names is armed or its
\* callback is about to flush, so no event is ever left behind in the buffer
\* without something that will flush it.
BufferedIsTimed ==
    alive /\ lock = NoOne /\ buffer # <<>> =>
        timer # NoOne /\ timerState[timer] # "idle"

\* At most one Timer is waiting at any time, the one _timer names: a flush by
\* size or by flush() never leaves a second one armed.
OneArmedTimer ==
    \A t \in Timers : timerState[t] = "armed" => timer = t

\* What was not yet settled fits in one batch: a crash of the worker loses at
\* most the newest MaxBatch events, because store() waits while a batch is
\* being written.
OutstandingFitsBatch == alive => submitted - settled <= MaxBatch

\* The rows of the job are in the order of the store() calls, without
\* duplicates, whichever threads flushed them.
StoreOrder == \A i, j \in DOMAIN table : i < j => table[i] < table[j]

\* Every event not yet settled is still in memory, oldest first: an event is
\* never lost on the way from the buffer to a batch.
NoneVanishes ==
    alive => /\ Len(batch) + Len(buffer) = submitted - settled
             /\ \A i \in DOMAIN batch : batch[i] = settled + i
             /\ \A i \in DOMAIN buffer : buffer[i] = settled + Len(batch) + i

\* With no further call of store() or flush(), a stored event does not stay
\* in memory for ever: its batch is written, or reported as failed.
EventuallySettled ==
    \A n \in 1 .. MaxEvents : submitted >= n ~> settled >= n \/ ~alive

\* The buffer, timer and lock together are the abstract event log.
Log == INSTANCE EventLog WITH Window <- MaxBatch, accepted <- submitted, log <- table
ImplementsLog == Log!LogSpec
=============================================================================
