---------------------- MODULE BatchingEventStore_proofs ----------------------
(***************************************************************************)
(* Proofs about BatchingEventStore, for every number of threads, Timers    *)
(* and events and every MAX_BATCH_SIZE.                                    *)
(***************************************************************************)
EXTENDS BatchingEventStore, TLAPS

\* The lock and the batch belong together, and a buffer never reaches the
\* size at which store() flushes it.
LockedBatch ==
    /\ lock = NoOne <=> batch = <<>>
    /\ lock # NoOne => buffer = <<>>
    /\ Len(buffer) < MaxBatch /\ Len(batch) <= MaxBatch
    /\ ~alive => lock = NoOne /\ buffer = <<>>

\* A row is never newer than what is settled.
TableSettled == \A i \in DOMAIN table : table[i] <= settled

\* A Timer that _timer names was started and its callback has not run yet.
TimerRuns == timer # NoOne => timerState[timer] # "idle"

IInv ==
    /\ TypeOK
    /\ LockedBatch
    /\ TimerRuns
    /\ BufferedIsTimed
    /\ OneArmedTimer
    /\ NoneVanishes
    /\ TableSettled
    /\ StoreOrder

-----------------------------------------------------------------------------
\* Appending the run n + 1, n + 2, ... to an increasing sequence that ends at
\* or below n gives an increasing sequence that ends at the last of the run.
LEMMA AppendRun ==
    ASSUME NEW s \in Seq(Nat), NEW r \in Seq(Nat), NEW n \in Nat,
           \A i \in DOMAIN s : s[i] <= n,
           \A i, j \in DOMAIN s : i < j => s[i] < s[j],
           \A i \in DOMAIN r : r[i] = n + i
    PROVE  /\ s \o r \in Seq(Nat)
           /\ \A i \in DOMAIN (s \o r) : (s \o r)[i] <= n + Len(r)
           /\ \A i, j \in DOMAIN (s \o r) : i < j => (s \o r)[i] < (s \o r)[j]
<1> DEFINE q == s \o r
           l == Len(s)
           m == Len(r)
<1>1. l \in Nat /\ m \in Nat /\ DOMAIN s = 1 .. l /\ DOMAIN r = 1 .. m
  OBVIOUS
<1>2. q \in Seq(Nat) /\ DOMAIN q = 1 .. l + m
  OBVIOUS
<1>3. \A i \in 1 .. l : q[i] = s[i] /\ s[i] \in Nat
  OBVIOUS
<1>4. ASSUME NEW i \in 1 .. l + m, i > l PROVE q[i] = n + (i - l)
  <2>1. q[i] = r[i - l]
    BY <1>1, <1>4
  <2>2. i - l \in 1 .. m
    BY <1>1, <1>4
  <2>3. QED
    BY <1>1, <2>1, <2>2
<1> HIDE DEF q, l, m
<1>5. ASSUME NEW i \in 1 .. l + m PROVE q[i] <= n + m
  <2>1. CASE i <= l
    <3>1. i \in DOMAIN s /\ q[i] = s[i] /\ s[i] \in Nat
      BY <1>1, <1>3, <2>1
    <3>2. s[i] <= n
      BY <3>1, Zenon
    <3>3. QED
      BY <1>1, <3>1, <3>2
  <2>2. CASE i > l
    <3>1. q[i] = n + (i - l)
      BY <1>4, <2>2
    <3>2. QED
      BY <1>1, <3>1
  <2>3. QED
    BY <1>1, <2>1, <2>2
<1>6. ASSUME NEW i \in 1 .. l + m, NEW j \in 1 .. l + m, i < j PROVE q[i] < q[j]
  <2>1. CASE j <= l
    <3>1. i \in DOMAIN s /\ j \in DOMAIN s
      BY <1>1, <1>6, <2>1
    <3>2. s[i] < s[j]
      BY <1>6, <3>1, Zenon
    <3>3. QED
      BY <1>1, <1>3, <3>1, <3>2
  <2>2. CASE i <= l /\ j > l
    <3>1. q[i] \in Nat /\ q[i] <= n
      <4>1. i \in DOMAIN s /\ q[i] = s[i] /\ s[i] \in Nat
        BY <1>1, <1>3, <2>2
      <4>2. s[i] <= n
        BY <4>1, Zenon
      <4>3. QED
        BY <4>1, <4>2
    <3>2. q[j] = n + (j - l)
      BY <1>4, <2>2
    <3>3. QED
      BY <1>1, <2>2, <3>1, <3>2
  <2>3. CASE i > l
    BY <1>1, <1>4, <1>6, <2>3
  <2>4. QED
    BY <1>1, <2>1, <2>2, <2>3
<1>7. QED
  BY <1>2, <1>5, <1>6 DEF q, m

\* Cancelling any Timer reference yields Timer states again, changes only
\* that Timer, and leaves it unarmed.
LEMMA CancelledFacts ==
    ASSUME NEW ts \in [Timers -> {"idle", "armed", "expired"}],
           NEW x \in Timers \cup {NoOne}
    PROVE  /\ Cancelled(ts, x) \in [Timers -> {"idle", "armed", "expired"}]
           /\ \A t \in Timers : Cancelled(ts, x)[t] = "armed" => ts[t] = "armed" /\ t # x
  BY BatchAssumption DEF Cancelled

\* A flush of a buffer that holds the unsettled events in order keeps the
\* invariant, whoever runs it.
LEMMA FlushKeepsInv ==
    ASSUME IInv, alive, lock = NoOne,
           NEW th \in Threads, NEW buf \in Seq(Nat),
           NEW ts \in [Timers -> {"idle", "armed", "expired"}],
           \A t \in Timers : ts[t] = "armed" => timerState[t] = "armed",
           FlushLocked(th, buf, ts),
           Len(buf) <= MaxBatch,
           submitted' \in Nat,
           Len(buf) = submitted' - settled,
           \A i \in DOMAIN buf : buf[i] = settled + i,
           UNCHANGED <<dbVars, alive>>
    PROVE  IInv'
<1>1. th # NoOne
  BY BatchAssumption DEF Threads
<1>2. Cancelled(ts, timer) \in [Timers -> {"idle", "armed", "expired"}]
  BY CancelledFacts DEF IInv, TypeOK
<1>3. TypeOK'
  BY <1>2 DEF IInv, TypeOK, FlushLocked, dbVars
<1>4. LockedBatch'
  <2>1. buffer' = <<>> /\ batch' = buf /\ alive'
    BY DEF FlushLocked
  <2>2. Len(buffer') < MaxBatch /\ Len(batch') <= MaxBatch
    BY <2>1, BatchAssumption
  <2>3. lock' = NoOne <=> batch' = <<>>
    BY <1>1, <2>1 DEF FlushLocked
  <2>4. QED
    BY <2>1, <2>2, <2>3 DEF LockedBatch
<1>5. BufferedIsTimed' /\ TimerRuns'
  BY DEF BufferedIsTimed, TimerRuns, FlushLocked
<1>6. OneArmedTimer'
  <2>1. timerState' = Cancelled(ts, timer)
    BY DEF FlushLocked
  <2>2. \A t \in Timers : Cancelled(ts, timer)[t] = "armed" => ts[t] = "armed" /\ t # timer
    BY CancelledFacts DEF IInv, TypeOK
  <2>3. \A t \in Timers : timerState[t] = "armed" => timer = t
    BY DEF IInv, OneArmedTimer
  <2>4. \A t \in Timers : ~ (timerState'[t] = "armed")
    BY <2>1, <2>2, <2>3
  <2>5. QED
    BY <2>4 DEF OneArmedTimer
<1>7. NoneVanishes'
  BY DEF NoneVanishes, FlushLocked, dbVars, IInv, TypeOK
<1>8. TableSettled' /\ StoreOrder'
  BY DEF TableSettled, StoreOrder, dbVars, IInv
<1>9. QED
  BY <1>3, <1>4, <1>5, <1>6, <1>7, <1>8 DEF IInv

LEMMA StoreKeepsInv ==
    ASSUME IInv, NEW c \in Callers, Store(c)
    PROVE  IInv'
<1> DEFINE buf == Append(buffer, submitted + 1)
<1>1. buf \in Seq(Nat) /\ Len(buf) = Len(buffer) + 1 /\ submitted' \in Nat
  BY DEF IInv, TypeOK, Store
<1>2. Len(buf) = submitted' - settled /\ \A i \in DOMAIN buf : buf[i] = settled + i
  <2>1. batch = <<>> /\ alive /\ submitted' = submitted + 1
    BY DEF IInv, LockedBatch, Store
  <2>2. /\ Len(buffer) = submitted - settled
        /\ \A i \in DOMAIN buffer : buffer[i] = settled + i
        /\ buffer \in Seq(Nat) /\ submitted \in Nat /\ settled \in Nat
    <3>1. Len(batch) = 0
      BY <2>1
    <3>2. QED
      BY <2>1, <3>1 DEF IInv, TypeOK, NoneVanishes
  <2>3. Len(buf) = submitted' - settled
    BY <1>1, <2>1, <2>2
  <2>4. ASSUME NEW i \in DOMAIN buf
        PROVE  buf[i] = settled + i
    <3>1. CASE i \in DOMAIN buffer
      BY <2>2, <3>1
    <3>2. CASE i = Len(buffer) + 1
      BY <2>2, <3>2
    <3>3. QED
      BY <2>2, <2>4, <3>1, <3>2
  <2>5. QED
    BY <2>3, <2>4
<1>3. CASE /\ Len(buf) >= MaxBatch
           /\ FlushLocked(c, buf, timerState)
  <2>1. alive /\ lock = NoOne /\ UNCHANGED <<dbVars, alive>> /\ c \in Threads
    BY DEF Store, Threads
  <2>2. timerState \in [Timers -> {"idle", "armed", "expired"}]
    BY DEF IInv, TypeOK
  <2>3. Len(buf) <= MaxBatch
    BY <1>1, BatchAssumption DEF IInv, TypeOK, LockedBatch
  <2>4. FlushLocked(c, buf, timerState)
    BY <1>3
  <2>5. QED
    BY <1>1, <1>2, <2>1, <2>2, <2>3, <2>4, FlushKeepsInv
<1>4. CASE /\ Len(buf) < MaxBatch
           /\ buffer' = buf
           /\ IF timer = NoOne THEN StartTimer ELSE UNCHANGED <<timer, timerState>>
           /\ UNCHANGED <<lock, batch>>
  <2>1. /\ timer' \in Timers \cup {NoOne}
        /\ timerState' \in [Timers -> {"idle", "armed", "expired"}]
        /\ \A t \in Timers : timerState'[t] = "armed" =>
               timerState[t] = "armed" \/ t = timer'
        /\ timer = NoOne => timerState'[timer'] = "armed" /\ timer' \in Timers
        /\ timer # NoOne => UNCHANGED <<timer, timerState>>
    BY <1>4, BatchAssumption DEF StartTimer, Idle, IInv, TypeOK
  <2>2. TypeOK'
    BY <1>1, <1>4, <2>1 DEF IInv, TypeOK, Store, dbVars
  <2>3. LockedBatch'
    BY <1>1, <1>4 DEF IInv, LockedBatch, Store
  <2>4. BufferedIsTimed' /\ TimerRuns'
    <3>1. CASE timer = NoOne
      BY <2>1, <3>1, BatchAssumption DEF BufferedIsTimed, TimerRuns
    <3>2. CASE timer # NoOne
      <4>1. timerState[timer] # "idle"
        BY <3>2 DEF IInv, TimerRuns
      <4>2. QED BY <4>1, <2>1, <3>2 DEF BufferedIsTimed, TimerRuns
    <3>3. QED BY <3>1, <3>2
  <2>5. OneArmedTimer'
    BY <2>1, BatchAssumption DEF OneArmedTimer, IInv, TypeOK
  <2>6. NoneVanishes'
    BY <1>1, <1>2, <1>4 DEF NoneVanishes, IInv, LockedBatch, TypeOK, Store, dbVars
  <2>7. TableSettled' /\ StoreOrder'
    BY DEF TableSettled, StoreOrder, dbVars, IInv, Store
  <2>8. QED
    BY <2>2, <2>3, <2>4, <2>5, <2>6, <2>7 DEF IInv
<1>5. QED
  BY <1>3, <1>4 DEF Store

\* A finished store_batch(), stored or failed, keeps the invariant.
LEMMA BatchDoneKeepsInv ==
    ASSUME IInv, BatchStored \/ BatchFailed
    PROVE  IInv'
<1>1. /\ batch # <<>> /\ buffer = <<>> /\ alive /\ alive'
      /\ batch' = <<>> /\ lock' = NoOne /\ settled' = batch[Len(batch)]
      /\ UNCHANGED <<buffer, timer, timerState, submitted>>
  BY DEF IInv, LockedBatch, BatchStored, BatchFailed, bufferVars
<1>2. /\ batch \in Seq(Nat) /\ table \in Seq(Nat) /\ Len(batch) \in Nat \ {0}
      /\ submitted \in Nat /\ settled \in Nat
  BY <1>1 DEF IInv, TypeOK
<1>3. /\ Len(batch) = submitted - settled
      /\ \A i \in DOMAIN batch : batch[i] = settled + i
  <2>1. Len(buffer) = 0
    BY <1>1
  <2>2. QED
    BY <1>1, <1>2, <2>1 DEF IInv, NoneVanishes
<1>4. settled' = submitted
  BY <1>1, <1>2, <1>3
<1>5. table' \in Seq(Nat) /\ TableSettled' /\ StoreOrder'
  <2>1. CASE BatchFailed
    <3>1. table' = table
      BY <2>1 DEF BatchFailed
    <3>2. QED
      BY <1>2, <1>3, <1>4, <3>1 DEF IInv, TableSettled, StoreOrder
  <2>2. CASE BatchStored
    <3>1. table' = table \o batch
      BY <2>2 DEF BatchStored
    <3>2. /\ \A i \in DOMAIN table : table[i] <= settled
          /\ \A i, j \in DOMAIN table : i < j => table[i] < table[j]
      BY DEF IInv, TableSettled, StoreOrder
    <3>3. /\ table' \in Seq(Nat)
          /\ \A i \in DOMAIN table' : table'[i] <= settled + Len(batch)
          /\ \A i, j \in DOMAIN table' : i < j => table'[i] < table'[j]
      BY <1>2, <1>3, <3>1, <3>2, AppendRun
    <3>4. settled' = settled + Len(batch)
      BY <1>2, <1>3, <1>4
    <3>5. QED
      BY <3>3, <3>4 DEF TableSettled, StoreOrder
  <2>3. QED
    BY <2>1, <2>2
<1>6. TypeOK'
  BY <1>1, <1>2, <1>4, <1>5 DEF IInv, TypeOK
<1>7. LockedBatch' /\ BufferedIsTimed' /\ TimerRuns' /\ OneArmedTimer'
  BY <1>1, BatchAssumption DEF IInv, LockedBatch, BufferedIsTimed, TimerRuns, OneArmedTimer
<1>8. NoneVanishes'
  BY <1>1, <1>2, <1>4 DEF NoneVanishes
<1>9. QED
  BY <1>5, <1>6, <1>7, <1>8 DEF IInv

LEMMA NextKeepsInv ==
    ASSUME IInv, [Next]_vars
    PROVE  IInv'
<1>1. ASSUME NEW c \in Callers, Store(c) PROVE IInv'
  BY <1>1, StoreKeepsInv
<1>2. ASSUME NEW c \in Callers, Flush(c) PROVE IInv'
  <2>1. batch = <<>> /\ alive /\ lock = NoOne
    BY <1>2 DEF Flush, IInv, LockedBatch
  <2>2. /\ buffer \in Seq(Nat) /\ Len(buffer) <= MaxBatch
        /\ Len(buffer) = submitted' - settled /\ submitted' \in Nat
        /\ \A i \in DOMAIN buffer : buffer[i] = settled + i
    <3>1. Len(batch) = 0
      BY <2>1
    <3>2. QED
      BY <1>2, <2>1, <3>1, BatchAssumption DEF Flush, IInv, LockedBatch, TypeOK, NoneVanishes
  <2>3. QED
    BY <1>2, <2>1, <2>2, FlushKeepsInv DEF Flush, IInv, TypeOK, Threads
<1>3. ASSUME NEW t \in Timers, Expire(t) PROVE IInv'
  <2>1. /\ timerState' \in [Timers -> {"idle", "armed", "expired"}]
        /\ \A u \in Timers : u # t => timerState'[u] = timerState[u]
        /\ timerState'[t] = "expired"
        /\ UNCHANGED <<buffer, timer, lock, batch, dbVars, submitted, alive>>
    BY <1>3 DEF Expire, IInv, TypeOK
  <2>2. TypeOK'
    BY <2>1 DEF IInv, TypeOK, dbVars
  <2>3. LockedBatch' /\ NoneVanishes' /\ TableSettled' /\ StoreOrder'
    BY <2>1 DEF IInv, LockedBatch, NoneVanishes, TableSettled, StoreOrder, dbVars
  <2>4. BufferedIsTimed' /\ TimerRuns' /\ OneArmedTimer'
    BY <2>1 DEF IInv, TypeOK, BufferedIsTimed, TimerRuns, OneArmedTimer
  <2>5. QED
    BY <2>2, <2>3, <2>4 DEF IInv
<1>4. ASSUME NEW t \in Timers, TimerFlush(t) PROVE IInv'
  <2>1. batch = <<>> /\ alive /\ lock = NoOne
    BY <1>4 DEF TimerFlush, IInv, LockedBatch
  <2>2. /\ buffer \in Seq(Nat) /\ Len(buffer) <= MaxBatch
        /\ Len(buffer) = submitted' - settled /\ submitted' \in Nat
        /\ \A i \in DOMAIN buffer : buffer[i] = settled + i
    <3>1. Len(batch) = 0
      BY <2>1
    <3>2. QED
      BY <1>4, <2>1, <3>1, BatchAssumption DEF TimerFlush, IInv, LockedBatch, TypeOK, NoneVanishes
  <2> DEFINE ts == [timerState EXCEPT ![t] = "idle"]
  <2>3. /\ ts \in [Timers -> {"idle", "armed", "expired"}]
        /\ \A u \in Timers : ts[u] = "armed" => timerState[u] = "armed"
    BY <1>4 DEF IInv, TypeOK
  <2>4. FlushLocked(t, buffer, ts) /\ UNCHANGED <<dbVars, alive>> /\ t \in Threads
    BY <1>4 DEF TimerFlush, Threads
  <2>5. QED
    BY <2>1, <2>2, <2>3, <2>4, FlushKeepsInv
<1>5. ASSUME Crash PROVE IInv'
  <2>1. /\ alive' = FALSE /\ buffer' = <<>> /\ batch' = <<>>
        /\ lock' = NoOne /\ timer' = NoOne
        /\ timerState' = [t \in Timers |-> "idle"]
        /\ UNCHANGED <<table, settled, submitted>>
    BY <1>5 DEF Crash, dbVars
  <2>2. TypeOK'
    <3>1. timerState' \in [Timers -> {"idle", "armed", "expired"}]
      BY <2>1
    <3>2. buffer' \in Seq(Nat) /\ batch' \in Seq(Nat)
      BY <2>1
    <3>3. timer' \in Timers \cup {NoOne} /\ lock' \in Threads \cup {NoOne}
      BY <2>1
    <3>4. QED
      BY <2>1, <3>1, <3>2, <3>3 DEF IInv, TypeOK
  <2>3. LockedBatch'
    BY <2>1, BatchAssumption DEF LockedBatch
  <2>4. /\ BufferedIsTimed' /\ TimerRuns' /\ OneArmedTimer' /\ NoneVanishes'
        /\ TableSettled' /\ StoreOrder'
    BY <2>1 DEF IInv, BufferedIsTimed, TimerRuns, OneArmedTimer, NoneVanishes,
                TableSettled, StoreOrder
  <2>5. QED
    BY <2>2, <2>3, <2>4 DEF IInv
<1>6. CASE UNCHANGED vars
  BY <1>6 DEF vars, IInv, TypeOK, LockedBatch, BufferedIsTimed, TimerRuns, OneArmedTimer,
              NoneVanishes, TableSettled, StoreOrder
<1>7. QED
  BY <1>1, <1>2, <1>3, <1>4, <1>5, <1>6, BatchDoneKeepsInv DEF Next

LEMMA InitInv == Init => IInv
  BY BatchAssumption
  DEF Init, IInv, TypeOK, LockedBatch, BufferedIsTimed, TimerRuns, OneArmedTimer,
      NoneVanishes, TableSettled, StoreOrder

-----------------------------------------------------------------------------
\* The inductive invariant holds in every reachable state.
THEOREM Invariance == Spec => []IInv
  BY InitInv, NextKeepsInv, PTL DEF Spec

\* Buffer, batch and table hold event numbers, _timer and _lock name a Timer
\* and a thread of the program or nothing (TypeOK).
THEOREM TypeCorrect == Spec => []TypeOK
<1>1. IInv => TypeOK
  BY DEF IInv
<1>2. QED
  BY <1>1, Invariance, PTL

\* No buffered event is left without a Timer that will flush it, and no two
\* Timers wait at once.
THEOREM TimersCoverBuffer == Spec => [](BufferedIsTimed /\ OneArmedTimer)
<1>1. IInv => BufferedIsTimed /\ OneArmedTimer
  BY DEF IInv
<1>2. QED
  BY <1>1, Invariance, PTL

\* The rows of job_events keep the order of the store() calls, and what is
\* not settled is in memory and fits in one batch.
THEOREM OrderAndLoss == Spec => [](StoreOrder /\ NoneVanishes /\ OutstandingFitsBatch)
<1>1. IInv => StoreOrder /\ NoneVanishes
  BY DEF IInv
<1>2. IInv => OutstandingFitsBatch
  <2>1. SUFFICES ASSUME IInv, alive PROVE submitted - settled <= MaxBatch
    BY DEF OutstandingFitsBatch
  <2>2. Len(batch) = 0 \/ Len(buffer) = 0
    BY <2>1 DEF IInv, LockedBatch
  <2>3. QED
    BY <2>1, <2>2, BatchAssumption DEF IInv, TypeOK, LockedBatch, NoneVanishes
<1>3. QED
  BY <1>1, <1>2, Invariance, PTL

\* Every behaviour of the batching store is one of the abstract event log:
\* store() accepts an event, a finished store_batch() appends or loses all
\* unsettled events at once, and everything else is invisible to the log.
THEOREM Refinement == Spec => ImplementsLog
<1>1. Init => Log!LogInit
  BY DEF Init, Log!LogInit
<1>2. ASSUME IInv, [Next]_vars PROVE [Log!LogNext]_(Log!logVars)
  <2>1. ASSUME NEW c \in Callers, Store(c) PROVE Log!Accept
    <3>1. /\ batch = <<>> /\ alive /\ submitted' = submitted + 1
          /\ UNCHANGED <<settled, table>>
      BY <1>2, <2>1 DEF IInv, LockedBatch, Store, dbVars
    <3>2. Len(batch) = 0
      BY <3>1
    <3>3. submitted - settled < MaxBatch
      BY <1>2, <3>1, <3>2, BatchAssumption DEF IInv, TypeOK, LockedBatch, NoneVanishes
    <3>4. QED
      BY <3>1, <3>3 DEF Log!Accept
  <2>2. ASSUME BatchStored \/ BatchFailed PROVE Log!Append1 \/ Log!Lose
    <3>1. batch # <<>> /\ buffer = <<>> /\ alive /\ settled' = batch[Len(batch)] /\ submitted' = submitted
      BY <1>2, <2>2 DEF IInv, LockedBatch, BatchStored, BatchFailed
    <3>2. Len(buffer) = 0 /\ Len(batch) \in Nat \ {0} /\ batch \in Seq(Nat)
      BY <1>2, <3>1 DEF IInv, TypeOK
    <3>3. /\ Len(batch) = submitted - settled
          /\ \A i \in DOMAIN batch : batch[i] = settled + i
          /\ submitted \in Nat /\ settled \in Nat
      BY <1>2, <3>1, <3>2 DEF IInv, TypeOK, NoneVanishes
    <3>4. settled' = submitted /\ settled < submitted
      BY <3>1, <3>2, <3>3
    <3>5. CASE BatchFailed
      BY <3>1, <3>4, <3>5 DEF BatchFailed, Log!Lose
    <3>6. CASE BatchStored
      <4>1. batch = Log!Run(settled + 1, submitted)
        BY <3>2, <3>3 DEF Log!Run
      <4>2. QED
        BY <3>1, <3>4, <3>6, <4>1 DEF BatchStored, Log!Append1
    <3>7. QED
      BY <2>2, <3>5, <3>6
  <2>3. ASSUME UNCHANGED <<submitted, settled, table>> PROVE UNCHANGED Log!logVars
    BY <2>3 DEF Log!logVars
  <2>4. ASSUME NEW c \in Callers, Flush(c) PROVE UNCHANGED <<submitted, settled, table>>
    BY <2>4 DEF Flush, dbVars
  <2>5. ASSUME NEW t \in Timers, Expire(t) \/ TimerFlush(t)
        PROVE  UNCHANGED <<submitted, settled, table>>
    BY <2>5 DEF Expire, TimerFlush, dbVars
  <2>6. ASSUME Crash \/ UNCHANGED vars PROVE UNCHANGED <<submitted, settled, table>>
    BY <2>6 DEF Crash, dbVars, vars
  <2>7. QED
    BY <1>2, <2>1, <2>2, <2>3, <2>4, <2>5, <2>6 DEF Next, Log!LogNext
<1>3. QED
  BY <1>1, <1>2, Invariance, PTL DEF Spec, ImplementsLog, Log!LogSpec
=============================================================================
