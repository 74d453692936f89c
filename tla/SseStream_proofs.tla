-------------------------- MODULE SseStream_proofs --------------------------
(***************************************************************************)
(* Proofs about SseStream, for every number of rows and every order of the *)
(* three fetch limits.  What is said about rows needs serialised           *)
(* transactions: without, a row that commits late may be passed over.      *)
(***************************************************************************)
EXTENDS SseStream, FiniteSetTheorems, WellFoundedInduction, TLAPS

\* With serialised transactions an open row is newer than every committed one.
OpenIsNewest ==
    /\ open \cap rows = {}
    /\ Serial => open \subseteq {lastId}

\* The cursor is the ID the stream was opened with or that of a row.
CursorIsRow == pc # "closed" => url <= cursor /\ (cursor = url \/ cursor \in rows)

\* What is fetched and not yet yielded follows the cursor without a gap.
BatchFollows ==
    /\ pc \in {"closed", "send"} \/ batch = {}
    /\ pc = "send" =>
          /\ \A j \in batch : j > cursor
          /\ \A i \in rows : \A j \in batch : cursor < i /\ i <= j => i \in batch

\* A generator that knows the job is over has the first end of the job behind it.
EndIsKnown ==
    /\ (status = "DONE" \/ job = "DONE") => over
    /\ link = "ended" => job = "DONE"

\* On the way to the last status, everything still to come is in the batch.
LastBatch ==
    pc \in {"send", "status"} /\ job = "DONE" /\ tail /\ ~failed =>
        \A i \in final : i <= cursor \/ i \in batch

IInv ==
    /\ TypeOK /\ OpenIsNewest /\ CursorIsRow /\ BatchFollows /\ NoRowPassedOver
    /\ EndIsKnown /\ LastBatch /\ EndIsComplete

-----------------------------------------------------------------------------
\* First(n, ids) keeps with each ID every smaller one, and takes all IDs when
\* there are fewer than n.
LEMMA FirstIsPrefix ==
    ASSUME NEW m \in Nat, NEW ids \in SUBSET (1 .. m), NEW n \in Nat
    PROVE  /\ First(n, ids) \subseteq ids
           /\ \A i \in ids : \A j \in First(n, ids) : i <= j => i \in First(n, ids)
           /\ Cardinality(ids) < n => First(n, ids) = ids
<1> DEFINE Below(i) == {j \in ids : j < i}
<1>1. IsFiniteSet(ids) /\ Cardinality(ids) \in Nat
  <2>1. IsFiniteSet(1 .. m)
    BY FS_Interval
  <2>2. IsFiniteSet(ids)
    BY <2>1, FS_Subset
  <2>3. QED
    BY <2>2, FS_CardinalityType
<1>2. \A i \in ids : IsFiniteSet(Below(i)) /\ Cardinality(Below(i)) \in Nat
                     /\ Cardinality(Below(i)) <= Cardinality(ids)
  BY <1>1, FS_Subset, FS_CardinalityType
<1>3. ASSUME NEW i \in ids, NEW j \in First(n, ids), i <= j
      PROVE  i \in First(n, ids)
  <2>1. j \in ids /\ Cardinality(Below(j)) < n
    BY DEF First
  <2>2. Below(i) \subseteq Below(j)
    <3>1. ids \subseteq Int
      <4>1. 1 .. m \subseteq Int /\ ids \subseteq 1 .. m
        OBVIOUS
      <4>2. QED
        BY <4>1
    <3>2. i \in Int /\ j \in Int /\ i <= j
      BY <1>3, <2>1, <3>1
    <3>3. \A k \in ids : k < i => k < j
      BY <3>1, <3>2
    <3>4. QED
      BY <3>3
  <2>3. Cardinality(Below(i)) <= Cardinality(Below(j))
    BY <1>2, <2>1, <2>2, FS_Subset
  <2>4. Cardinality(Below(i)) < n
    BY <1>2, <2>1, <2>3
  <2>5. QED
    BY <2>4 DEF First
<1>4. ASSUME Cardinality(ids) < n PROVE First(n, ids) = ids
  <2>1. \A i \in ids : Cardinality(Below(i)) < n
    BY <1>1, <1>2, <1>4
  <2>2. QED
    BY <2>1 DEF First
<1>5. QED
  BY <1>3, <1>4 DEF First

LEMMA LimitIsNat == Limit \in Nat
  BY StreamAssumption DEF Limit

-----------------------------------------------------------------------------
\* Opening a stream establishes what is said about streams.
LEMMA StreamStep ==
    ASSUME IInv, NEW start \in 0 .. MaxId, Stream(start)
    PROVE  IInv'
<1>1. TypeOK'
  <2>1. /\ UNCHANGED <<lastId, open, rows, status, over, final, stopping, seen, saved>>
        /\ link' = "up" /\ pc' = "top" /\ job' = "none" /\ told' = "none"
        /\ batch' = {} /\ got' = {}
    BY DEF Stream, dbVars
  <2>2. cursor' \in Nat /\ seq' \in Nat /\ url' \in 0 .. MaxId
    BY StreamAssumption DEF Stream
  <2>3. replay' \in BOOLEAN /\ tail' \in BOOLEAN /\ failed' \in BOOLEAN
    BY Zenon DEF Stream
  <2>4. QED
    BY <2>1, <2>2, <2>3 DEF IInv, TypeOK
<1>2. OpenIsNewest' /\ CursorIsRow' /\ BatchFollows'
  BY DEF IInv, TypeOK, OpenIsNewest, CursorIsRow, BatchFollows, Stream, dbVars
<1>3. NoRowPassedOver'
  <2>1. \A i \in rows : i \in Nat
    BY DEF IInv, TypeOK
  <2>2. rows' = rows /\ url' = start /\ cursor' = start /\ got' = {}
    BY DEF Stream, dbVars
  <2>3. QED
    BY <2>1, <2>2 DEF NoRowPassedOver
<1>4. EndIsKnown' /\ LastBatch' /\ EndIsComplete'
  BY DEF IInv, EndIsKnown, LastBatch, EndIsComplete, Stream, dbVars
<1>5. QED
  BY <1>1, <1>2, <1>3, <1>4 DEF IInv

\* Ending one leaves nothing to be said about it.
LEMMA HangupStep ==
    ASSUME IInv, link = "up", Hangup
    PROVE  IInv'
  BY DEF IInv, TypeOK, OpenIsNewest, CursorIsRow, BatchFollows, NoRowPassedOver,
     EndIsKnown, LastBatch, EndIsComplete, Hangup, dbVars, loopVars, tabVars

\* The induction step, one action at a time.
LEMMA Step ==
    ASSUME Serial, IInv, [Next]_vars
    PROVE  IInv'
<1> USE StreamAssumption DEF IInv, dbVars, loopVars, tabVars
<1>1. CASE Insert
  BY <1>1 DEF Insert, TypeOK, OpenIsNewest, CursorIsRow, BatchFollows, NoRowPassedOver,
     EndIsKnown, LastBatch, EndIsComplete
<1>2. ASSUME NEW i \in open, Commit(i) PROVE IInv'
  <2>1. rows' \in {rows, rows \cup {i}} /\ open' = open \ {i} /\ i = lastId /\ i \notin rows
    BY <1>2 DEF Commit, OpenIsNewest
  <2>2. UNCHANGED <<lastId, status, over, final, stopping, pc, seq, job, cursor, replay,
                    told, batch, tail, failed, link, url, got, seen, saved>>
    BY <1>2 DEF Commit
  <2>3. \A k \in rows : k < i
    BY <2>1 DEF TypeOK
  <2>4. TypeOK'
    BY <2>1, <2>2 DEF TypeOK
  <2>5. OpenIsNewest'
    BY <2>1, <2>2 DEF OpenIsNewest
  <2>6. CursorIsRow' /\ BatchFollows'
    BY <2>1, <2>2, <2>3 DEF TypeOK, CursorIsRow, BatchFollows
  <2>7. NoRowPassedOver'
    BY <2>1, <2>2, <2>3 DEF TypeOK, CursorIsRow, NoRowPassedOver
  <2>8. EndIsKnown' /\ LastBatch' /\ EndIsComplete'
    BY <2>2 DEF EndIsKnown, LastBatch, EndIsComplete
  <2>9. QED
    BY <2>4, <2>5, <2>6, <2>7, <2>8
<1>3. ASSUME NEW st \in {"RUNNING", "DONE", "none"}, SetStatus(st) PROVE IInv'
  <2>1. TypeOK'
    BY <1>3 DEF SetStatus, TypeOK
  <2>2. OpenIsNewest' /\ CursorIsRow' /\ BatchFollows' /\ NoRowPassedOver'
    BY <1>3 DEF SetStatus, OpenIsNewest, CursorIsRow, BatchFollows, NoRowPassedOver
  <2>3. EndIsKnown'
    BY <1>3 DEF SetStatus, EndIsKnown, TypeOK
  <2>4. LastBatch' /\ EndIsComplete'
    BY <1>3 DEF SetStatus, EndIsKnown, LastBatch, EndIsComplete, TypeOK
  <2>5. QED
    BY <2>1, <2>2, <2>3, <2>4
<1>4. CASE Top
  <2>1. CASE Hangup
    BY <1>4, <2>1, HangupStep DEF Top, TypeOK
  <2>2. CASE ~Hangup
    BY <1>4, <2>2 DEF Top, TypeOK, OpenIsNewest, CursorIsRow, BatchFollows, NoRowPassedOver,
       EndIsKnown, LastBatch, EndIsComplete
  <2>3. QED
    BY <2>1, <2>2
<1>5. CASE Fetch
  <2> DEFINE after == {i \in rows : i > cursor}
  <2>1. after \in SUBSET (1 .. lastId) /\ lastId \in Nat /\ after \subseteq rows
    <3>1. MaxId \in Nat /\ lastId \in 0 .. MaxId /\ rows \subseteq 1 .. lastId
      BY Zenon DEF TypeOK, StreamAssumption
    <3>2. after \subseteq rows
      OBVIOUS
    <3> HIDE DEF after
    <3>3. QED
      BY <3>1, <3>2
  <2>2. batch' = First(Limit, after) /\ tail' = (Cardinality(after) < Limit)
    BY <1>5 DEF Fetch
  <2>3. /\ batch' \subseteq after
        /\ \A i \in after : \A j \in batch' : i <= j => i \in batch'
        /\ tail' => batch' = after
    BY <2>1, <2>2, FirstIsPrefix, LimitIsNat
  <2>4. pc = "fetch" /\ pc' = "send"
        /\ UNCHANGED <<lastId, open, rows, status, over, final, stopping, seq, job, cursor,
                       replay, told, link, url, got, seen, saved>>
    BY <1>5 DEF Fetch
  <2>11. failed' \in BOOLEAN
    BY <1>5, Zenon DEF Fetch
  <2>5. TypeOK'
    BY <2>1, <2>2, <2>3, <2>4, <2>11 DEF TypeOK
  <2>6. OpenIsNewest' /\ CursorIsRow' /\ NoRowPassedOver' /\ EndIsKnown'
    BY <2>4 DEF OpenIsNewest, CursorIsRow, NoRowPassedOver, EndIsKnown
  <2>7. BatchFollows'
    BY <2>3, <2>4 DEF BatchFollows
  <2>8. LastBatch'
    BY <2>3, <2>4 DEF LastBatch, TypeOK
  <2>9. EndIsComplete'
    BY <2>4 DEF EndIsComplete, TypeOK
  <2>10. QED
    BY <2>5, <2>6, <2>7, <2>8, <2>9
<1>6. CASE Send
  <2>1. CASE Hangup
    BY <1>6, <2>1, HangupStep DEF Send, TypeOK
  <2>2. CASE ~Hangup
    <3>1. PICK i \in batch :
             /\ \A j \in batch : i <= j
             /\ batch' = batch \ {i}
             /\ cursor' = i /\ seq' = i
             /\ got' = got \cup {i} /\ seen' = seen \cup {i}
      BY <1>6, <2>2 DEF Send
    <3>2. pc = "send"
          /\ UNCHANGED <<lastId, open, rows, status, over, final, stopping, pc, job, replay,
                         told, tail, failed, link, url, saved>>
      BY <1>6, <2>2 DEF Send
    <3>3. i \in rows /\ i \in Nat /\ i > cursor /\ cursor \in Nat /\ url \in Nat
      BY <3>1, <3>2 DEF TypeOK, BatchFollows
    <3>4. \A k \in rows : cursor < k /\ k <= i => k = i
      BY <3>1, <3>2, <3>3 DEF TypeOK, BatchFollows
    <3>5. TypeOK'
      BY <3>1, <3>2, <3>3 DEF TypeOK
    <3>6. OpenIsNewest' /\ EndIsKnown'
      BY <3>2 DEF OpenIsNewest, EndIsKnown
    <3>7. CursorIsRow'
      BY <3>1, <3>2, <3>3 DEF CursorIsRow
    <3>8. BatchFollows'
      BY <3>1, <3>2, <3>3 DEF BatchFollows, TypeOK
    <3>9. NoRowPassedOver'
      <4>1. got = {k \in rows : url < k /\ k <= cursor} /\ url <= cursor
        BY <3>2 DEF NoRowPassedOver, CursorIsRow
      <4>2. \A k \in rows : k \in Nat
        BY DEF TypeOK
      <4>3. \A k \in rows : url < k /\ k <= i <=> (url < k /\ k <= cursor) \/ k = i
        BY <3>3, <3>4, <4>1, <4>2
      <4>4. got \cup {i} = {k \in rows : url < k /\ k <= i}
        BY <3>3, <4>1, <4>3
      <4>5. QED
        BY <3>1, <3>2, <4>4 DEF NoRowPassedOver
    <3>10. LastBatch' /\ EndIsComplete'
      BY <3>1, <3>2, <3>3 DEF LastBatch, EndIsComplete, TypeOK
    <3>11. QED
      BY <3>5, <3>6, <3>7, <3>8, <3>9, <3>10
  <2>3. QED
    BY <2>1, <2>2
<1>7. CASE Mode
  <2>1. pc = "send" /\ batch = {} /\ pc' = "status"
        /\ UNCHANGED <<lastId, open, rows, status, over, final, stopping, job, cursor, told,
                       batch, tail, failed, link, url, got, seen>>
    BY <1>7 DEF Mode
  <2>2. replay' \in BOOLEAN /\ seq' \in Nat /\ saved' \in Nat
    <3>1. CASE replay' = FALSE /\ seq' = seq + 1 /\ saved' \in {saved, seq + 1}
      <4>1. replay' \in BOOLEAN
        BY <3>1, Zenon
      <4>2. seq' \in Nat /\ saved' \in Nat
        BY <3>1 DEF TypeOK
      <4>3. QED
        BY <4>1, <4>2
    <3>2. CASE UNCHANGED <<replay, seq, saved>>
      BY <3>2 DEF TypeOK
    <3>3. QED
      BY <1>7, <3>1, <3>2 DEF Mode
  <2>3. TypeOK'
    BY <2>1, <2>2 DEF TypeOK
  <2>4. OpenIsNewest' /\ CursorIsRow' /\ BatchFollows' /\ NoRowPassedOver'
    BY <2>1 DEF OpenIsNewest, CursorIsRow, BatchFollows, NoRowPassedOver
  <2>5. EndIsKnown' /\ LastBatch' /\ EndIsComplete'
    BY <2>1 DEF EndIsKnown, LastBatch, EndIsComplete
  <2>6. QED
    BY <2>3, <2>4, <2>5
<1>8. CASE Status
  <2>1. pc = "status" /\ link = "up" /\ pc' \in {"closed", "top", "wait"}
    BY <1>8 DEF Status, TypeOK
  <2>2. UNCHANGED <<lastId, open, rows, status, over, final, stopping, job, cursor, replay,
                    batch, tail, failed, url, got, seen>>
    BY <1>8 DEF Status
  <2>3. TypeOK'
    BY <1>8 DEF Status, TypeOK
  <2>4. OpenIsNewest' /\ CursorIsRow' /\ NoRowPassedOver' /\ LastBatch'
    BY <2>1, <2>2 DEF OpenIsNewest, CursorIsRow, NoRowPassedOver, LastBatch
  <2>5. BatchFollows'
    BY <2>1, <2>2 DEF BatchFollows
  <2>6. link' = "ended" => job = "DONE"
    BY <1>8, <2>1 DEF Status
  <2>7. EndIsKnown'
    BY <2>2, <2>6 DEF EndIsKnown
  <2>8. EndIsComplete'
    <3> SUFFICES ASSUME link' = "ended", tail, ~failed, NEW i \in final
             PROVE  i <= url \/ i \in got
      BY <2>2 DEF EndIsComplete
    <3>1. i <= cursor
      BY <2>1, <2>6 DEF LastBatch, BatchFollows
    <3>2. i \in rows /\ i \in Nat /\ url \in Nat
      BY DEF TypeOK
    <3>3. QED
      BY <2>1, <3>1, <3>2 DEF NoRowPassedOver
  <2>9. QED
    BY <2>3, <2>4, <2>5, <2>7, <2>8
<1>9. CASE Wait
  <2>1. CASE Hangup
    BY <1>9, <2>1, HangupStep DEF Wait, TypeOK
  <2>2. CASE ~Hangup
    <3>1. pc = "wait" /\ pc' = "top"
          /\ UNCHANGED <<lastId, open, rows, status, over, final, stopping, seq, job, cursor,
                         replay, told, batch, tail, failed, link, url, got, seen, saved>>
      BY <1>9, <2>2 DEF Wait
    <3>2. TypeOK'
      BY <3>1 DEF TypeOK
    <3>3. OpenIsNewest' /\ CursorIsRow' /\ BatchFollows' /\ NoRowPassedOver'
      BY <3>1 DEF OpenIsNewest, CursorIsRow, BatchFollows, NoRowPassedOver
    <3>4. EndIsKnown' /\ LastBatch' /\ EndIsComplete'
      BY <3>1 DEF EndIsKnown, LastBatch, EndIsComplete
    <3>5. QED
      BY <3>2, <3>3, <3>4
  <2>3. QED
    BY <2>1, <2>2
<1>10. CASE Shutdown \/ Restart
  <2>1. stopping' \in BOOLEAN
        /\ UNCHANGED <<lastId, open, rows, status, over, final, pc, seq, job, cursor, replay,
                       told, batch, tail, failed, link, url, got, seen, saved>>
    BY <1>10 DEF Shutdown, Restart
  <2>2. TypeOK'
    BY <2>1 DEF TypeOK
  <2>3. OpenIsNewest' /\ CursorIsRow' /\ BatchFollows' /\ NoRowPassedOver'
    BY <2>1 DEF OpenIsNewest, CursorIsRow, BatchFollows, NoRowPassedOver
  <2>4. EndIsKnown' /\ LastBatch' /\ EndIsComplete'
    BY <2>1 DEF EndIsKnown, LastBatch, EndIsComplete
  <2>5. QED
    BY <2>2, <2>3, <2>4
<1>11. CASE Connect
  BY <1>11, StreamStep DEF Connect
<1>12. CASE Retry
  BY <1>12, StreamStep DEF Retry, TypeOK
<1>13. CASE Reconnect
  BY <1>13, StreamStep DEF Reconnect, TypeOK
<1>14. CASE Break
  BY <1>14, HangupStep DEF Break
<1>15. CASE UNCHANGED vars
  BY <1>15 DEF vars, TypeOK, OpenIsNewest, CursorIsRow, BatchFollows, NoRowPassedOver,
     EndIsKnown, LastBatch, EndIsComplete
<1>16. CASE FetchFails
  <2>1. pc = "fetch" /\ pc' = "send" /\ batch' = {}
        /\ UNCHANGED <<lastId, open, rows, status, over, final, stopping, seq, job, cursor,
                       replay, told, link, url, got, seen, saved>>
    BY <1>16 DEF FetchFails
  <2>2. tail' \in BOOLEAN /\ failed' \in BOOLEAN
    BY <1>16, Zenon DEF FetchFails
  <2>3. TypeOK'
    BY <2>1, <2>2 DEF TypeOK
  <2>4. OpenIsNewest' /\ CursorIsRow' /\ BatchFollows' /\ NoRowPassedOver' /\ EndIsKnown'
    BY <2>1 DEF OpenIsNewest, CursorIsRow, BatchFollows, NoRowPassedOver, EndIsKnown
  <2>5. LastBatch' /\ EndIsComplete'
    BY <1>16 DEF FetchFails, LastBatch, EndIsComplete
  <2>6. QED
    BY <2>3, <2>4, <2>5
<1>17. QED
  BY <1>1, <1>2, <1>3, <1>4, <1>5, <1>6, <1>7, <1>8, <1>9, <1>10, <1>11, <1>12, <1>13, <1>14,
     <1>15, <1>16 DEF Next, Generator

-----------------------------------------------------------------------------
\* The strengthened invariant holds when transactions are serialised.
THEOREM Invariance ==
    ASSUME Serial
    PROVE  Spec => []IInv
<1>1. Init => IInv
  <2> SUFFICES ASSUME Init PROVE IInv
    OBVIOUS
  <2>1. /\ rows \subseteq 1 .. lastId /\ open \subseteq 1 .. lastId /\ batch \subseteq rows
        /\ got \subseteq rows /\ seen \subseteq rows /\ final \subseteq rows
    BY DEF Init
  <2>2. /\ status \in {"RUNNING", "DONE", "none"}
        /\ job \in {"RUNNING", "DONE", "none"} /\ told \in {"RUNNING", "DONE", "none"}
        /\ pc \in {"closed", "top", "fetch", "send", "status", "wait"}
        /\ link \in {"new", "up", "down", "ended"}
        /\ pc # "closed" <=> link = "up"
    BY DEF Init
  <2>3. /\ lastId \in 0 .. MaxId /\ url \in 0 .. MaxId
        /\ cursor \in Nat /\ seq \in Nat /\ saved \in Nat
        /\ stopping \in BOOLEAN /\ over \in BOOLEAN
        /\ replay \in BOOLEAN /\ tail \in BOOLEAN /\ failed \in BOOLEAN
    <3>1. /\ stopping \in BOOLEAN /\ over \in BOOLEAN
          /\ replay \in BOOLEAN /\ tail \in BOOLEAN /\ failed \in BOOLEAN
      BY Zenon DEF Init
    <3>2. lastId = 0 /\ url = 0 /\ cursor = 0 /\ seq = 0 /\ saved = 0
      BY Zenon DEF Init
    <3>3. QED
      BY <3>1, <3>2, StreamAssumption
  <2>4. OpenIsNewest /\ CursorIsRow /\ BatchFollows /\ NoRowPassedOver
    BY DEF Init, OpenIsNewest, CursorIsRow, BatchFollows, NoRowPassedOver
  <2>5. EndIsKnown /\ LastBatch /\ EndIsComplete
    BY DEF Init, EndIsKnown, LastBatch, EndIsComplete
  <2>6. QED
    BY <2>1, <2>2, <2>3, <2>4, <2>5 DEF IInv, TypeOK
<1>2. IInv /\ [Next]_vars => IInv'
  BY Step
<1>3. QED
  BY <1>1, <1>2, PTL DEF Spec

\* A stream delivers exactly the rows up to its cursor (NoRowPassedOver).
THEOREM StreamIsGapless ==
    ASSUME Serial
    PROVE  Spec => []NoRowPassedOver
<1>1. IInv => NoRowPassedOver
  BY DEF IInv
<1>2. QED
  BY Invariance, <1>1, PTL

\* A tab that is told the end has every row that was there at the first end,
\* if the last fetch neither failed nor was cut off (EndIsComplete).
THEOREM EndAfterRows ==
    ASSUME Serial
    PROVE  Spec => []EndIsComplete
<1>1. IInv => EndIsComplete
  BY DEF IInv
<1>2. QED
  BY Invariance, <1>1, PTL

\* The variables keep their types.
THEOREM TypeCorrect ==
    ASSUME Serial
    PROVE  Spec => []TypeOK
<1>1. IInv => TypeOK
  BY DEF IInv
<1>2. QED
  BY Invariance, <1>1, PTL

-----------------------------------------------------------------------------
\* With serialised transactions every step is one of the abstract stream, or
\* changes nothing of it.
LEMMA StreamSim ==
    ASSUME Serial, IInv, [Next]_vars
    PROVE  [Promise!StreamNext]_(Promise!streamVars)
<1>1. UNCHANGED <<rows, pc, url, cursor>> => UNCHANGED Promise!streamVars
  BY DEF Promise!streamVars
<1>2. \A i \in rows \cup open : i \in Nat /\ i \in 0 .. MaxId
  BY StreamAssumption DEF IInv, TypeOK
<1>3. ASSUME Hangup, pc # "closed" PROVE Promise!Stop
  BY <1>3 DEF Hangup, dbVars, Promise!Stop
<1>4. Promise!Stop => Promise!StreamNext
  BY DEF Promise!StreamNext
<1>5. CASE Insert \/ (\E st \in {"RUNNING", "DONE", "none"} : SetStatus(st)) \/ Shutdown \/ Restart
           \/ UNCHANGED vars
  <2>1. UNCHANGED <<rows, pc, url, cursor>>
    BY <1>5, Zenon DEF Insert, SetStatus, Shutdown, Restart, dbVars, loopVars, tabVars, vars
  <2>2. QED
    BY <1>1, <2>1
<1>6. ASSUME NEW i \in open, Commit(i) PROVE [Promise!StreamNext]_(Promise!streamVars)
  <2>1. UNCHANGED <<pc, url, cursor>> /\ rows' \in {rows, rows \cup {i}}
    BY <1>6, Zenon DEF Commit, loopVars, tabVars
  <2>2. CASE rows' = rows
    BY <1>1, <2>1, <2>2
  <2>3. CASE rows' = rows \cup {i}
    <3>1. i \notin rows /\ i = lastId /\ i \in 0 .. MaxId
      BY <1>2 DEF IInv, OpenIsNewest
    <3>2. \A j \in rows : j < i
      BY <1>2, <3>1 DEF IInv, TypeOK
    <3>3. Promise!Appear(i)
      BY <2>1, <2>3, <3>1, <3>2 DEF Promise!Appear
    <3>4. QED
      BY <3>1, <3>3 DEF Promise!StreamNext
  <2>4. QED
    BY <2>1, <2>2, <2>3
<1>7. CASE Top \/ Fetch \/ FetchFails \/ Mode \/ Status \/ Wait
  <2>1. pc # "closed"
    BY <1>7 DEF Top, Fetch, FetchFails, Mode, Status, Wait
  <2>2. \/ Hangup
        \/ UNCHANGED <<rows, url, cursor>>
    BY <1>7, Zenon DEF Top, Fetch, FetchFails, Mode, Status, Wait, dbVars, loopVars, tabVars
  <2>3. CASE UNCHANGED <<rows, url, cursor>> /\ pc' # "closed"
    BY <2>1, <2>3 DEF Promise!streamVars
  <2>4. CASE UNCHANGED <<rows, url, cursor>> /\ pc' = "closed"
    BY <1>4, <2>1, <2>4 DEF Promise!Stop
  <2>5. QED
    BY <1>3, <1>4, <2>1, <2>2, <2>3, <2>4
<1>8. CASE Send
  <2>1. pc = "send"
    BY <1>8 DEF Send
  <2>2. CASE ~Hangup
    <3>1. PICK i \in batch : (\A j \in batch : i <= j) /\ cursor' = i
      BY <1>8, <2>2 DEF Send
    <3>2. UNCHANGED <<rows, pc, url>>
      BY <1>8, <2>2, Zenon DEF Send, dbVars
    <3>3. i \in rows /\ cursor < i /\ cursor \in Nat /\ batch \subseteq rows
      BY <2>1, <3>1 DEF IInv, TypeOK, BatchFollows
    <3>4. \A j \in rows : j <= cursor \/ i <= j
      BY <1>2, <2>1, <3>1, <3>3 DEF IInv, BatchFollows
    <3>5. Promise!Deliver(i)
      BY <2>1, <3>1, <3>2, <3>3, <3>4 DEF Promise!Deliver
    <3>6. QED
      BY <1>2, <3>3, <3>5 DEF Promise!StreamNext
  <2>3. QED
    BY <1>3, <1>4, <2>1, <2>2
<1>9. ASSUME NEW s \in 0 .. MaxId, Stream(s), link # "up" PROVE Promise!Start(s)
  <2>1. pc = "closed" /\ pc' = "top" /\ rows' = rows /\ url' = s /\ cursor' = s
    BY <1>9 DEF Stream, dbVars, IInv, TypeOK
  <2>2. QED
    BY <2>1 DEF Promise!Start
<1>10. CASE Connect \/ Retry \/ Reconnect
  <2>1. PICK s \in 0 .. MaxId : Stream(s) /\ link # "up"
    BY <1>10, StreamAssumption DEF Connect, Retry, Reconnect, IInv, TypeOK
  <2>2. QED
    BY <1>9, <2>1 DEF Promise!StreamNext
<1>11. CASE Break
  BY <1>3, <1>4, <1>11 DEF Break, IInv, TypeOK
<1>12. QED
  BY <1>5, <1>6, <1>7, <1>8, <1>10, <1>11 DEF Next, Generator

\* The polled stream keeps the promise of EventStream, and is never lossy.
THEOREM ImplementsEventStream ==
    ASSUME Serial
    PROVE  Spec => StreamSpec
<1>1. Init => Promise!StreamInit
  BY DEF Init, Promise!StreamInit
<1>2. QED
  BY <1>1, Invariance, StreamSim, PTL DEF Spec, StreamSpec, Promise!StreamSpec

-----------------------------------------------------------------------------
\* Why streams end.  StreamsEnd is about time and fairness; what it rests on
\* needs neither, nor serialised transactions, so that it is also said of the
\* polling generator as the fall-back of the other one.

\* The rows and what the generator is doing with them.
RowTypes ==
    /\ lastId \in 0 .. MaxId
    /\ rows \subseteq 1 .. lastId /\ open \subseteq 1 .. lastId /\ batch \subseteq rows
    /\ pc \in {"closed", "top", "fetch", "send", "status", "wait"}
    /\ pc \notin {"closed", "send"} => batch = {}
    /\ pc # "closed" => link = "up"
    /\ status \in {"RUNNING", "DONE", "none"}
    /\ cursor \in Nat /\ seq \in Nat /\ url \in Nat /\ saved \in Nat
    /\ \A i \in batch : cursor < i

LEMMA InitRowTypes == Init => RowTypes
  BY StreamAssumption DEF Init, RowTypes

LEMMA RowTypesStep == RowTypes /\ [Next]_vars => RowTypes'
<1> SUFFICES ASSUME RowTypes, [Next]_vars PROVE RowTypes'
  OBVIOUS
<1> USE DEF RowTypes, dbVars, loopVars, tabVars, Hangup
<1>1. CASE Insert
  <2>1. lastId \in Nat /\ lastId' = lastId + 1 /\ lastId' \in 0 .. MaxId
        /\ open' \subseteq open \cup {lastId'}
    BY <1>1, StreamAssumption DEF Insert
  <2>2. 1 .. lastId \subseteq 1 .. lastId' /\ lastId' \in 1 .. lastId'
    BY <2>1
  <2>3. QED
    BY <1>1, <2>1, <2>2 DEF Insert
<1>2. ASSUME NEW i \in open, Commit(i) PROVE RowTypes'
  BY <1>2 DEF Commit
<1>3. ASSUME NEW st \in {"RUNNING", "DONE", "none"}, SetStatus(st) PROVE RowTypes'
  BY <1>3 DEF SetStatus
<1>4. CASE Top
  BY <1>4 DEF Top
<1>5. CASE Fetch \/ FetchFails
  BY <1>5 DEF Fetch, FetchFails, First
<1>6. CASE Send
  <2>1. batch \subseteq Nat
    BY StreamAssumption
  <2>2. CASE stopping
    BY <1>6, <2>2 DEF Send
  <2>3. ASSUME ~stopping, NEW i \in batch, \A k \in batch : i <= k, batch' = batch \ {i},
               cursor' = i, seq' = i
        PROVE  /\ cursor' \in Nat /\ seq' \in Nat
               /\ batch' \subseteq batch /\ \A k \in batch' : cursor' < k
    BY <2>1, <2>3
  <2>4. QED
    BY <1>6, <2>2, <2>3 DEF Send
<1>7. CASE Mode
  BY <1>7 DEF Mode
<1>8. CASE Status
  BY <1>8 DEF Status
<1>9. CASE Wait
  BY <1>9 DEF Wait
<1>10. CASE Shutdown \/ Restart \/ Break
  BY <1>10 DEF Shutdown, Restart, Break
<1>11. CASE Connect \/ Retry \/ Reconnect
  <2>1. ASSUME NEW start \in Nat, Stream(start) PROVE RowTypes'
    <3>1. start + 1 \in Nat
      BY <2>1
    <3>2. QED
      BY <2>1, <3>1 DEF Stream
  <2>2. QED
    BY <1>11, <2>1 DEF Connect, Retry, Reconnect
<1>12. CASE UNCHANGED vars
  BY <1>12 DEF vars
<1>13. QED
  BY <1>1, <1>2, <1>3, <1>4, <1>5, <1>6, <1>7, <1>8, <1>9, <1>10, <1>11, <1>12
     DEF Next, Generator

\* How many steps the generator of a stream that is to end may still take: the
\* rest of its pass through the loop and, when the status it read at the top of
\* that one was not the last, one more pass.
StepsLeft ==
    CASE pc = "closed"                    -> 0
      [] pc = "status" /\ job = "DONE"    -> 1
      [] pc = "send" /\ job = "DONE"      -> 2 + Cardinality(batch)
      [] pc = "fetch" /\ job = "DONE"     -> MaxId + 3
      [] pc = "top"                       -> MaxId + 4
      [] pc = "wait"                      -> MaxId + 5
      [] pc = "status" /\ job # "DONE"    -> MaxId + 6
      [] pc = "send" /\ job # "DONE"      -> MaxId + 7 + Cardinality(batch)
      [] OTHER                            -> 2 * MaxId + 8

\* A stream of a job that is over or gone, or of a backend that shuts down, is
\* on its way out: each of the generator's steps brings it nearer to its end,
\* whatever rows are written meanwhile, and a shutdown stops the rows at once.
EndingRunsDown ==
    /\ pc # "closed" /\ (stopping \/ status # "RUNNING") =>
         /\ Generator => StepsLeft' < StepsLeft
         /\ StepsLeft' <= StepsLeft
    /\ pc # "closed" /\ stopping => got' = got

LEMMA BatchSize ==
    ASSUME NEW m \in Nat, NEW B \in SUBSET (1 .. m)
    PROVE  /\ IsFiniteSet(B) /\ Cardinality(B) \in 0 .. m
           /\ \A i \in B : Cardinality(B \ {i}) = Cardinality(B) - 1
<1>1. IsFiniteSet(1 .. m) /\ Cardinality(1 .. m) = m
  BY FS_Interval
<1>2. IsFiniteSet(B) /\ Cardinality(B) <= m
  BY <1>1, FS_Subset
<1>3. Cardinality(B) \in Nat
  BY <1>2, FS_CardinalityType
<1>4. QED
  BY <1>2, <1>3, FS_RemoveElement

LEMMA StepRunsDown ==
    ASSUME RowTypes, RowTypes', Next
    PROVE  EndingRunsDown
<1> DEFINE n == Cardinality(batch)
<1>1. MaxId \in Nat /\ batch \subseteq 1 .. MaxId /\ batch' \subseteq 1 .. MaxId
  BY StreamAssumption DEF RowTypes
<1>2. n \in 0 .. MaxId /\ n' \in 0 .. MaxId /\ \A i \in batch : Cardinality(batch \ {i}) = n - 1
  BY <1>1, BatchSize
<1> HIDE DEF n
<1>3. /\ StepsLeft = CASE pc = "closed"                    -> 0
                       [] pc = "status" /\ job = "DONE"    -> 1
                       [] pc = "send" /\ job = "DONE"      -> 2 + n
                       [] pc = "fetch" /\ job = "DONE"     -> MaxId + 3
                       [] pc = "top"                       -> MaxId + 4
                       [] pc = "wait"                      -> MaxId + 5
                       [] pc = "status" /\ job # "DONE"    -> MaxId + 6
                       [] pc = "send" /\ job # "DONE"      -> MaxId + 7 + n
                       [] OTHER                            -> 2 * MaxId + 8
      /\ StepsLeft' = CASE pc' = "closed"                    -> 0
                        [] pc' = "status" /\ job' = "DONE"    -> 1
                        [] pc' = "send" /\ job' = "DONE"      -> 2 + n'
                        [] pc' = "fetch" /\ job' = "DONE"     -> MaxId + 3
                        [] pc' = "top"                        -> MaxId + 4
                        [] pc' = "wait"                       -> MaxId + 5
                        [] pc' = "status" /\ job' # "DONE"    -> MaxId + 6
                        [] pc' = "send" /\ job' # "DONE"      -> MaxId + 7 + n'
                        [] OTHER                              -> 2 * MaxId + 8
  BY DEF StepsLeft, n
<1> USE DEF RowTypes, dbVars, loopVars, tabVars, Hangup
<1>4. CASE Generator
  <2> SUFFICES ASSUME pc # "closed", stopping \/ status # "RUNNING"
               PROVE  StepsLeft' < StepsLeft /\ (stopping => got' = got)
    <3>1. stopping => got' = got
      BY <1>4 DEF Generator, Top, Fetch, FetchFails, Send, Mode, Status, Wait
    <3>2. StepsLeft' < StepsLeft => StepsLeft' <= StepsLeft
      BY <1>1, <1>2, <1>3
    <3>3. QED
      BY <3>1, <3>2 DEF EndingRunsDown
  <2>1. CASE Top
    BY <1>1, <1>2, <1>3, <2>1 DEF Top
  <2>2. CASE Fetch \/ FetchFails
    <3>1. pc = "fetch" /\ pc' = "send" /\ job' = job /\ got' = got
      BY <2>2 DEF Fetch, FetchFails
    <3>2. CASE job = "DONE"
      BY <1>1, <1>2, <1>3, <3>1, <3>2
    <3>3. CASE job # "DONE"
      BY <1>1, <1>2, <1>3, <3>1, <3>3
    <3>4. QED
      BY <3>2, <3>3
  <2>3. CASE Send
    <3>1. CASE stopping
      BY <1>1, <1>2, <1>3, <2>3, <3>1 DEF Send
    <3>2. CASE ~stopping
      <4>1. n' = n - 1
        BY <1>2, <2>3, <3>2 DEF Send, n
      <4>2. QED
        BY <1>1, <1>2, <1>3, <2>3, <3>2, <4>1 DEF Send
    <3>3. QED
      BY <3>1, <3>2
  <2>4. CASE Mode
    BY <1>1, <1>2, <1>3, <2>4 DEF Mode
  <2>5. CASE Status
    BY <1>1, <1>2, <1>3, <2>5 DEF Status
  <2>6. CASE Wait
    BY <1>1, <1>2, <1>3, <2>6 DEF Wait
  <2>7. QED
    BY <1>4, <2>1, <2>2, <2>3, <2>4, <2>5, <2>6 DEF Generator
<1>5. Generator => UNCHANGED <<lastId, open, status, stopping>>
  BY DEF Generator, Top, Fetch, FetchFails, Send, Mode, Status, Wait
<1>6. CASE Insert \/ (\E i \in open : Commit(i)) \/ Shutdown \/ Restart
           \/ (\E st \in {"RUNNING", "DONE", "none"} : SetStatus(st))
  <2>1. UNCHANGED <<pc, job, batch, got>>
    BY <1>6 DEF Insert, Commit, SetStatus, Shutdown, Restart
  <2>2. ~Generator
    BY <1>5, <1>6 DEF Insert, Commit, SetStatus, Shutdown, Restart
  <2>3. StepsLeft' = StepsLeft /\ StepsLeft \in Nat
    BY <1>1, <1>2, <2>1 DEF StepsLeft, n
  <2>4. QED
    BY <2>1, <2>2, <2>3 DEF EndingRunsDown
<1>7. CASE Break
  <2>1. pc # "closed" => StepsLeft' = 0 /\ StepsLeft \in Nat \ {0}
    BY <1>1, <1>2, <1>3, <1>7 DEF Break
  <2>2. QED
    BY <1>7, <2>1 DEF EndingRunsDown, Break
<1>8. CASE Connect \/ Retry \/ Reconnect
  BY <1>8 DEF Connect, Retry, Reconnect, EndingRunsDown
<1>9. QED
  BY <1>4, <1>6, <1>7, <1>8 DEF Next

\* A stream that is to end does, after at most 2 MaxId + 8 steps.
THEOREM StreamsRunOut == Spec => [][EndingRunsDown]_vars
<1>1. RowTypes /\ RowTypes' /\ [Next]_vars => [EndingRunsDown]_vars
  BY StepRunsDown
<1>2. QED
  BY <1>1, InitRowTypes, RowTypesStep, PTL DEF Spec

\* A set of numbers that is not empty has a least one.
LEMMA LeastOf ==
    ASSUME NEW S \in SUBSET Nat, S # {}
    PROVE  \E m \in S : \A n \in S : m <= n
<1> DEFINE Before == {p \in Nat \X Nat : p[1] < p[2]}
<1>1. IsWellFoundedOn(Before, Nat)
  BY NatLessThanWellFounded DEF OpToRel
<1> HIDE DEF Before
<1>2. PICK m \in S : \A n \in S : <<n, m>> \notin Before
  BY <1>1, WFMin
<1>3. \A n \in S : m <= n
  <2>1. SUFFICES ASSUME NEW n \in S PROVE m <= n
    OBVIOUS
  <2>2. m \in Nat /\ n \in Nat
    OBVIOUS
  <2>3. n < m => <<n, m>> \in Before
    BY <2>2 DEF Before
  <2>4. ~(n < m)
    BY <1>2, <2>3
  <2>5. QED
    BY <2>2, <2>4
<1>4. QED
  BY <1>3

\* Why rows arrive, as far as it is not about time: only a pass whose query
\* fails is in vain.  Whichever of the three limits cuts a fetch off, the pass
\* has a row to send if there is one after the cursor; a row that is sent takes
\* the cursor on, and nothing but such a row moves it while the stream lasts.
PassesDeliver ==
    /\ pc = "fetch" /\ pc' = "send" /\ ~failed' /\ (\E i \in rows : i > cursor) => batch' # {}
    /\ Send /\ ~stopping => cursor' > cursor /\ cursor' \in got'
    /\ pc # "closed" /\ cursor' # cursor => cursor' > cursor /\ cursor' \in batch

LEMMA FirstIsSome ==
    ASSUME NEW ids \in SUBSET Nat, ids # {}, NEW n \in Nat \ {0}
    PROVE  First(n, ids) # {}
<1>1. PICK m \in ids : \A i \in ids : m <= i
  BY LeastOf
<1>2. {j \in ids : j < m} = {}
  <2>1. SUFFICES ASSUME NEW j \in ids, j < m PROVE FALSE
    OBVIOUS
  <2>2. j \in Nat /\ m \in Nat /\ m <= j
    BY <1>1
  <2>3. QED
    BY <2>1, <2>2
<1>3. Cardinality({j \in ids : j < m}) < n
  BY <1>2, FS_EmptySet
<1>4. QED
  BY <1>3 DEF First

\* Every pass of the loop with something to tell tells some of it, unless its
\* query fails; a failure takes the cursor nowhere, so that the next pass asks
\* for the same rows.
THEOREM PassesAreNotInVain == Spec => [][PassesDeliver]_vars
<1>1. RowTypes /\ Next => PassesDeliver
  <2> SUFFICES ASSUME RowTypes, Next PROVE PassesDeliver
    OBVIOUS
  <2>1. ASSUME pc = "fetch", pc' = "send", ~failed', NEW i \in rows, i > cursor
        PROVE  batch' # {}
    <3> DEFINE after == {k \in rows : k > cursor}
    <3>1. after \in SUBSET Nat /\ after # {}
      <4>1. lastId \in Nat
        BY StreamAssumption DEF RowTypes
      <4>2. after \subseteq rows /\ rows \subseteq 1 .. lastId /\ 1 .. lastId \subseteq Nat
        BY <4>1 DEF RowTypes
      <4>3. QED
        BY <2>1, <4>2
    <3>2. Limit \in Nat \ {0}
      BY StreamAssumption DEF Limit
    <3>3. Fetch
      BY <2>1 DEF Next, Insert, Commit, SetStatus, Generator, Top, FetchFails, Send, Mode,
         Status, Wait, Shutdown, Restart, Connect, Retry, Reconnect, Stream, Break, Hangup
    <3>4. QED
      BY <3>1, <3>2, <3>3, FirstIsSome DEF Fetch
  <2>2. Send /\ ~stopping => cursor' > cursor /\ cursor' \in got' /\ cursor' \in batch
    BY DEF RowTypes, Send, Hangup
  <2>3. ASSUME pc # "closed", cursor' # cursor PROVE Send /\ ~stopping
    BY <2>3 DEF RowTypes, Next, Insert, Commit, SetStatus, Generator, Top, Fetch, FetchFails,
       Send, Mode, Status, Wait, Shutdown, Restart, Connect, Retry, Reconnect, Break, Hangup,
       loopVars
  <2>4. QED
    BY <2>1, <2>2, <2>3 DEF PassesDeliver
<1>2. RowTypes /\ [Next]_vars => [PassesDeliver]_vars
  BY <1>1
<1>3. QED
  BY <1>2, InitRowTypes, RowTypesStep, PTL DEF Spec
=============================================================================
