-------------------------- MODULE SsePubSub_proofs --------------------------
(***************************************************************************)
(* Proofs about SsePubSub, for every number of rows, every three fetch     *)
(* limits, every order of commits and every loss of the connection.        *)
(***************************************************************************)
EXTENDS SsePubSub, FiniteSetTheorems, WellFoundedInduction, TLAPS

\* Before a stream is opened, and as it begins, nothing is left of another one.
Quiet ==
    /\ pc \in {"closed", "ended", "polling", "listen"} => notes = <<>> /\ ~listening
    /\ pc \in {"closed", "polling"} => url = 0 /\ cursor = 0 /\ ~lossy
    /\ pc \in {"closed", "polling", "listen", "first"} => got = {}
    /\ pc \in {"top", "wait", "status", "drain"} => stage = "live"
    /\ pc \in {"closed", "ended", "polling", "listen", "first"} =>
          stage = "history" /\ job = "none"

\* Without a lost connection the generator listens.
HearsAll == Up /\ pc # "listen" /\ ~unheard => listening

\* The job has been over when the generator knows it.
EndIsKnown == status = "DONE" \/ job = "DONE" \/ pc \in {"drain", "ended"} => over

\* The cursor is the ID the stream was opened with or that of a row.
CursorIsRow == Up => url <= cursor /\ (cursor = url \/ cursor \in rows)

\* A batch follows the cursor, and leaves out no row up to its last one.
BatchFollows ==
    /\ \A j \in batch : cursor < j
    /\ ~lossy => \A i \in rows : \A j \in batch : cursor < i /\ i <= j => i \in batch

\* The second fetch has been made.
Reconciled == stage = "live" \/ (stage = "reconcile" /\ pc = "send")

Queued(i) == \E n \in 1 .. Len(notes) : notes[n] = i

NotesInOrder ==
    Up /\ ~lossy => \A m, n \in 1 .. Len(notes) : m < n => notes[m] < notes[n]

\* No row lies between the cursor and a notification but those still to come
\* before it.
NotesFollow ==
    Up /\ ~lossy /\ Reconciled =>
        \A i \in rows : \A n \in 1 .. Len(notes) :
            cursor < i /\ i < notes[n] => i \in batch \/ Queued(i)

\* As long as it listens, every row after the cursor is on its way.
AllOnTheWay ==
    Up /\ ~lossy /\ Reconciled /\ listening =>
        \A i \in rows : cursor < i => i \in batch \/ Queued(i)

\* So is the end of a job that was over when the stream was opened.
ReplayComplete ==
    ~lossy /\ job = "DONE" /\ stage = "reconcile" /\ pc = "send" =>
        \A i \in final : i <= cursor \/ i \in batch

IInv ==
    /\ TypeOK /\ Quiet /\ HearsAll /\ EndIsKnown /\ CursorIsRow /\ BatchFollows
    /\ NotesInOrder /\ NotesFollow /\ AllOnTheWay /\ ReplayComplete
    /\ NoRowPassedOver /\ EndIsComplete

-----------------------------------------------------------------------------
\* FirstOf(n, ids) keeps with each ID every smaller one, and takes all IDs when
\* there are at most n.
LEMMA FirstOfIsPrefix ==
    ASSUME NEW m \in Nat, NEW ids \in SUBSET (1 .. m), NEW n \in Nat
    PROVE  /\ FirstOf(n, ids) \subseteq ids
           /\ \A i \in ids : \A j \in FirstOf(n, ids) : i <= j => i \in FirstOf(n, ids)
           /\ ~(Cardinality(ids) > n) => FirstOf(n, ids) = ids
<1> DEFINE Below(i) == {j \in ids : j < i}
<1>1. IsFiniteSet(ids) /\ Cardinality(ids) \in Nat /\ ids \subseteq Int
  <2>1. IsFiniteSet(1 .. m) /\ 1 .. m \subseteq Int
    BY FS_Interval
  <2>2. IsFiniteSet(ids) /\ ids \subseteq Int
    BY <2>1, FS_Subset
  <2>3. QED
    BY <2>2, FS_CardinalityType
<1>2. \A i \in ids : IsFiniteSet(Below(i)) /\ Cardinality(Below(i)) \in Nat
  BY <1>1, FS_Subset, FS_CardinalityType
<1>3. ASSUME NEW i \in ids, NEW j \in FirstOf(n, ids), i <= j
      PROVE  i \in FirstOf(n, ids)
  <2>1. j \in ids /\ Cardinality(Below(j)) < n
    BY DEF FirstOf
  <2>2. Below(i) \subseteq Below(j)
    <3>1. i \in Int /\ j \in Int /\ i <= j
      BY <1>1, <1>3, <2>1
    <3>2. \A k \in ids : k < i => k < j
      BY <1>1, <3>1
    <3>3. QED
      BY <3>2
  <2>3. Cardinality(Below(i)) <= Cardinality(Below(j))
    BY <1>2, <2>1, <2>2, FS_Subset
  <2>4. QED
    BY <1>2, <2>1, <2>3 DEF FirstOf
<1>4. ASSUME ~(Cardinality(ids) > n) PROVE FirstOf(n, ids) = ids
  <2>1. ASSUME NEW i \in ids PROVE Cardinality(Below(i)) < n
    <3>1. Below(i) \subseteq ids /\ Below(i) # ids
      <4>1. i \notin Below(i)
        BY <1>1
      <4>2. QED
        BY <4>1
    <3>2. Below(i) \in SUBSET ids
      OBVIOUS
    <3>3. /\ Cardinality(Below(i)) <= Cardinality(ids)
          /\ Cardinality(ids) # Cardinality(Below(i))
      BY <1>1, <3>1, <3>2, FS_Subset
    <3>4. Cardinality(Below(i)) \in Nat /\ Cardinality(ids) \in Nat
      BY <1>1, <1>2
    <3>5. QED
      BY <1>4, <3>3, <3>4
  <2>2. QED
    BY <2>1 DEF FirstOf
<1>5. QED
  BY <1>3, <1>4 DEF FirstOf

LEMMA LimitIsNat == stage \in {"history", "reconcile", "live"} => Limit \in Nat
  BY PubSubAssumption DEF Limit

-----------------------------------------------------------------------------
\* Leaving a stream keeps the invariant; at the end of the job, provided that
\* everything to be delivered was.
LEMMA LeaveStep ==
    ASSUME IInv, NEW to \in {"closed", "polling", "ended"}, Leave(to),
           pc \notin {"closed", "ended"}, to # "closed" => Up,
           to = "ended" =>
               /\ over
               /\ ~lossy /\ ~unheard' => \A i \in final : i <= url \/ i \in got
    PROVE  IInv'
<1>1. /\ UNCHANGED <<lastId, open, rows, status, over, final, stopping>>
      /\ pc' = to /\ stage' = "history" /\ job' = "none" /\ cursor' = 0
      /\ batch' = {} /\ listening' = FALSE /\ notes' = <<>>
  BY Zenon DEF Leave, dbVars
<1>2. to # "ended" => url' = 0 /\ got' = {} /\ lossy' = FALSE /\ unheard' = FALSE
  BY Zenon DEF Leave
<1>3. to = "ended" => UNCHANGED <<url, got, lossy>>
  BY Zenon DEF Leave
<1>4. ~Up'
  BY <1>1 DEF Up
<1>5. TypeOK'
  <2>1. notes' \in Seq(Nat) /\ Len(notes') = 0
    BY <1>1
  <2>2. lossy' \in BOOLEAN /\ unheard' \in BOOLEAN
    BY Zenon DEF Leave, IInv, TypeOK
  <2>3. url' \in Nat /\ got' \subseteq rows
    <3>1. (url' = 0 /\ got' = {}) \/ (url' = url /\ got' = got)
      BY <1>2, <1>3, Zenon
    <3>2. url \in Nat /\ got \subseteq rows
      BY Zenon DEF IInv, TypeOK
    <3>3. QED
      BY <3>1, <3>2
  <2>4. \A n \in 1 .. Len(notes') : notes'[n] \in rows'
    BY <2>1
  <2>5. QED
    BY <1>1, <2>1, <2>2, <2>3, <2>4 DEF IInv, TypeOK
<1>6. Quiet' /\ HearsAll' /\ CursorIsRow' /\ NoRowPassedOver' /\ BatchFollows'
  BY <1>1, <1>2, <1>3, <1>4 DEF Quiet, HearsAll, CursorIsRow, NoRowPassedOver, BatchFollows
<1>7. NotesInOrder' /\ NotesFollow' /\ AllOnTheWay' /\ ReplayComplete'
  BY <1>1, <1>4 DEF NotesInOrder, NotesFollow, AllOnTheWay, ReplayComplete
<1>8. EndIsKnown' /\ EndIsComplete'
  BY <1>1, <1>2, <1>3 DEF IInv, EndIsKnown, EndIsComplete
<1>9. QED
  BY <1>5, <1>6, <1>7, <1>8 DEF IInv

\* Taking a notification keeps it.
LEMMA TakeStep ==
    ASSUME IInv, Take, UNCHANGED unheard,
           \/ pc = "wait" /\ pc' = "status"
           \/ pc = "drain" /\ pc' = "drain"
    PROVE  IInv'
<1> DEFINE h == notes[1]
<1>1. /\ UNCHANGED <<lastId, open, rows, status, over, final, stopping, listening, stage, job,
                     batch, url, unheard>>
      /\ notes # <<>> /\ notes' = Tail(notes)
  BY Zenon DEF Take, dbVars
<1>2. Up /\ Up' /\ stage = "live" /\ batch = {}
  BY DEF IInv, TypeOK, Quiet, Up
<1>3. /\ notes \in Seq(Nat) /\ Len(notes) \in Nat /\ Len(notes) > 0 /\ Head(notes) = h
      /\ h \in rows /\ h \in Nat /\ cursor \in Nat /\ url \in Nat
      /\ notes' \in Seq(Nat) /\ Len(notes') = Len(notes) - 1
      /\ \A n \in 1 .. Len(notes') : notes'[n] = notes[n + 1]
  BY <1>1 DEF IInv, TypeOK
<1>4. \/ h > cursor /\ cursor' = h /\ got' = got \cup {h} /\ lossy' = lossy
      \/ h > cursor /\ cursor' = cursor /\ got' = got /\ lossy' = TRUE
      \/ h <= cursor /\ cursor' = cursor /\ got' = got /\ lossy' = lossy
  BY <1>3, Zenon DEF Take
<1>5. \A i \in rows : i \in Nat
  BY DEF IInv, TypeOK
<1>6. /\ cursor' \in Nat /\ cursor <= cursor'
      /\ ~lossy' => ~lossy /\ h <= cursor'
  <2>1. ~lossy' => ~lossy
    BY <1>4, Zenon
  <2>2. cursor' \in Nat /\ cursor <= cursor'
    BY <1>3, <1>4
  <2>3. ~lossy' => h <= cursor'
    BY <1>3, <1>4
  <2>4. QED
    BY <2>1, <2>2, <2>3
<1>7. TypeOK'
  <2>1. lossy' \in BOOLEAN
    BY <1>4, Zenon DEF IInv, TypeOK
  <2>2. cursor' \in Nat /\ got' \subseteq rows
    BY <1>3, <1>4 DEF IInv, TypeOK
  <2>3. \A n \in 1 .. Len(notes') : notes'[n] \in rows'
    BY <1>1, <1>3 DEF IInv, TypeOK
  <2>4. QED
    BY <1>1, <1>2, <1>3, <2>1, <2>2, <2>3 DEF IInv, TypeOK
<1>8. Quiet' /\ HearsAll' /\ EndIsKnown'
  BY <1>1, <1>2 DEF IInv, Quiet, HearsAll, EndIsKnown, Up
<1>9. CursorIsRow'
  BY <1>1, <1>2, <1>3, <1>4 DEF IInv, CursorIsRow
<1>10. BatchFollows' /\ ReplayComplete' /\ EndIsComplete'
  BY <1>1, <1>2 DEF BatchFollows, ReplayComplete, EndIsComplete
<1>11. NotesInOrder'
  <2> SUFFICES ASSUME ~lossy', NEW m \in 1 .. Len(notes'), NEW n \in 1 .. Len(notes'), m < n
               PROVE  notes'[m] < notes'[n]
    BY DEF NotesInOrder
  <2>1. m + 1 \in 1 .. Len(notes) /\ n + 1 \in 1 .. Len(notes) /\ m + 1 < n + 1
    BY <1>3
  <2>2. QED
    BY <1>2, <1>3, <1>6, <2>1 DEF IInv, NotesInOrder
<1>12. ASSUME ~lossy', NEW i \in rows, cursor' < i, Queued(i)
       PROVE  Queued(i)'
  <2>1. PICK n \in 1 .. Len(notes) : notes[n] = i
    BY <1>12 DEF Queued
  <2>2. n # 1
    BY <1>3, <1>5, <1>6, <1>12, <2>1
  <2>3. n - 1 \in 1 .. Len(notes') /\ notes'[n - 1] = i
    BY <1>3, <2>1, <2>2
  <2>4. QED
    BY <1>1, <2>3 DEF Queued
<1>13. NotesFollow'
  <2> SUFFICES ASSUME ~lossy', NEW i \in rows, NEW n \in 1 .. Len(notes'),
                      cursor' < i, i < notes'[n]
               PROVE  Queued(i)'
    BY <1>1, <1>2 DEF NotesFollow, Queued
  <2>1. n + 1 \in 1 .. Len(notes) /\ notes'[n] = notes[n + 1] /\ cursor < i
    <3>1. n + 1 \in 1 .. Len(notes) /\ notes'[n] = notes[n + 1]
      BY <1>3
    <3>2. i \in Nat /\ cursor \in Nat /\ cursor' \in Nat /\ cursor <= cursor'
      BY <1>3, <1>5, <1>6
    <3>3. QED
      BY <3>1, <3>2
  <2>2. Queued(i)
    BY <1>2, <1>6, <2>1 DEF IInv, NotesFollow, Reconciled
  <2>3. QED
    BY <1>12, <2>2
<1>14. AllOnTheWay'
  <2> SUFFICES ASSUME ~lossy', listening, NEW i \in rows, cursor' < i
               PROVE  Queued(i)'
    BY <1>1, <1>2 DEF AllOnTheWay, Queued
  <2>1. cursor < i
    BY <1>3, <1>5, <1>6
  <2>2. Queued(i)
    BY <1>2, <1>6, <2>1 DEF IInv, AllOnTheWay, Reconciled
  <2>3. QED
    BY <1>12, <2>2
<1>15. NoRowPassedOver'
  <2> SUFFICES ASSUME ~lossy'
               PROVE  got' = {i \in rows : url < i /\ i <= cursor'}
    BY <1>1 DEF NoRowPassedOver
  <2>1. ~lossy /\ got = {i \in rows : url < i /\ i <= cursor} /\ url <= cursor
    BY <1>2, <1>6 DEF IInv, NoRowPassedOver, CursorIsRow
  <2>2. CASE h > cursor
    <3>1. cursor' = h /\ got' = got \cup {h}
      BY <1>3, <1>4, <2>2
    <3>2. \A i \in rows : ~(cursor < i /\ i < h)
      <4> SUFFICES ASSUME NEW i \in rows, cursor < i, i < h PROVE FALSE
        OBVIOUS
      <4>1. Queued(i)
        BY <1>2, <1>3, <2>1 DEF IInv, NotesFollow, Reconciled
      <4>2. PICK n \in 1 .. Len(notes) : notes[n] = i
        BY <4>1 DEF Queued
      <4>3. 1 \in 1 .. Len(notes) /\ (n = 1 \/ 1 < n)
        BY <1>3
      <4>4. n = 1 \/ h < i
        BY <1>2, <2>1, <4>2, <4>3 DEF IInv, NotesInOrder
      <4>5. QED
        BY <1>3, <1>5, <4>2, <4>4
    <3>3. \A i \in rows : url < i /\ i <= h <=> (url < i /\ i <= cursor) \/ i = h
      <4> SUFFICES ASSUME NEW i \in rows
                   PROVE  url < i /\ i <= h <=> (url < i /\ i <= cursor) \/ i = h
        OBVIOUS
      <4>1. i \in Nat /\ h \in Nat /\ cursor \in Nat /\ url \in Nat /\ url <= cursor /\ h > cursor
        BY <1>3, <1>5, <2>1, <2>2
      <4>2. ~(cursor < i /\ i < h)
        BY <3>2
      <4> HIDE DEF h
      <4>3. QED
        BY <4>1, <4>2
    <3>4. QED
      BY <1>3, <2>1, <3>1, <3>3
  <2>3. CASE h <= cursor
    BY <1>3, <1>4, <2>1, <2>3
  <2>4. QED
    BY <1>3, <2>2, <2>3
<1>16. QED
  BY <1>7, <1>8, <1>9, <1>10, <1>11, <1>13, <1>14, <1>15 DEF IInv

-----------------------------------------------------------------------------
\* The steps of the database.
LEMMA CommitStep ==
    ASSUME IInv, NEW i \in open, Commit(i)
    PROVE  IInv'
<1>1. UNCHANGED <<lastId, status, over, final, stopping, pc, listening, stage, job, cursor,
                  batch, url, got, unheard>>
      /\ open' = open \ {i}
  BY Zenon DEF Commit, dbVars, streamVars, mishaps
<1>2. i \notin rows /\ i \in 1 .. lastId /\ i \in Nat /\ lastId \in Nat /\ cursor \in Nat
      /\ url \in Nat /\ notes \in Seq(Nat) /\ Len(notes) \in Nat
  BY DEF IInv, TypeOK
<1>3. \A j \in rows : j \in Nat
  BY DEF IInv, TypeOK
<1>4. CASE UNCHANGED <<rows, notes, lossy, unheard>>
  <2>1. TypeOK'
    BY <1>1, <1>4 DEF IInv, TypeOK, Up
  <2>2. Quiet' /\ HearsAll' /\ EndIsKnown' /\ CursorIsRow' /\ BatchFollows'
    BY <1>1, <1>4 DEF IInv, Quiet, HearsAll, EndIsKnown, CursorIsRow, BatchFollows, Up
  <2>3. NotesInOrder' /\ NotesFollow' /\ AllOnTheWay' /\ ReplayComplete'
    BY <1>1, <1>4 DEF IInv, NotesInOrder, NotesFollow, AllOnTheWay, ReplayComplete, Up,
       Reconciled, Queued
  <2>4. NoRowPassedOver' /\ EndIsComplete'
    BY <1>1, <1>4 DEF IInv, NoRowPassedOver, EndIsComplete, Up
  <2>5. QED
    BY <2>1, <2>2, <2>3, <2>4 DEF IInv
<1>5. CASE ~UNCHANGED <<rows, notes, lossy, unheard>>
  <2>1. rows' = rows \cup {i} /\ (listening => notes' = Append(notes, i))
        /\ (~listening => notes' = notes)
    BY <1>5, Zenon DEF Commit, mishaps
  <2>2. /\ lossy' \in BOOLEAN
        /\ ~lossy' => ~lossy
        /\ ~lossy' /\ Up => \A j \in rows : ~(i < j)
    BY <1>5, Zenon DEF Commit, mishaps
  <2>3. ~lossy' /\ Up => \A j \in rows : j < i
    BY <1>2, <1>3, <2>2
  <2>4. /\ notes' \in Seq(Nat) /\ Len(notes') \in Nat /\ Len(notes) <= Len(notes')
        /\ \A n \in 1 .. Len(notes) : notes'[n] = notes[n]
        /\ \A n \in 1 .. Len(notes') : n \notin 1 .. Len(notes) =>
              listening /\ n = Len(notes) + 1 /\ notes'[n] = i
        /\ listening => Len(notes') = Len(notes) + 1
    <3>1. CASE listening
      <4>1. notes' = Append(notes, i)
        BY <2>1, <3>1
      <4>2. notes' \in Seq(Nat) /\ Len(notes') = Len(notes) + 1
        BY <1>2, <4>1
      <4>3. \A n \in 1 .. Len(notes') : notes'[n] = IF n = Len(notes) + 1 THEN i ELSE notes[n]
        BY <1>2, <4>1
      <4>4. QED
        BY <1>2, <3>1, <4>2, <4>3
    <3>2. CASE ~listening
      BY <1>2, <2>1, <3>2
    <3>3. QED
      BY <3>1, <3>2
  <2>5. \A j : Queued(j) => Queued(j)'
    BY <1>2, <2>4 DEF Queued
  <2>6. TypeOK'
    <3>1. \A n \in 1 .. Len(notes') : notes'[n] \in rows'
      BY <2>1, <2>4 DEF IInv, TypeOK
    <3>2. rows' \subseteq 1 .. lastId' /\ open' \subseteq 1 .. lastId' /\ open' \cap rows' = {}
          /\ final' \subseteq rows' /\ batch' \subseteq rows' /\ got' \subseteq rows'
      BY <1>1, <1>2, <2>1 DEF IInv, TypeOK
    <3>3. QED
      BY <1>1, <2>2, <2>4, <3>1, <3>2 DEF IInv, TypeOK, Up
  <2>7. Quiet' /\ HearsAll' /\ EndIsKnown' /\ CursorIsRow'
    <3>1. pc \in {"closed", "polling"} => ~lossy'
      BY <1>5, Zenon DEF IInv, Quiet, Commit, mishaps, Up
    <3>2. Quiet'
      BY <1>1, <2>1, <3>1 DEF IInv, Quiet
    <3>3. QED
      BY <1>1, <2>1, <3>2 DEF IInv, HearsAll, EndIsKnown, CursorIsRow, Up
  <2>8. BatchFollows'
    <3>1. CASE Up
      BY <1>1, <1>2, <1>3, <2>1, <2>2, <2>3, <3>1 DEF IInv, TypeOK, BatchFollows
    <3>2. CASE ~Up
      BY <1>1, <3>2 DEF IInv, TypeOK, BatchFollows, Up
    <3>3. QED
      BY <3>1, <3>2
  <2>9. NotesInOrder'
    <3> SUFFICES ASSUME Up, ~lossy', NEW m \in 1 .. Len(notes'), NEW n \in 1 .. Len(notes'),
                        m < n
                 PROVE  notes'[m] < notes'[n]
      BY <1>1 DEF NotesInOrder, Up
    <3>1. m \in 1 .. Len(notes) /\ notes'[m] = notes[m] /\ notes[m] \in rows
      BY <1>2, <2>4 DEF IInv, TypeOK
    <3>2. CASE n \in 1 .. Len(notes)
      BY <2>2, <2>4, <3>1, <3>2 DEF IInv, NotesInOrder
    <3>3. CASE n \notin 1 .. Len(notes)
      BY <2>3, <2>4, <3>1, <3>3
    <3>4. QED
      BY <3>2, <3>3
  <2>10. NotesFollow'
    <3> SUFFICES ASSUME Up, ~lossy', Reconciled, NEW j \in rows', NEW n \in 1 .. Len(notes'),
                        cursor < j, j < notes'[n]
                 PROVE  j \in batch \/ Queued(j)'
      BY <1>1 DEF NotesFollow, Up, Reconciled
    <3>1. CASE n \in 1 .. Len(notes)
      <4>1. notes'[n] = notes[n] /\ notes[n] \in rows
        BY <2>4, <3>1 DEF IInv, TypeOK
      <4>2. j \in rows
        BY <1>2, <1>3, <2>1, <2>3, <4>1
      <4>3. QED
        BY <2>2, <2>5, <3>1, <4>1, <4>2 DEF IInv, NotesFollow
    <3>2. CASE n \notin 1 .. Len(notes)
      <4>1. listening /\ notes'[n] = i
        BY <2>4, <3>2
      <4>2. j \in rows
        BY <1>2, <2>1, <4>1
      <4>3. QED
        BY <2>2, <2>5, <4>1, <4>2 DEF IInv, AllOnTheWay
    <3>3. QED
      BY <3>1, <3>2
  <2>11. AllOnTheWay'
    <3> SUFFICES ASSUME Up, ~lossy', Reconciled, listening, NEW j \in rows', cursor < j
                 PROVE  j \in batch \/ Queued(j)'
      BY <1>1 DEF AllOnTheWay, Up, Reconciled
    <3>1. CASE j = i
      <4>1. Len(notes) + 1 \in 1 .. Len(notes') /\ notes'[Len(notes) + 1] = i
        BY <1>2, <2>4
      <4>2. QED
        BY <3>1, <4>1 DEF Queued
    <3>2. CASE j # i
      BY <2>1, <2>2, <2>5, <3>2 DEF IInv, AllOnTheWay
    <3>3. QED
      BY <3>1, <3>2
  <2>12. ReplayComplete'
    BY <1>1, <2>2 DEF IInv, ReplayComplete
  <2>13. NoRowPassedOver'
    <3> SUFFICES ASSUME Up, ~lossy'
                 PROVE  got = {j \in rows' : url < j /\ j <= cursor}
      BY <1>1 DEF NoRowPassedOver, Up
    <3>1. got = {j \in rows : url < j /\ j <= cursor}
      BY <2>2 DEF IInv, NoRowPassedOver
    <3>2. ~(url < i /\ i <= cursor)
      BY <1>2, <2>3 DEF IInv, CursorIsRow
    <3>3. QED
      BY <2>1, <3>1, <3>2
  <2>14. EndIsComplete'
    BY <1>1, <2>2 DEF IInv, EndIsComplete
  <2>15. QED
    BY <2>6, <2>7, <2>8, <2>9, <2>10, <2>11, <2>12, <2>13, <2>14 DEF IInv
<1>6. QED
  BY <1>4, <1>5

LEMMA LoseStep ==
    ASSUME IInv, LoseConnection
    PROVE  IInv'
<1>1. /\ UNCHANGED <<lastId, open, rows, status, over, final, stopping, pc, stage, job, cursor,
                     batch, url, got>>
      /\ listening /\ listening' = FALSE
  BY Zenon DEF LoseConnection, dbVars, streamVars
<1>2. lossy' = lossy /\ unheard' = TRUE
  BY Zenon DEF LoseConnection
<1>3. PICK l \in 0 .. Len(notes) : notes' = SubSeq(notes, 1, l)
  BY DEF LoseConnection
<1>4. /\ notes \in Seq(Nat) /\ Len(notes) \in Nat /\ \A n \in 1 .. Len(notes) : notes[n] \in rows
      /\ Up
  BY <1>1 DEF IInv, TypeOK
<1>5. /\ notes' \in Seq(Nat) /\ Len(notes') = l
      /\ \A n \in 1 .. Len(notes') : n \in 1 .. Len(notes) /\ notes'[n] = notes[n]
  BY <1>3, <1>4
<1>6. TypeOK'
  <2>1. \A n \in 1 .. Len(notes') : notes'[n] \in rows'
    BY <1>1, <1>4, <1>5
  <2>2. notes' \in Seq(Nat)
    BY <1>5
  <2>3. lossy' \in BOOLEAN /\ unheard' \in BOOLEAN
    BY <1>2, Zenon DEF IInv, TypeOK
  <2>4. QED
    BY <1>1, <2>1, <2>2, <2>3 DEF IInv, TypeOK
<1>7. Quiet' /\ HearsAll' /\ EndIsKnown' /\ CursorIsRow' /\ BatchFollows'
  <2>1. pc \notin {"closed", "ended", "polling", "listen"}
    BY <1>1 DEF IInv, Quiet
  <2>2. Quiet' /\ HearsAll'
    BY <1>1, <1>2, <2>1 DEF IInv, Quiet, HearsAll
  <2>3. QED
    BY <1>1, <1>2, <2>2 DEF IInv, EndIsKnown, CursorIsRow, BatchFollows, Up
<1>8. NotesInOrder' /\ AllOnTheWay'
  BY <1>1, <1>2, <1>4, <1>5 DEF IInv, NotesInOrder, AllOnTheWay
<1>9. NotesFollow'
  <2> SUFFICES ASSUME ~lossy, Reconciled, NEW i \in rows, NEW n \in 1 .. Len(notes'),
                      cursor < i, i < notes'[n]
               PROVE  i \in batch \/ Queued(i)'
    BY <1>1, <1>2 DEF NotesFollow, Reconciled
  <2>1. n \in 1 .. Len(notes) /\ notes'[n] = notes[n] /\ n <= l
    BY <1>5
  <2>2. i \in batch \/ Queued(i)
    BY <1>4, <2>1 DEF IInv, NotesFollow
  <2>3. CASE Queued(i)
    <3>1. PICK m \in 1 .. Len(notes) : notes[m] = i
      BY <2>3 DEF Queued
    <3>2. ~(n < m) /\ m # n
      <4>1. i \in Nat /\ notes[n] \in Nat
        BY <1>4, <2>1, <3>1
      <4>2. n < m => notes[n] < notes[m]
        BY <1>4, <2>1 DEF IInv, NotesInOrder
      <4>3. QED
        BY <2>1, <3>1, <4>1, <4>2
    <3>3. m \in 1 .. Len(notes')
      BY <1>3, <1>5, <2>1, <3>2
    <3>4. QED
      BY <1>5, <3>1, <3>3 DEF Queued
  <2>4. QED
    BY <2>2, <2>3
<1>10. ReplayComplete' /\ NoRowPassedOver' /\ EndIsComplete'
  BY <1>1, <1>2, <1>4 DEF IInv, ReplayComplete, NoRowPassedOver, EndIsComplete, Up
<1>11. QED
  BY <1>6, <1>7, <1>8, <1>9, <1>10 DEF IInv

LEMMA SetStatusStep ==
    ASSUME IInv, NEW st \in {"RUNNING", "DONE", "none"}, SetStatus(st)
    PROVE  IInv'
<1>1. UNCHANGED <<lastId, open, rows, stopping, pc, listening, notes, stage, job, cursor,
                  batch, url, got, lossy, unheard>>
      /\ status' = st
  BY Zenon DEF SetStatus, noteVars, streamVars, mishaps
<1>2. /\ over' \in BOOLEAN
      /\ over => over' /\ final' = final
      /\ st = "DONE" => over'
      /\ final' = final \/ final' = rows
  BY Zenon DEF SetStatus, IInv, TypeOK
<1>3. TypeOK'
  <2>1. over' \in BOOLEAN
    BY <1>2
  <2>2. final' \subseteq rows
    BY <1>2, Zenon DEF IInv, TypeOK
  <2>3. QED
    BY <1>1, <2>1, <2>2 DEF IInv, TypeOK, Up
<1>4. Quiet' /\ HearsAll' /\ CursorIsRow' /\ BatchFollows'
  BY <1>1 DEF IInv, Quiet, HearsAll, CursorIsRow, BatchFollows, Up
<1>5. EndIsKnown'
  BY <1>1, <1>2 DEF IInv, EndIsKnown
<1>6. NotesInOrder' /\ NotesFollow' /\ AllOnTheWay' /\ NoRowPassedOver'
  BY <1>1 DEF IInv, NotesInOrder, NotesFollow, AllOnTheWay, NoRowPassedOver, Up, Reconciled,
     Queued
<1>7. ReplayComplete' /\ EndIsComplete'
  BY <1>1, <1>2 DEF IInv, EndIsKnown, ReplayComplete, EndIsComplete
<1>8. QED
  BY <1>3, <1>4, <1>5, <1>6, <1>7 DEF IInv

-----------------------------------------------------------------------------
\* The steps of the generator.
LEMMA OpenStep ==
    ASSUME IInv, NEW s \in Starts, Open(s)
    PROVE  IInv'
<1>1. /\ UNCHANGED <<lastId, open, rows, status, over, final, stopping, stage, job, batch,
                     listening, notes>>
      /\ pc' = "listen" /\ cursor' = s /\ url' = s /\ got' = {}
      /\ pc \in {"closed", "ended", "polling"}
  BY Zenon DEF Open, dbVars, noteVars
<1>2. lossy' = FALSE /\ unheard' = FALSE
  BY Zenon DEF Open
<1>3. /\ s \in Nat /\ batch = {} /\ notes = <<>> /\ ~listening /\ Len(notes) = 0
      /\ stage = "history" /\ job = "none"
  BY <1>1, PubSubAssumption DEF IInv, TypeOK, Quiet
<1>4. TypeOK'
  BY <1>1, <1>2, <1>3 DEF IInv, TypeOK
<1>5. Quiet' /\ HearsAll' /\ EndIsKnown' /\ CursorIsRow' /\ BatchFollows'
  BY <1>1, <1>3 DEF IInv, Quiet, HearsAll, EndIsKnown, CursorIsRow, BatchFollows
<1>6. NotesInOrder' /\ NotesFollow' /\ AllOnTheWay' /\ ReplayComplete'
  BY <1>1, <1>3 DEF NotesInOrder, NotesFollow, AllOnTheWay, ReplayComplete
<1>7. NoRowPassedOver' /\ EndIsComplete'
  <2>1. \A i \in rows : i \in Nat
    BY DEF IInv, TypeOK
  <2>2. {i \in rows : s < i /\ i <= s} = {}
    BY <1>3, <2>1
  <2>3. QED
    BY <1>1, <2>2 DEF NoRowPassedOver, EndIsComplete
<1>8. QED
  BY <1>4, <1>5, <1>6, <1>7 DEF IInv

LEMMA ListenStep ==
    ASSUME IInv, Listen
    PROVE  IInv'
<1>1. pc = "listen" /\ Up
  BY DEF Listen, Up
<1>2. CASE Leave("polling")
  BY <1>1, <1>2, LeaveStep DEF Up
<1>3. CASE ~Leave("polling")
  <2>1. /\ UNCHANGED <<lastId, open, rows, status, over, final, stopping, notes, stage, job,
                       cursor, batch, url, got, lossy, unheard>>
        /\ pc' = "first" /\ listening' = TRUE
    BY <1>3, Zenon DEF Listen, dbVars, streamVars, mishaps
  <2>2. Up' /\ batch = {} /\ notes = <<>> /\ Len(notes) = 0 /\ stage = "history" /\ job = "none"
    BY <1>1, <2>1 DEF IInv, TypeOK, Quiet, Up
  <2>3. TypeOK'
    <3>1. listening' \in BOOLEAN
      BY <2>1, Zenon
    <3>2. /\ UNCHANGED <<lastId, open, rows, status, over, final, stopping, notes, stage, job,
                         cursor, batch, url, got, lossy, unheard>>
          /\ pc' = "first"
      BY <2>1
    <3>3. QED
      BY <2>2, <3>1, <3>2 DEF IInv, TypeOK
  <2>4. Quiet' /\ HearsAll' /\ EndIsKnown' /\ CursorIsRow' /\ BatchFollows'
    BY <1>1, <2>1, <2>2 DEF IInv, Quiet, HearsAll, EndIsKnown, CursorIsRow, BatchFollows
  <2>5. NotesInOrder' /\ NotesFollow' /\ AllOnTheWay' /\ ReplayComplete'
    BY <2>1, <2>2 DEF NotesInOrder, NotesFollow, AllOnTheWay, ReplayComplete, Reconciled
  <2>6. NoRowPassedOver' /\ EndIsComplete'
    BY <1>1, <2>1 DEF IInv, NoRowPassedOver, EndIsComplete
  <2>7. QED
    BY <2>3, <2>4, <2>5, <2>6 DEF IInv
<1>4. QED
  BY <1>2, <1>3

LEMMA FirstStep ==
    ASSUME IInv, First
    PROVE  IInv'
<1>1. pc = "first" /\ Up
  BY DEF First, Up
<1>2. CASE Leave("polling") \/ Leave("closed")
  BY <1>1, <1>2, LeaveStep
<1>3. CASE ~(Leave("polling") \/ Leave("closed"))
  <2>1. /\ UNCHANGED <<lastId, open, rows, status, over, final, stopping, notes, listening,
                       stage, cursor, batch, url, got, lossy, unheard>>
        /\ pc' = "fetch" /\ job' = status
    BY <1>3, Zenon DEF First, dbVars, noteVars, mishaps
  <2>2. Up' /\ batch = {} /\ stage = "history"
    BY <1>1, <2>1 DEF IInv, TypeOK, Quiet, Up
  <2>3. TypeOK'
    BY <1>1, <2>1, <2>2 DEF IInv, TypeOK
  <2>4. Quiet' /\ HearsAll' /\ EndIsKnown' /\ CursorIsRow' /\ BatchFollows'
    BY <1>1, <2>1, <2>2 DEF IInv, Quiet, HearsAll, EndIsKnown, CursorIsRow, BatchFollows
  <2>5. NotesInOrder' /\ NotesFollow' /\ AllOnTheWay' /\ ReplayComplete'
    BY <1>1, <2>1, <2>2 DEF IInv, NotesInOrder, NotesFollow, AllOnTheWay, ReplayComplete,
       Reconciled
  <2>6. NoRowPassedOver' /\ EndIsComplete'
    BY <1>1, <2>1 DEF IInv, NoRowPassedOver, EndIsComplete
  <2>7. QED
    BY <2>3, <2>4, <2>5, <2>6 DEF IInv
<1>4. QED
  BY <1>2, <1>3

\* Steps that move the generator between positions at which nothing is said of
\* the stream that is not said before.
LEMMA MoveStep ==
    ASSUME IInv, Up, UNCHANGED <<dbVars, noteVars, job, cursor, batch, url, got, mishaps>>,
           stopping' \in BOOLEAN, batch = {},
           pc' \in {"fetch", "send", "top", "wait", "status", "drain"},
           pc' = "drain" => over,
           \/ stage = "live" /\ stage' = "live"
           \/ stage = "reconcile" /\ pc = "send" /\ stage' = "live"
           \/ stage' = "reconcile" /\ pc' = "fetch"
           \/ stage' = stage /\ pc' = pc,
           pc' \in {"top", "wait", "status", "drain"} => stage' = "live",
           pc \notin {"listen", "first"}
    PROVE  IInv'
<1>1. UNCHANGED <<lastId, open, rows, status, over, final, job, cursor, batch, url, got,
                  listening, notes, lossy, unheard>>
  BY DEF dbVars, noteVars, mishaps
<1>2. Up'
  BY DEF Up
<1>3. TypeOK'
  BY <1>1, <1>2 DEF IInv, TypeOK
<1>4. Quiet' /\ HearsAll' /\ EndIsKnown' /\ CursorIsRow' /\ BatchFollows'
  BY <1>1, <1>2 DEF IInv, Quiet, HearsAll, EndIsKnown, CursorIsRow, BatchFollows, Up
<1>5. Reconciled' => Reconciled
  BY DEF Reconciled
<1>6. NotesInOrder' /\ NotesFollow' /\ AllOnTheWay'
  BY <1>1, <1>5 DEF IInv, NotesInOrder, NotesFollow, AllOnTheWay, Queued
<1>7. ReplayComplete'
  BY <1>1 DEF IInv, ReplayComplete
<1>8. NoRowPassedOver' /\ EndIsComplete'
  BY <1>1, <1>2 DEF IInv, NoRowPassedOver, EndIsComplete, Up
<1>9. QED
  BY <1>3, <1>4, <1>6, <1>7, <1>8 DEF IInv

LEMMA FetchStep ==
    ASSUME IInv, FetchRows
    PROVE  IInv'
<1> DEFINE after == {i \in rows : i > cursor}
<1>1. /\ UNCHANGED <<lastId, open, rows, status, over, final, stopping, listening, notes, stage,
                     job, cursor, url, got, unheard>>
      /\ pc = "fetch" /\ pc' = "send" /\ batch' = FirstOf(Limit, after)
  BY Zenon DEF FetchRows, dbVars, noteVars
<1>2. /\ after \in SUBSET (1 .. lastId) /\ lastId \in Nat /\ after \subseteq rows
      /\ Limit \in Nat /\ batch = {} /\ Up /\ Up' /\ cursor \in Nat
      /\ \A i \in rows : i \in Nat
  <2>1. lastId \in Nat /\ rows \subseteq 1 .. lastId /\ cursor \in Nat
    BY PubSubAssumption DEF IInv, TypeOK
  <2>2. Limit \in Nat
    BY LimitIsNat DEF IInv, TypeOK
  <2>3. batch = {} /\ Up /\ Up'
    BY <1>1 DEF IInv, TypeOK, Up
  <2>4. \A i \in rows : i \in Nat
    BY <2>1
  <2>5. after \subseteq rows /\ after \in SUBSET (1 .. lastId)
    BY <2>1
  <2>6. QED
    BY <2>1, <2>2, <2>3, <2>4, <2>5
<1>3. /\ batch' \subseteq after
      /\ \A i \in after : \A j \in batch' : i <= j => i \in batch'
      /\ ~(Cardinality(after) > Limit) => batch' = after
  BY <1>1, <1>2, FirstOfIsPrefix
<1>4. /\ lossy' \in BOOLEAN
      /\ ~lossy' => ~lossy
      /\ ~lossy' /\ stage = "reconcile" => ~(Cardinality(after) > Limit)
  <2> HIDE DEF after
  <2>1. lossy' = (lossy \/ (stage = "reconcile" /\ Cardinality(after) > Limit))
    BY Zenon DEF FetchRows, after
  <2>2. QED
    BY <2>1, Zenon DEF IInv, TypeOK
<1>5. TypeOK'
  BY <1>1, <1>2, <1>3, <1>4 DEF IInv, TypeOK
<1>6. Quiet' /\ HearsAll' /\ EndIsKnown' /\ CursorIsRow'
  BY <1>1, <1>2 DEF IInv, Quiet, HearsAll, EndIsKnown, CursorIsRow
<1>7. BatchFollows'
  BY <1>1, <1>2, <1>3 DEF BatchFollows
<1>8. NotesInOrder'
  BY <1>1, <1>2, <1>4 DEF IInv, NotesInOrder
<1>9. ASSUME ~lossy', Reconciled'
      PROVE  Reconciled \/ batch' = after
  BY <1>1, <1>3, <1>4, <1>9 DEF Reconciled
<1>10. NotesFollow' /\ AllOnTheWay'
  BY <1>1, <1>2, <1>4, <1>9 DEF IInv, NotesFollow, AllOnTheWay, Queued
<1>11. ReplayComplete'
  <2> SUFFICES ASSUME ~lossy', stage = "reconcile", NEW i \in final
               PROVE  i <= cursor \/ i \in batch'
    BY <1>1 DEF ReplayComplete
  <2>1. i \in rows /\ batch' = after
    BY <1>3, <1>4 DEF IInv, TypeOK
  <2>2. QED
    BY <1>2, <2>1
<1>12. NoRowPassedOver' /\ EndIsComplete'
  BY <1>1, <1>2, <1>4 DEF IInv, NoRowPassedOver, EndIsComplete
<1>13. QED
  BY <1>5, <1>6, <1>7, <1>8, <1>10, <1>11, <1>12 DEF IInv

LEMMA FetchFailsStep ==
    ASSUME IInv, FetchFails
    PROVE  IInv'
<1>1. /\ UNCHANGED <<lastId, open, rows, status, over, final, stopping, listening, notes, stage,
                     job, cursor, batch, url, got, unheard>>
      /\ pc = "fetch" /\ pc' = "send"
  BY Zenon DEF FetchFails, dbVars, noteVars, streamVars
<1>2. Up /\ Up' /\ batch = {}
  BY <1>1 DEF IInv, TypeOK, Up
<1>3. lossy' \in BOOLEAN /\ (~lossy' => ~lossy /\ stage # "reconcile")
  BY Zenon DEF FetchFails, IInv, TypeOK
<1>4. TypeOK'
  BY <1>1, <1>2, <1>3 DEF IInv, TypeOK
<1>5. Quiet' /\ HearsAll' /\ EndIsKnown' /\ CursorIsRow' /\ BatchFollows'
  BY <1>1, <1>2 DEF IInv, Quiet, HearsAll, EndIsKnown, CursorIsRow, BatchFollows
<1>6. NotesInOrder' /\ NotesFollow' /\ AllOnTheWay' /\ ReplayComplete'
  BY <1>1, <1>2, <1>3 DEF IInv, NotesInOrder, NotesFollow, AllOnTheWay, ReplayComplete,
     Reconciled, Queued
<1>7. NoRowPassedOver' /\ EndIsComplete'
  BY <1>1, <1>2, <1>3 DEF IInv, NoRowPassedOver, EndIsComplete
<1>8. QED
  BY <1>4, <1>5, <1>6, <1>7 DEF IInv

LEMMA SendStep ==
    ASSUME IInv, Send
    PROVE  IInv'
<1>1. PICK i \in batch :
          /\ \A j \in batch : i <= j
          /\ batch' = batch \ {i}
          /\ cursor' = i /\ got' = got \cup {i}
  BY DEF Send
<1>2. /\ UNCHANGED <<lastId, open, rows, status, over, final, stopping, pc, listening, notes,
                     stage, job, url, lossy, unheard>>
      /\ pc = "send"
  BY Zenon DEF Send, dbVars, noteVars, mishaps
<1>3. /\ Up /\ Up' /\ i \in rows /\ i \in Nat /\ cursor \in Nat /\ url \in Nat
      /\ cursor < i /\ url <= cursor
      /\ \A j \in rows : j \in Nat
      /\ batch \subseteq rows
  BY <1>1, <1>2 DEF IInv, TypeOK, BatchFollows, CursorIsRow, Up
<1>4. ~lossy => \A k \in rows : ~(cursor < k /\ k < i)
  BY <1>1, <1>3 DEF IInv, BatchFollows
<1>5. TypeOK'
  BY <1>1, <1>2, <1>3 DEF IInv, TypeOK
<1>6. Quiet' /\ HearsAll' /\ EndIsKnown' /\ CursorIsRow'
  BY <1>1, <1>2, <1>3 DEF IInv, Quiet, HearsAll, EndIsKnown, CursorIsRow
<1>7. BatchFollows'
  <2>1. ASSUME NEW j \in batch \ {i} PROVE i < j
    BY <1>1, <1>3
  <2>2. ASSUME ~lossy, NEW k \in rows, NEW j \in batch \ {i}, i < k, k <= j
        PROVE  k \in batch \ {i}
    <3>1. cursor < k
      BY <1>3, <2>2
    <3>2. k \in batch
      BY <2>2, <3>1 DEF IInv, BatchFollows
    <3>3. QED
      BY <1>3, <2>2, <3>2
  <2>3. QED
    BY <1>1, <1>2, <2>1, <2>2 DEF BatchFollows
<1>8. NotesInOrder'
  BY <1>2 DEF IInv, NotesInOrder, Up
<1>9. NotesFollow' /\ AllOnTheWay'
  <2>1. \A k \in rows : i < k => cursor < k /\ k # i
    BY <1>3
  <2>2. Reconciled' = Reconciled /\ (\A k : Queued(k)' = Queued(k))
    BY <1>2 DEF Reconciled, Queued
  <2>3. NotesFollow'
    BY <1>1, <1>2, <1>3, <2>1, <2>2 DEF IInv, NotesFollow
  <2>4. AllOnTheWay'
    BY <1>1, <1>2, <1>3, <2>1, <2>2 DEF IInv, AllOnTheWay
  <2>5. QED
    BY <2>3, <2>4
<1>10. ReplayComplete'
  <2> SUFFICES ASSUME ~lossy, job = "DONE", stage = "reconcile", NEW k \in final
               PROVE  k <= i \/ k \in batch \ {i}
    BY <1>1, <1>2 DEF ReplayComplete
  <2>1. k \in rows /\ (k <= cursor \/ k \in batch)
    BY <1>2 DEF IInv, TypeOK, ReplayComplete
  <2>2. QED
    BY <1>3, <2>1
<1>11. NoRowPassedOver'
  <2> SUFFICES ASSUME ~lossy
               PROVE  got \cup {i} = {k \in rows : url < k /\ k <= i}
    BY <1>1, <1>2 DEF NoRowPassedOver
  <2>1. got = {k \in rows : url < k /\ k <= cursor}
    BY <1>3 DEF IInv, NoRowPassedOver
  <2>2. \A k \in rows : url < k /\ k <= i <=> (url < k /\ k <= cursor) \/ k = i
    BY <1>3, <1>4
  <2>3. QED
    BY <1>3, <2>1, <2>2
<1>12. EndIsComplete'
  BY <1>2 DEF EndIsComplete
<1>13. QED
  BY <1>5, <1>6, <1>7, <1>8, <1>9, <1>10, <1>11, <1>12 DEF IInv

LEMMA SentStep ==
    ASSUME IInv, Sent
    PROVE  IInv'
<1>1. pc = "send" /\ batch = {} /\ Up
  BY DEF Sent, Up
<1>2. CASE stage = "reconcile" /\ job = "DONE" /\ Leave("ended")
  <2>1. over
    BY <1>2 DEF IInv, EndIsKnown
  <2>2. ~lossy => \A i \in final : i <= url \/ i \in got
    <3> SUFFICES ASSUME ~lossy, NEW i \in final PROVE i <= url \/ i \in got
      OBVIOUS
    <3>1. i <= cursor /\ i \in rows /\ i \in Nat /\ url \in Nat
      BY <1>1, <1>2 DEF IInv, TypeOK, ReplayComplete
    <3>2. QED
      BY <1>1, <3>1 DEF IInv, NoRowPassedOver
  <2>3. QED
    BY <1>1, <1>2, <2>1, <2>2, LeaveStep
<1>3. CASE ~(stage = "reconcile" /\ job = "DONE" /\ Leave("ended"))
  <2>1. /\ UNCHANGED <<dbVars, stopping, noteVars, job, cursor, batch, url, got, mishaps>>
        /\ \/ stage' = "reconcile" /\ pc' = "fetch"
           \/ stage = "reconcile" /\ stage' = "live" /\ pc' = "top"
           \/ stage = "live" /\ stage' = "live" /\ pc' = "status"
    BY <1>3, Zenon DEF Sent, streamVars
  <2>2. stopping' \in BOOLEAN
    BY <2>1, Zenon DEF IInv, TypeOK
  <2>3. QED
    BY <1>1, <2>1, <2>2, MoveStep
<1>4. QED
  BY <1>2, <1>3

LEMMA LoopStep ==
    ASSUME IInv, Top \/ TimedOut \/ Status
    PROVE  IInv'
<1>1. pc \in {"top", "wait", "status"} /\ Up /\ batch = {} /\ stage = "live"
  BY DEF Top, TimedOut, Status, IInv, TypeOK, Quiet, Up
<1>2. CASE Leave("closed")
  BY <1>1, <1>2, LeaveStep
<1>3. CASE ~Leave("closed")
  <2>1. UNCHANGED <<dbVars, stopping, noteVars, stage, job, cursor, batch, url, got, mishaps>>
    BY <1>3, Zenon DEF Top, TimedOut, Status, streamVars
  <2>2. pc' \in {"wait", "fetch", "top", "drain"} /\ (pc' = "drain" => status = "DONE")
    BY <1>3 DEF Top, TimedOut, Status
  <2>3. pc' = "drain" => over
    BY <2>2 DEF IInv, EndIsKnown
  <2>4. stopping' \in BOOLEAN
    BY <2>1, Zenon DEF IInv, TypeOK
  <2>5. QED
    BY <1>1, <2>1, <2>2, <2>3, <2>4, MoveStep
<1>4. QED
  BY <1>2, <1>3

LEMMA DrainEndStep ==
    ASSUME IInv, DrainEnd
    PROVE  IInv'
<1>1. pc = "drain" /\ Leave("ended") /\ Up /\ batch = {} /\ stage = "live" /\ over
  BY DEF DrainEnd, IInv, TypeOK, Quiet, EndIsKnown, Up
<1>2. ASSUME ~lossy, ~unheard', NEW i \in final PROVE i <= url \/ i \in got
  <2>1. ~unheard /\ notes = <<>>
    BY <1>1, <1>2, Zenon DEF Leave
  <2>2. listening
    BY <1>1, <2>1 DEF IInv, HearsAll
  <2>3. i \in rows /\ i \in Nat /\ cursor \in Nat /\ url \in Nat /\ ~Queued(i)
    BY <2>1 DEF IInv, TypeOK, Queued
  <2>4. i <= cursor
    BY <1>1, <1>2, <2>2, <2>3 DEF IInv, AllOnTheWay, Reconciled
  <2>5. QED
    BY <1>1, <1>2, <2>3, <2>4 DEF IInv, NoRowPassedOver
<1>3. QED
  BY <1>1, <1>2, LeaveStep

\* The induction step, one action at a time.
LEMMA Step ==
    ASSUME IInv, [Next]_vars
    PROVE  IInv'
<1>1. ASSUME UNCHANGED <<lastId, rows, status, over, final, pc, noteVars, streamVars, mishaps>>,
             open' \cap rows = {} /\ open' \subseteq 1 .. lastId, stopping' \in BOOLEAN
      PROVE  IInv'
  <2>1. TypeOK'
    BY <1>1 DEF IInv, TypeOK, Up, noteVars, streamVars, mishaps
  <2>2. Quiet' /\ HearsAll' /\ EndIsKnown' /\ CursorIsRow' /\ BatchFollows'
    BY <1>1 DEF IInv, Quiet, HearsAll, EndIsKnown, CursorIsRow, BatchFollows, Up, noteVars,
       streamVars, mishaps
  <2>3. NotesInOrder' /\ NotesFollow' /\ AllOnTheWay' /\ ReplayComplete'
    BY <1>1 DEF IInv, NotesInOrder, NotesFollow, AllOnTheWay, ReplayComplete, Up, Reconciled,
       Queued, noteVars, streamVars, mishaps
  <2>4. NoRowPassedOver' /\ EndIsComplete'
    BY <1>1 DEF IInv, NoRowPassedOver, EndIsComplete, Up, streamVars, mishaps
  <2>5. QED
    BY <2>1, <2>2, <2>3, <2>4 DEF IInv
<1>2. CASE Insert
  <2>1. /\ lastId < MaxId /\ lastId' = lastId + 1 /\ open' = open \cup {lastId'}
        /\ UNCHANGED <<rows, status, over, final, stopping, pc, listening, notes, stage, job,
                       cursor, batch, url, got, lossy, unheard>>
    BY <1>2, Zenon DEF Insert, noteVars, streamVars, mishaps
  <2>2. TypeOK'
    BY <2>1, PubSubAssumption DEF IInv, TypeOK, Up
  <2>3. Quiet' /\ HearsAll' /\ EndIsKnown' /\ CursorIsRow' /\ BatchFollows'
    BY <2>1 DEF IInv, Quiet, HearsAll, EndIsKnown, CursorIsRow, BatchFollows, Up
  <2>4. NotesInOrder' /\ NotesFollow' /\ AllOnTheWay' /\ ReplayComplete'
    BY <2>1 DEF IInv, NotesInOrder, NotesFollow, AllOnTheWay, ReplayComplete, Up, Reconciled,
       Queued
  <2>5. NoRowPassedOver' /\ EndIsComplete'
    BY <2>1 DEF IInv, NoRowPassedOver, EndIsComplete, Up
  <2>6. QED
    BY <2>2, <2>3, <2>4, <2>5 DEF IInv
<1>3. CASE \E i \in open : Commit(i)
  BY <1>3, CommitStep
<1>4. CASE \E st \in {"RUNNING", "DONE", "none"} : SetStatus(st)
  BY <1>4, SetStatusStep
<1>5. CASE LoseConnection
  BY <1>5, LoseStep
<1>6. CASE \E s \in Starts : Open(s)
  BY <1>6, OpenStep
<1>7. CASE Listen \/ First \/ FetchRows \/ FetchFails \/ Send \/ Sent
  BY <1>7, ListenStep, FirstStep, FetchStep, FetchFailsStep, SendStep, SentStep
<1>8. CASE Top \/ TimedOut \/ Status \/ DrainEnd
  BY <1>8, LoopStep, DrainEndStep
<1>9. CASE Notified \/ Drain
  <2>1. UNCHANGED unheard
    BY <1>9, Zenon DEF Notified, Drain, Take
  <2>2. QED
    BY <1>9, <2>1, TakeStep DEF Notified, Drain
<1>10. CASE Shutdown \/ Restart
  <2>1. stopping' \in BOOLEAN
    BY <1>10, Zenon DEF Shutdown, Restart
  <2>2. QED
    BY <1>1, <1>10, <2>1 DEF Shutdown, Restart, dbVars, IInv, TypeOK
<1>11. CASE Break
  BY <1>11, LeaveStep DEF Break
<1>12. CASE UNCHANGED vars
  <2>1. stopping' \in BOOLEAN
    BY <1>12, Zenon DEF vars, IInv, TypeOK
  <2>2. QED
    BY <1>1, <1>12, <2>1 DEF vars, dbVars, IInv, TypeOK
<1>13. QED
  BY <1>2, <1>3, <1>4, <1>5, <1>6, <1>7, <1>8, <1>9, <1>10, <1>11, <1>12 DEF Next, Generator

LEMMA Initially == Init => IInv
<1> SUFFICES ASSUME Init PROVE IInv
  OBVIOUS
<1>1. lossy \in BOOLEAN /\ unheard \in BOOLEAN /\ over \in BOOLEAN /\ stopping \in BOOLEAN
      /\ listening \in BOOLEAN
  BY Zenon DEF Init
<1>2. notes \in Seq(Nat) /\ Len(notes) = 0
  BY DEF Init
<1>3. TypeOK
  BY <1>1, <1>2, PubSubAssumption DEF Init, TypeOK, Up
<1>4. QED
  BY <1>2, <1>3 DEF Init, IInv, Quiet, HearsAll, EndIsKnown, CursorIsRow, BatchFollows,
     NotesInOrder, NotesFollow, AllOnTheWay, ReplayComplete, NoRowPassedOver, EndIsComplete, Up

LEMMA Inductive == Spec => []IInv
  BY Initially, Step, PTL DEF Spec

-----------------------------------------------------------------------------
\* The variables keep their types.
THEOREM TypeCorrect == Spec => []TypeOK
  BY Inductive, PTL DEF IInv

\* A stream from PostgreSQL leaves out no row between the ID it was opened with
\* and its cursor, whatever mix of fetches and notifications brought them, with
\* or without the listening connection; only a row that committed below another
\* one, a failed query or a cut-off second fetch can do that.
THEOREM StreamIsGapless == Spec => []NoRowPassedOver
  BY Inductive, PTL DEF IInv

\* Draining the queue after the terminal status is enough: every row that was
\* there when the job ended has then been delivered, if notifications came in
\* time.
THEOREM EndAfterRows == Spec => []EndIsComplete
  BY Inductive, PTL DEF IInv

\* Polling takes over only before the first row, and the cursor goes forward.
THEOREM NoRowTwice == Spec => NothingTwice
<1> DEFINE Once == /\ pc' = "polling" => got = {}
                   /\ Up /\ got' # got /\ got' # {} => cursor' > cursor
<1>1. ASSUME IInv, [Next]_vars PROVE [Once]_vars
  <2> SUFFICES ASSUME Next PROVE Once
    BY <1>1
  <2>1. CASE UNCHANGED <<pc, got>>
    BY <1>1, <2>1 DEF IInv, Quiet
  <2>2. ASSUME NEW to \in {"closed", "polling", "ended"}, Leave(to),
               to = "polling" => pc \in {"listen", "first"}
        PROVE  Once
    <3>1. pc' = to /\ (got' = got \/ got' = {})
      BY <2>2, Zenon DEF Leave
    <3>2. QED
      BY <1>1, <2>2, <3>1 DEF IInv, Quiet
  <2>3. CASE Insert \/ (\E i \in open : Commit(i)) \/ LoseConnection \/ Shutdown \/ Restart
             \/ (\E st \in {"RUNNING", "DONE", "none"} : SetStatus(st))
    <3>1. UNCHANGED <<pc, got>>
      BY <2>3, Zenon DEF Insert, Commit, LoseConnection, Shutdown, Restart, SetStatus, streamVars
    <3>2. QED
      BY <2>1, <3>1
  <2>4. CASE \E s \in Starts : Open(s)
    BY <2>4 DEF Open
  <2>5. CASE Listen \/ First
    <3>1. (pc' # "polling" /\ got' = got) \/ Leave("polling") \/ Leave("closed")
      BY <2>5, Zenon DEF Listen, First, streamVars
    <3>2. QED
      BY <2>2, <2>5, <3>1 DEF Listen, First
  <2>6. CASE FetchRows \/ FetchFails \/ Top \/ TimedOut \/ Status \/ Sent \/ DrainEnd \/ Break
    <3>1. (pc' # "polling" /\ got' = got) \/ Leave("closed") \/ Leave("ended")
      BY <2>6, Zenon DEF FetchRows, FetchFails, Top, TimedOut, Status, Sent, DrainEnd, Break,
         streamVars
    <3>2. QED
      BY <2>2, <3>1
  <2>7. CASE Send
    <3>1. PICK i \in batch : cursor' = i
      BY <2>7 DEF Send
    <3>2. i > cursor /\ pc' = "send"
      <4>1. cursor < i /\ i \in Nat /\ cursor \in Nat
        BY <1>1, <3>1 DEF IInv, TypeOK, BatchFollows
      <4>2. QED
        BY <2>7, <4>1 DEF Send
    <3>3. QED
      BY <3>1, <3>2
  <2>8. CASE Notified \/ Drain
    <3>1. pc' # "polling" /\ Take
      BY <2>8 DEF Notified, Drain
    <3>2. got' = got \/ cursor' > cursor
      BY <3>1, Zenon DEF Take
    <3>3. QED
      BY <3>1, <3>2
  <2>9. QED
    BY <2>3, <2>4, <2>5, <2>6, <2>7, <2>8 DEF Next, Generator
<1>2. QED
  BY <1>1, Inductive, PTL DEF Spec, NothingTwice

-----------------------------------------------------------------------------
\* Every step of the generator, the writers and the clients is a step of the
\* abstract stream, or changes nothing of it.
LEMMA StreamSim ==
    ASSUME IInv, [Next]_vars
    PROVE  [Promise!StreamNext]_(Promise!streamVars)
<1> DEFINE Still == UNCHANGED <<rows, url, cursor, lossy>> /\ Up' = Up
<1>1. Still => UNCHANGED Promise!streamVars
  BY DEF Promise!streamVars
<1>2. Promise!Mishap \/ Promise!Stop => Promise!StreamNext
  BY DEF Promise!StreamNext
<1>3. ASSUME NEW i \in 0 .. MaxId,
             Promise!Appear(i) \/ Promise!Start(i) \/ Promise!Deliver(i)
      PROVE  Promise!StreamNext
  BY <1>3 DEF Promise!StreamNext
<1>4. \A i \in rows \cup open : i \in Nat /\ i \in 0 .. MaxId
  BY PubSubAssumption DEF IInv, TypeOK
<1>6. CASE Insert \/ (\E st \in {"RUNNING", "DONE", "none"} : SetStatus(st)) \/ LoseConnection
           \/ Shutdown \/ Restart \/ UNCHANGED vars
  <2>1. UNCHANGED <<rows, pc, url, cursor, lossy>>
    BY <1>6, Zenon DEF Insert, SetStatus, LoseConnection, Shutdown, Restart, dbVars, streamVars,
       mishaps, vars
  <2>2. QED
    BY <1>1, <2>1 DEF Up
<1>7. ASSUME NEW i \in open, Commit(i) PROVE Promise!Appear(i) \/ Still
  <2>1. UNCHANGED <<pc, url, cursor>>
    BY <1>7, Zenon DEF Commit, streamVars
  <2>2. CASE UNCHANGED <<rows, notes, mishaps>>
    <3>1. UNCHANGED <<rows, lossy>>
      BY <2>2, Zenon DEF mishaps
    <3>2. QED
      BY <2>1, <3>1 DEF Up
  <2>3. CASE ~UNCHANGED <<rows, notes, mishaps>>
    <3>1. rows' = rows \cup {i} /\ lossy' = (lossy \/ (Up /\ \E j \in rows : i < j))
      BY <1>7, <2>3, Zenon DEF Commit
    <3>2. i \notin rows
      BY DEF IInv, TypeOK
    <3>3. lossy' \in {lossy, TRUE} /\ (Up /\ ~lossy' => \A j \in rows : ~(i < j))
      BY <3>1, Zenon DEF IInv, TypeOK
    <3>4. Up /\ ~lossy' => \A j \in rows : j < i
      BY <1>4, <3>2, <3>3
    <3>5. Up' = Up
      BY <2>1 DEF Up
    <3>6. QED
      BY <2>1, <3>1, <3>2, <3>3, <3>4, <3>5, Zenon DEF Promise!Appear
  <2>4. QED
    BY <2>2, <2>3
<1>8. ASSUME NEW s \in Starts, Open(s) PROVE Promise!Start(s) /\ s \in 0 .. MaxId
  <2>1. ~Up /\ Up' /\ rows' = rows /\ url' = s /\ cursor' = s
    BY <1>8, Zenon DEF Open, Up, dbVars
  <2>2. lossy' = FALSE
    BY <1>8, Zenon DEF Open
  <2>3. QED
    BY <2>1, <2>2, PubSubAssumption, Zenon DEF Promise!Start
<1>9. CASE Listen \/ First \/ Top \/ TimedOut \/ Status \/ Sent \/ DrainEnd
  <2>1. Up /\ pc # "polling"
    BY <1>9 DEF Listen, First, Top, TimedOut, Status, Sent, DrainEnd, Up
  <2>2. \/ UNCHANGED <<rows, url, cursor, lossy>> /\ Up'
        \/ \E to \in {"closed", "polling", "ended"} : Leave(to)
    BY <1>9 DEF Listen, First, Top, TimedOut, Status, Sent, DrainEnd, Up, dbVars, streamVars,
       mishaps
  <2>3. CASE UNCHANGED <<rows, url, cursor, lossy>> /\ Up'
    BY <1>1, <2>1, <2>3
  <2>4. ASSUME NEW to \in {"closed", "polling", "ended"}, Leave(to) PROVE Promise!Stop
    BY <2>1, <2>4, Zenon DEF Leave, dbVars, Up, Promise!Stop
  <2>5. QED
    BY <1>2, <2>2, <2>3, <2>4
<1>10. CASE FetchRows \/ FetchFails
  <2>1. UNCHANGED <<rows, url, cursor>> /\ Up /\ Up'
    BY <1>10 DEF FetchRows, FetchFails, Up, dbVars, streamVars
  <2>2. lossy' = lossy \/ lossy' = TRUE
    <3>1. lossy' \in BOOLEAN /\ (lossy => lossy')
      BY <1>10, Zenon DEF FetchRows, FetchFails, IInv, TypeOK
    <3>2. QED
      BY <3>1, Zenon DEF IInv, TypeOK
  <2>3. QED
    BY <1>1, <1>2, <2>1, <2>2 DEF Promise!Mishap
<1>11. ASSUME NEW i \in rows, cursor < i, cursor' = i, UNCHANGED <<rows, url, lossy>>, Up, Up',
              ~lossy => \A k \in rows : ~(cursor < k /\ k < i)
       PROVE  Promise!Deliver(i)
  <2>1. cursor \in Nat
    BY DEF IInv, TypeOK
  <2>2. ~lossy => \A j \in rows : j <= cursor \/ i <= j
    BY <1>4, <1>11, <2>1
  <2>3. QED
    BY <1>11, <2>2 DEF Promise!Deliver
<1>12. CASE Send
  <2>1. PICK i \in batch : (\A j \in batch : i <= j) /\ cursor' = i
    BY <1>12 DEF Send
  <2>2. UNCHANGED <<rows, url, lossy>> /\ Up /\ Up'
    BY <1>12 DEF Send, dbVars, mishaps, Up
  <2>3. i \in rows /\ cursor < i /\ cursor \in Nat /\ batch \subseteq rows
    BY <2>1 DEF IInv, TypeOK, BatchFollows
  <2>4. ~lossy => \A k \in rows : ~(cursor < k /\ k < i)
    BY <1>4, <2>1, <2>3 DEF IInv, BatchFollows
  <2>5. QED
    BY <1>3, <1>4, <1>11, <2>1, <2>2, <2>3, <2>4
<1>13. CASE Notified \/ Drain
  <2>1. Take /\ Up /\ Up' /\ stage = "live" /\ batch = {}
    BY <1>13 DEF Notified, Drain, Up, IInv, TypeOK, Quiet
  <2>2. UNCHANGED <<rows, url>>
    BY <2>1, Zenon DEF Take, dbVars
  <2>3. Head(notes) = notes[1] /\ 1 \in 1 .. Len(notes) /\ notes[1] \in rows /\ cursor \in Nat
        /\ notes[1] \in Nat
    BY <1>4, <2>1 DEF Take, IInv, TypeOK
  <2>4. ~lossy => \A k \in rows : ~(cursor < k /\ k < notes[1])
    <3> SUFFICES ASSUME ~lossy, NEW k \in rows, cursor < k, k < notes[1] PROVE FALSE
      OBVIOUS
    <3>1. PICK n \in 1 .. Len(notes) : notes[n] = k
      BY <2>1, <2>3 DEF IInv, NotesFollow, Reconciled, Queued
    <3>2. n = 1 \/ notes[1] < k
      BY <2>1, <2>3, <3>1 DEF IInv, NotesInOrder
    <3>3. QED
      BY <1>4, <2>3, <3>1, <3>2
  <2>5. \/ Head(notes) > cursor /\ cursor' = Head(notes) /\ lossy' = lossy
        \/ cursor' = cursor /\ lossy' = TRUE
        \/ cursor' = cursor /\ lossy' = lossy
    BY <2>1, Zenon DEF Take
  <2>6. QED
    BY <1>1, <1>2, <1>3, <1>4, <1>11, <2>1, <2>2, <2>3, <2>4, <2>5 DEF Promise!Mishap
<1>14. CASE Break
  <2>1. rows' = rows /\ ~Up' /\ pc' = "closed"
    BY <1>14, Zenon DEF Break, Leave, dbVars, Up
  <2>2. CASE Up
    BY <1>2, <2>1, <2>2 DEF Promise!Stop
  <2>3. CASE ~Up
    <3>1. url = 0 /\ cursor = 0 /\ ~lossy
      BY <1>14, <2>3 DEF Break, Up, IInv, TypeOK, Quiet
    <3>2. url' = 0 /\ cursor' = 0 /\ lossy' = lossy
      BY <1>14, <3>1, Zenon DEF Break, Leave, IInv, TypeOK
    <3>3. url' = url /\ cursor' = cursor
      BY <3>1, <3>2
    <3>4. Up' = Up
      BY <2>1, <2>3, Zenon DEF Up
    <3>5. QED
      BY <1>1, <2>1, <3>2, <3>3, <3>4, Zenon
  <2>4. QED
    BY <2>2, <2>3
<1>15. QED
  BY <1>1, <1>3, <1>4, <1>6, <1>7, <1>8, <1>9, <1>10, <1>12, <1>13, <1>14 DEF Next, Generator

\* The stream from PostgreSQL keeps the promise of EventStream.
THEOREM ImplementsEventStream == Spec => StreamSpec
<1>1. Init => Promise!StreamInit
  BY DEF Init, Promise!StreamInit, Up
<1>2. QED
  BY <1>1, Inductive, StreamSim, PTL DEF Spec, StreamSpec, Promise!StreamSpec
-----------------------------------------------------------------------------
\* Why streams end.  StreamsEnd is about time and fairness; what it rests on is
\* an order of the generator's steps that nothing turns back.

\* What may still come by notification: those in the queue, and one for each
\* row that has yet to commit.
ToHear == (MaxId - Cardinality(rows)) + Len(notes)

\* How many steps the generator of a stream that is to end may still take: the
\* three fetches with their batches, one wait, and the notifications it drains.
StepsLeft ==
    CASE ~Up                                -> 0
      [] pc = "top" /\ stopping             -> 1
      [] pc = "drain"                       -> ToHear + 1
      [] pc = "status"                      -> ToHear + 2
      [] pc = "send" /\ stage = "live"      -> ToHear + 3 + Cardinality(batch)
      [] pc = "fetch" /\ stage = "live"     -> ToHear + MaxId + 4
      [] pc = "wait"                        -> ToHear + MaxId + 5
      [] pc = "top" /\ ~stopping            -> ToHear + MaxId + 6
      [] pc = "send" /\ stage = "reconcile" -> ToHear + MaxId + 7 + Cardinality(batch)
      [] pc = "fetch" /\ stage = "reconcile" -> ToHear + 2 * MaxId + 8
      [] pc = "send" /\ stage = "history"   -> ToHear + 2 * MaxId + 9 + Cardinality(batch)
      [] pc = "fetch" /\ stage = "history"  -> ToHear + 3 * MaxId + 10
      [] pc = "first"                       -> ToHear + 3 * MaxId + 11
      [] OTHER                              -> ToHear + 3 * MaxId + 12

\* A stream of a job that is over or gone, or of a backend that shuts down, is
\* on its way out: each of the generator's steps brings it nearer to its end,
\* and no row or notification that comes meanwhile puts the end off.
EndingRunsDown ==
    Up /\ (stopping \/ status # "RUNNING") =>
        /\ Generator => StepsLeft' < StepsLeft
        /\ StepsLeft' <= StepsLeft

LEMMA SetSize ==
    ASSUME NEW m \in Nat, NEW B \in SUBSET (1 .. m)
    PROVE  /\ IsFiniteSet(B) /\ Cardinality(B) \in 0 .. m
           /\ \A i \in B : Cardinality(B \ {i}) = Cardinality(B) - 1
           /\ \A i : i \notin B => Cardinality(B \cup {i}) = Cardinality(B) + 1
<1>1. IsFiniteSet(1 .. m) /\ Cardinality(1 .. m) = m
  BY FS_Interval
<1>2. IsFiniteSet(B) /\ Cardinality(B) <= m
  BY <1>1, FS_Subset
<1>3. Cardinality(B) \in Nat
  BY <1>2, FS_CardinalityType
<1>4. QED
  BY <1>2, <1>3, FS_RemoveElement, FS_AddElement

LEMMA StepRunsDown ==
    ASSUME IInv, IInv', Next
    PROVE  EndingRunsDown
<1> SUFFICES ASSUME Up, stopping \/ status # "RUNNING"
             PROVE  (Generator => StepsLeft' < StepsLeft) /\ StepsLeft' <= StepsLeft
  BY DEF EndingRunsDown
<1> DEFINE n == Cardinality(batch)
           r == Cardinality(rows)
           h == Len(notes)
           t == (MaxId - r) + h
<1>1. /\ MaxId \in Nat
      /\ batch \in SUBSET (1 .. MaxId) /\ batch' \in SUBSET (1 .. MaxId)
      /\ rows \in SUBSET (1 .. MaxId) /\ rows' \in SUBSET (1 .. MaxId)
      /\ h \in Nat /\ h' \in Nat
  <2>1. MaxId \in Nat
    BY PubSubAssumption
  <2>2. 1 .. lastId \subseteq 1 .. MaxId /\ 1 .. lastId' \subseteq 1 .. MaxId
    BY <2>1 DEF IInv, TypeOK
  <2>3. rows \subseteq 1 .. lastId /\ rows' \subseteq 1 .. lastId' /\ batch \subseteq rows
        /\ batch' \subseteq rows'
    BY Zenon DEF IInv, TypeOK
  <2>4. h \in Nat /\ h' \in Nat
    <3>1. notes \in Seq(Nat) /\ notes' \in Seq(Nat)
      BY Zenon DEF IInv, TypeOK
    <3>2. QED
      BY <3>1
  <2>5. QED
    BY <2>1, <2>2, <2>3, <2>4
<1>2. /\ n \in 0 .. MaxId /\ n' \in 0 .. MaxId /\ r \in 0 .. MaxId /\ r' \in 0 .. MaxId
      /\ \A i \in batch : Cardinality(batch \ {i}) = n - 1
      /\ \A i : i \notin rows => Cardinality(rows \cup {i}) = r + 1
  BY <1>1, SetSize
<1> HIDE DEF n, r, h
<1>3. t \in Nat /\ t' \in Nat
  <2>1. MaxId \in Nat /\ h \in Nat /\ h' \in Nat
    BY <1>1
  <2>2. r \in 0 .. MaxId /\ r' \in 0 .. MaxId
    BY <1>2
  <2>3. \A a, c \in Nat : \A b \in 0 .. a : (a - b) + c \in Nat
    OBVIOUS
  <2>4. QED
    BY <2>1, <2>2, <2>3
<1>4. /\ StepsLeft = CASE ~Up                                -> 0
                       [] pc = "top" /\ stopping             -> 1
                       [] pc = "drain"                       -> t + 1
                       [] pc = "status"                      -> t + 2
                       [] pc = "send" /\ stage = "live"      -> t + 3 + n
                       [] pc = "fetch" /\ stage = "live"     -> t + MaxId + 4
                       [] pc = "wait"                        -> t + MaxId + 5
                       [] pc = "top" /\ ~stopping            -> t + MaxId + 6
                       [] pc = "send" /\ stage = "reconcile" -> t + MaxId + 7 + n
                       [] pc = "fetch" /\ stage = "reconcile" -> t + 2 * MaxId + 8
                       [] pc = "send" /\ stage = "history"   -> t + 2 * MaxId + 9 + n
                       [] pc = "fetch" /\ stage = "history"  -> t + 3 * MaxId + 10
                       [] pc = "first"                       -> t + 3 * MaxId + 11
                       [] OTHER                              -> t + 3 * MaxId + 12
      /\ StepsLeft' = CASE ~Up'                                -> 0
                        [] pc' = "top" /\ stopping'             -> 1
                        [] pc' = "drain"                        -> t' + 1
                        [] pc' = "status"                       -> t' + 2
                        [] pc' = "send" /\ stage' = "live"      -> t' + 3 + n'
                        [] pc' = "fetch" /\ stage' = "live"     -> t' + MaxId + 4
                        [] pc' = "wait"                         -> t' + MaxId + 5
                        [] pc' = "top" /\ ~stopping'            -> t' + MaxId + 6
                        [] pc' = "send" /\ stage' = "reconcile" -> t' + MaxId + 7 + n'
                        [] pc' = "fetch" /\ stage' = "reconcile" -> t' + 2 * MaxId + 8
                        [] pc' = "send" /\ stage' = "history"   -> t' + 2 * MaxId + 9 + n'
                        [] pc' = "fetch" /\ stage' = "history"  -> t' + 3 * MaxId + 10
                        [] pc' = "first"                        -> t' + 3 * MaxId + 11
                        [] OTHER                                -> t' + 3 * MaxId + 12
  BY DEF StepsLeft, ToHear, n, r, h
<1>5. ASSUME UNCHANGED <<pc, stage, batch, stopping>>, t' <= t
      PROVE  StepsLeft' <= StepsLeft
  <2>1. n' = n /\ Up'
    BY <1>5 DEF n, Up
  <2> HIDE DEF t
  <2>2. QED
    BY <1>1, <1>2, <1>3, <1>4, <1>5, <2>1
<1>6. ASSUME UNCHANGED <<rows, notes>> PROVE t' = t
  BY <1>6 DEF r, h
<1>7. ASSUME NEW to \in {"closed", "polling", "ended"}, Leave(to)
      PROVE  StepsLeft' < StepsLeft
  <2>1. StepsLeft' = 0
    BY <1>4, <1>7, Zenon DEF Leave, Up
  <2> HIDE DEF t
  <2>2. StepsLeft \in Nat \ {0}
    BY <1>1, <1>2, <1>3, <1>4
  <2>3. QED
    BY <2>1, <2>2
<1>8. CASE Generator
  <2> SUFFICES StepsLeft' < StepsLeft
    <3>1. StepsLeft \in Nat /\ (StepsLeft' < StepsLeft => StepsLeft' \in Nat)
      <4> HIDE DEF t
      <4>1. QED
        BY <1>1, <1>2, <1>3, <1>4
    <3>2. QED
      BY <3>1
  <2>1. ASSUME UNCHANGED <<rows, notes, stage, batch, stopping>>,
               \/ pc = "listen" /\ pc' = "first"
               \/ pc = "top" /\ pc' = "wait" /\ ~stopping
               \/ pc = "wait" /\ pc' = "fetch" /\ stage = "live"
               \/ pc = "status" /\ pc' \in {"drain", "top"} /\ (pc' = "top" => stopping)
               \/ pc = "send" /\ pc' = "status" /\ stage = "live"
        PROVE  StepsLeft' < StepsLeft
    <3>1. t' = t /\ n' = n /\ Up'
      BY <1>6, <2>1 DEF n, Up
    <3> HIDE DEF t
    <3>2. QED
      BY <1>1, <1>2, <1>3, <1>4, <2>1, <3>1
  <2>2. CASE Listen
    <3>1. Leave("polling") \/ (pc' = "first" /\ UNCHANGED <<rows, notes, stage, batch, stopping>>)
      BY <2>2, Zenon DEF Listen, dbVars, streamVars
    <3>2. QED
      BY <1>7, <2>1, <2>2, <3>1 DEF Listen
  <2>3. CASE First
    <3>1. CASE Leave("closed") \/ Leave("polling")
      BY <1>7, <3>1
    <3>2. CASE ~(Leave("closed") \/ Leave("polling"))
      <4>1. pc = "first" /\ pc' = "fetch" /\ UNCHANGED <<rows, notes, stage, batch, stopping>>
        BY <2>3, <3>2, Zenon DEF First, dbVars, noteVars
      <4>2. stage = "history"
        BY <4>1 DEF IInv, Quiet
      <4>3. t' = t /\ n' = n /\ Up'
        BY <1>6, <4>1 DEF n, Up
      <4> HIDE DEF t
      <4>4. QED
        BY <1>1, <1>2, <1>3, <1>4, <4>1, <4>2, <4>3
    <3>3. QED
      BY <3>1, <3>2
  <2>4. CASE FetchRows \/ FetchFails
    <3>1. pc = "fetch" /\ pc' = "send" /\ UNCHANGED <<rows, notes, stage, stopping>>
      BY <2>4, Zenon DEF FetchRows, FetchFails, dbVars, noteVars, streamVars
    <3>2. t' = t /\ Up' /\ stage \in {"history", "reconcile", "live"}
      BY <1>6, <3>1 DEF Up, IInv, TypeOK
    <3> HIDE DEF t
    <3>3. QED
      BY <1>1, <1>2, <1>3, <1>4, <3>1, <3>2
  <2>5. CASE Send
    <3>1. pc = "send" /\ pc' = "send" /\ UNCHANGED <<rows, notes, stage, stopping>>
      BY <2>5, Zenon DEF Send, dbVars, noteVars
    <3>2. n' = n - 1
      BY <1>2, <2>5 DEF Send, n
    <3>3. t' = t /\ Up' /\ stage \in {"history", "reconcile", "live"}
      BY <1>6, <3>1 DEF Up, IInv, TypeOK
    <3> HIDE DEF t
    <3>4. QED
      BY <1>1, <1>2, <1>3, <1>4, <3>1, <3>2, <3>3
  <2>6. CASE Sent
    <3>1. CASE Leave("ended")
      BY <1>7, <3>1
    <3>2. CASE ~Leave("ended")
      <4>1. /\ pc = "send" /\ UNCHANGED <<rows, notes, batch, stopping>>
            /\ \/ stage = "history" /\ stage' = "reconcile" /\ pc' = "fetch"
               \/ stage = "reconcile" /\ stage' = "live" /\ pc' = "top"
               \/ stage = "live" /\ stage' = stage /\ pc' = "status"
        BY <2>6, <3>2, Zenon DEF Sent, dbVars, noteVars, streamVars
      <4>2. t' = t /\ n' = n /\ Up'
        BY <1>6, <4>1 DEF n, Up
      <4> HIDE DEF t
      <4>3. QED
        BY <1>1, <1>2, <1>3, <1>4, <4>1, <4>2
    <3>3. QED
      BY <3>1, <3>2
  <2>7. CASE Top \/ TimedOut
    <3>1. /\ pc \in {"top", "wait"}
          /\ \/ Leave("closed")
             \/ /\ UNCHANGED <<rows, notes, stage, batch, stopping>>
                /\ \/ pc = "top" /\ pc' = "wait" /\ ~stopping
                   \/ pc = "wait" /\ pc' = "fetch"
      BY <2>7, Zenon DEF Top, TimedOut, dbVars, noteVars, streamVars
    <3>2. stage = "live"
      BY <3>1 DEF IInv, Quiet
    <3>3. QED
      BY <1>7, <2>1, <3>1, <3>2
  <2>8. CASE Status
    <3>1. /\ pc = "status"
          /\ \/ Leave("closed")
             \/ /\ UNCHANGED <<rows, notes, stage, batch, stopping>>
                /\ pc' = IF status = "DONE" THEN "drain" ELSE "top"
                /\ status # "none"
      BY <2>8, Zenon DEF Status, dbVars, noteVars
    <3>2. status \in {"RUNNING", "DONE", "none"}
      BY Zenon DEF IInv, TypeOK
    <3>3. QED
      BY <1>7, <2>1, <3>1, <3>2
  <2>9. CASE Notified \/ Drain
    <3>1. /\ \/ pc = "wait" /\ pc' = "status"
             \/ pc = "drain" /\ pc' = "drain"
          /\ UNCHANGED <<rows, stage, stopping>> /\ notes # <<>> /\ notes' = Tail(notes)
      BY <2>9, Zenon DEF Notified, Drain, Take, dbVars
    <3>2. h' = h - 1
      <4>1. notes \in Seq(Nat)
        BY Zenon DEF IInv, TypeOK
      <4>2. QED
        BY <3>1, <4>1 DEF h
    <3>3. t' < t /\ Up'
      <4>1. r' = r /\ Up'
        BY <3>1 DEF r, Up
      <4>2. MaxId \in Nat /\ h \in Nat /\ r \in 0 .. MaxId
        BY <1>1, <1>2
      <4>3. QED
        BY <3>2, <4>1, <4>2
    <3> HIDE DEF t
    <3>4. pc = "wait" => stage = "live"
      BY DEF IInv, Quiet
    <3>5. \A a, b, m \in Nat : b < a => b + 1 < a + 1 /\ b + 2 < a + m + 5
      OBVIOUS
    <3>6. t' + 1 < t + 1 /\ t' + 2 < t + MaxId + 5
      BY <1>1, <1>3, <3>3, <3>5, Zenon
    <3>7. CASE pc = "drain"
      <4>1. StepsLeft = t + 1 /\ StepsLeft' = t' + 1
        BY <1>4, <3>1, <3>3, <3>7
      <4>2. QED
        BY <3>6, <4>1, Zenon
    <3>8. CASE pc = "wait"
      <4>1. StepsLeft = t + MaxId + 5 /\ StepsLeft' = t' + 2
        BY <1>4, <3>1, <3>3, <3>4, <3>8
      <4>2. QED
        BY <3>6, <4>1, Zenon
    <3>9. QED
      BY <3>1, <3>7, <3>8
  <2>10. CASE DrainEnd
    BY <1>7, <2>10 DEF DrainEnd
  <2>11. QED
    BY <1>8, <2>2, <2>3, <2>4, <2>5, <2>6, <2>7, <2>8, <2>9, <2>10 DEF Generator
<1>9. Generator => UNCHANGED <<lastId, open, status, stopping>>
  BY Zenon DEF Generator, Listen, First, FetchRows, FetchFails, Send, Sent, Top, Notified,
     TimedOut, Status, Drain, DrainEnd, Take, Leave, dbVars
<1>10. CASE Insert \/ (\E i \in open : Commit(i)) \/ Shutdown \/ Restart
            \/ (\E st \in {"RUNNING", "DONE", "none"} : SetStatus(st))
  <2>1. ~Generator
    <3>1. ASSUME UNCHANGED <<lastId, open, status, stopping>> PROVE FALSE
      BY <1>10, <3>1 DEF Insert, Commit, SetStatus, Shutdown, Restart, IInv, TypeOK
    <3>2. QED
      BY <1>9, <3>1
  <2>2. UNCHANGED <<pc, stage, batch>>
    BY <1>10, Zenon DEF Insert, Commit, SetStatus, Shutdown, Restart, streamVars
  <2>3. CASE Insert \/ (\E st \in {"RUNNING", "DONE", "none"} : SetStatus(st))
    <3>1. UNCHANGED <<rows, notes, stopping>>
      BY <2>3, Zenon DEF Insert, SetStatus, noteVars
    <3>2. t' <= t
      BY <1>3, <1>6, <3>1
    <3>3. QED
      BY <1>5, <2>1, <2>2, <3>1, <3>2
  <2>4. ASSUME NEW i \in open, Commit(i) PROVE StepsLeft' <= StepsLeft
    <3>1. UNCHANGED stopping
      BY <2>4, Zenon DEF Commit
    <3>2. CASE UNCHANGED <<rows, notes>>
      BY <1>3, <1>5, <1>6, <2>2, <3>1, <3>2
    <3>3. CASE ~UNCHANGED <<rows, notes>>
      <4>1. rows' = rows \cup {i} /\ notes' = (IF listening THEN Append(notes, i) ELSE notes)
        BY <2>4, <3>3, Zenon DEF Commit
      <4>2. r' = r + 1
        <5>1. i \notin rows
          BY DEF IInv, TypeOK
        <5>2. QED
          BY <1>2, <4>1, <5>1 DEF r
      <4>3. h' <= h + 1
        <5>1. notes \in Seq(Nat) /\ i \in Nat
          BY DEF IInv, TypeOK
        <5>2. Len(notes') = Len(notes) + 1 \/ notes' = notes
          BY <4>1, <5>1
        <5>3. Len(notes) \in Nat
          BY <5>1
        <5>4. Len(notes') <= Len(notes) + 1
          BY <5>2, <5>3
        <5>5. QED
          BY <5>4 DEF h
      <4>4. t' <= t
        <5>1. MaxId \in Nat /\ h \in Nat /\ h' \in Nat /\ r \in 0 .. MaxId
          BY <1>1, <1>2
        <5>2. \A m, c, d \in Nat : \A a \in 0 .. m :
                 d <= c + 1 => (m - (a + 1)) + d <= (m - a) + c
          OBVIOUS
        <5>3. (MaxId - (r + 1)) + h' <= (MaxId - r) + h
          BY <4>3, <5>1, <5>2, Zenon
        <5>4. QED
          BY <4>2, <5>3
      <4>5. QED
        BY <1>5, <2>2, <3>1, <4>4
    <3>4. QED
      BY <3>2, <3>3
  <2>5. CASE Shutdown
    <3>1. UNCHANGED <<pc, stage, rows, notes, batch>>
      BY <2>5, Zenon DEF Shutdown, dbVars, noteVars, streamVars
    <3>2. t' = t /\ n' = n /\ Up' /\ stopping' = TRUE
      BY <1>6, <2>5, <3>1 DEF n, Up, Shutdown
    <3> HIDE DEF t
    <3>3. QED
      BY <1>1, <1>2, <1>3, <1>4, <2>1, <3>1, <3>2
  <2>6. QED
    BY <1>10, <2>1, <2>3, <2>4, <2>5 DEF Restart, Up
<1>11. CASE LoseConnection
  <2>1. UNCHANGED <<pc, stage, rows, batch, stopping, cursor, got, job>> /\ listening
        /\ listening' = FALSE
    BY <1>11, Zenon DEF LoseConnection, dbVars, streamVars
  <2>2. h' <= h
    <3>1. notes \in Seq(Nat)
      BY Zenon DEF IInv, TypeOK
    <3>2. PICK k \in 0 .. Len(notes) : notes' = SubSeq(notes, 1, k)
      BY <1>11 DEF LoseConnection
    <3>3. Len(notes') <= Len(notes)
      BY <3>1, <3>2
    <3>4. QED
      BY <3>3 DEF h
  <2>3. t' <= t
    BY <1>1, <1>2, <2>1, <2>2 DEF r
  <2>4. ~Generator
    <3>1. pc = "listen" => ~listening
      BY DEF IInv, Quiet
    <3>2. ASSUME Generator PROVE FALSE
      <4>1. CASE \E to \in {"closed", "polling", "ended"} : Leave(to)
        BY <2>1, <4>1, Zenon DEF Leave, Up
      <4>2. CASE ~\E to \in {"closed", "polling", "ended"} : Leave(to)
        BY <2>1, <3>1, <3>2, <4>2 DEF Generator, Listen, First, FetchRows, FetchFails, Send,
           Sent, Top, Notified, TimedOut, Status, Drain, DrainEnd, Take, noteVars
      <4>3. QED
        BY <4>1, <4>2
    <3>3. QED
      BY <3>2
  <2>5. QED
    BY <1>5, <2>1, <2>3, <2>4
<1>12. CASE \E s \in Starts : Open(s)
  BY <1>12 DEF Open, Up
<1>13. CASE Break
  <2>1. Leave("closed")
    BY <1>13 DEF Break
  <2>2. StepsLeft' < StepsLeft
    BY <1>7, <2>1
  <2>3. StepsLeft' = 0
    BY <1>4, <2>1, Zenon DEF Leave, Up
  <2> HIDE DEF t
  <2>4. StepsLeft \in Nat
    BY <1>1, <1>2, <1>3, <1>4
  <2>5. QED
    BY <2>2, <2>3, <2>4
<1>14. QED
  BY <1>8, <1>10, <1>11, <1>12, <1>13 DEF Next

\* A stream from PostgreSQL that is to end does, after at most 4 MaxId + 12 steps
\* of its generator, whatever commits, notifies or is lost meanwhile.
THEOREM StreamsRunOut == Spec => [][EndingRunsDown]_vars
<1>1. IInv /\ IInv' /\ [Next]_vars => [EndingRunsDown]_vars
  BY StepRunsDown
<1>2. QED
  BY <1>1, Initially, Step, PTL DEF Spec

-----------------------------------------------------------------------------
\* A set of numbers that is not empty has a least one.
LEMMA LeastOf ==
    ASSUME NEW S \in SUBSET Nat, S # {}
    PROVE  \E m \in S : \A n \in S : m <= n
<1> DEFINE Before == {p \in Nat \X Nat : p[1] < p[2]}
<1>1. IsWellFoundedOn(Before, Nat)
  BY NatLessThanWellFounded DEF OpToRel
<1> HIDE DEF Before
<1>2. PICK m \in S : \A n \in S : <<n, m>> \notin Before
  BY <1>1, WFMin
<1>3. ASSUME NEW n \in S PROVE m <= n
  <2>1. n < m => <<n, m>> \in Before
    BY DEF Before
  <2>2. ~(n < m)
    BY <1>2, <2>1
  <2>3. QED
    BY <2>2
<1>4. QED
  BY <1>3

LEMMA FirstOfIsSome ==
    ASSUME NEW ids \in SUBSET Nat, ids # {}, NEW n \in Nat \ {0}
    PROVE  FirstOf(n, ids) # {}
<1>1. PICK m \in ids : \A i \in ids : m <= i
  BY LeastOf
<1>2. {j \in ids : j < m} = {}
  <2>1. SUFFICES ASSUME NEW j \in ids, j < m PROVE FALSE
    OBVIOUS
  <2>2. j \in Nat /\ m \in Nat /\ m <= j
    BY <1>1
  <2>3. QED
    BY <2>1, <2>2
<1>3. Cardinality({j \in ids : j < m}) < n
  BY <1>2, FS_EmptySet
<1>4. QED
  BY <1>3 DEF FirstOf

\* Why rows arrive without notifications, as far as it is not about time: a fetch
\* that works finds a row if there is one after the cursor, whichever of the
\* three limits cuts it off, and what is yielded takes the cursor on.
FetchesDeliver ==
    /\ FetchRows /\ (\E i \in rows : i > cursor) => batch' # {}
    /\ Send => cursor' > cursor /\ cursor' \in got'

\* Each fallback fetch with something to tell tells some of it.
THEOREM FetchesAreNotInVain == Spec => [][FetchesDeliver]_vars
<1>1. IInv => FetchesDeliver
  <2> SUFFICES ASSUME IInv PROVE FetchesDeliver
    OBVIOUS
  <2>1. rows \subseteq Nat /\ cursor \in Nat /\ stage \in {"history", "reconcile", "live"}
    BY DEF IInv, TypeOK
  <2>2. ASSUME FetchRows, NEW i \in rows, i > cursor PROVE batch' # {}
    <3> DEFINE after == {k \in rows : k > cursor}
    <3>1. after \in SUBSET Nat /\ after # {}
      BY <2>1, <2>2
    <3>2. Limit \in Nat \ {0}
      BY <2>1, PubSubAssumption DEF Limit
    <3>3. batch' = FirstOf(Limit, after)
      BY <2>2 DEF FetchRows
    <3> HIDE DEF after
    <3>4. QED
      BY <3>1, <3>2, <3>3, FirstOfIsSome
  <2>3. ASSUME Send PROVE cursor' > cursor /\ cursor' \in got'
    <3>1. PICK i \in batch : cursor' = i /\ got' = got \cup {i}
      BY <2>3 DEF Send
    <3>2. i \in Nat /\ cursor < i
      BY <2>1 DEF IInv, TypeOK, BatchFollows
    <3>3. QED
      BY <2>1, <3>1, <3>2
  <2>4. QED
    BY <2>2, <2>3 DEF FetchesDeliver
<1>2. QED
  BY <1>1, Inductive, PTL
=============================================================================
