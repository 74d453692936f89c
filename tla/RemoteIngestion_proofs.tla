------------------------ MODULE RemoteIngestion_proofs ------------------------
(***************************************************************************)
(* Proofs about RemoteIngestion, for any uploads and any bound on what     *)
(* goes wrong.  DetailsAreTrue is not inductive: that a later answer of    *)
(* the service will still be true when it is written down rests on what    *)
(* the service has taken in (TakenAreStored), on a finished task having    *)
(* decided every document (FinishedDecides), on which thread marks files   *)
(* as failed (FailingIsRefused), and on nothing being known of jobs and    *)
(* tasks that have not begun (UnbornIsIdle, EarlyHasNoTask).               *)
(***************************************************************************)
EXTENDS RemoteIngestion, FiniteSetTheorems, TLAPS

UnbornIsIdle ==
    \A j \in Jobs : job[j] = "none" =>
        /\ pc[j] = "none" /\ taken[j] = {}
        /\ \A e \in FilesOf(j) : detail[e] = "none"

\* A job has no task before its POST, and its thread has it to itself before
\* it begins.
EarlyHasNoTask ==
    \A j \in Jobs :
        /\ pc[j] \in {"none", "begin", "mark", "post"} => task[j] = "none"
        /\ pc[j] = "begin" => job[j] = "PENDING"

FailingIsRefused == \A j \in Jobs : pc[j] = "fail" => j \in refused

FinishedDecides == \A j \in Jobs : task[j] = "finished" =>
        NamesOf(j) \subseteq taken[j] \cup bad[j] \cup mute[j]

\* What a job could still be told of as ingested can be found, or was erased
\* without telling the job.
TakenAreStored ==
    \A j \in Jobs : \A e \in FilesOf(j) :
        job[j] # "pruned" /\ detail[e] # "gone" /\ NameOf(e) \in taken[j]
            => NameOf(e) \in store \cup cut[j]

IInv == TypeOK /\ UnbornIsIdle /\ EarlyHasNoTask /\ FailingIsRefused /\ FinishedDecides /\ TakenAreStored
             /\ DetailsAreTrue

-----------------------------------------------------------------------------
\* Each file of an upload is one entry and has a name.
LEMMA FilesAreEntries ==
    ASSUME NEW j \in Jobs, NEW e \in FilesOf(j)
    PROVE  /\ e \in Entries /\ e[1] = j /\ e[2] \in DOMAIN Files[j] /\ NameOf(e) \in NamesOf(j)
<1>1. e \in {j} \X DOMAIN Files[j]
  BY DEF FilesOf
<1> QED
  BY <1>1 DEF Entries, NamesOf, FilesOf

LEMMA NamesAreNames ==
    ASSUME NEW j \in Jobs
    PROVE  NamesOf(j) \subseteq Names /\ DOMAIN Files[j] = 1 .. Len(Files[j])
           /\ Len(Files[j]) \in Nat \ {0}
<1>1. Files[j] \in Seq(Names) /\ Files[j] # <<>>
  BY RemoteAssumption
<1>2. Len(Files[j]) \in Nat /\ DOMAIN Files[j] = 1 .. Len(Files[j])
  BY <1>1
<1>3. Len(Files[j]) # 0
  BY <1>1
<1>4. ASSUME NEW e \in FilesOf(j) PROVE NameOf(e) \in Names
  BY <1>1, <1>2, FilesAreEntries DEF NameOf
<1> QED
  BY <1>2, <1>3, <1>4 DEF NamesOf

LEMMA InitIInv == Init => IInv
<1> SUFFICES ASSUME Init PROVE IInv
  OBVIOUS
<1> USE DEF Init
<1>3. UnbornIsIdle
  BY FilesAreEntries DEF UnbornIsIdle
<1>1. TypeOK
  <2>1. at \in [Jobs -> Nat] /\ \A j \in Jobs : at[j] \in DOMAIN Files[j]
    BY NamesAreNames
  <2> QED
    BY <2>1, RemoteAssumption DEF TypeOK
<1>2. DetailsAreTrue
  BY FilesAreEntries DEF DetailsAreTrue
<1> QED
  BY <1>1, <1>2, <1>3 DEF IInv, EarlyHasNoTask, FailingIsRefused, FinishedDecides, TakenAreStored

-----------------------------------------------------------------------------
(* Type correctness *)

LEMMA MarkKeepsTypes ==
    ASSUME TypeOK, NEW j \in Jobs, NEW s \in {"INGESTING", "FAILED"}, NEW next \in {"post", "store"},
           Mark(j, s, next) \/ (s = "INGESTING" /\ OpenFails(j))
    PROVE  /\ detail' \in [Entries -> Settled \cup {"none", "gone", "UPLOADING", "INGESTING"}]
           /\ at' \in [Jobs -> Nat] /\ \A k \in Jobs : at'[k] \in DOMAIN Files[k]
           /\ pc' \in [Jobs -> {"none", "begin", "mark", "post", "fail", "store", "done", "dead"}]
           /\ lapsed' \subseteq Jobs
<1>1. CASE \E e \in Kept(j) : Place(e) = at[j] /\ detail' = [detail EXCEPT ![e] = s]
               /\ (IF at[j] < Len(Files[j])
                    THEN at' = [at EXCEPT ![j] = @ + 1] /\ UNCHANGED pc
                    ELSE at' = [at EXCEPT ![j] = 1] /\ pc' = [pc EXCEPT ![j] = next])
               /\ UNCHANGED lapsed
  <2>1. at[j] \in 1 .. Len(Files[j]) /\ Len(Files[j]) \in Nat \ {0} /\ DOMAIN Files[j] = 1 .. Len(Files[j])
    BY NamesAreNames DEF TypeOK
  <2>2. /\ at' \in [Jobs -> Nat] /\ \A k \in Jobs : at'[k] \in DOMAIN Files[k]
        /\ pc' \in [Jobs -> {"none", "begin", "mark", "post", "fail", "store", "done", "dead"}]
    <3>1. CASE at[j] < Len(Files[j]) /\ at' = [at EXCEPT ![j] = @ + 1] /\ UNCHANGED pc
      <4>1. at[j] + 1 \in DOMAIN Files[j] /\ at[j] + 1 \in Nat
        BY <2>1, <3>1
      <4> QED
        BY <3>1, <4>1 DEF TypeOK
    <3>2. CASE at' = [at EXCEPT ![j] = 1] /\ pc' = [pc EXCEPT ![j] = next]
      <4>1. 1 \in DOMAIN Files[j]
        BY <2>1
      <4> QED
        BY <3>2, <4>1 DEF TypeOK
    <3> QED
      BY <1>1, <3>1, <3>2
  <2>3. detail' \in [Entries -> Settled \cup {"none", "gone", "UPLOADING", "INGESTING"}]
    BY <1>1 DEF TypeOK, Settled
  <2> QED
    BY <1>1, <2>2, <2>3 DEF TypeOK
<1>2. CASE pc' = [pc EXCEPT ![j] = "dead"] /\ lapsed' = lapsed \cup {j} /\ UNCHANGED <<detail, at>>
  BY <1>2 DEF TypeOK
<1>3. CASE OpenFails(j)
  BY <1>3 DEF OpenFails, TypeOK, Settled
<1> QED
  BY <1>1, <1>2, <1>3 DEF Mark

LEMMA TypeStep == TypeOK /\ [Next]_vars => TypeOK'
<1> SUFFICES ASSUME TypeOK, [Next]_vars PROVE TypeOK'
  OBVIOUS
<1> USE DEF service, threads, history
<1>1. ASSUME NEW j \in Jobs, Submit(j) PROVE TypeOK'
  BY <1>1 DEF TypeOK, Submit
<1>2. ASSUME NEW j \in Jobs, Begin(j) PROVE TypeOK'
  BY <1>2 DEF TypeOK, Begin
<1>3. ASSUME NEW j \in Jobs, MarkFile(j) PROVE TypeOK'
  <2>1. CASE Mark(j, "INGESTING", "post") /\ UNCHANGED faults
    BY <1>3, <2>1, MarkKeepsTypes DEF TypeOK, MarkFile
  <2>2. CASE OpenFails(j)
    <3>1. faults' \in 0 .. MaxFaults
      BY <2>2, RemoteAssumption DEF TypeOK, OpenFails, Fault
    <3> QED
      BY <1>3, <2>2, <3>1, MarkKeepsTypes DEF TypeOK, MarkFile
  <2> QED
    BY <1>3, <2>1, <2>2 DEF MarkFile
<1>4. ASSUME NEW j \in Jobs, Post(j) \/ PostUnnamed(j) \/ PostFails(j) PROVE TypeOK'
  <2>1. CASE Post(j)
    BY <2>1 DEF TypeOK, Post
  <2>2. CASE PostUnnamed(j)
    BY <2>2, RemoteAssumption DEF TypeOK, PostUnnamed, Fault
  <2>3. CASE PostFails(j)
    <3>1. task' \in [Jobs -> {"none", "running", "finished", "failed", "lost"}]
      BY <2>3 DEF TypeOK, PostFails
    <3>2. faults' \in 0 .. MaxFaults
      BY <2>3, RemoteAssumption DEF TypeOK, PostFails, Fault
    <3>3. known' = known /\ refused' = refused \cup {j} /\ pc' = [pc EXCEPT ![j] = "fail"]
      BY <2>3 DEF PostFails
    <3>4. UNCHANGED <<store, taken, bad, mute, job, detail, at, cut, lapsed>>
      BY <2>3 DEF PostFails
    <3> QED
      BY <3>1, <3>2, <3>3, <3>4 DEF TypeOK
  <2> QED
    BY <1>4, <2>1, <2>2, <2>3
<1>5. ASSUME NEW j \in Jobs, MarkFailed(j) PROVE TypeOK'
  BY <1>5, MarkKeepsTypes DEF TypeOK, MarkFailed
<1>6. ASSUME NEW j \in Jobs, StoreTask(j) PROVE TypeOK'
  BY <1>6 DEF TypeOK, StoreTask
<1>7. ASSUME NEW j \in Jobs, NEW n \in Names, Ingest(j, n) PROVE TypeOK'
  <2>1. n \in NamesOf(j) /\ n \notin taken[j] /\ n \notin bad[j] /\ n \notin mute[j]
    BY <1>7 DEF Ingest, Undecided
  <2>2. /\ taken' \in [Jobs -> SUBSET Names] /\ bad' \in [Jobs -> SUBSET Names]
        /\ mute' \in [Jobs -> SUBSET Names] /\ store' \subseteq Names
        /\ \A k \in Jobs : taken'[k] \cup bad'[k] \cup mute'[k] \subseteq NamesOf(k)
                           /\ taken'[k] \cap (bad'[k] \cup mute'[k]) = {} /\ bad'[k] \cap mute'[k] = {}
    <3>1. CASE taken' = [taken EXCEPT ![j] = @ \cup {n}] /\ store' = store \cup {n} /\ UNCHANGED <<bad, mute>>
      BY <2>1, <3>1 DEF TypeOK
    <3>2. CASE bad' = [bad EXCEPT ![j] = @ \cup {n}] /\ UNCHANGED <<taken, store, mute>>
      BY <2>1, <3>2 DEF TypeOK
    <3>3. CASE mute' = [mute EXCEPT ![j] = @ \cup {n}] /\ UNCHANGED <<taken, store, bad>>
      BY <2>1, <3>3 DEF TypeOK
    <3> QED
      BY <1>7, <3>1, <3>2, <3>3 DEF Ingest
  <2>3. /\ task' = task /\ job' = job /\ detail' = detail /\ known' = known /\ pc' = pc
        /\ at' = at /\ refused' = refused /\ cut' = cut /\ lapsed' = lapsed
    BY <1>7 DEF Ingest
  <2>4. faults' \in 0 .. MaxFaults
    BY <1>7, RemoteAssumption DEF Ingest, Fault, TypeOK
  <2> QED
    BY <2>2, <2>3, <2>4, Zenon DEF TypeOK
<1>8. ASSUME NEW j \in Jobs, TaskEnds(j) \/ TaskLost(j) PROVE TypeOK'
  <2>1. task' \in [Jobs -> {"none", "running", "finished", "failed", "lost"}]
    BY <1>8 DEF TypeOK, TaskEnds, TaskLost
  <2>2. faults' \in 0 .. MaxFaults /\ lapsed' \subseteq Jobs
    BY <1>8, RemoteAssumption DEF TypeOK, TaskEnds, TaskLost, Fault
  <2>3. /\ store' = store /\ taken' = taken /\ bad' = bad /\ mute' = mute /\ job' = job /\ detail' = detail
        /\ known' = known /\ pc' = pc /\ at' = at /\ refused' = refused /\ cut' = cut
    BY <1>8 DEF TaskEnds, TaskLost
  <2> QED
    BY <2>1, <2>2, <2>3, Zenon DEF TypeOK
<1>9. ASSUME NEW j \in Jobs, Poll(j) \/ PollBlind(j) \/ Prune(j) PROVE TypeOK'
  BY <1>9 DEF TypeOK, Poll, PollBlind, Prune, Hear, Verdict, Count, Settled
<1>10. ASSUME NEW N \in SUBSET Names, DeleteFiles(N) \/ DeleteUnheard(N) PROVE TypeOK'
  <2>1. store' \subseteq Names /\ faults' \in 0 .. MaxFaults
    BY <1>10, RemoteAssumption DEF TypeOK, DeleteFiles, DeleteUnheard, Erase, Fault
  <2>2. detail' \in [Entries -> Settled \cup {"none", "gone", "UPLOADING", "INGESTING"}]
    BY <1>10 DEF TypeOK, DeleteFiles, DeleteUnheard
  <2>3. cut' \in [Jobs -> SUBSET Names] /\ lapsed' \subseteq Jobs
    BY <1>10 DEF TypeOK, DeleteFiles, DeleteUnheard, Erase
  <2>4. /\ task' = task /\ taken' = taken /\ bad' = bad /\ mute' = mute /\ job' = job
        /\ known' = known /\ pc' = pc /\ at' = at /\ refused' = refused
    BY <1>10 DEF DeleteFiles, DeleteUnheard, threads
  <2> QED
    BY <2>1, <2>2, <2>3, <2>4, Zenon DEF TypeOK
<1>11. ASSUME DeleteCollection PROVE TypeOK'
  BY <1>11, RemoteAssumption DEF TypeOK, DeleteCollection, Erase, Fault
<1>12. CASE UNCHANGED vars
  BY <1>12 DEF TypeOK, vars
<1> QED
  BY <1>1, <1>2, <1>3, <1>4, <1>5, <1>6, <1>7, <1>8, <1>9, <1>10, <1>11, <1>12 DEF Next, Thread, Task

\* Every thread, task and job record is at a place of its code.
THEOREM TypeCorrect == Spec => []TypeOK
<1>1. Init => TypeOK
  BY InitIInv DEF IInv
<1> QED
  BY <1>1, TypeStep, PTL DEF Spec

-----------------------------------------------------------------------------
(* The strengthening *)

\* A loop of the thread leaves other jobs and removed files alone, and what it
\* settles is a failure.
LEMMA MarkMarks ==
    ASSUME TypeOK, NEW j \in Jobs, NEW s \in {"INGESTING", "FAILED"}, NEW next \in {"post", "store"},
           Mark(j, s, next) \/ (s = "INGESTING" /\ OpenFails(j))
    PROVE  /\ \A k \in Jobs : \A e \in FilesOf(k) :
                 detail'[e] = detail[e] \/ (k = j /\ detail[e] # "gone" /\ detail'[e] = s)
           /\ \A k \in Jobs : pc'[k] = pc[k] \/ (k = j /\ pc'[k] \in {next, "dead"})
<1>1. CASE \E e \in Kept(j) : Place(e) = at[j] /\ detail' = [detail EXCEPT ![e] = s]
               /\ (IF at[j] < Len(Files[j])
                    THEN at' = [at EXCEPT ![j] = @ + 1] /\ UNCHANGED pc
                    ELSE at' = [at EXCEPT ![j] = 1] /\ pc' = [pc EXCEPT ![j] = next])
               /\ UNCHANGED lapsed
  <2>1. PICK e \in Kept(j) : detail' = [detail EXCEPT ![e] = s]
               /\ (pc' = pc \/ pc' = [pc EXCEPT ![j] = next])
    BY <1>1
  <2>2. e \in FilesOf(j) /\ detail[e] # "gone" /\ e[1] = j
    BY FilesAreEntries DEF Kept
  <2>3. \A k \in Jobs : \A f \in FilesOf(k) : f \in Entries /\ f[1] = k
    BY FilesAreEntries
  <2>4. \A k \in Jobs : \A f \in FilesOf(k) :
            detail'[f] = detail[f] \/ (k = j /\ detail[f] # "gone" /\ detail'[f] = s)
    BY <2>1, <2>2, <2>3 DEF TypeOK
  <2> QED
    BY <2>1, <2>4 DEF TypeOK
<1>2. CASE pc' = [pc EXCEPT ![j] = "dead"] /\ lapsed' = lapsed \cup {j} /\ UNCHANGED <<detail, at>>
  BY <1>2 DEF TypeOK
<1>3. CASE s = "INGESTING" /\ OpenFails(j)
  <2>1. PICK e \in Kept(j) : detail' = [detail EXCEPT ![e] = s]
    BY <1>3 DEF OpenFails
  <2>2. e \in FilesOf(j) /\ detail[e] # "gone"
    BY DEF Kept
  <2>3. \A k \in Jobs : \A f \in FilesOf(k) : f \in Entries /\ f[1] = k
    BY FilesAreEntries
  <2>4. \A k \in Jobs : \A f \in FilesOf(k) :
            detail'[f] = detail[f] \/ (k = j /\ detail[f] # "gone" /\ detail'[f] = s)
    BY <2>1, <2>2, <2>3 DEF TypeOK
  <2> QED
    BY <1>3, <2>4 DEF OpenFails, TypeOK
<1> QED
  BY <1>1, <1>2, <1>3 DEF Mark

\* Which steps of threads and jobs there are, as far as the strengthening tells
\* them apart.
Still(j) == pc'[j] = pc[j] /\ job'[j] = job[j]
Goes(j, from, to) == pc[j] = from /\ pc'[j] \in to

LEMMA StepOfThreads ==
    ASSUME TypeOK, [Next]_vars, NEW j \in Jobs
    PROVE  \/ Still(j)
           \/ pc'[j] = pc[j] /\ job[j] \notin {"none", "PENDING", "pruned"} /\ job'[j] # "none"
           \/ Submit(j) /\ pc'[j] = "begin" /\ job[j] = "none" /\ job'[j] = "PENDING"
           \/ Goes(j, "begin", {"mark"}) /\ job'[j] = "PROCESSING"
           \/ Goes(j, "mark", {"mark", "post", "dead"}) /\ job'[j] = job[j]
           \/ Goes(j, "post", {"store"}) /\ job'[j] = job[j]
           \/ Goes(j, "post", {"fail"}) /\ job'[j] = job[j] /\ j \in refused'
           \/ Goes(j, "fail", {"fail", "store", "dead"}) /\ job'[j] = job[j]
           \/ Goes(j, "store", {"done"}) /\ (job'[j] = job[j] \/ (job[j] # "pruned" /\ job'[j] = "FAILED"))
<1> USE DEF service, threads, history, Still, Goes
<1>1. ASSUME NEW k \in Jobs, Submit(k)
      PROVE  Still(j) \/ (Submit(j) /\ pc'[j] = "begin" /\ job[j] = "none" /\ job'[j] = "PENDING")
  <2>1. CASE k = j
    <3>1. pc'[j] = "begin" /\ job[j] = "none" /\ job'[j] = "PENDING"
      BY <1>1, <2>1 DEF Submit, TypeOK
    <3> QED
      BY <1>1, <2>1, <3>1
  <2>2. CASE k # j
    BY <1>1, <2>2 DEF Submit, TypeOK
  <2> QED
    BY <2>1, <2>2
<1>2. ASSUME NEW k \in Jobs, Begin(k)
      PROVE  Still(j) \/ (Goes(j, "begin", {"mark"}) /\ job'[j] = "PROCESSING")
  BY <1>2 DEF Begin, TypeOK
<1>3. ASSUME NEW k \in Jobs, MarkFile(k)
      PROVE  Still(j) \/ (Goes(j, "mark", {"mark", "post", "dead"}) /\ job'[j] = job[j])
  <2>1. CASE Mark(k, "INGESTING", "post")
    BY <1>3, <2>1, MarkMarks DEF MarkFile, TypeOK
  <2>2. CASE OpenFails(k)
    BY <1>3, <2>2 DEF MarkFile, OpenFails, TypeOK
  <2> QED
    BY <1>3, <2>1, <2>2 DEF MarkFile
<1>4. ASSUME NEW k \in Jobs, Post(k) \/ PostUnnamed(k)
      PROVE  Still(j) \/ (Goes(j, "post", {"store"}) /\ job'[j] = job[j])
  BY <1>4 DEF Post, PostUnnamed, TypeOK
<1>5. ASSUME NEW k \in Jobs, PostFails(k)
      PROVE  Still(j) \/ (Goes(j, "post", {"fail"}) /\ job'[j] = job[j] /\ j \in refused')
  BY <1>5 DEF PostFails, TypeOK
<1>6. ASSUME NEW k \in Jobs, MarkFailed(k)
      PROVE  Still(j) \/ (Goes(j, "fail", {"fail", "store", "dead"}) /\ job'[j] = job[j])
  BY <1>6, MarkMarks DEF MarkFailed, TypeOK
<1>7. ASSUME NEW k \in Jobs, StoreTask(k)
      PROVE  Still(j) \/ (Goes(j, "store", {"done"}) /\ (job'[j] = job[j] \/ (job[j] # "pruned" /\ job'[j] = "FAILED")))
  BY <1>7 DEF StoreTask, TypeOK
<1>8. ASSUME NEW k \in Jobs, Task(k) \/ TaskLost(k) PROVE Still(j)
  BY <1>8 DEF Task, Ingest, TaskEnds, TaskLost
<1>9. ASSUME NEW k \in Jobs, Poll(k) \/ PollBlind(k) \/ Prune(k)
      PROVE  \/ Still(j)
             \/ pc'[j] = pc[j] /\ job[j] \notin {"none", "PENDING", "pruned"} /\ job'[j] # "none"
  BY <1>9 DEF Poll, PollBlind, Prune, Count, TypeOK
<1>10. ASSUME NEW N \in SUBSET Names, DeleteFiles(N) \/ DeleteUnheard(N) \/ DeleteCollection PROVE Still(j)
  BY <1>10 DEF DeleteFiles, DeleteUnheard, DeleteCollection, Erase
<1>11. CASE UNCHANGED vars
  BY <1>11 DEF vars
<1>12. CASE DeleteCollection
  BY <1>12 DEF DeleteCollection, Erase
<1>13. CASE \E k \in Jobs : Submit(k) \/ Thread(k) \/ Task(k) \/ TaskLost(k) \/ Poll(k) \/ PollBlind(k) \/ Prune(k)
  <2>1. PICK k \in Jobs : Submit(k) \/ Thread(k) \/ Task(k) \/ TaskLost(k) \/ Poll(k) \/ PollBlind(k) \/ Prune(k)
    BY <1>13
  <2>2. CASE Submit(k) \/ Task(k) \/ TaskLost(k)
    BY <2>2, <1>1, <1>8
  <2>3. CASE Poll(k) \/ PollBlind(k) \/ Prune(k)
    BY <2>3, <1>9, Zenon
  <2>4. CASE Thread(k)
    <3>1. CASE Begin(k) \/ MarkFile(k) \/ Post(k) \/ PostUnnamed(k)
      BY <3>1, <1>2, <1>3, <1>4, Zenon
    <3>2. CASE PostFails(k) \/ MarkFailed(k) \/ StoreTask(k)
      BY <3>2, <1>5, <1>6, <1>7, Zenon
    <3> QED
      BY <2>4, <3>1, <3>2 DEF Thread
  <2> QED
    BY <2>1, <2>2, <2>3, <2>4
<1> QED
  BY <1>10, <1>11, <1>12, <1>13, Zenon DEF Next

\* What a step may make of a file's status, and what it then knows.
LEMMA StepOfDetails ==
    ASSUME TypeOK, [Next]_vars, NEW j \in Jobs, NEW e \in FilesOf(j)
    PROVE  \/ detail'[e] = detail[e]
           \/ detail'[e] = "gone" /\ job[j] # "none"
           \/ detail[e] # "gone" /\ detail'[e] = "INGESTING" /\ pc[j] = "mark"
           \/ detail[e] # "gone" /\ detail'[e] = "FAILED" /\ pc[j] = "fail"
           \/ Submit(j) /\ detail'[e] = "UPLOADING"
           \/ Poll(j) /\ detail[e] = "INGESTING" /\ \E N \in SUBSET NamesOf(j) : detail'[e] = Verdict(e, N)
<1> USE DEF service, threads, history
<1>0. e \in Entries /\ e[1] = j
  BY FilesAreEntries
<1>a. ASSUME NEW k \in Jobs, e \in FilesOf(k) PROVE k = j
  BY <1>0, <1>a, FilesAreEntries
<1>1. ASSUME NEW k \in Jobs, Submit(k)
      PROVE  detail'[e] = detail[e] \/ (Submit(j) /\ detail'[e] = "UPLOADING")
  <2>1. detail' = [f \in Entries |-> IF f \in FilesOf(k) THEN "UPLOADING" ELSE detail[f]]
    BY <1>1 DEF Submit
  <2>2. CASE e \in FilesOf(k)
    BY <1>0, <1>a, <1>1, <2>1, <2>2
  <2>3. CASE e \notin FilesOf(k)
    BY <1>0, <2>1, <2>3
  <2> QED
    BY <2>2, <2>3
<1>2. ASSUME NEW k \in Jobs, MarkFile(k)
      PROVE  detail'[e] = detail[e] \/ (detail[e] # "gone" /\ detail'[e] = "INGESTING" /\ pc[j] = "mark")
  <2>1. pc[k] = "mark" /\ (Mark(k, "INGESTING", "post") \/ OpenFails(k))
    BY <1>2 DEF MarkFile
  <2> QED
    BY <2>1, MarkMarks
<1>3. ASSUME NEW k \in Jobs, MarkFailed(k)
      PROVE  detail'[e] = detail[e] \/ (detail[e] # "gone" /\ detail'[e] = "FAILED" /\ pc[j] = "fail")
  <2>1. pc[k] = "fail" /\ Mark(k, "FAILED", "store")
    BY <1>3 DEF MarkFailed
  <2> QED
    BY <2>1, MarkMarks
<1>4. ASSUME NEW k \in Jobs, Poll(k)
      PROVE  \/ detail'[e] = detail[e]
             \/ Poll(j) /\ detail[e] = "INGESTING" /\ \E N \in SUBSET NamesOf(j) : detail'[e] = Verdict(e, N)
  <2>1. PICK N \in SUBSET NamesOf(k) : Hear(k, N)
    BY <1>4 DEF Poll
  <2>2. detail' = [f \in Entries |-> IF f \in FilesOf(k) /\ detail[f] = "INGESTING" THEN Verdict(f, N) ELSE detail[f]]
    BY <2>1 DEF Hear
  <2>3. CASE e \in FilesOf(k) /\ detail[e] = "INGESTING"
    <3>1. k = j /\ detail'[e] = Verdict(e, N)
      BY <1>0, <1>a, <2>2, <2>3
    <3> QED
      BY <1>4, <2>3, <3>1
  <2>4. CASE ~(e \in FilesOf(k) /\ detail[e] = "INGESTING")
    BY <1>0, <2>2, <2>4
  <2> QED
    BY <2>3, <2>4
<1>5. ASSUME NEW N \in SUBSET Names, DeleteFiles(N)
      PROVE  detail'[e] = detail[e] \/ (detail'[e] = "gone" /\ job[j] # "none")
  BY <1>0, <1>5 DEF DeleteFiles
<1>6. ASSUME NEW N \in SUBSET Names, DeleteUnheard(N) \/ DeleteCollection PROVE detail' = detail
  BY <1>6 DEF DeleteUnheard, DeleteCollection
<1>7. ASSUME NEW k \in Jobs, Begin(k) \/ Post(k) \/ PostUnnamed(k) \/ PostFails(k) \/ StoreTask(k) PROVE detail' = detail
  BY <1>7 DEF Begin, Post, PostUnnamed, PostFails, StoreTask
<1>8. ASSUME NEW k \in Jobs, Task(k) \/ TaskLost(k) \/ PollBlind(k) \/ Prune(k) PROVE detail' = detail
  BY <1>8 DEF Task, Ingest, TaskEnds, TaskLost, PollBlind, Prune
<1>9. CASE UNCHANGED vars
  BY <1>9 DEF vars
<1>10. CASE DeleteCollection
  BY <1>10 DEF DeleteCollection
<1>11. ASSUME NEW k \in Jobs,
              Submit(k) \/ Thread(k) \/ Task(k) \/ TaskLost(k) \/ Poll(k) \/ PollBlind(k) \/ Prune(k)
       PROVE  \/ detail'[e] = detail[e]
              \/ detail[e] # "gone" /\ detail'[e] = "INGESTING" /\ pc[j] = "mark"
              \/ detail[e] # "gone" /\ detail'[e] = "FAILED" /\ pc[j] = "fail"
              \/ Submit(j) /\ detail'[e] = "UPLOADING"
              \/ Poll(j) /\ detail[e] = "INGESTING" /\ \E N \in SUBSET NamesOf(j) : detail'[e] = Verdict(e, N)
  <2>1. CASE Submit(k)
    BY <2>1, <1>1, Zenon
  <2>2. CASE Poll(k)
    BY <2>2, <1>4, Zenon
  <2>3. CASE Task(k) \/ TaskLost(k) \/ PollBlind(k) \/ Prune(k)
    BY <2>3, <1>8, Zenon
  <2>4. CASE MarkFile(k) \/ MarkFailed(k)
    BY <2>4, <1>2, <1>3, Zenon
  <2>5. CASE Begin(k) \/ Post(k) \/ PostUnnamed(k) \/ PostFails(k) \/ StoreTask(k)
    BY <2>5, <1>7, Zenon
  <2> QED
    BY <1>11, <2>1, <2>2, <2>3, <2>4, <2>5, Zenon DEF Thread
<1> QED
  BY <1>5, <1>6, <1>9, <1>10, <1>11, Zenon DEF Next

LEMMA RefusedGrows == [Next]_vars => refused \subseteq refused'
<1> SUFFICES ASSUME [Next]_vars PROVE refused \subseteq refused'
  OBVIOUS
<1> USE DEF service, threads, history
<1>1. ASSUME NEW k \in Jobs, Submit(k) \/ Task(k) \/ TaskLost(k) \/ Poll(k) \/ PollBlind(k) \/ Prune(k)
      PROVE  refused' = refused
  BY <1>1 DEF Submit, Task, Ingest, TaskEnds, TaskLost, Poll, PollBlind, Prune
<1>2. ASSUME NEW k \in Jobs, Thread(k) PROVE refused \subseteq refused'
  BY <1>2 DEF Thread, Begin, MarkFile, OpenFails, Post, PostUnnamed, PostFails, MarkFailed, StoreTask
<1>3. ASSUME NEW N \in SUBSET Names, DeleteFiles(N) \/ DeleteUnheard(N) PROVE refused' = refused
  BY <1>3 DEF DeleteFiles, DeleteUnheard
<1>4. CASE DeleteCollection \/ UNCHANGED vars
  BY <1>4 DEF DeleteCollection, vars
<1> QED
  BY <1>1, <1>2, <1>3, <1>4 DEF Next

LEMMA StartsStep ==
    TypeOK /\ UnbornIsIdle /\ EarlyHasNoTask /\ FailingIsRefused /\ [Next]_vars
        => EarlyHasNoTask' /\ FailingIsRefused'
<1> SUFFICES ASSUME TypeOK, UnbornIsIdle, EarlyHasNoTask, FailingIsRefused, [Next]_vars, NEW j \in Jobs
             PROVE  /\ pc'[j] \in {"none", "begin", "mark", "post"} => task'[j] = "none"
                    /\ pc'[j] = "begin" => job'[j] = "PENDING"
                    /\ pc'[j] = "fail" => j \in refused'
  BY DEF EarlyHasNoTask, FailingIsRefused
<1> USE DEF service, threads, history
<1>1. refused \subseteq refused'
  BY RefusedGrows
<1>2. \/ task'[j] = task[j]
      \/ pc[j] = "post" /\ pc'[j] \in {"store", "fail"}
      \/ task[j] # "none" /\ pc'[j] = pc[j]
  <2>1. ASSUME NEW k \in Jobs, Task(k) \/ TaskLost(k)
        PROVE  task'[j] = task[j] \/ (task[j] # "none" /\ pc'[j] = pc[j])
    BY <2>1 DEF Task, Ingest, TaskEnds, TaskLost, TypeOK
  <2>2. ASSUME NEW k \in Jobs, Post(k) \/ PostFails(k)
        PROVE  task'[j] = task[j] \/ (pc[j] = "post" /\ pc'[j] \in {"store", "fail"})
    BY <2>2 DEF Post, PostFails, TypeOK
  <2>3. ASSUME NEW k \in Jobs, Submit(k) \/ Poll(k) \/ PollBlind(k) \/ Prune(k) PROVE task' = task
    BY <2>3 DEF Submit, Poll, PollBlind, Prune
  <2>4. ASSUME NEW k \in Jobs, Begin(k) \/ MarkFile(k) \/ PostUnnamed(k) \/ MarkFailed(k) \/ StoreTask(k)
        PROVE  task' = task
    BY <2>4 DEF Begin, MarkFile, PostUnnamed, MarkFailed, StoreTask
  <2>5. ASSUME NEW N \in SUBSET Names, DeleteFiles(N) \/ DeleteUnheard(N) PROVE task' = task
    BY <2>5 DEF DeleteFiles, DeleteUnheard
  <2>6. CASE DeleteCollection \/ UNCHANGED vars
    BY <2>6 DEF DeleteCollection, vars
  <2> QED
    BY <2>1, <2>2, <2>3, <2>4, <2>5, <2>6, Zenon DEF Next, Thread
<1>3. /\ pc[j] \in {"none", "begin", "mark", "post"} => task[j] = "none"
      /\ pc[j] = "begin" => job[j] = "PENDING"
      /\ pc[j] = "fail" => j \in refused
      /\ job[j] = "none" => pc[j] = "none"
  BY DEF EarlyHasNoTask, FailingIsRefused, UnbornIsIdle
<1> QED
  BY <1>1, <1>2, <1>3, StepOfThreads DEF Still, Goes

-----------------------------------------------------------------------------
(* The service *)

\* Documents are decided for good while the task runs, and one that is taken in
\* is in the store.
LEMMA StepOfService ==
    ASSUME TypeOK, [Next]_vars, NEW j \in Jobs
    PROVE  \/ taken'[j] = taken[j] /\ bad'[j] = bad[j] /\ mute'[j] = mute[j]
           \/ /\ task[j] = "running" /\ task'[j] = "running" /\ pc'[j] = pc[j] /\ job'[j] = job[j]
              /\ \E n \in Undecided(j) :
                    \/ taken'[j] = taken[j] \cup {n} /\ bad'[j] = bad[j] /\ mute'[j] = mute[j] /\ n \in store'
                    \/ taken'[j] = taken[j] /\ bad'[j] = bad[j] \cup {n} /\ mute'[j] = mute[j]
                    \/ taken'[j] = taken[j] /\ bad'[j] = bad[j] /\ mute'[j] = mute[j] \cup {n}
<1> USE DEF service, threads, history
<1>1. ASSUME NEW k \in Jobs, NEW n \in Names, Ingest(k, n)
      PROVE  \/ taken'[j] = taken[j] /\ bad'[j] = bad[j] /\ mute'[j] = mute[j]
             \/ /\ task[j] = "running" /\ task'[j] = "running" /\ pc'[j] = pc[j] /\ job'[j] = job[j]
                /\ \E m \in Undecided(j) :
                      \/ taken'[j] = taken[j] \cup {m} /\ bad'[j] = bad[j] /\ mute'[j] = mute[j] /\ m \in store'
                      \/ taken'[j] = taken[j] /\ bad'[j] = bad[j] \cup {m} /\ mute'[j] = mute[j]
                      \/ taken'[j] = taken[j] /\ bad'[j] = bad[j] /\ mute'[j] = mute[j] \cup {m}
  <2>1. CASE k = j
    <3>1. /\ n \in Undecided(j) /\ task[j] = "running"
          /\ task' = task /\ pc' = pc /\ job' = job
      BY <1>1, <2>1 DEF Ingest
    <3>2. \/ taken'[j] = taken[j] \cup {n} /\ bad'[j] = bad[j] /\ mute'[j] = mute[j] /\ n \in store'
          \/ taken'[j] = taken[j] /\ bad'[j] = bad[j] \cup {n} /\ mute'[j] = mute[j]
          \/ taken'[j] = taken[j] /\ bad'[j] = bad[j] /\ mute'[j] = mute[j] \cup {n}
      BY <1>1, <2>1 DEF Ingest, TypeOK
    <3> QED
      BY <3>1, <3>2
  <2>2. CASE k # j
    BY <1>1, <2>2 DEF Ingest, TypeOK
  <2> QED
    BY <2>1, <2>2
<1>2. ASSUME NEW k \in Jobs, TaskEnds(k) \/ TaskLost(k) PROVE taken' = taken /\ bad' = bad /\ mute' = mute
  BY <1>2 DEF TaskEnds, TaskLost
<1>3. ASSUME NEW k \in Jobs, Submit(k) \/ Poll(k) \/ PollBlind(k) \/ Prune(k) PROVE taken' = taken /\ bad' = bad /\ mute' = mute
  BY <1>3 DEF Submit, Poll, PollBlind, Prune
<1>4. ASSUME NEW k \in Jobs, Thread(k) PROVE taken' = taken /\ bad' = bad /\ mute' = mute
  BY <1>4 DEF Thread, Begin, MarkFile, OpenFails, Post, PostUnnamed, PostFails, MarkFailed, StoreTask
<1>5. ASSUME NEW N \in SUBSET Names, DeleteFiles(N) \/ DeleteUnheard(N) PROVE taken' = taken /\ bad' = bad /\ mute' = mute
  BY <1>5 DEF DeleteFiles, DeleteUnheard
<1>6. CASE DeleteCollection \/ UNCHANGED vars
  BY <1>6 DEF DeleteCollection, vars
<1>7. ASSUME NEW k \in Jobs, Task(k)
      PROVE  \/ taken'[j] = taken[j] /\ bad'[j] = bad[j] /\ mute'[j] = mute[j]
             \/ /\ task[j] = "running" /\ task'[j] = "running" /\ pc'[j] = pc[j] /\ job'[j] = job[j]
                /\ \E m \in Undecided(j) :
                      \/ taken'[j] = taken[j] \cup {m} /\ bad'[j] = bad[j] /\ mute'[j] = mute[j] /\ m \in store'
                      \/ taken'[j] = taken[j] /\ bad'[j] = bad[j] \cup {m} /\ mute'[j] = mute[j]
                      \/ taken'[j] = taken[j] /\ bad'[j] = bad[j] /\ mute'[j] = mute[j] \cup {m}
  <2>1. CASE TaskEnds(k)
    BY <1>2, <2>1
  <2>2. CASE \E n \in Names : Ingest(k, n)
    <3>1. PICK n \in Names : Ingest(k, n)
      BY <2>2
    <3> QED
      BY <1>1, <3>1, Zenon
  <2> QED
    BY <1>7, <2>1, <2>2, Zenon DEF Task
<1>8. CASE taken' = taken /\ bad' = bad /\ mute' = mute
  BY <1>8
<1> QED
  BY <1>2, <1>3, <1>4, <1>5, <1>6, <1>7, <1>8, Zenon DEF Next

\* How a task goes on.
LEMMA StepOfTask ==
    ASSUME TypeOK, [Next]_vars, NEW j \in Jobs
    PROVE  \/ task'[j] = task[j]
           \/ pc[j] = "post" /\ task'[j] = "running"
           \/ task[j] = "running" /\ task'[j] = "finished" /\ Undecided(j) = {}
                 /\ taken'[j] = taken[j] /\ bad'[j] = bad[j] /\ mute'[j] = mute[j]
           \/ task[j] \in {"running", "finished", "failed"} /\ task'[j] \in {"failed", "lost"}
                 /\ (task[j] # "running" => task'[j] = "lost")
<1> USE DEF service, threads, history
<1>1. ASSUME NEW k \in Jobs, TaskEnds(k)
      PROVE  \/ task'[j] = task[j]
             \/ task[j] = "running" /\ task'[j] = "finished" /\ Undecided(j) = {}
                   /\ taken'[j] = taken[j] /\ bad'[j] = bad[j] /\ mute'[j] = mute[j]
             \/ task[j] = "running" /\ task'[j] = "failed"
  <2>1. CASE k = j
    <3>1. taken' = taken /\ bad' = bad /\ mute' = mute /\ task[j] = "running"
      BY <1>1, <2>1 DEF TaskEnds
    <3>2. \/ Undecided(j) = {} /\ task'[j] = "finished"
          \/ task'[j] = "failed"
      BY <1>1, <2>1 DEF TaskEnds, TypeOK
    <3> QED
      BY <3>1, <3>2, Zenon
  <2>2. CASE k # j
    BY <1>1, <2>2 DEF TaskEnds, TypeOK
  <2> QED
    BY <2>1, <2>2, Zenon
<1>2. ASSUME NEW k \in Jobs, TaskLost(k)
      PROVE  \/ task'[j] = task[j]
             \/ task[j] \in {"running", "finished", "failed"} /\ task'[j] = "lost"
  BY <1>2 DEF TaskLost, TypeOK
<1>3. ASSUME NEW k \in Jobs, Post(k) \/ PostFails(k)
      PROVE  task'[j] = task[j] \/ (pc[j] = "post" /\ task'[j] = "running")
  BY <1>3 DEF Post, PostFails, TypeOK
<1>4. ASSUME NEW k \in Jobs, (\E n \in Names : Ingest(k, n)) PROVE task' = task
  BY <1>4 DEF Ingest
<1>5. ASSUME NEW k \in Jobs, Submit(k) \/ Poll(k) \/ PollBlind(k) \/ Prune(k) PROVE task' = task
  BY <1>5 DEF Submit, Poll, PollBlind, Prune
<1>6. ASSUME NEW k \in Jobs, Begin(k) \/ MarkFile(k) \/ PostUnnamed(k) \/ MarkFailed(k) \/ StoreTask(k)
      PROVE  task' = task
  BY <1>6 DEF Begin, MarkFile, PostUnnamed, MarkFailed, StoreTask
<1>7. ASSUME NEW N \in SUBSET Names, DeleteFiles(N) \/ DeleteUnheard(N) PROVE task' = task
  BY <1>7 DEF DeleteFiles, DeleteUnheard
<1>8. CASE DeleteCollection \/ UNCHANGED vars
  BY <1>8 DEF DeleteCollection, vars
<1>9. CASE \E k \in Jobs : TaskEnds(k)
  BY <1>9, <1>1
<1>10. CASE \E k \in Jobs : TaskLost(k)
  BY <1>10, <1>2
<1>11. CASE task' = task
  BY <1>11
<1>12. CASE \E k \in Jobs : Post(k) \/ PostFails(k)
  BY <1>12, <1>3
<1> QED
  BY <1>4, <1>5, <1>6, <1>7, <1>8, <1>9, <1>10, <1>11, <1>12, Zenon DEF Next, Thread, Task

\* What can be found, or was erased unheard, stays so, unless the job hears of
\* its deletion.
LEMMA StepOfStore ==
    ASSUME TypeOK, [Next]_vars, NEW j \in Jobs, NEW n, n \in store \cup cut[j], job[j] # "none"
    PROVE  n \in store' \cup cut'[j] \/ (\E N \in SUBSET Names : DeleteFiles(N) /\ n \in N)
<1> USE DEF service, threads, history
<1>1. ASSUME NEW k \in Jobs, NEW m \in Names, Ingest(k, m) PROVE store \subseteq store' /\ cut' = cut
  BY <1>1 DEF Ingest
<1>2. ASSUME NEW k \in Jobs, TaskEnds(k) \/ TaskLost(k) PROVE store' = store /\ cut' = cut
  BY <1>2 DEF TaskEnds, TaskLost
<1>3. ASSUME NEW k \in Jobs, Submit(k) \/ Poll(k) \/ PollBlind(k) \/ Prune(k) PROVE store' = store /\ cut' = cut
  BY <1>3 DEF Submit, Poll, PollBlind, Prune
<1>4. ASSUME NEW k \in Jobs, Thread(k) PROVE store' = store /\ cut' = cut
  BY <1>4 DEF Thread, Begin, MarkFile, OpenFails, Post, PostUnnamed, PostFails, MarkFailed, StoreTask
<1>5. ASSUME NEW N \in SUBSET Names, Erase(N) PROVE n \in store' \cup cut'[j]
  BY <1>5 DEF Erase
<1>6. ASSUME NEW N \in SUBSET Names, DeleteFiles(N)
      PROVE  n \in store' \cup cut'[j] \/ n \in N
  BY <1>6 DEF DeleteFiles
<1>7. CASE UNCHANGED vars
  BY <1>7 DEF vars
<1>8. CASE DeleteCollection
  BY <1>8, <1>5 DEF DeleteCollection
<1>9. CASE store \subseteq store' /\ cut' = cut
  BY <1>9
<1>10. CASE \E N \in SUBSET Names : DeleteUnheard(N)
  BY <1>10, <1>5 DEF DeleteUnheard
<1>11. CASE \E k \in Jobs : Task(k) \/ TaskLost(k)
  BY <1>11, <1>1, <1>2, <1>9 DEF Task
<1>12. CASE \E k \in Jobs : Submit(k) \/ Thread(k) \/ Poll(k) \/ PollBlind(k) \/ Prune(k)
  BY <1>12, <1>3, <1>4, <1>9
<1>13. CASE \E N \in SUBSET Names : DeleteFiles(N)
  BY <1>13, <1>6, Zenon
<1> QED
  BY <1>7, <1>8, <1>10, <1>11, <1>12, <1>13, Zenon DEF Next

-----------------------------------------------------------------------------
(* The invariant *)

LEMMA UnbornStep == TypeOK /\ UnbornIsIdle /\ EarlyHasNoTask /\ [Next]_vars => UnbornIsIdle'
<1> SUFFICES ASSUME TypeOK, UnbornIsIdle, EarlyHasNoTask, [Next]_vars, NEW j \in Jobs, job'[j] = "none"
             PROVE  pc'[j] = "none" /\ taken'[j] = {} /\ \A e \in FilesOf(j) : detail'[e] = "none"
  BY DEF UnbornIsIdle
<1>1. job[j] = "none" /\ pc'[j] = pc[j]
  <2>1. job[j] = "none" => pc[j] = "none"
    BY DEF UnbornIsIdle
  <2>2. pc[j] = "begin" => job[j] = "PENDING"
    BY DEF EarlyHasNoTask
  <2> QED
    BY <2>1, <2>2, StepOfThreads DEF Still, Goes
<1>2. pc[j] = "none" /\ taken[j] = {} /\ task[j] = "none" /\ \A e \in FilesOf(j) : detail[e] = "none"
  BY <1>1 DEF UnbornIsIdle, EarlyHasNoTask
<1>3. taken'[j] = {}
  BY <1>2, StepOfService
<1>4. ASSUME NEW e \in FilesOf(j) PROVE detail'[e] = "none"
  <2>1. ~Submit(j)
    BY <1>1, <1>2 DEF Submit, TypeOK
  <2>2. detail[e] = "none"
    BY <1>2
  <2> QED
    BY <1>1, <1>2, <2>1, <2>2, StepOfDetails
<1> QED
  BY <1>1, <1>2, <1>3, <1>4

LEMMA FinishedStep == TypeOK /\ EarlyHasNoTask /\ FinishedDecides /\ [Next]_vars => FinishedDecides'
<1> SUFFICES ASSUME TypeOK, EarlyHasNoTask, FinishedDecides, [Next]_vars, NEW j \in Jobs, task'[j] = "finished"
             PROVE  NamesOf(j) \subseteq taken'[j] \cup bad'[j] \cup mute'[j]
  BY DEF FinishedDecides
<1>1. CASE task[j] = "finished"
  <2>1. NamesOf(j) \subseteq taken[j] \cup bad[j] \cup mute[j]
    BY <1>1 DEF FinishedDecides
  <2> QED
    BY <1>1, <2>1, StepOfService
<1>2. CASE task[j] # "finished"
  <2>1. Undecided(j) = {} /\ taken'[j] = taken[j] /\ bad'[j] = bad[j] /\ mute'[j] = mute[j]
    BY <1>2, StepOfTask
  <2> QED
    BY <2>1 DEF Undecided
<1> QED
  BY <1>1, <1>2

\* A job that is forgotten stays forgotten, and so does a file that is removed.
LEMMA GoneForGood ==
    ASSUME TypeOK, UnbornIsIdle, EarlyHasNoTask, [Next]_vars, NEW j \in Jobs, NEW e \in FilesOf(j)
    PROVE  /\ job[j] = "pruned" => job'[j] = "pruned"
           /\ detail[e] = "gone" => detail'[e] = "gone"
<1>1. pc[j] = "begin" => job[j] = "PENDING"
  BY DEF EarlyHasNoTask
<1>2. job[j] = "pruned" => job'[j] = "pruned"
  BY <1>1, StepOfThreads DEF Still, Goes
<1>3. Submit(j) => detail[e] = "none"
  BY DEF Submit, UnbornIsIdle
<1>4. detail[e] = "gone" => detail'[e] = "gone"
  BY <1>3, StepOfDetails
<1> QED
  BY <1>2, <1>4

\* A deletion that a job hears of removes its files of the deleted names.
LEMMA HeardDeletion ==
    ASSUME TypeOK, NEW j \in Jobs, NEW e \in FilesOf(j), NEW N \in SUBSET Names,
           DeleteFiles(N), NameOf(e) \in N, job[j] # "none"
    PROVE  detail'[e] = "gone" \/ job'[j] = "pruned"
<1>1. e \in Entries /\ e[1] = j
  BY FilesAreEntries
<1> QED
  BY <1>1 DEF DeleteFiles

LEMMA TakenStep ==
    TypeOK /\ UnbornIsIdle /\ EarlyHasNoTask /\ TakenAreStored /\ [Next]_vars => TakenAreStored'
<1> SUFFICES ASSUME TypeOK, UnbornIsIdle, EarlyHasNoTask, TakenAreStored, [Next]_vars,
                    NEW j \in Jobs, NEW e \in FilesOf(j),
                    job'[j] # "pruned", detail'[e] # "gone", NameOf(e) \in taken'[j]
             PROVE  NameOf(e) \in store' \cup cut'[j]
  BY DEF TakenAreStored
<1>1. job[j] # "pruned" /\ detail[e] # "gone"
  BY GoneForGood
<1>2. CASE NameOf(e) \in taken[j]
  <2>1. NameOf(e) \in store \cup cut[j]
    BY <1>1, <1>2 DEF TakenAreStored
  <2>2. job[j] # "none"
    BY <1>2 DEF UnbornIsIdle
  <2>3. ASSUME NEW N \in SUBSET Names, DeleteFiles(N) PROVE NameOf(e) \notin N
    BY <2>2, <2>3, HeardDeletion
  <2> QED
    BY <2>1, <2>2, <2>3, StepOfStore
<1>3. CASE NameOf(e) \notin taken[j]
  BY <1>3, StepOfService
<1> QED
  BY <1>2, <1>3

LEMMA DetailsStep == IInv /\ [Next]_vars => DetailsAreTrue'
<1> SUFFICES ASSUME IInv, [Next]_vars, NEW j \in Jobs, NEW e \in FilesOf(j), job'[j] # "pruned"
             PROVE  /\ detail'[e] = "SUCCESS" => NameOf(e) \in store' \cup cut'[j] \cup mute'[j]
                    /\ detail'[e] = "FAILED" =>
                          NameOf(e) \in bad'[j] \/ j \in refused' \/ task'[j] \in {"failed", "lost"}
  BY DEF DetailsAreTrue
<1> USE DEF IInv
<1>0. e[1] = j /\ NameOf(e) \in NamesOf(j)
  BY FilesAreEntries
<1>1. job[j] # "pruned"
  BY GoneForGood
<1>2. ASSUME Poll(j), detail[e] = "INGESTING", NEW N \in SUBSET NamesOf(j), detail'[e] = Verdict(e, N)
      PROVE  /\ detail'[e] = "SUCCESS" => NameOf(e) \in store' \cup cut'[j] \cup mute'[j]
             /\ detail'[e] = "FAILED" =>
                   NameOf(e) \in bad'[j] \/ j \in refused' \/ task'[j] \in {"failed", "lost"}
  <2>1. store' = store /\ cut' = cut /\ bad' = bad /\ mute' = mute /\ task' = task
    BY <1>2 DEF Poll, service, history
  <2>2. CASE task[j] = "finished"
    <3>1. NameOf(e) \in bad[j] \/ NameOf(e) \in store \cup cut[j] \cup mute[j]
      BY <1>0, <1>1, <1>2, <2>2 DEF FinishedDecides, TakenAreStored
    <3>2. detail'[e] = IF NameOf(e) \in bad[j] THEN "FAILED" ELSE "SUCCESS"
      BY <1>0, <1>2, <2>2 DEF Verdict
    <3> QED
      BY <2>1, <3>1, <3>2
  <2>3. CASE task[j] = "failed"
    <3>1. detail'[e] = "FAILED"
      BY <1>0, <1>2, <2>3 DEF Verdict
    <3> QED
      BY <2>1, <2>3, <3>1
  <2>4. CASE task[j] = "running" /\ NameOf(e) \in taken[j] \cap N
    <3>1. detail'[e] = "SUCCESS"
      BY <1>0, <1>2, <2>4 DEF Verdict
    <3>2. NameOf(e) \in store \cup cut[j]
      BY <1>1, <1>2, <2>4 DEF TakenAreStored
    <3> QED
      BY <2>1, <3>1, <3>2
  <2>5. CASE task[j] \notin {"finished", "failed"} /\ ~(task[j] = "running" /\ NameOf(e) \in taken[j] \cap N)
    <3>1. detail'[e] = "INGESTING"
      BY <1>0, <1>2, <2>5 DEF Verdict
    <3> QED
      BY <3>1
  <2> QED
    BY <2>2, <2>3, <2>4, <2>5
<1>3. CASE detail'[e] = detail[e]
  <2>1. ASSUME detail[e] = "SUCCESS" PROVE NameOf(e) \in store' \cup cut'[j] \cup mute'[j]
    <3>0. mute[j] \subseteq mute'[j]
      BY StepOfService
    <3>1. NameOf(e) \in store \cup cut[j] \cup mute[j]
      BY <1>1, <2>1 DEF DetailsAreTrue
    <3>2. job[j] # "none"
      BY <2>1 DEF UnbornIsIdle
    <3>3. ASSUME NEW N \in SUBSET Names, DeleteFiles(N) PROVE NameOf(e) \notin N
      BY <1>3, <2>1, <3>2, <3>3, HeardDeletion
    <3> QED
      BY <3>0, <3>1, <3>2, <3>3, StepOfStore
  <2>2. ASSUME detail[e] = "FAILED"
        PROVE  NameOf(e) \in bad'[j] \/ j \in refused' \/ task'[j] \in {"failed", "lost"}
    <3>1. NameOf(e) \in bad[j] \/ j \in refused \/ task[j] \in {"failed", "lost"}
      BY <1>1, <2>2 DEF DetailsAreTrue
    <3>2. NameOf(e) \in bad[j] => NameOf(e) \in bad'[j]
      BY StepOfService
    <3>3. j \in refused => j \in refused'
      BY RefusedGrows
    <3>4. task[j] \in {"failed", "lost"} => task'[j] \in {"failed", "lost"}
      BY StepOfTask DEF EarlyHasNoTask
    <3> QED
      BY <3>1, <3>2, <3>3, <3>4
  <2> QED
    BY <1>3, <2>1, <2>2
<1>4. CASE detail'[e] = "FAILED" /\ pc[j] = "fail"
  <2>1. j \in refused'
    BY <1>4, RefusedGrows DEF FailingIsRefused
  <2> QED
    BY <1>4, <2>1
<1> QED
  BY <1>2, <1>3, <1>4, StepOfDetails

LEMMA IndStep == IInv /\ [Next]_vars => IInv'
BY TypeStep, StartsStep, UnbornStep, FinishedStep, TakenStep, DetailsStep DEF IInv

\* What a file's status says is true of the service, for any uploads, threads,
\* deletions and faults.
THEOREM StatusIsTrue == Spec => []DetailsAreTrue
<1>1. IInv => DetailsAreTrue
  BY DEF IInv
<1> QED
  BY <1>1, InitIInv, IndStep, PTL DEF Spec

\* A job that was forgotten is never taken up again by its thread, and no loop
\* brings back a file that was deleted.
ForgottenStays ==
    \A j \in Jobs : \A e \in FilesOf(j) :
        (job[j] = "pruned" => job'[j] = "pruned") /\ (detail[e] = "gone" => detail'[e] = "gone")

\* What was forgotten or deleted stays so, whichever loop is still running over it.
THEOREM NothingComesBack == Spec => [][ForgottenStays]_vars
<1>1. IInv /\ [Next]_vars => [ForgottenStays]_vars
  BY GoneForGood DEF IInv, ForgottenStays
<1> QED
  BY <1>1, InitIInv, IndStep, PTL DEF Spec

-----------------------------------------------------------------------------
(* Implementation of IngestionReport.  The mapping is the identity; what has *)
(* to be shown is that no step of a thread and no request changes the        *)
(* details of a job that is over, and that a job is over only with all its   *)
(* files settled: on this the places of the thread and the table agree.      *)

ThreadAhead ==
    \A j \in Jobs :
        /\ known[j] => pc[j] = "done"
        /\ pc[j] \notin {"none", "begin"} => job[j] \notin {"none", "PENDING"}
        /\ pc[j] \in {"begin", "mark", "post"} =>
              \A e \in FilesOf(j) : detail[e] \in {"UPLOADING", "INGESTING", "gone"}
        /\ pc[j] = "fail" =>
              \A e \in FilesOf(j) : detail[e] \in {"UPLOADING", "INGESTING", "FAILED", "gone"}

OverIsSettled ==
    \A j \in Jobs :
        /\ Over(j) => \A e \in FilesOf(j) : detail[e] \in Settled \cup {"gone"}
        /\ job[j] = "COMPLETED" => \E e \in FilesOf(j) : detail[e] # "FAILED"

RInv == IInv /\ ThreadAhead /\ OverIsSettled

LEMMA InitRInv == Init => RInv
<1> SUFFICES ASSUME Init PROVE RInv
  OBVIOUS
<1>1. ThreadAhead
  BY DEF Init, ThreadAhead
<1>2. OverIsSettled
  BY DEF Init, OverIsSettled, Over
<1> QED
  BY <1>1, <1>2, InitIInv DEF RInv

\* A status request finds the task's ID only after the thread has ended.
LEMMA StepOfKnown ==
    ASSUME TypeOK, [Next]_vars, NEW j \in Jobs
    PROVE  known'[j] = known[j] \/ pc'[j] = "done"
<1> USE DEF service, threads, history
<1>1. ASSUME NEW k \in Jobs, StoreTask(k) PROVE known'[j] = known[j] \/ pc'[j] = "done"
  BY <1>1 DEF StoreTask, TypeOK
<1>2. ASSUME NEW k \in Jobs, Begin(k) \/ MarkFile(k) \/ Post(k) \/ PostUnnamed(k) \/ PostFails(k) \/ MarkFailed(k)
      PROVE  known' = known
  BY <1>2 DEF Begin, MarkFile, Post, PostUnnamed, PostFails, MarkFailed
<1>3. ASSUME NEW k \in Jobs, Submit(k) \/ Task(k) \/ TaskLost(k) PROVE known' = known
  BY <1>3 DEF Submit, Task, Ingest, TaskEnds, TaskLost
<1>4. ASSUME NEW k \in Jobs, Poll(k) \/ PollBlind(k) \/ Prune(k) PROVE known' = known
  BY <1>4 DEF Poll, PollBlind, Prune
<1>5. ASSUME NEW N \in SUBSET Names, DeleteFiles(N) \/ DeleteUnheard(N) PROVE known' = known
  BY <1>5 DEF DeleteFiles, DeleteUnheard
<1>6. CASE DeleteCollection \/ UNCHANGED vars
  BY <1>6 DEF DeleteCollection, vars
<1> QED
  BY <1>1, <1>2, <1>3, <1>4, <1>5, <1>6, Zenon DEF Next, Thread

\* The count ends a job with its files settled and says whether one succeeded.
Ended(j) ==
    /\ job'[j] \in {"COMPLETED", "FAILED"}
    /\ \A e \in FilesOf(j) : detail'[e] \in Settled
    /\ job'[j] = "COMPLETED" => \E e \in FilesOf(j) : detail'[e] # "FAILED"

LEMMA CountEnds ==
    ASSUME TypeOK, NEW j \in Jobs, Count(j, detail')
    PROVE  /\ \A k \in Jobs : k # j => job'[k] = job[k]
           /\ job'[j] = job[j] \/ Ended(j)
BY DEF Count, AllFailed, Ended, TypeOK

LEMMA StepOfJob ==
    ASSUME TypeOK, [Next]_vars, NEW j \in Jobs
    PROVE  \/ job'[j] = job[j]
           \/ job'[j] = "pruned" /\ job[j] \in {"COMPLETED", "FAILED"} /\ detail' = detail
           \/ Ended(j)
           \/ Submit(j) /\ job'[j] = "PENDING"
           \/ Begin(j) /\ job'[j] = "PROCESSING"
<1> USE DEF service, threads, history
<1>1. ASSUME NEW k \in Jobs, Poll(k) \/ PollBlind(k) PROVE job'[j] = job[j] \/ Ended(j)
  <2>1. Count(k, detail')
    BY <1>1 DEF Poll, PollBlind
  <2>2. CASE k = j
    BY <2>1, <2>2, CountEnds
  <2>3. CASE k # j
    BY <2>1, <2>3, CountEnds
  <2> QED
    BY <2>2, <2>3
<1>2. ASSUME NEW k \in Jobs, Prune(k)
      PROVE  job'[j] = job[j] \/ (job'[j] = "pruned" /\ job[j] \in {"COMPLETED", "FAILED"} /\ detail' = detail)
  BY <1>2 DEF Prune, TypeOK
<1>3. ASSUME NEW k \in Jobs, StoreTask(k) PROVE job'[j] = job[j] \/ Ended(j)
  <2>1. detail' = detail /\ job' = [job EXCEPT ![k] = IF AllFailed(k, detail) /\ @ # "pruned" THEN "FAILED" ELSE @]
    BY <1>3 DEF StoreTask
  <2>2. CASE k = j /\ AllFailed(j, detail) /\ job[j] # "pruned"
    <3>1. job'[j] = "FAILED"
      BY <2>1, <2>2 DEF TypeOK
    <3>2. \A e \in FilesOf(j) : detail'[e] = "FAILED"
      BY <2>1, <2>2 DEF AllFailed
    <3> QED
      BY <3>1, <3>2 DEF Ended, Settled
  <2>3. CASE ~(k = j /\ AllFailed(j, detail) /\ job[j] # "pruned")
    BY <2>1, <2>3 DEF TypeOK
  <2> QED
    BY <2>2, <2>3
<1>4. ASSUME NEW k \in Jobs, Submit(k) \/ Begin(k)
      PROVE  \/ job'[j] = job[j]
             \/ Submit(j) /\ job'[j] = "PENDING"
             \/ Begin(j) /\ job'[j] = "PROCESSING"
  <2>1. CASE k = j
    <3>1. Submit(j) => job'[j] = "PENDING"
      BY DEF Submit, TypeOK
    <3>2. Begin(j) => job'[j] = "PROCESSING"
      BY DEF Begin, TypeOK
    <3> QED
      BY <1>4, <2>1, <3>1, <3>2
  <2>2. CASE k # j
    BY <1>4, <2>2 DEF Submit, Begin, TypeOK
  <2> QED
    BY <2>1, <2>2
<1>5. ASSUME NEW k \in Jobs, MarkFile(k) \/ Post(k) \/ PostUnnamed(k) \/ PostFails(k) \/ MarkFailed(k) PROVE job' = job
  BY <1>5 DEF MarkFile, Post, PostUnnamed, PostFails, MarkFailed
<1>6. ASSUME NEW k \in Jobs, Task(k) \/ TaskLost(k) PROVE job' = job
  BY <1>6 DEF Task, Ingest, TaskEnds, TaskLost
<1>7. ASSUME NEW N \in SUBSET Names, DeleteFiles(N) \/ DeleteUnheard(N) PROVE job' = job
  BY <1>7 DEF DeleteFiles, DeleteUnheard
<1>8. CASE DeleteCollection \/ UNCHANGED vars
  BY <1>8 DEF DeleteCollection, vars
<1> QED
  BY <1>1, <1>2, <1>3, <1>4, <1>5, <1>6, <1>7, <1>8, Zenon DEF Next, Thread

LEMMA AheadStep == RInv /\ [Next]_vars => ThreadAhead'
<1> SUFFICES ASSUME RInv, [Next]_vars, NEW j \in Jobs
             PROVE  /\ known'[j] => pc'[j] = "done"
                    /\ pc'[j] \notin {"none", "begin"} => job'[j] \notin {"none", "PENDING"}
                    /\ pc'[j] \in {"begin", "mark", "post"} =>
                          \A e \in FilesOf(j) : detail'[e] \in {"UPLOADING", "INGESTING", "gone"}
                    /\ pc'[j] = "fail" =>
                          \A e \in FilesOf(j) : detail'[e] \in {"UPLOADING", "INGESTING", "FAILED", "gone"}
  BY DEF ThreadAhead
<1> USE DEF RInv, IInv, Still, Goes
<1>0. /\ known[j] => pc[j] = "done"
      /\ pc[j] \notin {"none", "begin"} => job[j] \notin {"none", "PENDING"}
      /\ pc[j] = "begin" => job[j] = "PENDING"
      /\ job[j] = "none" => pc[j] = "none"
  BY DEF ThreadAhead, EarlyHasNoTask, UnbornIsIdle
<1>1. known'[j] => pc'[j] = "done"
  BY <1>0, StepOfKnown, StepOfThreads
<1>2. pc'[j] \notin {"none", "begin"} => job'[j] \notin {"none", "PENDING"}
  <2>1. job'[j] = "PENDING" => job[j] = "PENDING" \/ Submit(j)
    BY StepOfJob DEF Ended
  <2>2. Submit(j) => job[j] = "none" /\ pc'[j] = "begin"
    BY DEF Submit, TypeOK
  <2> QED
    BY <1>0, <2>1, <2>2, StepOfThreads
<1>3. ASSUME NEW e \in FilesOf(j), pc'[j] \in {"begin", "mark", "post"}
      PROVE  detail'[e] \in {"UPLOADING", "INGESTING", "gone"}
  <2>1. CASE Submit(j)
    <3>1. e \in Entries
      BY FilesAreEntries
    <3>2. detail'[e] = "UPLOADING"
      BY <2>1, <3>1 DEF Submit
    <3> QED
      BY <3>2
  <2>2. CASE ~Submit(j)
    <3>1. pc[j] \in {"begin", "mark", "post"}
      BY <1>3, <2>2, StepOfThreads
    <3>2. detail[e] \in {"UPLOADING", "INGESTING", "gone"} /\ ~known[j]
      BY <1>0, <3>1 DEF ThreadAhead
    <3>3. ~Poll(j)
      BY <3>2 DEF Poll
    <3> QED
      BY <2>2, <3>1, <3>2, <3>3, StepOfDetails
  <2> QED
    BY <2>1, <2>2
<1>4. ASSUME NEW e \in FilesOf(j), pc'[j] = "fail"
      PROVE  detail'[e] \in {"UPLOADING", "INGESTING", "FAILED", "gone"}
  <2>1. pc[j] \in {"post", "fail"}
    BY <1>4, StepOfThreads
  <2>2. detail[e] \in {"UPLOADING", "INGESTING", "FAILED", "gone"} /\ ~known[j] /\ job[j] # "none"
    BY <1>0, <2>1 DEF ThreadAhead
  <2>3. ~Poll(j) /\ ~Submit(j)
    BY <2>2 DEF Poll, Submit
  <2> QED
    BY <2>1, <2>2, <2>3, StepOfDetails
<1> QED
  BY <1>1, <1>2, <1>3, <1>4

LEMMA SettledStep == RInv /\ [Next]_vars => OverIsSettled'
<1> SUFFICES ASSUME RInv, [Next]_vars, NEW j \in Jobs
             PROVE  /\ Over(j)' => \A e \in FilesOf(j) : detail'[e] \in Settled \cup {"gone"}
                    /\ job'[j] = "COMPLETED" => \E e \in FilesOf(j) : detail'[e] # "FAILED"
  BY DEF OverIsSettled
<1> USE DEF RInv, IInv
<1>1. CASE Ended(j)
  BY <1>1 DEF Ended, Over
<1>2. CASE (Submit(j) /\ job'[j] = "PENDING") \/ (Begin(j) /\ job'[j] = "PROCESSING")
  BY <1>2 DEF Over
<1>3. CASE job'[j] = "pruned" /\ job[j] \in {"COMPLETED", "FAILED"} /\ detail' = detail
  BY <1>3 DEF OverIsSettled, Over
<1>4. CASE job'[j] = job[j]
  <2>1. ASSUME Over(j), NEW e \in FilesOf(j)
        PROVE  detail'[e] \in Settled \cup {"gone"} /\ (detail[e] # "FAILED" => detail'[e] # "FAILED")
    <3>1. detail[e] \in Settled \cup {"gone"} /\ job[j] \notin {"none", "PROCESSING"}
      BY <2>1 DEF OverIsSettled, Over
    <3>2. ~Poll(j) /\ ~Submit(j)
      BY <3>1 DEF Poll, Submit
    <3>3. pc[j] = "mark" => detail[e] \in {"UPLOADING", "INGESTING", "gone"}
      BY DEF ThreadAhead
    <3>4. pc[j] = "fail" => detail[e] \in {"UPLOADING", "INGESTING", "FAILED", "gone"}
      BY DEF ThreadAhead
    <3> QED
      BY <3>1, <3>2, <3>3, <3>4, StepOfDetails DEF Settled
  <2>2. ASSUME Over(j)' PROVE \A e \in FilesOf(j) : detail'[e] \in Settled \cup {"gone"}
    BY <1>4, <2>1, <2>2 DEF Over
  <2>3. ASSUME job'[j] = "COMPLETED" PROVE \E e \in FilesOf(j) : detail'[e] # "FAILED"
    <3>1. PICK e \in FilesOf(j) : detail[e] # "FAILED"
      BY <1>4, <2>3 DEF OverIsSettled
    <3>2. Over(j)
      BY <1>4, <2>3 DEF Over
    <3> QED
      BY <2>1, <3>1, <3>2
  <2> QED
    BY <2>2, <2>3
<1> QED
  BY <1>1, <1>2, <1>3, <1>4, StepOfJob

LEMMA RIndStep == RInv /\ [Next]_vars => RInv'
BY IndStep, AheadStep, SettledStep DEF RInv

\* The files of an upload are what the abstract specification calls so.
LEMMA FilesAreOf == \A j \in Jobs : Report!Of(j) = FilesOf(j) /\ FilesOf(j) # {}
<1> SUFFICES ASSUME NEW j \in Jobs PROVE Report!Of(j) = FilesOf(j) /\ FilesOf(j) # {}
  OBVIOUS
<1>1. FilesOf(j) \subseteq Report!Of(j)
  BY FilesAreEntries DEF Report!Of
<1>2. ASSUME NEW e \in Entries, e[1] = j PROVE e \in FilesOf(j)
  BY <1>2 DEF Entries, FilesOf
<1>3. <<j, 1>> \in FilesOf(j)
  BY NamesAreNames DEF FilesOf
<1> QED
  BY <1>1, <1>2, <1>3 DEF Report!Of

LEMMA InitReports == Init => Report!ReportInit
BY DEF Init, Report!ReportInit

\* Statuses only go forward.
LEMMA StepForward ==
    ASSUME RInv, [Next]_vars, NEW j \in Jobs, NEW e \in FilesOf(j), ~Submit(j), detail'[e] # "gone"
    PROVE  detail'[e] \in Report!Later(detail[e])
<1> USE DEF RInv, IInv
<1>1. detail[e] \in Settled \cup {"none", "gone", "UPLOADING", "INGESTING"}
  BY FilesAreEntries DEF TypeOK
<1>2. detail[e] # "gone"
  BY GoneForGood
<1>3. CASE detail'[e] = detail[e]
  BY <1>3, <1>1 DEF Report!Later, Settled
<1>4. CASE detail'[e] = "INGESTING" /\ pc[j] = "mark"
  <2>1. detail[e] \in {"UPLOADING", "INGESTING"}
    BY <1>2, <1>4 DEF ThreadAhead
  <2> QED
    BY <1>4, <2>1 DEF Report!Later
<1>5. CASE detail'[e] = "FAILED" /\ pc[j] = "fail"
  <2>1. detail[e] \in {"UPLOADING", "INGESTING", "FAILED"}
    BY <1>2, <1>5 DEF ThreadAhead
  <2> QED
    BY <1>5, <2>1 DEF Report!Later
<1>6. ASSUME detail[e] = "INGESTING", NEW N \in SUBSET NamesOf(j), detail'[e] = Verdict(e, N)
      PROVE  detail'[e] \in Report!Later(detail[e])
  <2>1. detail'[e] \in {"SUCCESS", "FAILED", "INGESTING"}
    BY <1>6 DEF Verdict
  <2> QED
    BY <1>6, <2>1 DEF Report!Later
<1> QED
  BY <1>2, <1>3, <1>4, <1>5, <1>6, StepOfDetails

\* A step that moves one job that is not over, and files of no other job, is
\* progress.
LEMMA StepAdvances ==
    ASSUME RInv, [Next]_vars, NEW j \in Jobs, ~Submit(j), job[j] \in {"PENDING", "PROCESSING"},
           NEW s \in {job[j], "PROCESSING", "COMPLETED", "FAILED"}, job' = [job EXCEPT ![j] = s],
           \A e \in Entries : e \notin FilesOf(j) => detail'[e] = detail[e],
           \A e \in FilesOf(j) : detail'[e] = "gone" => detail[e] = "gone"
    PROVE  Report!Progress(j)
<1> USE DEF RInv, IInv
<1>1. detail' \in [Entries -> Settled \cup {"none", "gone", "UPLOADING", "INGESTING"}]
  BY TypeStep DEF TypeOK
<1>2. \A e \in Report!Of(j) : detail'[e] \in Report!Later(detail[e])
  <2>1. ASSUME NEW e \in FilesOf(j), detail'[e] = "gone" PROVE detail'[e] \in Report!Later(detail[e])
    BY <2>1 DEF Report!Later
  <2> QED
    BY <2>1, StepForward, FilesAreOf
<1>3. \A e \in Entries : e \notin Report!Of(j) => detail'[e] = detail[e]
  BY FilesAreOf
<1>4. job'[j] = "COMPLETED" => \A e \in Report!Of(j) : detail'[e] \notin {"UPLOADING", "INGESTING"}
  BY SettledStep, FilesAreOf DEF OverIsSettled, Over, Settled
<1>5. \A e \in Entries : detail'[e] \in IF e \in Report!Of(j) THEN Report!Later(detail[e]) ELSE {detail[e]}
  BY <1>2, <1>3
<1>6. \E t \in {job[j], "PROCESSING"} \cup Report!Over : job' = [job EXCEPT ![j] = t]
  BY DEF Report!Over
<1>7. DOMAIN detail' = Entries
  BY <1>1
<1> QED
  BY <1>4, <1>5, <1>6, <1>7 DEF Report!Progress

LEMMA MarkReports ==
    ASSUME RInv, [Next]_vars, NEW j \in Jobs, MarkFile(j) \/ MarkFailed(j)
    PROVE  Report!Progress(j) \/ UNCHANGED <<job, detail>>
<1> USE DEF RInv, IInv
<1>1. job' = job /\ pc[j] \in {"mark", "fail"} /\ ~Submit(j)
  BY DEF MarkFile, MarkFailed, Submit, UnbornIsIdle
<1>2. PICK s \in {"INGESTING", "FAILED"} :
        /\ \A k \in Jobs : \A e \in FilesOf(k) :
              detail'[e] = detail[e] \/ (k = j /\ detail[e] # "gone" /\ detail'[e] = s)
        /\ s = "FAILED" => pc[j] = "fail"
        /\ s = "INGESTING" => pc[j] = "mark"
  <2>1. CASE MarkFile(j)
    <3>1. pc[j] = "mark" /\ (Mark(j, "INGESTING", "post") \/ OpenFails(j))
      BY <2>1 DEF MarkFile
    <3> QED
      BY <3>1, MarkMarks
  <2>2. CASE MarkFailed(j)
    <3>1. pc[j] = "fail" /\ Mark(j, "FAILED", "store")
      BY <2>2 DEF MarkFailed
    <3> QED
      BY <3>1, MarkMarks
  <2> QED
    BY <2>1, <2>2
<1>3. detail \in [Entries -> Settled \cup {"none", "gone", "UPLOADING", "INGESTING"}]
      /\ detail' \in [Entries -> Settled \cup {"none", "gone", "UPLOADING", "INGESTING"}]
  BY TypeStep DEF TypeOK
<1>4. \A e \in Entries : \E k \in Jobs : e \in FilesOf(k)
  BY DEF Entries, FilesOf
<1>5. CASE job[j] = "PROCESSING"
  <2>1. job' = [job EXCEPT ![j] = job[j]]
    BY <1>1 DEF TypeOK
  <2>2. \A e \in Entries : e \notin FilesOf(j) => detail'[e] = detail[e]
    BY <1>2, <1>4
  <2>3. \A e \in FilesOf(j) : detail'[e] = "gone" => detail[e] = "gone"
    BY <1>2
  <2> QED
    BY <1>1, <1>5, <2>1, <2>2, <2>3, StepAdvances
<1>6. CASE job[j] # "PROCESSING"
  <2>1. Over(j)
    BY <1>1, <1>6 DEF ThreadAhead, Over, TypeOK
  <2>2. \A e \in FilesOf(j) : detail[e] \in Settled \cup {"gone"}
    BY <2>1 DEF OverIsSettled
  <2>3. ASSUME NEW e \in FilesOf(j) PROVE detail'[e] = detail[e]
    <3>1. pc[j] = "mark" => detail[e] \in {"UPLOADING", "INGESTING", "gone"}
      BY DEF ThreadAhead
    <3>2. pc[j] = "fail" => detail[e] \in {"UPLOADING", "INGESTING", "FAILED", "gone"}
      BY DEF ThreadAhead
    <3> QED
      BY <1>2, <2>2, <3>1, <3>2 DEF Settled
  <2>4. \A e \in Entries : detail'[e] = detail[e]
    BY <1>2, <1>4, <2>3
  <2>5. detail' = detail
    BY <1>3, <2>4
  <2> QED
    BY <1>1, <2>5
<1> QED
  BY <1>5, <1>6

LEMMA PollReports ==
    ASSUME RInv, [Next]_vars, NEW j \in Jobs, Poll(j) \/ PollBlind(j)
    PROVE  Report!Progress(j)
<1> USE DEF RInv, IInv
<1>1. job[j] = "PROCESSING" /\ ~Submit(j) /\ Count(j, detail')
  BY DEF Poll, PollBlind, Submit, threads, service, history
<1>2. PICK s \in {job[j], "COMPLETED", "FAILED"} : job' = [job EXCEPT ![j] = s]
  BY <1>1 DEF Count
<1>3. /\ \A e \in Entries : e \notin FilesOf(j) => detail'[e] = detail[e]
      /\ \A e \in FilesOf(j) : detail'[e] = "gone" => detail[e] = "gone"
  <2>1. CASE PollBlind(j)
    BY <2>1 DEF PollBlind
  <2>2. CASE Poll(j)
    <3>1. PICK N \in SUBSET NamesOf(j) : Hear(j, N)
      BY <2>2 DEF Poll
    <3>2. detail' = [f \in Entries |-> IF f \in FilesOf(j) /\ detail[f] = "INGESTING" THEN Verdict(f, N) ELSE detail[f]]
      BY <3>1 DEF Hear
    <3>3. \A e \in Entries : e \notin FilesOf(j) => detail'[e] = detail[e]
      BY <3>2
    <3>4. ASSUME NEW e \in FilesOf(j), detail'[e] = "gone" PROVE detail[e] = "gone"
      <4>1. e \in Entries
        BY FilesAreEntries
      <4>2. Verdict(e, N) # "gone"
        BY DEF Verdict
      <4> QED
        BY <3>2, <3>4, <4>1, <4>2
    <3> QED
      BY <3>3, <3>4
  <2> QED
    BY <2>1, <2>2
<1> QED
  BY <1>1, <1>2, <1>3, StepAdvances

LEMMA StoreReports ==
    ASSUME RInv, [Next]_vars, NEW j \in Jobs, StoreTask(j)
    PROVE  Report!Progress(j) \/ UNCHANGED <<job, detail>>
<1> USE DEF RInv, IInv
<1>1. /\ detail' = detail /\ pc[j] = "store"
      /\ job' = [job EXCEPT ![j] = IF AllFailed(j, detail) /\ @ # "pruned" THEN "FAILED" ELSE @]
  BY DEF StoreTask
<1>2. job[j] \in {"PROCESSING", "COMPLETED", "FAILED", "pruned"}
  BY <1>1 DEF ThreadAhead, TypeOK
<1>3. CASE job[j] = "PROCESSING" /\ AllFailed(j, detail)
  <2>1. job' = [job EXCEPT ![j] = "FAILED"] /\ ~Submit(j)
    BY <1>1, <1>3 DEF Submit
  <2> QED
    BY <1>1, <1>3, <2>1, StepAdvances
<1>4. CASE ~(job[j] = "PROCESSING" /\ AllFailed(j, detail))
  <2>1. job[j] = "COMPLETED" => ~AllFailed(j, detail)
    BY DEF OverIsSettled, AllFailed
  <2>2. job' = job
    BY <1>1, <1>2, <1>4, <2>1 DEF TypeOK
  <2> QED
    BY <1>1, <2>2
<1> QED
  BY <1>3, <1>4

LEMMA StepReports == RInv /\ [Next]_vars => [Report!ReportNext]_(Report!reportVars)
<1> SUFFICES ASSUME RInv, [Next]_vars PROVE Report!ReportNext \/ UNCHANGED <<job, detail>>
  BY DEF Report!reportVars
<1> USE DEF service, threads, history
<1>1. ASSUME NEW j \in Jobs, Submit(j) PROVE Report!Submit(j)
  <2>1. FilesOf(j) \in SUBSET Report!Of(j) /\ FilesOf(j) # {}
    BY FilesAreOf
  <2> QED
    BY <1>1, <2>1 DEF Submit, Report!Submit
<1>2. ASSUME NEW j \in Jobs, Begin(j) PROVE Report!Progress(j)
  <2>1. job[j] = "PENDING" /\ job' = [job EXCEPT ![j] = "PROCESSING"] /\ detail' = detail /\ ~Submit(j)
    BY <1>2 DEF Begin, RInv, IInv, EarlyHasNoTask, Submit
  <2> QED
    BY <2>1, StepAdvances
<1>3. ASSUME NEW j \in Jobs, Thread(j) PROVE Report!Progress(j) \/ UNCHANGED <<job, detail>>
  <2>1. CASE Post(j) \/ PostUnnamed(j) \/ PostFails(j)
    BY <2>1 DEF Post, PostUnnamed, PostFails
  <2> QED
    BY <1>2, <1>3, <2>1, MarkReports, StoreReports DEF Thread
<1>4. ASSUME NEW j \in Jobs, Task(j) \/ TaskLost(j) PROVE UNCHANGED <<job, detail>>
  BY <1>4 DEF Task, Ingest, TaskEnds, TaskLost
<1>5. ASSUME NEW j \in Jobs, Prune(j) PROVE Report!Forget(j)
  BY <1>5 DEF Prune, Report!Forget, Report!Over
<1>6. ASSUME NEW N \in SUBSET Names, DeleteFiles(N) PROVE Report!Drop
  <2>1. PICK F \in SUBSET Entries :
            F = {e \in Entries : NameOf(e) \in N /\ job[e[1]] \notin {"none", "pruned"}}
    OBVIOUS
  <2>2. detail' = [e \in Entries |-> IF e \in F THEN "gone" ELSE detail[e]] /\ job' = job
    BY <1>6, <2>1 DEF DeleteFiles
  <2> QED
    BY <2>2 DEF Report!Drop
<1>7. ASSUME NEW N \in SUBSET Names, DeleteUnheard(N) PROVE UNCHANGED <<job, detail>>
  BY <1>7 DEF DeleteUnheard
<1>8. CASE DeleteCollection \/ UNCHANGED vars
  BY <1>8 DEF DeleteCollection, vars
<1>9. ASSUME NEW j \in Jobs, Poll(j) \/ PollBlind(j) PROVE Report!Progress(j)
  BY <1>9, PollReports
<1>10. CASE \E j \in Jobs : Report!Submit(j) \/ Report!Progress(j) \/ Report!Forget(j)
  BY <1>10 DEF Report!ReportNext
<1>11. CASE Report!Drop
  BY <1>11 DEF Report!ReportNext
<1> QED
  BY <1>1, <1>3, <1>4, <1>5, <1>6, <1>7, <1>8, <1>9, <1>10, <1>11, Zenon DEF Next

\* Whatever threads, service and requests do, a client that polls sees jobs and
\* files go forward only, and a completed job with every file settled.
THEOREM RemoteReports == Spec => ReportSpec
<1> QED
  BY InitRInv, RIndStep, InitReports, StepReports, PTL DEF Spec, ReportSpec, Report!ReportSpec

\* What is over is final: later answers, threads that have not noticed, and
\* deletions forget a job that was over or remove its files, and change nothing else.
OverIsFinal ==
    \A j \in Jobs : \A e \in FilesOf(j) :
        Over(j) => job'[j] \in {job[j], "pruned"} /\ detail'[e] \in {detail[e], "gone"}

LEMMA ReportIsFinal ==
    ASSUME TypeOK, [Report!ReportNext]_(Report!reportVars),
           NEW j \in Jobs, NEW e \in FilesOf(j), Over(j)
    PROVE  job'[j] \in {job[j], "pruned"} /\ detail'[e] \in {detail[e], "gone"}
<1>0. e \in Entries /\ e[1] = j /\ job[j] \notin {"none", "PENDING", "PROCESSING"}
  BY FilesAreEntries DEF Over
<1>1. ASSUME NEW k \in Jobs, Report!Submit(k) PROVE job'[j] = job[j] /\ detail'[e] = detail[e]
  <2>1. k # j
    BY <1>0, <1>1 DEF Report!Submit
  <2>2. \A F \in SUBSET Report!Of(k) : e \notin F
    BY <1>0, <2>1 DEF Report!Of
  <2> QED
    BY <1>0, <1>1, <2>1, <2>2 DEF Report!Submit, TypeOK
<1>2. ASSUME NEW k \in Jobs, Report!Progress(k) PROVE job'[j] = job[j] /\ detail'[e] = detail[e]
  <2>1. k # j
    BY <1>0, <1>2 DEF Report!Progress
  <2>2. e \notin Report!Of(k)
    BY <1>0, <2>1 DEF Report!Of
  <2>3. detail'[e] \in {detail[e]}
    BY <1>0, <1>2, <2>2 DEF Report!Progress
  <2>4. job'[j] = job[j]
    BY <1>2, <2>1 DEF Report!Progress, TypeOK
  <2> QED
    BY <2>3, <2>4
<1>3. ASSUME NEW k \in Jobs, Report!Forget(k) PROVE job'[j] \in {job[j], "pruned"} /\ detail'[e] = detail[e]
  BY <1>3 DEF Report!Forget, TypeOK
<1>4. ASSUME Report!Drop PROVE job'[j] = job[j] /\ detail'[e] \in {detail[e], "gone"}
  BY <1>0, <1>4 DEF Report!Drop
<1>5. CASE UNCHANGED Report!reportVars
  BY <1>5 DEF Report!reportVars
<1> QED
  BY <1>1, <1>2, <1>3, <1>4, <1>5 DEF Report!ReportNext

\* A job that is over changes no more, but that it may be forgotten and its files
\* deleted: no thread, task or late answer takes back what it was reported as.
THEOREM FinishedIsFinal == Spec => [][OverIsFinal]_vars
<1>1. RInv /\ [Next]_vars => [OverIsFinal]_vars
  BY StepReports, ReportIsFinal DEF RInv, IInv, OverIsFinal
<1> QED
  BY <1>1, InitRInv, RIndStep, PTL DEF Spec

-----------------------------------------------------------------------------
(* Why a job that is asked for comes to its end.  JobsEnd is about time; what *)
(* it rests on is that a job which is not over and has not lapsed is in      *)
(* somebody's hands: in those of its thread, which then holds the files up   *)
(* to its place in the loop, or in those of a task that a status request     *)
(* finds and that has something to say.                                      *)

Awaited(j) == job[j] \in {"PENDING", "PROCESSING"} /\ j \notin lapsed
Behind(j) == {e \in FilesOf(j) : e[2] < at[j]}
Answering(j) == task[j] \in {"running", "finished", "failed"}

Followed(j) ==
    /\ pc[j] \notin {"none", "dead"}
    /\ \A e \in FilesOf(j) : detail[e] # "gone"
    /\ pc[j] = "mark" => \A e \in Behind(j) : detail[e] = "INGESTING"
    /\ pc[j] = "post" => \A e \in FilesOf(j) : detail[e] = "INGESTING"
    /\ pc[j] = "fail" => \A e \in Behind(j) : detail[e] = "FAILED"
    /\ pc[j] = "store" =>
          \/ j \in refused /\ \A e \in FilesOf(j) : detail[e] = "FAILED"
          \/ j \notin refused /\ Answering(j) /\ \A e \in FilesOf(j) : detail[e] = "INGESTING"
    /\ pc[j] = "done" =>
          known[j] /\ Answering(j) /\ \A e \in FilesOf(j) : detail[e] \in Settled \cup {"INGESTING"}

AwaitedAreFollowed == \A j \in Jobs : Awaited(j) => Followed(j)

\* Each loop begins with the first file, and only a POST that failed is refused.
LoopsBegin ==
    \A j \in Jobs :
        /\ pc[j] \in {"none", "begin", "post"} => at[j] = 1
        /\ pc[j] \in {"none", "begin", "mark", "post"} => j \notin refused

FInv == RInv /\ LoopsBegin /\ AwaitedAreFollowed

\* As long as no file was deleted, the place of a file in the list is its number.
LEMMA PlaceIsNumber ==
    ASSUME NEW j \in Jobs, NEW e \in FilesOf(j), Kept(j) = FilesOf(j)
    PROVE  Place(e) = e[2]
<1> DEFINE n == e[2]
           S == {f \in FilesOf(j) : f[2] <= n}
           g == [i \in 1 .. n |-> <<j, i>>]
<1>1. e[1] = j /\ n \in 1 .. Len(Files[j]) /\ Len(Files[j]) \in Nat /\ DOMAIN Files[j] = 1 .. Len(Files[j])
  BY FilesAreEntries, NamesAreNames
<1>2. \A i \in 1 .. n : <<j, i>> \in S
  BY <1>1 DEF FilesOf
<1>3. \A f \in S : f[2] \in 1 .. n /\ f = <<j, f[2]>>
  BY <1>1 DEF FilesOf
<1>4. g \in Bijection(1 .. n, S)
  <2>1. g \in [1 .. n -> S]
    BY <1>2
  <2>2. \A a, b \in 1 .. n : g[a] = g[b] => a = b
    OBVIOUS
  <2>3. \A f \in S : \E a \in 1 .. n : g[a] = f
    BY <1>3
  <2> HIDE DEF g, S
  <2> QED
    BY <2>1, <2>2, <2>3 DEF Bijection, Injection, Surjection, IsInjective
<1>5. Cardinality(S) = n
  <2>1. n \in Nat
    BY <1>1
  <2>2. ExistsBijection(1 .. n, S)
    BY <1>4 DEF ExistsBijection
  <2> HIDE DEF n, S, g
  <2> QED
    BY <2>1, <2>2, FS_CountingElements
<1> QED
  BY <1>1, <1>5 DEF Place

\* One round of a loop of a job with all its files: the file at its place gets
\* the status, and the next one is due, or all of them have it.
LEMMA MarkRound ==
    ASSUME TypeOK, NEW j \in Jobs, NEW s \in {"INGESTING", "FAILED"}, NEW next \in {"post", "store"},
           Mark(j, s, next), j \notin lapsed', \A e \in FilesOf(j) : detail[e] # "gone",
           \A e \in Behind(j) : detail[e] = s, s # "gone"
    PROVE  /\ \A e \in FilesOf(j) : detail'[e] # "gone"
           /\ \/ pc'[j] = pc[j] /\ \A e \in FilesOf(j) : e[2] < at'[j] => detail'[e] = s
              \/ pc'[j] = next /\ at'[j] = 1 /\ \A e \in FilesOf(j) : detail'[e] = s
<1>1. PICK e \in Kept(j) :
          /\ Place(e) = at[j] /\ detail' = [detail EXCEPT ![e] = s]
          /\ IF at[j] < Len(Files[j])
             THEN at' = [at EXCEPT ![j] = @ + 1] /\ UNCHANGED pc
             ELSE at' = [at EXCEPT ![j] = 1] /\ pc' = [pc EXCEPT ![j] = next]
  BY DEF Mark
<1>2. e \in FilesOf(j) /\ Kept(j) = FilesOf(j)
  BY DEF Kept
<1>3. e[2] = at[j]
  BY <1>1, <1>2, PlaceIsNumber
<1>4. /\ at[j] \in 1 .. Len(Files[j]) /\ Len(Files[j]) \in Nat \ {0}
      /\ DOMAIN Files[j] = 1 .. Len(Files[j])
  BY NamesAreNames DEF TypeOK
<1>5. ASSUME NEW f \in FilesOf(j)
      PROVE  /\ detail'[f] \in {detail[f], s}
             /\ f[2] < at[j] + 1 => detail'[f] = s
             /\ f[2] \in 1 .. Len(Files[j])
  <2>1. f \in Entries /\ e \in Entries /\ f = <<j, f[2]>> /\ e = <<j, e[2]>> /\ f[2] \in 1 .. Len(Files[j])
    BY <1>2, <1>4, FilesAreEntries DEF FilesOf
  <2>2. CASE f = e
    BY <1>1, <2>1, <2>2 DEF TypeOK
  <2>3. CASE f # e
    <3>1. f[2] # at[j]
      BY <1>3, <2>1, <2>3
    <3>2. f[2] < at[j] + 1 => f[2] < at[j]
      BY <1>4, <2>1, <3>1
    <3>3. detail'[f] = detail[f]
      BY <1>1, <2>1, <2>3 DEF TypeOK
    <3> QED
      BY <2>1, <3>2, <3>3 DEF Behind
  <2> QED
    BY <2>2, <2>3
<1>6. \A f \in FilesOf(j) : detail'[f] # "gone"
  BY <1>5
<1>7. CASE at[j] < Len(Files[j]) /\ at' = [at EXCEPT ![j] = @ + 1] /\ UNCHANGED pc
  BY <1>5, <1>6, <1>7 DEF TypeOK
<1>8. CASE ~(at[j] < Len(Files[j])) /\ at' = [at EXCEPT ![j] = 1] /\ pc' = [pc EXCEPT ![j] = next]
  <2>1. \A f \in FilesOf(j) : f[2] < at[j] + 1
    BY <1>4, <1>5, <1>8
  <2> QED
    BY <1>5, <1>6, <1>8, <2>1 DEF TypeOK
<1> QED
  BY <1>1, <1>7, <1>8

-----------------------------------------------------------------------------
LEMMA LapsedGrows == [Next]_vars => lapsed \subseteq lapsed'
<1> SUFFICES ASSUME [Next]_vars PROVE lapsed \subseteq lapsed'
  OBVIOUS
<1> USE DEF service, threads, history
<1>1. ASSUME NEW k \in Jobs, Submit(k) \/ Task(k) \/ TaskLost(k) \/ Poll(k) \/ PollBlind(k) \/ Prune(k)
      PROVE  lapsed \subseteq lapsed'
  BY <1>1 DEF Submit, Task, Ingest, TaskEnds, TaskLost, Poll, PollBlind, Prune
<1>2. ASSUME NEW k \in Jobs, Thread(k) PROVE lapsed \subseteq lapsed'
  BY <1>2 DEF Thread, Begin, MarkFile, Mark, OpenFails, Post, PostUnnamed, PostFails, MarkFailed, StoreTask
<1>3. ASSUME NEW N \in SUBSET Names, DeleteFiles(N) \/ DeleteUnheard(N) PROVE lapsed \subseteq lapsed'
  BY <1>3 DEF DeleteFiles, DeleteUnheard
<1>4. CASE DeleteCollection \/ UNCHANGED vars
  BY <1>4 DEF DeleteCollection, vars
<1> QED
  BY <1>1, <1>2, <1>3, <1>4 DEF Next

\* A job that is awaited was so before, or is new.
LEMMA AwaitedBefore ==
    ASSUME RInv, [Next]_vars, NEW j \in Jobs, Awaited(j)'
    PROVE  Awaited(j) \/ Submit(j)
<1>1. j \notin lapsed
  BY LapsedGrows DEF Awaited
<1>2. Begin(j) => job[j] = "PENDING"
  BY DEF Begin, RInv, IInv, EarlyHasNoTask
<1> QED
  BY <1>1, <1>2, StepOfJob DEF RInv, IInv, Awaited, Ended

\* What other jobs' steps leave alone.
Aside(j) ==
    /\ pc'[j] = pc[j] /\ at'[j] = at[j] /\ known'[j] = known[j]
    /\ (j \in refused' <=> j \in refused)
    /\ task'[j] = task[j] \/ (Answering(j) /\ Answering(j)')
    /\ \A e \in FilesOf(j) : detail'[e] = detail[e]

LEMMA AsideStays ==
    ASSUME NEW j \in Jobs, Followed(j), Aside(j) PROVE Followed(j)'
BY DEF Followed, Aside, Behind, Answering

LEMMA OthersAside ==
    ASSUME TypeOK, NEW j \in Jobs, NEW k \in Jobs, k # j,
           Submit(k) \/ Thread(k) \/ Poll(k) \/ TaskLost(k)
    PROVE  Aside(j)
<1> USE DEF service, threads, history
<1>1. \A e \in FilesOf(j) : e \in Entries /\ e \notin FilesOf(k)
  BY FilesAreEntries
<1>2. CASE Submit(k)
  BY <1>1, <1>2 DEF Submit, TypeOK, Aside
<1>3. CASE Poll(k)
  <2>1. \A e \in FilesOf(j) : detail'[e] = detail[e]
    BY <1>1, <1>3 DEF Poll, Hear
  <2> QED
    BY <1>3, <2>1 DEF Poll, Aside
<1>4. CASE Begin(k) \/ Post(k) \/ PostUnnamed(k) \/ PostFails(k) \/ StoreTask(k) \/ TaskLost(k)
  BY <1>4 DEF Begin, Post, PostUnnamed, PostFails, StoreTask, TaskLost, TypeOK, Aside
<1>5. CASE MarkFile(k) \/ MarkFailed(k)
  <2>1. PICK s \in {"INGESTING", "FAILED"}, next \in {"post", "store"} :
            Mark(k, s, next) \/ (s = "INGESTING" /\ OpenFails(k))
    BY <1>5 DEF MarkFile, MarkFailed
  <2>2. \A e \in FilesOf(j) : detail'[e] = detail[e]
    BY <2>1, MarkMarks
  <2>3. pc'[j] = pc[j]
    BY <2>1, MarkMarks
  <2>4. at'[j] = at[j]
    BY <2>1 DEF Mark, OpenFails, TypeOK
  <2> QED
    BY <1>5, <2>2, <2>3, <2>4 DEF MarkFile, MarkFailed, Aside
<1> QED
  BY <1>2, <1>3, <1>4, <1>5 DEF Thread

LEMMA SubmitFollows ==
    ASSUME RInv, NEW j \in Jobs, Submit(j) PROVE Followed(j)'
<1>1. \A e \in FilesOf(j) : detail'[e] = "UPLOADING"
  BY FilesAreEntries DEF Submit
<1>2. pc'[j] = "begin"
  BY DEF Submit, RInv, IInv, TypeOK
<1> QED
  BY <1>1, <1>2 DEF Followed

LEMMA ThreadFollows ==
    ASSUME FInv, NEW j \in Jobs, Thread(j), Awaited(j), Awaited(j)', Followed(j)
    PROVE  Followed(j)'
<1> USE DEF FInv, RInv, IInv, service, threads, history
<1>0. j \notin lapsed' /\ \A e \in FilesOf(j) : detail[e] # "gone"
  BY DEF Awaited, Followed
<1>1. CASE Begin(j)
  <2>1. pc'[j] = "mark" /\ at'[j] = 1 /\ detail' = detail
    BY <1>1 DEF Begin, TypeOK, LoopsBegin
  <2>2. Behind(j)' = {}
    <3>1. \A e \in FilesOf(j) : e[2] \in Nat \ {0}
      BY FilesAreEntries, NamesAreNames
    <3> QED
      BY <2>1, <3>1 DEF Behind
  <2> QED
    BY <1>0, <2>1, <2>2 DEF Followed
<1>2. CASE MarkFile(j)
  <2>1. pc[j] = "mark" /\ j \notin refused /\ Mark(j, "INGESTING", "post")
    BY <1>0, <1>2 DEF MarkFile, OpenFails, LoopsBegin
  <2>2. \A e \in Behind(j) : detail[e] = "INGESTING"
    BY <2>1 DEF Followed
  <2>3. /\ \A e \in FilesOf(j) : detail'[e] # "gone"
        /\ \/ pc'[j] = "mark" /\ \A e \in FilesOf(j) : e[2] < at'[j] => detail'[e] = "INGESTING"
           \/ pc'[j] = "post" /\ at'[j] = 1 /\ \A e \in FilesOf(j) : detail'[e] = "INGESTING"
    BY <1>0, <2>1, <2>2, MarkRound
  <2> QED
    BY <2>3 DEF Followed, Behind
<1>3. CASE Post(j)
  <2>1. /\ pc[j] = "post" /\ pc'[j] = "store" /\ task'[j] = "running" /\ detail' = detail
        /\ refused' = refused /\ j \notin refused
    BY <1>3 DEF Post, TypeOK, LoopsBegin
  <2> QED
    BY <2>1 DEF Followed, Answering
<1>4. CASE PostUnnamed(j)
  BY <1>0, <1>4 DEF PostUnnamed
<1>5. CASE PostFails(j)
  <2>1. pc'[j] = "fail" /\ at'[j] = 1 /\ detail' = detail
    BY <1>5 DEF PostFails, TypeOK, LoopsBegin
  <2>2. Behind(j)' = {}
    <3>1. \A e \in FilesOf(j) : e[2] \in Nat \ {0}
      BY FilesAreEntries, NamesAreNames
    <3> QED
      BY <2>1, <3>1 DEF Behind
  <2> QED
    BY <1>0, <2>1, <2>2 DEF Followed
<1>6. CASE MarkFailed(j)
  <2>1. pc[j] = "fail" /\ j \in refused /\ refused' = refused /\ Mark(j, "FAILED", "store")
    BY <1>6 DEF MarkFailed, FailingIsRefused
  <2>2. \A e \in Behind(j) : detail[e] = "FAILED"
    BY <2>1 DEF Followed
  <2>3. /\ \A e \in FilesOf(j) : detail'[e] # "gone"
        /\ \/ pc'[j] = "fail" /\ \A e \in FilesOf(j) : e[2] < at'[j] => detail'[e] = "FAILED"
           \/ pc'[j] = "store" /\ at'[j] = 1 /\ \A e \in FilesOf(j) : detail'[e] = "FAILED"
    BY <1>0, <2>1, <2>2, MarkRound
  <2> QED
    BY <2>1, <2>3 DEF Followed, Behind
<1>7. CASE StoreTask(j)
  <2>1. /\ pc[j] = "store" /\ pc'[j] = "done" /\ detail' = detail /\ task' = task /\ refused' = refused
        /\ known'[j] = (j \notin refused /\ task[j] # "none")
        /\ job'[j] = IF AllFailed(j, detail) /\ job[j] # "pruned" THEN "FAILED" ELSE job[j]
    BY <1>7 DEF StoreTask, TypeOK
  <2>2. ~AllFailed(j, detail)
    BY <2>1 DEF Awaited
  <2>3. j \notin refused /\ Answering(j) /\ \A e \in FilesOf(j) : detail[e] = "INGESTING"
    BY <2>1, <2>2 DEF Followed, AllFailed
  <2> QED
    BY <2>1, <2>3 DEF Followed, Answering
<1> QED
  BY <1>1, <1>2, <1>3, <1>4, <1>5, <1>6, <1>7 DEF Thread

LEMMA PollFollows ==
    ASSUME FInv, NEW j \in Jobs, Poll(j), Followed(j) PROVE Followed(j)'
<1> USE DEF FInv, RInv, IInv, service, threads, history
<1>1. pc[j] = "done" /\ UNCHANGED <<pc, at, known, task, refused>>
  BY DEF Poll, ThreadAhead
<1>2. PICK N \in SUBSET NamesOf(j) : Hear(j, N)
  BY DEF Poll
<1>3. ASSUME NEW e \in FilesOf(j) PROVE detail'[e] \in Settled \cup {"INGESTING"}
  <2>1. e \in Entries /\ detail[e] \in Settled \cup {"INGESTING"}
    BY <1>1, FilesAreEntries DEF Followed
  <2>2. Verdict(e, N) \in Settled \cup {"INGESTING"}
    BY DEF Verdict, Settled
  <2> QED
    BY <1>2, <2>1, <2>2 DEF Hear
<1> QED
  BY <1>1, <1>3 DEF Followed, Answering, Settled

LEMMA DeletionAside ==
    ASSUME NEW j \in Jobs, NEW N \in SUBSET Names, DeleteFiles(N), Awaited(j), j \notin lapsed'
    PROVE  Aside(j)
<1> USE DEF service, threads, history
<1>1. \A e \in FilesOf(j) : NameOf(e) \notin N
  BY DEF DeleteFiles, Awaited
<1>2. \A e \in FilesOf(j) : detail'[e] = detail[e]
  BY <1>1, FilesAreEntries DEF DeleteFiles
<1> QED
  BY <1>2 DEF DeleteFiles, Aside

LEMMA FollowedStep == FInv /\ [Next]_vars => AwaitedAreFollowed'
<1> SUFFICES ASSUME FInv, [Next]_vars, NEW j \in Jobs, Awaited(j)' PROVE Followed(j)'
  BY DEF AwaitedAreFollowed
<1> USE DEF service, threads, history
<1>0. RInv /\ TypeOK /\ (Submit(j) \/ (Awaited(j) /\ Followed(j)))
  BY AwaitedBefore DEF FInv, RInv, IInv, AwaitedAreFollowed
<1>1. CASE Submit(j)
  BY <1>0, <1>1, SubmitFollows
<1>2. CASE Awaited(j) /\ Followed(j)
  <2>1. ASSUME NEW k \in Jobs, Submit(k) \/ Thread(k) \/ Poll(k) PROVE Followed(j)'
    <3>1. CASE k = j
      BY <1>1, <1>2, <2>1, <3>1, ThreadFollows, PollFollows
    <3>2. CASE k # j
      BY <1>0, <1>2, <2>1, <3>2, OthersAside, AsideStays
    <3> QED
      BY <3>1, <3>2
  <2>2. ASSUME NEW k \in Jobs, TaskLost(k) PROVE Followed(j)'
    <3>1. k # j
      BY <2>2 DEF TaskLost, Awaited
    <3> QED
      BY <1>0, <1>2, <2>2, <3>1, OthersAside, AsideStays
  <2>3. ASSUME NEW k \in Jobs, Task(k) PROVE Followed(j)'
    <3>1. Aside(j)
      BY <1>0, <2>3 DEF Task, Ingest, TaskEnds, Aside, Answering, TypeOK
    <3> QED
      BY <1>2, <3>1, AsideStays
  <2>4. ASSUME NEW k \in Jobs, PollBlind(k) \/ Prune(k) PROVE Followed(j)'
    BY <1>2, <2>4, AsideStays DEF PollBlind, Prune, Aside
  <2>5. ASSUME NEW N \in SUBSET Names, DeleteFiles(N) PROVE Followed(j)'
    BY <1>2, <2>5, DeletionAside, AsideStays DEF Awaited
  <2>6. ASSUME NEW N \in SUBSET Names, DeleteUnheard(N) PROVE Followed(j)'
    BY <1>2, <2>6, AsideStays DEF DeleteUnheard, Aside
  <2>7. CASE DeleteCollection \/ UNCHANGED vars
    BY <1>2, <2>7, AsideStays DEF DeleteCollection, vars, Aside
  <2> QED
    BY <2>1, <2>2, <2>3, <2>4, <2>5, <2>6, <2>7 DEF Next
<1> QED
  BY <1>0, <1>1, <1>2

LEMMA LoopsStep == TypeOK /\ UnbornIsIdle /\ LoopsBegin /\ [Next]_vars => LoopsBegin'
<1> SUFFICES ASSUME TypeOK, UnbornIsIdle, LoopsBegin, [Next]_vars, NEW j \in Jobs
             PROVE  /\ pc'[j] \in {"none", "begin", "post"} => at'[j] = 1
                    /\ pc'[j] \in {"none", "begin", "mark", "post"} => j \notin refused'
  BY DEF LoopsBegin
<1> USE DEF service, threads, history
<1>0. /\ pc[j] \in {"none", "begin", "post"} => at[j] = 1
      /\ pc[j] \in {"none", "begin", "mark", "post"} => j \notin refused
  BY DEF LoopsBegin
<1>1. CASE UNCHANGED <<pc, at, refused>>
  BY <1>0, <1>1
<1>2. ASSUME NEW k \in Jobs, Task(k) \/ TaskLost(k) \/ Poll(k) \/ PollBlind(k) \/ Prune(k)
      PROVE  UNCHANGED <<pc, at, refused>>
  BY <1>2 DEF Task, Ingest, TaskEnds, TaskLost, Poll, PollBlind, Prune
<1>3. ASSUME NEW N \in SUBSET Names, DeleteFiles(N) \/ DeleteUnheard(N) PROVE UNCHANGED <<pc, at, refused>>
  BY <1>3 DEF DeleteFiles, DeleteUnheard
<1>4. CASE DeleteCollection \/ UNCHANGED vars
  BY <1>1, <1>4 DEF DeleteCollection, vars
<1>5. ASSUME NEW k \in Jobs, Submit(k) \/ Thread(k), k # j
      PROVE  pc'[j] = pc[j] /\ at'[j] = at[j] /\ (j \in refused' <=> j \in refused)
  BY <1>5, OthersAside DEF Aside
<1>6. ASSUME Begin(j) \/ Post(j) \/ PostUnnamed(j) \/ PostFails(j) \/ StoreTask(j)
      PROVE  /\ pc'[j] \in {"none", "begin", "post"} => at'[j] = 1
             /\ pc'[j] \in {"none", "begin", "mark", "post"} => j \notin refused'
  BY <1>0, <1>6 DEF Begin, Post, PostUnnamed, PostFails, StoreTask, TypeOK
<1>7. ASSUME Submit(j)
      PROVE  /\ pc'[j] \in {"none", "begin", "post"} => at'[j] = 1
             /\ pc'[j] \in {"none", "begin", "mark", "post"} => j \notin refused'
  BY <1>0, <1>7 DEF Submit, TypeOK, UnbornIsIdle
<1>8. ASSUME NEW s \in {"INGESTING", "FAILED"}, NEW next \in {"post", "store"},
             Mark(j, s, next) \/ (s = "INGESTING" /\ OpenFails(j)), refused' = refused,
             pc[j] = IF next = "post" THEN "mark" ELSE "fail"
      PROVE  /\ pc'[j] \in {"none", "begin", "post"} => at'[j] = 1
             /\ pc'[j] \in {"none", "begin", "mark", "post"} => j \notin refused'
  BY <1>0, <1>8 DEF Mark, OpenFails, TypeOK
<1>9. ASSUME MarkFile(j) \/ MarkFailed(j)
      PROVE  /\ pc'[j] \in {"none", "begin", "post"} => at'[j] = 1
             /\ pc'[j] \in {"none", "begin", "mark", "post"} => j \notin refused'
  BY <1>8, <1>9 DEF MarkFile, MarkFailed
<1> QED
  BY <1>0, <1>1, <1>2, <1>3, <1>4, <1>5, <1>6, <1>7, <1>9 DEF Next, Thread

LEMMA InitFInv == Init => FInv
<1> SUFFICES ASSUME Init PROVE FInv
  OBVIOUS
<1>1. LoopsBegin /\ AwaitedAreFollowed
  BY DEF Init, LoopsBegin, AwaitedAreFollowed, Awaited
<1> QED
  BY <1>1, InitRInv DEF FInv

LEMMA FIndStep == FInv /\ [Next]_vars => FInv'
BY RIndStep, FollowedStep, LoopsStep DEF FInv, RInv, IInv

\* Every job that is waited for, and has not lost its thread, its task or a file,
\* is in the hands of its thread, or its task is known and can be asked.
THEOREM JobsAreFollowed == Spec => []AwaitedAreFollowed
<1>1. FInv => AwaitedAreFollowed
  BY DEF FInv
<1> QED
  BY <1>1, InitFInv, FIndStep, PTL DEF Spec

\* The first status request that is answered after the task of such a job has
\* ended, well or badly, ends the job.
LastAnswerEnds ==
    \A j \in Jobs : Awaited(j) /\ task[j] \in {"finished", "failed"} /\ Poll(j) => Over(j)'

LEMMA AnswerEnds ==
    ASSUME FInv, NEW j \in Jobs, Awaited(j), task[j] \in {"finished", "failed"}, Poll(j)
    PROVE  Over(j)'
<1> USE DEF FInv, RInv, IInv
<1>1. Followed(j) /\ pc[j] = "done"
  BY DEF AwaitedAreFollowed, ThreadAhead, Poll
<1>2. PICK N \in SUBSET NamesOf(j) : Hear(j, N) /\ Count(j, detail')
  BY DEF Poll
<1>3. ASSUME NEW e \in FilesOf(j) PROVE detail'[e] \in Settled
  <2>1. e \in Entries /\ e[1] = j /\ detail[e] \in Settled \cup {"INGESTING"}
    BY <1>1, FilesAreEntries DEF Followed
  <2>2. Verdict(e, N) \in Settled
    BY <2>1 DEF Verdict, Settled
  <2> QED
    BY <1>2, <2>1, <2>2 DEF Hear
<1>4. job'[j] \in {"COMPLETED", "FAILED"}
  BY <1>2, <1>3 DEF Count, TypeOK
<1> QED
  BY <1>4 DEF Over

\* The first status request that is answered after the end of a task ends its job.
THEOREM TaskEndIsHeard == Spec => [][LastAnswerEnds]_vars
<1>1. FInv /\ [Next]_vars => [LastAnswerEnds]_vars
  BY AnswerEnds DEF LastAnswerEnds
<1> QED
  BY <1>1, InitFInv, FIndStep, PTL DEF Spec

\* A thread never turns back: each of its steps is on to a later stage of the
\* upload, or to the next file of its loop.
Stage(j) == CASE pc[j] = "none" -> 0 [] pc[j] = "begin" -> 1 [] pc[j] = "mark" -> 2 [] pc[j] = "post" -> 3
              [] pc[j] = "fail" -> 4 [] pc[j] = "store" -> 5 [] OTHER -> 6

ThreadsGoOn ==
    \A j \in Jobs : Thread(j) =>
        \/ Stage(j) < Stage(j)'
        \/ Stage(j)' = Stage(j) /\ at'[j] = at[j] + 1 /\ at'[j] \in DOMAIN Files[j]

LEMMA ThreadGoesOn ==
    ASSUME TypeOK, NEW j \in Jobs, Thread(j)
    PROVE  \/ Stage(j) < Stage(j)'
           \/ Stage(j)' = Stage(j) /\ at'[j] = at[j] + 1 /\ at'[j] \in DOMAIN Files[j]
<1>1. CASE Begin(j) \/ Post(j) \/ PostUnnamed(j) \/ PostFails(j) \/ StoreTask(j)
  BY <1>1 DEF Begin, Post, PostUnnamed, PostFails, StoreTask, Stage, TypeOK
<1>2. ASSUME NEW s \in {"INGESTING", "FAILED"}, NEW next \in {"post", "store"},
             Mark(j, s, next) \/ (s = "INGESTING" /\ OpenFails(j)),
             pc[j] = IF next = "post" THEN "mark" ELSE "fail"
      PROVE  \/ Stage(j) < Stage(j)'
             \/ Stage(j)' = Stage(j) /\ at'[j] = at[j] + 1 /\ at'[j] \in DOMAIN Files[j]
  <2>1. /\ at[j] \in 1 .. Len(Files[j]) /\ Len(Files[j]) \in Nat
        /\ DOMAIN Files[j] = 1 .. Len(Files[j])
    BY NamesAreNames DEF TypeOK
  <2>2. CASE at[j] < Len(Files[j]) /\ at' = [at EXCEPT ![j] = @ + 1] /\ UNCHANGED pc
    <3>1. at'[j] = at[j] + 1 /\ at[j] + 1 \in 1 .. Len(Files[j])
      BY <2>1, <2>2 DEF TypeOK
    <3> QED
      BY <2>1, <2>2, <3>1 DEF Stage
  <2>3. CASE pc' = [pc EXCEPT ![j] = next] \/ pc' = [pc EXCEPT ![j] = "dead"]
    BY <1>2, <2>3 DEF Stage, TypeOK
  <2> QED
    BY <1>2, <2>2, <2>3 DEF Mark, OpenFails
<1>3. CASE MarkFile(j) \/ MarkFailed(j)
  BY <1>2, <1>3 DEF MarkFile, MarkFailed
<1> QED
  BY <1>1, <1>3 DEF Thread

\* An upload's thread reaches its end in finitely many steps, whatever is deleted
\* under it.
THEOREM ThreadsRunOut == Spec => [][ThreadsGoOn]_vars
<1>1. TypeOK /\ [Next]_vars => [ThreadsGoOn]_vars
  BY ThreadGoesOn DEF ThreadsGoOn
<1> QED
  BY <1>1, InitFInv, TypeCorrect, PTL DEF Spec
=============================================================================
