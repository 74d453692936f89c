-------------------------- MODULE RemoteIngestion --------------------------
(***************************************************************************)
(* Document ingestion of the remote knowledge backend, for one collection. *)
(*                                                                         *)
(*   knowledge_layer/src/foundational_rag/adapter.py   FoundationalRag-    *)
(*       Ingestor: submit_job, its thread, get_job_status, delete_files,   *)
(*       delete_collection                                                 *)
(*   aiq_api/routes/documents.py                       upload, status,     *)
(*       delete                                                            *)
(*                                                                         *)
(* An upload is one POST to the service, made by a thread of its own; the  *)
(* service ingests its documents as one task.  What the task has come to   *)
(* is learnt only when somebody asks for the job's status.  The routes     *)
(* call the adapter without awaiting, so requests do not interleave with   *)
(* each other; threads and the service interleave with everything.         *)
(*                                                                         *)
(* The service is external: it takes a document in or rejects it, one by   *)
(* one, and its task ends as finished or failed, or is forgotten.  A       *)
(* document it reports as completed is in the collection.  The answer to   *)
(* a request may be lost although the service did what it was asked.       *)
(***************************************************************************)
EXTENDS Naturals, Sequences, FiniteSets

CONSTANTS
    Jobs, Names,
    Files,       \* the names of the files of each upload
    MaxFaults    \* bound: deletions, rejections and faults, counted together

ASSUME RemoteAssumption ==
    /\ \A j \in Jobs : Files[j] \in Seq(Names) /\ Files[j] # <<>>
    /\ MaxFaults \in Nat

VARIABLES
    store,    \* names of the documents in the collection
    task,     \* the service's task for each upload, "none" without one
    taken,    \* names that it has ingested
    bad,      \* names that it has rejected, and says why: failed_documents
    mute,     \* names that it has rejected without an error message
    job,      \* self._jobs: status; "none" before, "pruned" after
    detail,   \* job.file_details: status of each file, "gone" when removed
    known,    \* job.metadata["task_ids"] names the task
    pc, at,   \* the upload's thread: where it is, its place in file_details
    faults,   \* deletions, rejections and faults so far
    refused,  \* history: the POST failed
    cut,      \* history: names erased from the store behind the job's back
    lapsed    \* history: jobs that nobody will end: their thread or task is gone, or
              \* a file was deleted that their total still counts

service == <<store, task, taken, bad, mute>>
threads == <<known, pc, at>>
history == <<refused, cut, lapsed>>
vars == <<service, job, detail, threads, faults, history>>

Entries == UNION {{j} \X DOMAIN Files[j] : j \in Jobs}
FilesOf(j) == {j} \X DOMAIN Files[j]
NameOf(e) == Files[e[1]][e[2]]
NamesOf(j) == {NameOf(e) : e \in FilesOf(j)}

Settled == {"SUCCESS", "FAILED"}
Over(j) == job[j] \in {"COMPLETED", "FAILED", "pruned"}

Init ==
    /\ store = {}
    /\ task = [j \in Jobs |-> "none"]
    /\ taken = [j \in Jobs |-> {}] /\ bad = [j \in Jobs |-> {}]
    /\ mute = [j \in Jobs |-> {}]
    /\ job = [j \in Jobs |-> "none"] /\ detail = [e \in Entries |-> "none"]
    /\ known = [j \in Jobs |-> FALSE]
    /\ pc = [j \in Jobs |-> "none"] /\ at = [j \in Jobs |-> 1]
    /\ faults = 0
    /\ refused = {} /\ cut = [j \in Jobs |-> {}] /\ lapsed = {}

\* Not in the code: it bounds what goes wrong in one behaviour.
Fault == faults < MaxFaults /\ faults' = faults + 1

-----------------------------------------------------------------------------
(* The service *)

Undecided(j) == NamesOf(j) \ (taken[j] \cup bad[j] \cup mute[j])

Ingest(j, n) ==
    /\ task[j] = "running" /\ n \in Undecided(j)
    /\ \/ /\ taken' = [taken EXCEPT ![j] = @ \cup {n}] /\ store' = store \cup {n}
          /\ UNCHANGED <<bad, mute, faults>>
       \/ /\ Fault
          /\ \/ bad' = [bad EXCEPT ![j] = @ \cup {n}] /\ UNCHANGED mute
             \/ mute' = [mute EXCEPT ![j] = @ \cup {n}] /\ UNCHANGED bad
          /\ UNCHANGED <<taken, store>>
    /\ UNCHANGED <<task, job, detail, threads, history>>

\* Every document is decided, or the task fails on the way.
TaskEnds(j) ==
    /\ task[j] = "running"
    /\ \/ Undecided(j) = {} /\ task' = [task EXCEPT ![j] = "finished"] /\ UNCHANGED faults
       \/ task' = [task EXCEPT ![j] = "failed"] /\ Fault
    /\ UNCHANGED <<store, taken, bad, mute, job, detail, threads, history>>

\* It forgets a task, of which nothing will be reported any more.
TaskLost(j) ==
    /\ task[j] \in {"running", "finished", "failed"}
    /\ task' = [task EXCEPT ![j] = "lost"] /\ Fault
    /\ lapsed' = lapsed \cup {j}
    /\ UNCHANGED <<store, taken, bad, mute, job, detail, threads, refused, cut>>

-----------------------------------------------------------------------------
(* An upload: submit_job and its thread *)

Submit(j) ==
    /\ job[j] = "none" /\ job' = [job EXCEPT ![j] = "PENDING"]
    /\ detail' = [e \in Entries |-> IF e \in FilesOf(j) THEN "UPLOADING" ELSE detail[e]]
    /\ pc' = [pc EXCEPT ![j] = "begin"]
    /\ UNCHANGED <<service, known, at, faults, history>>

\* Where the loops over file_details stand: its at[j]-th entry.  Deleted files
\* are no longer in that list.
Kept(j) == {e \in FilesOf(j) : detail[e] # "gone"}
Place(e) == Cardinality({f \in Kept(e[1]) : f[2] <= e[2]})

Begin(j) ==
    /\ pc[j] = "begin" /\ pc' = [pc EXCEPT ![j] = "mark"]
    /\ job' = [job EXCEPT ![j] = "PROCESSING"]
    /\ UNCHANGED <<service, detail, known, at, faults, history>>

\* A loop of the thread gives each entry a status; one that the list no longer
\* has raises an exception, which ends the thread.
Mark(j, s, next) ==
    \/ \E e \in Kept(j) :
          /\ Place(e) = at[j]
          /\ detail' = [detail EXCEPT ![e] = s]
          /\ IF at[j] < Len(Files[j])
             THEN at' = [at EXCEPT ![j] = @ + 1] /\ UNCHANGED pc
             ELSE at' = [at EXCEPT ![j] = 1] /\ pc' = [pc EXCEPT ![j] = next]
          /\ UNCHANGED lapsed
    \/ /\ \A e \in Kept(j) : Place(e) # at[j]
       /\ pc' = [pc EXCEPT ![j] = "dead"] /\ lapsed' = lapsed \cup {j}
       /\ UNCHANGED <<detail, at>>

\* A file that was just marked cannot be opened: the thread ends.
OpenFails(j) ==
    /\ Fault
    /\ \E e \in Kept(j) : Place(e) = at[j] /\ detail' = [detail EXCEPT ![e] = "INGESTING"]
    /\ pc' = [pc EXCEPT ![j] = "dead"] /\ lapsed' = lapsed \cup {j}
    /\ UNCHANGED at

MarkFile(j) ==
    /\ pc[j] = "mark"
    /\ \/ Mark(j, "INGESTING", "post") /\ UNCHANGED faults
       \/ OpenFails(j)
    /\ UNCHANGED <<service, job, known, refused, cut>>

\* The POST, with its answer and the ID of the task that was started.
Post(j) ==
    /\ pc[j] = "post" /\ pc' = [pc EXCEPT ![j] = "store"]
    /\ task' = [task EXCEPT ![j] = "running"]
    /\ UNCHANGED <<store, taken, bad, mute, job, detail, known, at, faults, history>>

\* It is answered without an ID.
PostUnnamed(j) ==
    /\ pc[j] = "post" /\ pc' = [pc EXCEPT ![j] = "store"]
    /\ lapsed' = lapsed \cup {j} /\ Fault
    /\ UNCHANGED <<service, job, detail, known, at, refused, cut>>

\* It raises, perhaps after the service has begun.
PostFails(j) ==
    /\ pc[j] = "post" /\ pc' = [pc EXCEPT ![j] = "fail"]
    /\ refused' = refused \cup {j} /\ Fault
    /\ \/ task' = [task EXCEPT ![j] = "running"]
       \/ UNCHANGED task
    /\ UNCHANGED <<store, taken, bad, mute, job, detail, known, at, cut, lapsed>>

MarkFailed(j) ==
    /\ pc[j] = "fail" /\ Mark(j, "FAILED", "store")
    /\ UNCHANGED <<service, job, known, faults, refused, cut>>

AllFailed(j, d) == \A e \in FilesOf(j) : d[e] = "FAILED"

\* After the summaries, the task's ID is where a status request finds it.  A job
\* that was over and is forgotten stays forgotten: the thread writes to an object
\* that nobody can ask for.
StoreTask(j) ==
    /\ pc[j] = "store" /\ pc' = [pc EXCEPT ![j] = "done"]
    /\ known' = [known EXCEPT ![j] = j \notin refused /\ task[j] # "none"]
    /\ job' = [job EXCEPT ![j] = IF AllFailed(j, detail) /\ @ # "pruned" THEN "FAILED" ELSE @]
    /\ UNCHANGED <<service, detail, at, faults, history>>

-----------------------------------------------------------------------------
(* A status request: get_job_status *)

\* Mutant: the documents that a finished task lists as failed are not looked at.
VerdictAll(e, N) ==
    CASE task[e[1]] = "finished" -> "SUCCESS"
      [] task[e[1]] = "failed"   -> "FAILED"
      [] task[e[1]] = "running" /\ NameOf(e) \in taken[e[1]] \cap N -> "SUCCESS"
      [] OTHER -> "INGESTING"

\* What the answer says of a file.  The adapter looks for the error message of
\* its document, so that one rejected without a message counts as ingested.
\* While the task runs, it may name documents that are done, here N.
Verdict(e, N) ==
    CASE task[e[1]] = "finished" -> IF NameOf(e) \in bad[e[1]] THEN "FAILED" ELSE "SUCCESS"
      [] task[e[1]] = "failed"   -> "FAILED"
      [] task[e[1]] = "running" /\ NameOf(e) \in taken[e[1]] \cap N -> "SUCCESS"
      [] OTHER -> "INGESTING"

\* Mutant: what was settled before is settled again.
HearAgain(j, N) ==
    detail' = [e \in Entries |->
        IF e \in FilesOf(j) /\ detail[e] \in Settled \cup {"INGESTING"}
        THEN Verdict(e, N) ELSE detail[e]]

\* The answer settles files that are being ingested, and no other.
Hear(j, N) ==
    detail' = [e \in Entries |->
        IF e \in FilesOf(j) /\ detail[e] = "INGESTING" THEN Verdict(e, N) ELSE detail[e]]

\* Mutant: files that failed do not count as done.
CountSucceeded(j, d) ==
    job' = [job EXCEPT ![j] =
        IF \A e \in FilesOf(j) : d[e] = "SUCCESS" THEN "COMPLETED" ELSE @]

\* The job is over when as many files are settled as it was submitted with.
Count(j, d) ==
    job' = [job EXCEPT ![j] =
        IF \E e \in FilesOf(j) : d[e] \notin Settled THEN @
        ELSE IF AllFailed(j, d) THEN "FAILED" ELSE "COMPLETED"]

\* The service is asked about the task and answers.
Poll(j) ==
    /\ job[j] = "PROCESSING" /\ known[j]
    /\ \E N \in SUBSET NamesOf(j) : Hear(j, N) /\ Count(j, detail')
    /\ UNCHANGED <<service, threads, faults, history>>

\* There is no task yet, or no answer.
PollBlind(j) ==
    /\ job[j] = "PROCESSING" /\ Count(j, detail)
    /\ UNCHANGED <<service, detail, threads, faults, history>>

\* An hour after a job was over, the next request forgets it.
Prune(j) ==
    /\ job[j] \in {"COMPLETED", "FAILED"} /\ job' = [job EXCEPT ![j] = "pruned"]
    /\ UNCHANGED <<service, detail, threads, faults, history>>

-----------------------------------------------------------------------------
(* Deletions *)

\* Names leave the store of which the jobs do not know.
Erase(N) ==
    /\ store' = store \ N
    /\ cut' = [j \in Jobs |-> IF job[j] = "none" THEN cut[j] ELSE cut[j] \cup N]

\* delete_files: every job that is kept forgets its files of these names.
DeleteFiles(N) ==
    /\ Fault
    /\ store' = store \ N
    /\ detail' = [e \in Entries |->
          IF NameOf(e) \in N /\ job[e[1]] \notin {"none", "pruned"} THEN "gone" ELSE detail[e]]
    /\ lapsed' = lapsed \cup {j \in Jobs : job[j] \in {"PENDING", "PROCESSING"}
                                            /\ \E e \in FilesOf(j) : NameOf(e) \in N}
    /\ UNCHANGED <<task, taken, bad, mute, job, threads, refused, cut>>

\* Its answer is lost: the service has deleted them, the jobs keep them.
DeleteUnheard(N) ==
    /\ Fault /\ Erase(N)
    /\ UNCHANGED <<task, taken, bad, mute, job, detail, threads, refused, lapsed>>

\* delete_collection, or the clean-up; somebody may create it again.
DeleteCollection ==
    /\ Fault /\ Erase(Names)
    /\ UNCHANGED <<task, taken, bad, mute, job, detail, threads, refused, lapsed>>

-----------------------------------------------------------------------------
Thread(j) ==
    \/ Begin(j) \/ MarkFile(j) \/ Post(j) \/ PostUnnamed(j) \/ PostFails(j)
    \/ MarkFailed(j) \/ StoreTask(j)

Task(j) == (\E n \in Names : Ingest(j, n)) \/ TaskEnds(j)

Next ==
    \/ \E j \in Jobs : Submit(j) \/ Thread(j) \/ Task(j) \/ TaskLost(j)
                       \/ Poll(j) \/ PollBlind(j) \/ Prune(j)
    \/ \E N \in SUBSET Names \ {{}} : DeleteFiles(N) \/ DeleteUnheard(N)
    \/ DeleteCollection

Spec == Init /\ [][Next]_vars

\* Threads run, the service ends its tasks, and somebody who waits for a job
\* asks for it again until it is over.
FairSpec ==
    /\ Spec
    /\ \A j \in Jobs : WF_vars(Thread(j)) /\ WF_vars(Task(j)) /\ WF_vars(Poll(j))

-----------------------------------------------------------------------------
TypeOK ==
    /\ store \subseteq Names
    /\ task \in [Jobs -> {"none", "running", "finished", "failed", "lost"}]
    /\ taken \in [Jobs -> SUBSET Names] /\ bad \in [Jobs -> SUBSET Names]
    /\ mute \in [Jobs -> SUBSET Names]
    /\ \A j \in Jobs : taken[j] \cup bad[j] \cup mute[j] \subseteq NamesOf(j)
                       /\ taken[j] \cap (bad[j] \cup mute[j]) = {} /\ bad[j] \cap mute[j] = {}
    /\ job \in [Jobs -> {"none", "PENDING", "PROCESSING", "COMPLETED", "FAILED", "pruned"}]
    /\ detail \in [Entries -> Settled \cup {"none", "gone", "UPLOADING", "INGESTING"}]
    /\ known \in [Jobs -> BOOLEAN]
    /\ pc \in [Jobs -> {"none", "begin", "mark", "post", "fail", "store", "done", "dead"}]
    /\ at \in [Jobs -> Nat] /\ \A j \in Jobs : at[j] \in DOMAIN Files[j]
    /\ faults \in 0 .. MaxFaults
    /\ refused \subseteq Jobs /\ cut \in [Jobs -> SUBSET Names] /\ lapsed \subseteq Jobs

\* What the status of a file says is true of the service, whichever way it was
\* learnt: an ingested file is in the collection, unless it was erased without
\* telling the jobs or rejected without an error message, and a failed one was
\* rejected with one or lost with its task, or its upload failed
\* (adapter.py:955-970).
DetailsAreTrue ==
    \A j \in Jobs : \A e \in FilesOf(j) : job[j] # "pruned" =>
        /\ detail[e] = "SUCCESS" => NameOf(e) \in store \cup cut[j] \cup mute[j]
        /\ detail[e] = "FAILED" =>
              NameOf(e) \in bad[j] \/ j \in refused \/ task[j] \in {"failed", "lost"}

\* A job that is waited for is over some time, also when its upload or single
\* documents fail; unless its thread or its task is gone, or one of its files
\* was deleted on the way.
JobsEnd ==
    \A j \in Jobs : job[j] # "none" ~> Over(j) \/ j \in lapsed

\* Jobs and files keep the promise of every backend.
Report == INSTANCE IngestionReport
ReportSpec == Report!ReportSpec
=============================================================================
