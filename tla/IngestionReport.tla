-------------------------- MODULE IngestionReport --------------------------
(***************************************************************************)
(* What every knowledge backend promises a client that polls the status of *)
(* its uploads, with no threads, services, chunks or collections: a job    *)
(* and each of its files only go forward, an upload whose job is over does *)
(* not change any more, and a completed job has settled every file.  Files *)
(* may be dropped at any time, and jobs that are over may be forgotten.    *)
(***************************************************************************)
CONSTANTS Jobs, Entries   \* Entries: pairs of a job and a file number

VARIABLES
    job,     \* status of each job, "none" before it is submitted
    detail   \* status of each file

reportVars == <<job, detail>>

Of(j) == {e \in Entries : e[1] = j}
Over == {"COMPLETED", "FAILED"}

\* What a file's status may become.
Later(s) == CASE s = "UPLOADING" -> {"UPLOADING", "INGESTING", "SUCCESS", "FAILED"}
              [] s = "INGESTING" -> {"INGESTING", "SUCCESS", "FAILED"}
              [] OTHER           -> {s}

ReportInit ==
    /\ job = [j \in Jobs |-> "none"]
    /\ detail = [e \in Entries |-> "none"]

Submit(j) ==
    /\ job[j] = "none" /\ job' = [job EXCEPT ![j] = "PENDING"]
    /\ \E F \in SUBSET Of(j) :
          /\ F # {}
          /\ detail' = [e \in Entries |-> IF e \in F THEN "UPLOADING" ELSE detail[e]]

\* Files go on, and perhaps the job.
Progress(j) ==
    /\ job[j] \in {"PENDING", "PROCESSING"}
    /\ \E s \in {job[j], "PROCESSING"} \cup Over : job' = [job EXCEPT ![j] = s]
    /\ \A e \in Entries : detail'[e] \in IF e \in Of(j) THEN Later(detail[e]) ELSE {detail[e]}
    /\ DOMAIN detail' = Entries
    /\ job'[j] = "COMPLETED" => \A e \in Of(j) : detail'[e] \notin {"UPLOADING", "INGESTING"}

\* Files are deleted.
Drop ==
    /\ UNCHANGED job /\ DOMAIN detail' = Entries
    /\ \A e \in Entries : detail'[e] \in {detail[e], "gone"}

Forget(j) ==
    /\ job[j] \in Over /\ job' = [job EXCEPT ![j] = "pruned"]
    /\ UNCHANGED detail

ReportNext == (\E j \in Jobs : Submit(j) \/ Progress(j) \/ Forget(j)) \/ Drop

ReportSpec == ReportInit /\ [][ReportNext]_reportVars
=============================================================================
