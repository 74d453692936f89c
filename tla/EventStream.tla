----------------------------- MODULE EventStream -----------------------------
(***************************************************************************)
(* What a stream of a job's rows promises its client, with no database,    *)
(* fetches, notifications or statuses: it starts after an ID, and delivers *)
(* the rows behind it one by one, each time the next one.  Only a stream   *)
(* that something happened to - a row that appears below another one, a    *)
(* fetch that failed or was cut off - may leave rows out, and even that    *)
(* one goes forward only.                                                  *)
(***************************************************************************)
EXTENDS Naturals

CONSTANT Ids   \* of rows

VARIABLES
    rows,   \* IDs of the rows there are
    up,     \* there is a stream
    start,  \* the ID it was opened with
    at,     \* how far it has delivered
    lossy   \* it may leave rows out

streamVars == <<rows, up, start, at, lossy>>

StreamInit == rows = {} /\ ~up

\* A row appears; a stream that is not lossy has nothing behind it.
Appear(i) ==
    /\ i \notin rows /\ rows' = rows \cup {i}
    /\ lossy' \in {lossy, TRUE}
    /\ up /\ ~lossy' => \A j \in rows : j < i
    /\ UNCHANGED <<up, start, at>>

\* A stream is opened; what happened to an earlier one is over.
Start(s) ==
    /\ ~up /\ up' = TRUE
    /\ start' = s /\ at' = s /\ lossy' = FALSE
    /\ UNCHANGED rows

Deliver(i) ==
    /\ up /\ i \in rows /\ at < i
    /\ ~lossy => \A j \in rows : j <= at \/ i <= j
    /\ at' = i
    /\ UNCHANGED <<rows, up, start, lossy>>

Mishap == lossy' = TRUE /\ UNCHANGED <<rows, up, start, at>>

Stop == up /\ up' = FALSE /\ UNCHANGED rows

StreamNext ==
    \/ \E i \in Ids : Appear(i) \/ Start(i) \/ Deliver(i)
    \/ Mishap \/ Stop

StreamSpec == StreamInit /\ [][StreamNext]_streamVars
=============================================================================
