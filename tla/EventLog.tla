------------------------------ MODULE EventLog ------------------------------
(***************************************************************************)
(* What the event store of a job promises its writers, with no threads,    *)
(* timer or lock: events are accepted in some order; the next accepted,    *)
(* not yet settled events are settled together, either all appended to the *)
(* job's log in the order of acceptance or all lost; an event is settled   *)
(* at most once and never before an earlier one; at most Window accepted   *)
(* events are unsettled at any time.                                       *)
(***************************************************************************)
EXTENDS Naturals, Sequences

CONSTANT Window     \* how many accepted events may be unsettled

VARIABLES accepted, \* events 1..accepted were handed to the store
          settled,  \* events 1..settled were appended or lost
          log       \* the events appended, in the order of the log

logVars == <<accepted, settled, log>>

\* The events a..b in order.
Run(a, b) == [i \in 1 .. (b + 1 - a) |-> a + i - 1]

LogInit == accepted = 0 /\ settled = 0 /\ log = <<>>

Accept == /\ accepted - settled < Window
          /\ accepted' = accepted + 1
          /\ UNCHANGED <<settled, log>>

Append1 == /\ settled < accepted
           /\ settled' = accepted
           /\ log' = log \o Run(settled + 1, accepted)
           /\ UNCHANGED accepted

Lose == /\ settled < accepted
        /\ settled' = accepted
        /\ UNCHANGED <<accepted, log>>

LogNext == Accept \/ Append1 \/ Lose

LogSpec == LogInit /\ [][LogNext]_logVars
=============================================================================
