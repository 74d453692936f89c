------------------------------ MODULE JobClaims ------------------------------
(***************************************************************************)
(* A statement of a comment about the life of a job, checked against what  *)
(* the code does (JobLifecycle).                                           *)
(***************************************************************************)
EXTENDS JobLifecycle

\* access.py line 100: a failed submission removes the partial job state it
\* left, so not the rows of a job whose ID was returned to somebody else.
RollbackRemovesOwnJob ==
    [][\A s, t \in Submitters :
          s # t /\ sub[t] = "returned" /\ sub[s] = "failing" /\ sub'[s] = "failed"
              => UNCHANGED <<row, access>>]_vars
=============================================================================
