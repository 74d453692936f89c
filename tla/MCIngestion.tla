---------------------------- MODULE MCIngestion ----------------------------
EXTENDS Ingestion, TLC

CONSTANTS j1, j2, a, b

OneAndTwo == (j1 :> {<<a, b>>}) @@ (j2 :> {<<a>>})

\* The file that makes the index may hold anything, the others less.
FirstMayBeBlank ==
  [e \in Entries |->
     IF e = <<j1, 1>> THEN Documents ELSE IF e = <<j1, 2>> THEN {"empty", "text"} ELSE {"text"}]
=============================================================================
