------------------------------ MODULE MCLabels ------------------------------
(***************************************************************************)
(* Two labels that share a bucket until there are four, and a table of two *)
(* buckets at first, each of which has room for two entries: nine entries  *)
(* expand it once or several times, those of one name in vain.             *)
(***************************************************************************)
EXTENDS AymLabels

MCHash == [n \in Names |-> IF n = "loop" THEN 2 ELSE 0]
=============================================================================
