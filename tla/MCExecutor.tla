----------------------------- MODULE MCExecutor -----------------------------
(***************************************************************************)
(* j1 and j2 are transactions of two statements, j3 is one statement.      *)
(***************************************************************************)
EXTENDS Executor

CONSTANTS j1, j2, j3

MCKind   == [j \in Jobs |-> IF j = j3 THEN "plain" ELSE "transaction"]
MCLength == [j \in Jobs |-> IF j = j3 THEN 1 ELSE 2]
=============================================================================
