----------------------------- MODULE MCAnswers -----------------------------
(***************************************************************************)
(* Every route, with any one failure on its way.                           *)
(***************************************************************************)
EXTENDS Answers
=============================================================================
