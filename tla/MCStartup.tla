----------------------------- MODULE MCStartup ------------------------------
(***************************************************************************)
(* Any five faults, and three announcements in the queue.                  *)
(***************************************************************************)
EXTENDS Startup
=============================================================================
