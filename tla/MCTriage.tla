------------------------------ MODULE MCTriage ------------------------------
(* Small instances of Triage. *)
EXTENDS Triage

CONSTANTS search, interval, rescore, user, single
=============================================================================
