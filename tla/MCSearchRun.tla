----------------------------- MODULE MCSearchRun -----------------------------
(* Small instances of SearchRun: two providers, the first with a limit. *)
EXTENDS SearchRun

CONSTANTS adzuna, jobicy, pull, worker, web

MCPullOf == [u \in Pulls |-> adzuna]
MCEnabled == <<adzuna, jobicy>>
MCMaxRunsPerDay == [p \in {adzuna, jobicy} |-> IF p = adzuna THEN 1 ELSE 0]
=============================================================================
