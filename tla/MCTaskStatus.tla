---------------------------- MODULE MCTaskStatus ----------------------------
(* Two tasks, one after the other or at once, in either order; two tabs of *)
(* the browser follow the first.                                           *)
EXTENDS TaskStatus

CONSTANTS t1, t2, v1, v2

MCTaskOf == [v \in Tabs |-> t1]
=============================================================================
