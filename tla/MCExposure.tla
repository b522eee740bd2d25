------------------------------ MODULE MCExposure ------------------------------
(* Two local instances that may ask for the same Serve ports, or two network   *)
(* instances behind one proxy, or one of each.  Of the three hostnames two     *)
(* have the same leftmost label.                                               *)
EXTENDS Exposure, TLC

CONSTANTS a, b, x, y, default, other, squireA, squireB, jobsB

MCLocal == {a, b}
MCNet == {x, y}
MCPairs == {<<443, 8443>>, <<10000, 8443>>}
MCShared == {default, other}
MCHosts == {squireA, squireB, jobsB}
MCLabel == [h \in MCHosts |-> IF h = jobsB THEN "jobs" ELSE "squire"]
MCSymmetry == Permutations(MCLocal) \cup Permutations(MCNet) \cup Permutations(MCShared)
MCWorlds == {MCLocal, MCNet} \cup {{m, n} : m \in MCLocal, n \in MCNet}
MCMaxCommands == [w \in MCWorlds |-> IF w = MCNet THEN 5 ELSE IF w = MCLocal THEN 4 ELSE 3]
=============================================================================
