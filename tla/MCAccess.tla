------------------------------- MODULE MCAccess -------------------------------
(* Access on a small instance. *)
EXTENDS Access, TLC

CONSTANTS r1, r2, w1, w2, b1, b2, t1, t2

MCRequests == {r1, r2}
MCWeb == {w1, w2}
MCBrowsers == {b1, b2}
MCTerminals == {t1, t2}
MCParts == {"oauth", "static", "account"}
MCMaxBegun == [p \in MCParts |-> IF p = "static" THEN 4 ELSE 8]

MCSymmetry == Permutations(MCWeb) \cup Permutations(MCTerminals)
=============================================================================
