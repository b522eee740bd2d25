----------------------------- MODULE MCLifecycle -----------------------------
(* Two instances, one of whose volume names contains the other's filter key. *)
EXTENDS Lifecycle, TLC

CONSTANTS a, b, v1, v2, t1, t2

\* `a` stands for a name whose key is part of the key of `b`.
MCMatch == {<<a, a>>, <<b, b>>, <<a, b>>}
MCNames == {a, b}
MCClis == {t1, t2}
MCSymmetry == Permutations(MCClis)
MCNetwork == {}
MCRefs == {v1, v2}
MCBroken == {v2}
=============================================================================
