------------------------------- MODULE MCVault -------------------------------
(* Two processes; a person spelt in two ways, an address with a shape, a     *)
(* value of an operator's pattern, an employer, and a sensitive sentence.    *)
EXTENDS Vault
CONSTANTS p1, p2, ann, ANN, mail, badge, acme, health

MCFold == [v \in Values |-> IF v = ANN THEN ann ELSE v]

MCSymmetry == Permutations(Procs)
==============================================================================
