-------------------------- MODULE MCUserDictionary --------------------------
(* Instances of UserDictionaryFile: two words that can be stored, one that *)
(* cannot.                                                                 *)
EXTENDS UserDictionaryFile, TLC

CONSTANTS a1, a2, a3, w1, w2, bad, pid

MCWord == {w1, w2, bad}
MCInvalid == {bad}
MCPid == Adder \cup {pid}
OwnPid == [t \in Adder |-> t]
OnePid == [t \in Adder |-> pid]

Symmetry == Permutations(Adder)
=============================================================================
