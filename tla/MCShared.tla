------------------------------ MODULE MCShared ------------------------------
(* One process of add-word beside a language server that has one document. *)
EXTENDS SharedUserDictionary

CONSTANTS ferrolex, ignore, known, typo, feed, a1

MCWord == {ferrolex, ignore, known, typo, feed}
MCSimilar == [w \in MCWord |-> {}]
NoInvalid == {}
WithFile == {[words |-> {known}, ignored |-> {}, path |-> TRUE]}
OneText == {<<typo>>}
OwnPid == [t \in Adder |-> t]
=============================================================================
