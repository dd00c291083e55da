---------------------------- MODULE MCInstaller ----------------------------
(* Instances of DictionaryInstaller: three revisions, two of which share   *)
(* their affix file, and one content no manifest names.                    *)
EXTENDS DictionaryInstaller, TLC

CONSTANTS p1, p2, p3, a1, a2, d1, d2, d3, other, pid

Pair(aff, dic) == [f \in File |-> IF f = "aff" THEN aff ELSE dic]

MCBytes == {a1, a2, d1, d2, d3, other}
MCForeign == {other}
OneRevision == {Pair(a1, d1)}
TwoRevisions == {Pair(a1, d1), Pair(a2, d2)}
SharedAffix == {Pair(a1, d1), Pair(a2, d2), Pair(a1, d3)}

OwnPid == [t \in Installer |-> t]
OnePid == [t \in Installer |-> pid]
Pids == Installer \cup {pid}

Symmetry == Permutations(Installer)
=============================================================================
