----------------------------- MODULE MCSuggest -----------------------------
(* Instances of SuggestBudget: candidates that cost nothing, only a count, *)
(* or one or three cells.                                                  *)
EXTENDS SuggestBudget

Far == [skip |-> TRUE, rep |-> FALSE, cells |-> 3]
ByRule == [skip |-> FALSE, rep |-> TRUE, cells |-> 3]
Short == [skip |-> FALSE, rep |-> FALSE, cells |-> 1]
Long == [skip |-> FALSE, rep |-> FALSE, cells |-> 3]

MCCandidate == {Far, ByRule, Short, Long}

ListsOf(S, n) == UNION {[1..k -> S] : k \in 0..n}

MCDirect == ListsOf({Far, Short, Long}, 3)
MCDerived == ListsOf({ByRule, Short, Long}, 2)
MCSeed == [match: {"related"}, derived: MCDerived]
          \cup [match: {"unrelated", "tooLong"}, derived: {<<>>}]
(* One related seed of two candidates, or two seeds of at most one.        *)
MCSeeds == ListsOf(MCSeed, 1)
           \cup [1..2 -> {s \in MCSeed : Len(s.derived) <= 1}]

MCConfig == [candidates: 0..3, cells: {1, 4, 6}]
=============================================================================
