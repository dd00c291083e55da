----------------------------- MODULE MCChecking -----------------------------
(* The analyzer, the budget of the suggester and the search for candidates *)
(* in one run.  They share no state: in each behaviour one of them works   *)
(* and the others have nothing to do.                                      *)
EXTENDS MCAnalyzer, MCSuggest, MCSearch

VARIABLE working

NothingToCheck ==
  /\ doc = [lines |-> <<>>, syntax |-> FALSE]
  /\ policy = Default /\ known = {<<aacute, a>>}

NothingToSuggest ==
  config = [candidates |-> 0, cells |-> 1] /\ direct = <<>> /\ seeds = <<>>

NothingToSearch == composition = WithUser /\ tables = Keyboard

CheckingInit ==
  /\ working \in {"analyzer", "budget", "search"}
  /\ working # "analyzer" => NothingToCheck
  /\ working # "budget" => NothingToSuggest
  /\ working # "search" => NothingToSearch
  /\ CheckInit /\ Init /\ CallInit

CheckingNext ==
  /\ UNCHANGED working
  /\ \/ working = "analyzer" /\ CheckNext /\ UNCHANGED <<vars, callVars>>
     \/ working = "budget" /\ Next /\ UNCHANGED <<checkVars, callVars>>
     \/ working = "search" /\ CallNext /\ UNCHANGED <<checkVars, vars>>

CheckingSpec == CheckingInit /\ [][CheckingNext]_<<vars, checkVars, callVars, working>>
=============================================================================
