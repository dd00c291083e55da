--------------------------- MODULE SuggestBudget ---------------------------
(***************************************************************************)
(* Suggester::suggest_into of crates/ferrolex-suggest: three passes over   *)
(* candidates share one candidate count and one count of edit-distance     *)
(* cells.  Half of both is reserved for the source's direct candidates,    *)
(* half for candidates derived from related seeds, and what is left goes   *)
(* to the remaining direct ones.  A step is one candidate or seed.         *)
(***************************************************************************)
EXTENDS Integers, Sequences

CONSTANTS
  Candidate,   \* [skip, rep: BOOLEAN, cells: Nat]: a candidate that is too
               \* long, too far or not admitted; one a REP rule makes of the
               \* query; the cells its edit distance takes
  Seed,        \* [match: {"related", "unrelated", "tooLong"},
               \*  derived: candidates]
  Config,      \* [candidates, cells: Nat]: max_candidates, max_edit_cells
  Direct,      \* candidate sequences visit_nearby_candidates may collect
  Seeds        \* seed sequences visit_related_seeds may visit

ASSUME SuggestAssumption ==
  /\ Candidate \subseteq [skip: BOOLEAN, rep: BOOLEAN, cells: Nat]
  /\ Seed \subseteq [match: {"related", "unrelated", "tooLong"},
                     derived: Seq(Candidate)]
  /\ Config \subseteq [candidates: Nat, cells: Nat]
  /\ Direct \subseteq Seq(Candidate)
  /\ Seeds \subseteq Seq(Seed)

VARIABLES
  config,       \* the limits of the call
  direct,       \* direct_candidates
  seeds,        \* what the source offers as related seeds
  phase,        \* "query", "direct", "related", "rest" or "done"
  cursor,       \* direct_cursor: direct candidates that were considered
  seed, derived,\* seeds visited; candidates considered of the current one
  examined,     \* candidates charged so far
  cells,        \* cells charged so far
  quota,        \* the limits of the current phase
  related,      \* related_completeness
  completeness, \* what the caller is told
  nDirect,      \* history: direct candidates that were charged
  nRelated      \* history: derived candidates that were charged

given == <<config, direct, seeds>>
vars == <<config, direct, seeds, phase, cursor, seed, derived, examined, cells,
          quota, related, completeness, nDirect, nRelated>>

Completeness == {"complete", "candidateLimit", "editBudget", "queryTooLong", "seedTooLong"}

TypeOK ==
  /\ config \in Config /\ direct \in Direct /\ seeds \in Seeds
  /\ phase \in {"query", "direct", "related", "rest", "done"}
  /\ cursor \in 0..Len(direct)
  /\ seed \in 0..Len(seeds)
  /\ derived \in Nat
  /\ examined \in Nat /\ cells \in Nat
  /\ quota \in [candidates: Nat, cells: Nat]
  /\ related \in Completeness /\ completeness \in Completeness
  /\ nDirect \in Nat /\ nRelated \in Nat

Half(n) == n \div 2

(* half_rounded_up *)
HalfRoundedUp(n) == n - Half(n)

Least(a, b) == IF a < b THEN a ELSE b

(* direct_reservation *)
DirectQuota ==
  [candidates |-> HalfRoundedUp(config.candidates), cells |-> HalfRoundedUp(config.cells)]

(* Mutant: related candidates may take everything that is left. *)
RelatedQuotaAll == config

(* related_reservation *)
RelatedQuota ==
  [candidates |-> Least(examined + Half(config.candidates), config.candidates),
   cells |-> Least(cells + Half(config.cells), config.cells)]

Init ==
  /\ config \in Config /\ direct \in Direct /\ seeds \in Seeds
  /\ phase = "query"
  /\ cursor = 0 /\ seed = 0 /\ derived = 0
  /\ examined = 0 /\ cells = 0
  /\ quota = config
  /\ related = "complete" /\ completeness = "complete"
  /\ nDirect = 0 /\ nRelated = 0

-----------------------------------------------------------------------------
(* consider_candidate                                                      *)

(* Mutant: one candidate too many is let through. *)
OverCountLate(c) == examined > quota.candidates

OverCount(c) == examined = quota.candidates

Required(c) == IF c.rep THEN 0 ELSE c.cells

OverCells(c) == cells + Required(c) > quota.cells

(* Nothing is charged for a candidate the cheap checks drop. *)
Dropped(c) == c.skip

Affordable(c) == ~OverCount(c) /\ ~OverCells(c)

(* Which limit stopped the candidate. *)
Stopped(c) == IF OverCount(c) THEN "candidateLimit" ELSE "editBudget"

Charge(c) ==
  /\ examined' = examined + 1
  /\ cells' = cells + Required(c)

(* Mutant: a candidate that did not fit the cells stays counted. *)
RestoredNot(c) ==
  /\ examined' = IF OverCount(c) THEN examined ELSE examined + 1
  /\ UNCHANGED cells

(* The reserving passes put both counts back after a failure. *)
Restored(c) == UNCHANGED <<examined, cells>>

-----------------------------------------------------------------------------
(* suggest_into                                                            *)

QueryTooLong ==
  /\ phase = "query"
  /\ phase' = "done"
  /\ completeness' = "queryTooLong"
  /\ UNCHANGED <<given, cursor, seed, derived, examined, cells, quota, related,
                 nDirect, nRelated>>

CollectDirect ==
  /\ phase = "query"
  /\ phase' = "direct"
  /\ quota' = DirectQuota
  /\ UNCHANGED <<given, cursor, seed, derived, examined, cells, related, completeness,
                 nDirect, nRelated>>

(* A direct candidate is dropped or affordable, in the first or last pass. *)
ConsiderDirect ==
  /\ phase \in {"direct", "rest"}
  /\ cursor < Len(direct)
  /\ LET c == direct[cursor + 1] IN
     \/ Dropped(c) /\ UNCHANGED <<examined, cells, nDirect>>
     \/ ~Dropped(c) /\ Affordable(c) /\ Charge(c) /\ nDirect' = nDirect + 1
  /\ cursor' = cursor + 1
  /\ UNCHANGED <<given, phase, seed, derived, quota, related, completeness, nRelated>>

DirectStopped == cursor < Len(direct) /\ LET c == direct[cursor + 1] IN
                   ~Dropped(c) /\ ~Affordable(c)

(* The first pass ends at the reservation or with the last candidate.      *)
EndDirect ==
  /\ phase = "direct"
  /\ \/ cursor = Len(direct) /\ UNCHANGED <<examined, cells>>
     \/ DirectStopped /\ Restored(direct[cursor + 1])
  /\ phase' = "related"
  /\ quota' = RelatedQuota
  /\ UNCHANGED <<given, cursor, seed, derived, related, completeness, nDirect, nRelated>>

CurrentSeed == seeds[seed + 1]

NextSeed == seed' = seed + 1 /\ derived' = 0

(* related_seed_match: an unrelated seed is passed over, a long one noted. *)
PassSeed ==
  /\ phase = "related" /\ seed < Len(seeds)
  /\ CurrentSeed.match # "related"
  /\ related' = IF CurrentSeed.match = "tooLong" /\ related = "complete"
                THEN "seedTooLong" ELSE related
  /\ NextSeed
  /\ UNCHANGED <<given, phase, cursor, examined, cells, quota, completeness,
                 nDirect, nRelated>>

ConsiderRelated ==
  /\ phase = "related" /\ seed < Len(seeds)
  /\ CurrentSeed.match = "related"
  /\ derived < Len(CurrentSeed.derived)
  /\ LET c == CurrentSeed.derived[derived + 1] IN
     \/ Dropped(c) /\ UNCHANGED <<examined, cells, nRelated>>
     \/ ~Dropped(c) /\ Affordable(c) /\ Charge(c) /\ nRelated' = nRelated + 1
  /\ derived' = derived + 1
  /\ UNCHANGED <<given, phase, cursor, seed, quota, related, completeness, nDirect>>

EndSeed ==
  /\ phase = "related" /\ seed < Len(seeds)
  /\ CurrentSeed.match = "related"
  /\ derived = Len(CurrentSeed.derived)
  /\ NextSeed
  /\ UNCHANGED <<given, phase, cursor, examined, cells, quota, related, completeness,
                 nDirect, nRelated>>

(* related_reservation_exhausted ends the visit of seeds.                  *)
ExhaustRelated ==
  /\ phase = "related" /\ seed < Len(seeds)
  /\ CurrentSeed.match = "related"
  /\ derived < Len(CurrentSeed.derived)
  /\ LET c == CurrentSeed.derived[derived + 1] IN
     /\ ~Dropped(c) /\ ~Affordable(c)
     /\ related' = Stopped(c)
     /\ Restored(c)
  /\ phase' = "rest"
  /\ quota' = config
  /\ UNCHANGED <<given, cursor, seed, derived, completeness, nDirect, nRelated>>

EndRelated ==
  /\ phase = "related" /\ seed = Len(seeds)
  /\ phase' = "rest"
  /\ quota' = config
  /\ UNCHANGED <<given, cursor, seed, derived, examined, cells, related, completeness,
                 nDirect, nRelated>>

(* Mutant: what the related pass left out is not reported. *)
ReportedDirect(rest) == rest

(* A limit of the last pass is reported before one of the related pass.    *)
Reported(rest) == IF rest = "complete" THEN related ELSE rest

Finish ==
  /\ phase = "rest"
  /\ \/ /\ cursor = Len(direct)
        /\ completeness' = Reported("complete")
        /\ UNCHANGED <<examined, cells>>
     \/ /\ DirectStopped
        /\ completeness' = Reported(Stopped(direct[cursor + 1]))
        /\ examined' = IF OverCount(direct[cursor + 1]) THEN examined ELSE examined + 1
        /\ UNCHANGED cells
  /\ phase' = "done"
  /\ UNCHANGED <<given, cursor, seed, derived, quota, related, nDirect, nRelated>>

Next ==
  \/ QueryTooLong \/ CollectDirect
  \/ ConsiderDirect \/ EndDirect
  \/ PassSeed \/ ConsiderRelated \/ EndSeed \/ ExhaustRelated \/ EndRelated
  \/ Finish

Spec == Init /\ [][Next]_vars

-----------------------------------------------------------------------------
(* Properties                                                              *)

(* No call does more work than it was configured for.                      *)
BudgetKept == examined <= config.candidates /\ cells <= config.cells

(* Every count stands for one candidate that was compared, except the last  *)
(* one of all: a candidate tried again after a reservation ran out is not   *)
(* charged twice.                                                          *)
ChargedOnce ==
  /\ phase # "done" => examined = nDirect + nRelated
  /\ nDirect + nRelated <= examined /\ examined <= nDirect + nRelated + 1

(* The caller is told that the search was complete only if every direct     *)
(* candidate and every candidate of every related seed was considered, and  *)
(* no seed was too long to tell.                                           *)
CompleteIsComplete ==
  phase = "done" /\ completeness = "complete" =>
    /\ cursor = Len(direct)
    /\ seed = Len(seeds)
    /\ \A i \in DOMAIN seeds : seeds[i].match # "tooLong"

(* Direct candidates are left out for the candidate count only after they   *)
(* had their half of it, however many seeds are related ...                *)
DirectShare ==
  phase = "done" /\ completeness = "candidateLimit" /\ cursor < Len(direct) =>
    nDirect >= HalfRoundedUp(config.candidates)

(* ... and derived ones only after they had the other half, however many    *)
(* direct candidates there are.                                            *)
RelatedShare ==
  phase \in {"rest", "done"} /\ related = "candidateLimit" =>
    nRelated = Half(config.candidates)

(* Neither kind of candidate starves the other.                            *)
SharesKept == DirectShare /\ RelatedShare

(* What makes the shares hold: before the end every count stands for one    *)
(* compared candidate, and the reservations of the two first passes do not  *)
(* overlap.                                                                *)
ReservationInv ==
  /\ examined <= quota.candidates /\ quota.candidates <= config.candidates
  /\ cells <= quota.cells /\ quota.cells <= config.cells
  /\ phase # "done" => examined = nDirect + nRelated /\ completeness = "complete"
  /\ phase = "query" => examined = 0 /\ cells = 0 /\ quota = config
  /\ phase \in {"query", "direct"} => nRelated = 0 /\ related = "complete"
  /\ phase = "direct" => quota = DirectQuota
  /\ phase = "related" => /\ nDirect <= HalfRoundedUp(config.candidates)
                          /\ quota.candidates = nDirect + Half(config.candidates)
                          /\ related \in {"complete", "seedTooLong"}
  /\ phase \in {"rest", "done"} => nRelated <= Half(config.candidates)
  /\ phase = "rest" => quota = config

(* What makes "complete" true: a seed that was passed over as too long, or  *)
(* a reservation that ran out, is remembered until the call ends.           *)
VisitedInv ==
  /\ related = "complete" =>
       /\ \A i \in 1..seed : seeds[i].match # "tooLong"
       /\ phase = "rest" => seed = Len(seeds)
  /\ CompleteIsComplete
=============================================================================
