--------------------------- MODULE SuggestProofs ---------------------------
(***************************************************************************)
(* Theorems about the suggester: about SuggestBudget for every limit, every *)
(* source and every number of candidates, and about CandidateSearch for    *)
(* every composition, table, query and change of the overlay.              *)
(***************************************************************************)
EXTENDS SuggestBudget, CandidateSearch, FiniteSetTheorems, SequenceTheorems,
        NaturalsInduction, WellFoundedInduction, TLAPS

-----------------------------------------------------------------------------
(* Halves                                                                  *)

LEMMA Halves ==
  ASSUME NEW n \in Nat
  PROVE  /\ Half(n) \in Nat /\ HalfRoundedUp(n) \in Nat
         /\ HalfRoundedUp(n) <= n
         /\ Half(n) + HalfRoundedUp(n) = n
  BY DEF Half, HalfRoundedUp

LEMMA Limits ==
  ASSUME config \in Config
  PROVE  /\ config \in [candidates: Nat, cells: Nat]
         /\ config.candidates \in Nat /\ config.cells \in Nat
  BY SuggestAssumption

LEMMA DirectQuotaType ==
  ASSUME config \in Config
  PROVE  DirectQuota \in [candidates: Nat, cells: Nat]
  BY Limits, Halves DEF DirectQuota

LEMMA RelatedQuotaType ==
  ASSUME config \in Config, examined \in Nat, cells \in Nat
  PROVE  RelatedQuota \in [candidates: Nat, cells: Nat]
<1> DEFINE c == config.candidates
           l == config.cells
<1>1. c \in Nat /\ l \in Nat /\ Half(c) \in Nat /\ Half(l) \in Nat
  BY Limits, Halves
<1>2. Least(examined + Half(c), c) \in Nat
  BY <1>1 DEF Least
<1>3. Least(cells + Half(l), l) \in Nat
  BY <1>1 DEF Least
<1>4. QED
  BY <1>2, <1>3 DEF RelatedQuota

LEMMA RequiredType ==
  ASSUME NEW c \in Candidate
  PROVE  Required(c) \in Nat
  BY SuggestAssumption DEF Required

LEMMA DirectCandidate ==
  ASSUME direct \in Direct, NEW i \in 1..Len(direct)
  PROVE  direct[i] \in Candidate
<1>1. direct \in Seq(Candidate)
  BY SuggestAssumption
<1>2. QED
  BY <1>1

LEMMA SeedType ==
  ASSUME seeds \in Seeds, seed \in Nat, seed < Len(seeds)
  PROVE  CurrentSeed \in Seed /\ CurrentSeed.derived \in Seq(Candidate)
<1>1. seeds \in Seq(Seed)
  BY SuggestAssumption
<1>2. CurrentSeed \in Seed
  BY <1>1 DEF CurrentSeed
<1>3. QED
  BY <1>2, SuggestAssumption

LEMMA StoppedType ==
  ASSUME NEW c
  PROVE  Stopped(c) \in {"candidateLimit", "editBudget"}
  BY DEF Stopped

-----------------------------------------------------------------------------
(* Type correctness                                                        *)

LEMMA TypeInit == Init => TypeOK
  BY SuggestAssumption DEF Init, TypeOK, Completeness

LEMMA ChargeType ==
  ASSUME TypeOK, NEW c \in Candidate, Charge(c)
  PROVE  examined' \in Nat /\ cells' \in Nat
  BY RequiredType DEF TypeOK, Charge

LEMMA TypeStep == TypeOK /\ [Next]_vars => TypeOK'
<1> SUFFICES ASSUME TypeOK, [Next]_vars
             PROVE  TypeOK'
  OBVIOUS
<1> USE DEF Completeness, given
<1>1. CASE QueryTooLong
  BY <1>1 DEF TypeOK, QueryTooLong
<1>2. CASE CollectDirect
  BY <1>2, DirectQuotaType DEF TypeOK, CollectDirect
<1>3. CASE ConsiderDirect
  <2>1. cursor + 1 \in 1..Len(direct) /\ cursor' \in 0..Len(direct)
    <3>1. Len(direct) \in Nat
      BY SuggestAssumption DEF TypeOK
    <3>2. QED
      BY <1>3, <3>1 DEF TypeOK, ConsiderDirect
  <2>2. direct[cursor + 1] \in Candidate
    BY <2>1, DirectCandidate DEF TypeOK
  <2>3. examined' \in Nat /\ cells' \in Nat /\ nDirect' \in Nat
    BY <1>3, <2>2, ChargeType DEF TypeOK, ConsiderDirect
  <2>4. QED
    BY <1>3, <2>1, <2>3 DEF TypeOK, ConsiderDirect
<1>4. CASE EndDirect
  BY <1>4, RelatedQuotaType DEF TypeOK, EndDirect, Restored
<1>5. CASE PassSeed
  BY <1>5 DEF TypeOK, PassSeed, NextSeed
<1>6. CASE ConsiderRelated
  <2>1. CurrentSeed.derived[derived + 1] \in Candidate
    BY <1>6, SeedType DEF TypeOK, ConsiderRelated
  <2>2. examined' \in Nat /\ cells' \in Nat /\ nRelated' \in Nat
    BY <1>6, <2>1, ChargeType, SMTT(20) DEF TypeOK, ConsiderRelated
  <2>3. QED
    BY <1>6, <2>2 DEF TypeOK, ConsiderRelated
<1>7. CASE EndSeed
  BY <1>7 DEF TypeOK, EndSeed, NextSeed
<1>8. CASE ExhaustRelated
  BY <1>8, StoppedType, Limits DEF TypeOK, ExhaustRelated, Restored
<1>9. CASE EndRelated
  BY <1>9, Limits DEF TypeOK, EndRelated
<1>10. CASE Finish
  BY <1>10, StoppedType DEF TypeOK, Finish, Reported
<1>11. CASE UNCHANGED vars
  BY <1>11 DEF TypeOK, vars
<1>12. QED
  BY <1>1, <1>2, <1>3, <1>4, <1>5, <1>6, <1>7, <1>8, <1>9, <1>10, <1>11 DEF Next

(* Every variable of a call to suggest_into keeps its type.                *)
THEOREM TypeCorrect == Spec => []TypeOK
<1>1. Init => TypeOK
  BY TypeInit
<1>2. TypeOK /\ [Next]_vars => TypeOK'
  BY TypeStep
<1>3. QED
  BY <1>1, <1>2, PTL DEF Spec

-----------------------------------------------------------------------------
(* The reservations                                                        *)

LEMMA ReservationInit == Init => ReservationInv
<1> SUFFICES ASSUME Init
             PROVE  ReservationInv
  OBVIOUS
<1>1. config.candidates \in Nat /\ config.cells \in Nat
  BY Limits DEF Init
<1>2. QED
  BY <1>1 DEF Init, ReservationInv

(* An affordable candidate stays within the limits of the phase.           *)
LEMMA ChargeKeeps ==
  ASSUME TypeOK, ReservationInv, NEW c \in Candidate, Affordable(c), Charge(c),
         UNCHANGED quota
  PROVE  /\ examined' = examined + 1
         /\ examined' <= quota'.candidates
         /\ cells' <= quota'.cells
<1>1. Required(c) \in Nat
  BY RequiredType
<1>2. examined \in Nat /\ quota.candidates \in Nat /\ cells \in Nat /\ quota.cells \in Nat
  BY DEF TypeOK
<1>3. examined + 1 <= quota.candidates /\ cells + Required(c) <= quota.cells
  BY <1>1, <1>2 DEF ReservationInv, Affordable, OverCount, OverCells
<1>4. QED
  BY <1>3 DEF Charge

LEMMA ReservationStep ==
  TypeOK /\ TypeOK' /\ ReservationInv /\ [Next]_vars => ReservationInv'
<1> SUFFICES ASSUME TypeOK, TypeOK', ReservationInv, [Next]_vars
             PROVE  ReservationInv'
  OBVIOUS
<1> DEFINE n == config.candidates
           l == config.cells
<1> USE DEF given
<1>a. /\ n \in Nat /\ Half(n) \in Nat /\ HalfRoundedUp(n) \in Nat
      /\ HalfRoundedUp(n) <= n /\ Half(n) + HalfRoundedUp(n) = n
  BY Limits, Halves DEF TypeOK
<1>b. /\ l \in Nat /\ Half(l) \in Nat /\ HalfRoundedUp(l) \in Nat
      /\ HalfRoundedUp(l) <= l /\ Half(l) + HalfRoundedUp(l) = l
  BY Limits, Halves DEF TypeOK
<1>c. /\ examined \in Nat /\ cells \in Nat /\ nDirect \in Nat /\ nRelated \in Nat
      /\ quota.candidates \in Nat /\ quota.cells \in Nat
  BY DEF TypeOK
<1>1. CASE QueryTooLong
  BY <1>1, <1>a, <1>c DEF ReservationInv, QueryTooLong
<1>2. CASE CollectDirect
  BY <1>2, <1>a, <1>b, <1>c DEF ReservationInv, CollectDirect, DirectQuota
<1>3. CASE ConsiderDirect
  <2> DEFINE c == direct[cursor + 1]
  <2>1. c \in Candidate
    <3>1. Len(direct) \in Nat
      BY SuggestAssumption DEF TypeOK
    <3>2. cursor + 1 \in 1..Len(direct)
      BY <1>3, <3>1 DEF TypeOK, ConsiderDirect
    <3>3. QED
      BY <3>2, DirectCandidate DEF TypeOK
  <2>2. CASE UNCHANGED <<examined, cells, nDirect>>
    BY <1>3, <2>2 DEF ReservationInv, ConsiderDirect, DirectQuota
  <2>3. CASE Affordable(c) /\ Charge(c) /\ nDirect' = nDirect + 1
    <3>1. /\ examined' = examined + 1 /\ examined' <= quota.candidates
          /\ cells' <= quota.cells
      BY <1>3, <2>1, <2>3, ChargeKeeps DEF ConsiderDirect
    <3>2. phase # "related"
      BY <1>3 DEF ConsiderDirect
    <3>3. QED
      BY <1>3, <2>3, <3>1, <3>2, <1>a, <1>c DEF ReservationInv, ConsiderDirect, DirectQuota
  <2>4. QED
    BY <1>3, <2>2, <2>3 DEF ConsiderDirect
<1>4. CASE EndDirect
  <2>1. UNCHANGED <<examined, cells, nDirect, nRelated, config, related, completeness>>
    BY <1>4 DEF EndDirect, Restored
  <2>2. nDirect <= HalfRoundedUp(n) /\ examined = nDirect
    BY <1>4, <1>a, <1>c DEF EndDirect, ReservationInv, DirectQuota
  <2>3. quota'.candidates = nDirect + Half(n)
    BY <1>4, <2>2, <1>a, <1>c DEF EndDirect, RelatedQuota, Least
  <2>4. cells <= quota'.cells /\ quota'.cells <= l
    <3>1. cells <= l
      BY <1>b, <1>c DEF ReservationInv
    <3>2. quota'.cells = Least(cells + Half(l), l)
      BY <1>4 DEF EndDirect, RelatedQuota
    <3>3. QED
      BY <3>1, <3>2, <1>b, <1>c DEF Least
  <2>5. QED
    BY <1>4, <2>1, <2>2, <2>3, <2>4, <1>a, <1>c DEF EndDirect, ReservationInv
<1>5. CASE PassSeed
  BY <1>5 DEF ReservationInv, PassSeed, NextSeed
<1>6. CASE ConsiderRelated
  <2> DEFINE c == CurrentSeed.derived[derived + 1]
  <2>1. c \in Candidate
    BY <1>6, SeedType DEF TypeOK, ConsiderRelated
  <2>2. CASE UNCHANGED <<examined, cells, nRelated>>
    BY <1>6, <2>2 DEF ReservationInv, ConsiderRelated
  <2>3. CASE Affordable(c) /\ Charge(c) /\ nRelated' = nRelated + 1
    <3>1. /\ examined' = examined + 1 /\ examined' <= quota.candidates
          /\ cells' <= quota.cells
      BY <1>6, <2>1, <2>3, ChargeKeeps DEF ConsiderRelated
    <3>2. QED
      BY <1>6, <2>3, <3>1, <1>a, <1>c DEF ReservationInv, ConsiderRelated
  <2>4. QED
    BY <1>6, <2>2, <2>3 DEF ConsiderRelated
<1>7. CASE EndSeed
  BY <1>7 DEF ReservationInv, EndSeed, NextSeed
<1>8. CASE ExhaustRelated
  <2>1. nRelated <= Half(n)
    BY <1>8, <1>a, <1>c DEF ExhaustRelated, ReservationInv
  <2>2. examined <= n /\ cells <= l
    BY <1>a, <1>b, <1>c DEF ReservationInv
  <2>3. QED
    BY <1>8, <2>1, <2>2, <1>a, <1>b DEF ExhaustRelated, Restored, ReservationInv
<1>9. CASE EndRelated
  <2>1. nRelated <= Half(n)
    BY <1>9, <1>a, <1>c DEF EndRelated, ReservationInv
  <2>2. examined <= n /\ cells <= l
    BY <1>a, <1>b, <1>c DEF ReservationInv
  <2>3. QED
    BY <1>9, <2>1, <2>2, <1>a, <1>b DEF EndRelated, ReservationInv
<1>10. CASE Finish
  <2>1. examined' <= quota.candidates /\ cells' = cells
    BY <1>10, <1>c DEF Finish, ReservationInv, OverCount
  <2>2. QED
    BY <1>10, <2>1 DEF Finish, ReservationInv
<1>11. CASE UNCHANGED vars
  BY <1>11 DEF ReservationInv, vars, DirectQuota
<1>12. QED
  BY <1>1, <1>2, <1>3, <1>4, <1>5, <1>6, <1>7, <1>8, <1>9, <1>10, <1>11 DEF Next

(* The reservations of the first two passes never overlap.                 *)
THEOREM ReservationCorrect == Spec => []ReservationInv
<1>1. Init => ReservationInv
  BY ReservationInit
<1>2. TypeOK /\ TypeOK' /\ ReservationInv /\ [Next]_vars => ReservationInv'
  BY ReservationStep
<1>3. QED
  BY <1>1, <1>2, TypeCorrect, PTL DEF Spec

(* No call compares more candidates or computes more cells than it may,     *)
(* whatever is reserved, given back and tried again.                       *)
THEOREM BudgetCorrect == Spec => []BudgetKept
<1>1. TypeOK /\ ReservationInv => BudgetKept
  <2> SUFFICES ASSUME TypeOK, ReservationInv
               PROVE  BudgetKept
    OBVIOUS
  <2>1. config.candidates \in Nat /\ config.cells \in Nat
    BY Limits DEF TypeOK
  <2>2. QED
    BY <2>1 DEF TypeOK, ReservationInv, BudgetKept
<1>2. QED
  BY <1>1, TypeCorrect, ReservationCorrect, PTL

-----------------------------------------------------------------------------
(* What is counted, and the two shares                                     *)

LEMMA SumBounds ==
  ASSUME NEW a \in Nat, NEW b \in Nat, NEW sum, sum = a + b
  PROVE  a + b <= sum /\ sum <= a + b + 1
  OBVIOUS

LEMMA ChargedOnceStep ==
  TypeOK /\ TypeOK' /\ ReservationInv /\ ReservationInv' /\ ChargedOnce /\ [Next]_vars
    => ChargedOnce'
<1> SUFFICES ASSUME TypeOK, TypeOK', ReservationInv, ReservationInv', ChargedOnce, [Next]_vars
             PROVE  ChargedOnce'
  OBVIOUS
<1>1. /\ examined \in Nat /\ nDirect \in Nat /\ nRelated \in Nat
      /\ examined' \in Nat /\ nDirect' \in Nat /\ nRelated' \in Nat
  BY DEF TypeOK
<1>2. CASE phase' # "done"
  <2>1. examined' = nDirect' + nRelated'
    BY <1>2 DEF ReservationInv
  <2>2. QED
    BY <1>1, <2>1, SumBounds DEF ChargedOnce
<1>3. CASE QueryTooLong
  BY <1>1, <1>3 DEF ReservationInv, ChargedOnce, QueryTooLong
<1>4. CASE Finish
  BY <1>1, <1>4 DEF ReservationInv, ChargedOnce, Finish
<1>5. CASE UNCHANGED vars
  BY <1>1, <1>5 DEF ChargedOnce, vars
<1>6. QED
  BY <1>2, <1>3, <1>4, <1>5
  DEF Next, CollectDirect, ConsiderDirect, EndDirect, PassSeed, ConsiderRelated, EndSeed,
      ExhaustRelated, EndRelated

(* Except for the last one of a call, every count stands for one candidate  *)
(* that was compared: what is tried again is not charged twice.            *)
THEOREM ChargedOnceCorrect == Spec => []ChargedOnce
<1>1. Init => ChargedOnce
  BY DEF Init, ChargedOnce
<1>2. TypeOK /\ TypeOK' /\ ReservationInv /\ ReservationInv' /\ ChargedOnce /\ [Next]_vars
        => ChargedOnce'
  BY ChargedOnceStep
<1>3. QED
  BY <1>1, <1>2, TypeCorrect, ReservationCorrect, PTL DEF Spec

LEMMA SharesStep ==
  /\ TypeOK /\ TypeOK' /\ ReservationInv /\ ReservationInv'
  /\ DirectShare /\ RelatedShare /\ [Next]_vars
  => DirectShare' /\ RelatedShare'
<1> SUFFICES ASSUME TypeOK, TypeOK', ReservationInv, ReservationInv',
                    DirectShare, RelatedShare, [Next]_vars
             PROVE  DirectShare' /\ RelatedShare'
  OBVIOUS
<1> DEFINE n == config.candidates
<1> USE DEF given
<1>a. /\ n \in Nat /\ Half(n) \in Nat /\ HalfRoundedUp(n) \in Nat
      /\ Half(n) + HalfRoundedUp(n) = n
  BY Limits, Halves DEF TypeOK
<1>b. /\ examined \in Nat /\ nDirect \in Nat /\ nRelated \in Nat
  BY DEF TypeOK
<1>1. CASE phase' \notin {"rest", "done"}
  BY <1>1 DEF DirectShare, RelatedShare
<1>2. CASE QueryTooLong
  BY <1>2 DEF ReservationInv, DirectShare, RelatedShare, QueryTooLong
<1>3. CASE ConsiderDirect
  BY <1>3 DEF DirectShare, RelatedShare, ConsiderDirect
<1>4. CASE ExhaustRelated
  <2> DEFINE c == CurrentSeed.derived[derived + 1]
  <2>1. related' = "candidateLimit" => examined = quota.candidates
    BY <1>4 DEF ExhaustRelated, Stopped, OverCount
  <2>2. examined = nDirect + nRelated /\ quota.candidates = nDirect + Half(n)
    BY <1>4 DEF ExhaustRelated, ReservationInv
  <2>3. QED
    BY <1>4, <2>1, <2>2, <1>a, <1>b DEF ExhaustRelated, DirectShare, RelatedShare
<1>5. CASE EndRelated
  BY <1>5 DEF EndRelated, ReservationInv, DirectShare, RelatedShare
<1>6. CASE Finish
  <2>1. RelatedShare'
    BY <1>6 DEF Finish, RelatedShare
  <2>2. CASE DirectStopped
    <3> DEFINE c == direct[cursor + 1]
    <3>1. SUFFICES ASSUME completeness' = "candidateLimit"
                   PROVE  nDirect' >= HalfRoundedUp(n)
      BY <1>6, <2>1 DEF Finish, DirectShare
    <3>2. OverCount(c)
      <4>1. cursor < Len(direct)
        BY <2>2 DEF DirectStopped
      <4>2. Len(direct) \in Nat /\ cursor \in Nat
        BY SuggestAssumption DEF TypeOK
      <4>3. completeness' = Reported(Stopped(c))
        BY <1>6, <4>1, <4>2 DEF Finish
      <4>4. completeness' = Stopped(c)
        BY <4>3, StoppedType DEF Reported
      <4>5. QED
        BY <3>1, <4>4 DEF Stopped
    <3>3. examined = n /\ examined = nDirect + nRelated /\ nRelated <= Half(n)
      BY <1>6, <3>2 DEF Finish, ReservationInv, OverCount
    <3>4. QED
      BY <1>6, <3>3, <1>a, <1>b DEF Finish
  <2>3. CASE cursor = Len(direct)
    <3>1. Len(direct) \in Nat
      BY SuggestAssumption DEF TypeOK
    <3>2. QED
      BY <1>6, <2>1, <2>3, <3>1 DEF Finish, DirectShare
  <2>4. QED
    BY <1>6, <2>1, <2>2, <2>3 DEF Finish
<1>7. CASE UNCHANGED vars
  BY <1>7 DEF DirectShare, RelatedShare, vars
<1>8. QED
  BY <1>1, <1>2, <1>3, <1>4, <1>5, <1>6, <1>7
  DEF Next, CollectDirect, EndDirect, PassSeed, ConsiderRelated, EndSeed

(* Neither source starves the other: direct candidates are left out for the *)
(* count only after they had their half, derived ones only after the other. *)
THEOREM SharesCorrect == Spec => []SharesKept
<1>1. Init => SharesKept
  BY DEF Init, SharesKept, DirectShare, RelatedShare
<1>2. TypeOK /\ TypeOK' /\ ReservationInv /\ ReservationInv'
        /\ SharesKept /\ [Next]_vars
        => SharesKept'
  BY SharesStep DEF SharesKept
<1>3. QED
  BY <1>1, <1>2, TypeCorrect, ReservationCorrect, PTL DEF Spec

-----------------------------------------------------------------------------
(* What "complete" means                                                   *)

LEMMA VisitedStep ==
  TypeOK /\ TypeOK' /\ ReservationInv /\ VisitedInv /\ [Next]_vars => VisitedInv'
<1> SUFFICES ASSUME TypeOK, TypeOK', ReservationInv, VisitedInv, [Next]_vars
             PROVE  VisitedInv'
  OBVIOUS
<1> USE DEF given
<1>1. /\ seed \in 0..Len(seeds) /\ Len(seeds) \in Nat
      /\ seeds \in Seq(Seed) /\ cursor \in Nat /\ Len(direct) \in Nat
  <2>1. seeds \in Seq(Seed) /\ direct \in Seq(Candidate)
    BY SuggestAssumption DEF TypeOK
  <2>2. Len(seeds) \in Nat /\ Len(direct) \in Nat
    BY <2>1
  <2>3. QED
    BY <2>1, <2>2 DEF TypeOK
<1>2. CASE QueryTooLong
  BY <1>1, <1>2 DEF QueryTooLong, VisitedInv, CompleteIsComplete
<1>3. CASE CollectDirect \/ ConsiderDirect \/ EndDirect
  <2>1. /\ seeds' = seeds /\ seed' = seed /\ related' = related /\ phase' # "done"
        /\ phase' = "rest" => phase = "rest"
    BY <1>3 DEF CollectDirect, ConsiderDirect, EndDirect
  <2>2. QED
    BY <2>1 DEF VisitedInv, CompleteIsComplete
<1>4. CASE PassSeed
  <2>1. /\ seed < Len(seeds) /\ seed' = seed + 1 /\ seeds' = seeds
        /\ phase' = "related" /\ (related' = "complete" => related = "complete")
        /\ (related' = "complete" => seeds[seed + 1].match # "tooLong")
    BY <1>4 DEF PassSeed, NextSeed, CurrentSeed
  <2>2. ASSUME related' = "complete", NEW i \in 1..seed'
        PROVE  seeds[i].match # "tooLong"
    <3>1. i \in 1..seed \/ i = seed + 1
      BY <1>1, <2>1
    <3>2. QED
      BY <2>1, <2>2, <3>1 DEF VisitedInv
  <2>3. QED
    BY <2>1, <2>2 DEF VisitedInv, CompleteIsComplete
<1>5. CASE EndSeed
  <2>1. /\ seed < Len(seeds) /\ seed' = seed + 1 /\ seeds' = seeds
        /\ phase' = "related" /\ related' = related
        /\ seeds[seed + 1].match = "related"
    BY <1>5 DEF EndSeed, NextSeed, CurrentSeed
  <2>2. ASSUME related' = "complete", NEW i \in 1..seed'
        PROVE  seeds[i].match # "tooLong"
    <3>1. i \in 1..seed \/ i = seed + 1
      BY <1>1, <2>1
    <3>2. QED
      BY <2>1, <2>2, <3>1 DEF VisitedInv
  <2>3. QED
    BY <2>1, <2>2 DEF VisitedInv, CompleteIsComplete
<1>6. CASE ConsiderRelated
  BY <1>6 DEF ConsiderRelated, VisitedInv, CompleteIsComplete
<1>7. CASE ExhaustRelated
  BY <1>7 DEF ExhaustRelated, Stopped, VisitedInv, CompleteIsComplete
<1>8. CASE EndRelated
  BY <1>8 DEF EndRelated, VisitedInv, CompleteIsComplete
<1>9. CASE Finish
  <2>1. completeness' = "complete" => related = "complete" /\ cursor = Len(direct)
    <3>1. CASE cursor = Len(direct)
      BY <1>1, <1>9, <3>1 DEF Finish, Reported, DirectStopped
    <3>2. CASE cursor # Len(direct)
      BY <1>9, <3>2, StoppedType DEF Finish, Reported, Stopped
    <3>3. QED
      BY <3>1, <3>2
  <2>2. /\ seeds' = seeds /\ seed' = seed /\ related' = related /\ phase' = "done"
        /\ direct' = direct /\ cursor' = cursor /\ phase = "rest"
    BY <1>9 DEF Finish
  <2>3. DOMAIN seeds = 1..Len(seeds)
    BY <1>1
  <2>4. QED
    BY <2>1, <2>2, <2>3 DEF VisitedInv, CompleteIsComplete
<1>10. CASE UNCHANGED vars
  BY <1>10 DEF vars, VisitedInv, CompleteIsComplete
<1>11. QED
  BY <1>2, <1>3, <1>4, <1>5, <1>6, <1>7, <1>8, <1>9, <1>10 DEF Next

(* "Complete" is true: all direct candidates and all seeds were considered  *)
(* and no seed was too long, whatever the limits and the candidates.        *)
THEOREM CompleteCorrect == Spec => []CompleteIsComplete
<1>1. Init => VisitedInv
  BY DEF Init, VisitedInv, CompleteIsComplete
<1>2. TypeOK /\ TypeOK' /\ ReservationInv /\ VisitedInv /\ [Next]_vars => VisitedInv'
  BY VisitedStep
<1>3. VisitedInv => CompleteIsComplete
  BY DEF VisitedInv
<1>4. QED
  BY <1>1, <1>2, <1>3, TypeCorrect, ReservationCorrect, PTL DEF Spec

-----------------------------------------------------------------------------
(* Numbers                                                                 *)

LEMMA LeastNumber ==
  ASSUME NEW T \in SUBSET Nat, T # {}
  PROVE  \E n \in T : \A m \in T : n <= m
<1> DEFINE R == {ss \in Nat \X Nat : ss[1] < ss[2]}
<1>1. IsWellFoundedOn(R, Nat)
  BY NatLessThanWellFounded DEF OpToRel
<1>2. ASSUME NEW x \in Nat, NEW y \in Nat, y < x
      PROVE  <<y, x>> \in R
  BY <1>2
<1> HIDE DEF R
<1>3. PICK x \in T : \A y \in T : ~ (<<y, x>> \in R)
  BY <1>1, WFMin
<1>4. \A y \in T : ~(y < x)
  BY <1>2, <1>3, Zenon
<1> QED
  BY <1>4

(* Induction over a set of numbers: what holds of 0, and of n + 1 whenever  *)
(* it holds of n, holds of all.                                            *)
LEMMA AllNumbers ==
  ASSUME NEW S, 0 \in S, \A n \in Nat : n \in S => n + 1 \in S
  PROVE  \A n \in Nat : n \in S
<1> SUFFICES ASSUME Nat \ S # {} PROVE FALSE
  OBVIOUS
<1>1. PICK n \in Nat \ S : \A m \in Nat \ S : n <= m
  BY LeastNumber
<1>2. n # 0 /\ n - 1 \in Nat /\ n - 1 \in S
  BY <1>1
<1> QED
  BY <1>1, <1>2

-----------------------------------------------------------------------------
(* Arranged                                                                *)

IsOrder(S, R) ==
  /\ \A x \in S : <<x, x>> \notin R
  /\ \A x, y, z \in S : <<x, y>> \in R /\ <<y, z>> \in R => <<x, z>> \in R
  /\ \A x, y \in S : x # y => <<x, y>> \in R \/ <<y, x>> \in R

Below(S, R, x) == {y \in S : <<y, x>> \in R}

LEMMA BelowGrows ==
  ASSUME NEW S, IsFiniteSet(S), NEW R, IsOrder(S, R)
  PROVE  /\ \A x \in S : /\ Cardinality(Below(S, R, x)) \in Nat
                         /\ Cardinality(Below(S, R, x)) < Cardinality(S)
         /\ \A x, y \in S : <<x, y>> \in R =>
              Cardinality(Below(S, R, x)) < Cardinality(Below(S, R, y))
<1>1. ASSUME NEW x \in S
      PROVE  /\ Below(S, R, x) \in SUBSET S /\ x \notin Below(S, R, x)
             /\ IsFiniteSet(Below(S, R, x)) /\ Cardinality(Below(S, R, x)) \in Nat
             /\ Cardinality(Below(S, R, x) \cup {x}) = Cardinality(Below(S, R, x)) + 1
  <2>1. Below(S, R, x) \in SUBSET S /\ x \notin Below(S, R, x)
    BY DEF Below, IsOrder
  <2>2. IsFiniteSet(Below(S, R, x))
    BY <2>1, FS_Subset
  <2>3. QED
    BY <2>1, <2>2, FS_CardinalityType, FS_AddElement
<1>2. ASSUME NEW x \in S, NEW T \in SUBSET S, Below(S, R, x) \cup {x} \subseteq T
      PROVE  Cardinality(Below(S, R, x)) < Cardinality(T)
  <2>1. IsFiniteSet(T) /\ Cardinality(T) \in Nat
    BY FS_Subset, FS_CardinalityType
  <2>2. Cardinality(Below(S, R, x) \cup {x}) <= Cardinality(T)
    BY <1>2, <2>1, FS_Subset
  <2>3. QED
    BY <1>1, <2>1, <2>2
<1>3. ASSUME NEW x \in S, NEW y \in S, <<x, y>> \in R
      PROVE  Below(S, R, x) \cup {x} \subseteq Below(S, R, y)
  BY <1>3 DEF Below, IsOrder
<1>4. \A x \in S : Cardinality(Below(S, R, x)) < Cardinality(S)
  BY <1>1, <1>2
<1>5. QED
  BY <1>1, <1>2, <1>3, <1>4

(* Every place is taken. *)
LEMMA PlaceTaken ==
  ASSUME NEW S, IsFiniteSet(S), NEW R, IsOrder(S, R), NEW k \in 1..Cardinality(S)
  PROVE  \E x \in S : Cardinality(Below(S, R, x)) = k - 1
<1> DEFINE n == Cardinality(S)
           f == [x \in S |-> Cardinality(Below(S, R, x)) + 1]
<1>1. n \in Nat /\ IsFiniteSet(1..n) /\ Cardinality(1..n) = n
  BY FS_CardinalityType, FS_Interval
<1>2. f \in [S -> 1..n]
  BY <1>1, BelowGrows
<1>4. \A x \in S : f[x] = Cardinality(Below(S, R, x)) + 1
  OBVIOUS
<1> HIDE DEF f
<1>3. ASSUME NEW x \in S, NEW y \in S, f[x] = f[y]
      PROVE  x = y
  <2>1. /\ Cardinality(Below(S, R, x)) \in Nat /\ Cardinality(Below(S, R, y)) \in Nat
        /\ Cardinality(Below(S, R, x)) = Cardinality(Below(S, R, y))
    BY <1>3, <1>4, BelowGrows
  <2>2. <<x, y>> \notin R /\ <<y, x>> \notin R
    BY <2>1, BelowGrows
  <2>3. QED
    BY <2>2 DEF IsOrder
<1>5. f \in Injection(S, 1..n)
  BY <1>2, <1>3 DEF Injection, IsInjective
<1>6. f \in Surjection(S, 1..n)
  BY <1>1, <1>5, FS_Injection
<1>7. PICK x \in S : f[x] = k
  BY <1>6 DEF Surjection
<1>8. QED
  BY <1>4, <1>7, BelowGrows

(* And what stands there is in order. *)
IsArranged(S, R, s) ==
  /\ s \in [1..Cardinality(S) -> S]
  /\ \A k \in 1..Cardinality(S) : Cardinality(Below(S, R, s[k])) = k - 1

LEMMA ArrangedInOrder ==
  ASSUME NEW S, IsFiniteSet(S), NEW R, IsOrder(S, R), NEW s, IsArranged(S, R, s)
  PROVE  /\ s \in Seq(S) /\ Len(s) = Cardinality(S) /\ DOMAIN s = 1..Len(s)
         /\ \A x \in S : \E k \in DOMAIN s : s[k] = x
         /\ \A i, j \in DOMAIN s : i < j => <<s[i], s[j]>> \in R
<1> DEFINE n == Cardinality(S)
<1>1. n \in Nat /\ s \in [1..n -> S]
  BY FS_CardinalityType DEF IsArranged
<1>2. s \in Seq(S) /\ Len(s) = n /\ DOMAIN s = 1..n
  BY <1>1
<1>3. ASSUME NEW x \in S
      PROVE  \E k \in 1..n : s[k] = x
  <2> DEFINE k == Cardinality(Below(S, R, x)) + 1
  <2>1. k \in 1..n
    BY <1>1, BelowGrows
  <2>2. s[k] \in S /\ Cardinality(Below(S, R, s[k])) = Cardinality(Below(S, R, x))
    BY <1>1, <2>1, BelowGrows DEF IsArranged
  <2>5. Cardinality(Below(S, R, x)) \in Nat
    BY BelowGrows
  <2>6. <<s[k], x>> \notin R /\ <<x, s[k]>> \notin R
    BY <2>2, <2>5, BelowGrows
  <2>3. s[k] = x
    BY <2>2, <2>6 DEF IsOrder
  <2>4. QED
    BY <2>1, <2>3
<1>4. ASSUME NEW i \in 1..n, NEW j \in 1..n, i < j
      PROVE  <<s[i], s[j]>> \in R
  <2>1. s[i] \in S /\ s[j] \in S
    BY <1>1
  <2>2. Cardinality(Below(S, R, s[i])) = i - 1 /\ Cardinality(Below(S, R, s[j])) = j - 1
    BY DEF IsArranged
  <2>3. s[i] # s[j] /\ <<s[j], s[i]>> \notin R
    BY <1>1, <1>4, <2>1, <2>2, BelowGrows
  <2>4. QED
    BY <2>1, <2>3 DEF IsOrder
<1>5. QED
  BY <1>2, <1>3, <1>4

(* Positions in the order of numbers. *)
Less(S) == {p \in S \X S : p[1] < p[2]}

LEMMA LessIsOrder ==
  ASSUME NEW S \in SUBSET Nat
  PROVE  IsOrder(S, Less(S))
  BY DEF IsOrder, Less

LEMMA NumbersArranged ==
  ASSUME NEW S \in SUBSET Nat, IsFiniteSet(S), NEW s,
         s = [k \in 1..Cardinality(S) |->
                CHOOSE x \in S : Cardinality({y \in S : y < x}) = k - 1]
  PROVE  IsArranged(S, Less(S), s)
<1> DEFINE n == Cardinality(S)
           Lower(x) == {y \in S : y < x}
           At(k) == CHOOSE x \in S : Cardinality(Lower(x)) = k - 1
<1>2. \A x \in S : Lower(x) = Below(S, Less(S), x)
  BY DEF Below, Less
<1>4. s = [k \in 1..n |-> At(k)]
  OBVIOUS
<1>3. ASSUME NEW k \in 1..n
      PROVE  At(k) \in S /\ Cardinality(Below(S, Less(S), At(k))) = k - 1
  <2>2. \E x \in S : Cardinality(Below(S, Less(S), x)) = k - 1
    BY LessIsOrder, PlaceTaken
  <2> HIDE DEF Lower
  <2>3. \E x \in S : Cardinality(Lower(x)) = k - 1
    BY <1>2, <2>2, Zenon
  <2>4. At(k) \in S /\ Cardinality(Lower(At(k))) = k - 1
    BY <2>3, Zenon
  <2>5. QED
    BY <1>2, <2>4
<1> HIDE DEF At
<1>6. QED
  BY <1>3, <1>4 DEF IsArranged

-----------------------------------------------------------------------------
(* Words in byte order                                                     *)

LEMMA LettersAreNumbers ==
  ASSUME NEW u \in Seq(Letter)
  PROVE  /\ Len(u) \in Nat /\ DOMAIN u = 1..Len(u)
         /\ \A k \in 1..Len(u) : u[k] \in Letter /\ u[k] \in Nat
<1>1. Len(u) \in Nat /\ DOMAIN u = 1..Len(u) /\ \A k \in 1..Len(u) : u[k] \in Letter
  OBVIOUS
<1>2. \A c \in Letter : c \in Nat
  BY LetterAssumption
<1>3. QED
  BY <1>1, <1>2

LEMMA Compared ==
  ASSUME NEW m \in Nat, NEW n \in Nat
  PROVE  /\ m # n => m < n \/ n < m
         /\ m <= n <=> m < n \/ m = n
  OBVIOUS

LEMMA SamePrefix ==
  ASSUME NEW u \in Seq(Letter), NEW v \in Seq(Letter), NEW n \in Nat,
         n <= Len(u), n <= Len(v)
  PROVE  SubSeq(u, 1, n) = SubSeq(v, 1, n) <=> \A k \in 1..n : u[k] = v[k]
<1> DEFINE a == SubSeq(u, 1, n)
           b == SubSeq(v, 1, n)
<1>1. /\ a \in Seq(Letter) /\ Len(a) = n /\ \A k \in 1..n : a[k] = u[k]
      /\ b \in Seq(Letter) /\ Len(b) = n /\ \A k \in 1..n : b[k] = v[k]
  BY SubSeqProperties
<1> HIDE DEF a, b
<1>2. a = b <=> \A k \in 1..n : a[k] = b[k]
  BY <1>1, SeqEqual
<1>3. QED
  BY <1>1, <1>2 DEF a, b

(* Where two words part. *)
PartsAt(u, v, i) ==
  /\ i \in 1..Len(u) /\ i <= Len(v)
  /\ \A k \in 1..(i - 1) : u[k] = v[k]
  /\ u[i] < v[i]

Extends(u, v) == Len(u) < Len(v) /\ \A k \in 1..Len(u) : u[k] = v[k]

LEMMA WordBeforeParts ==
  ASSUME NEW u \in Seq(Letter), NEW v \in Seq(Letter)
  PROVE  WordBefore(u, v) <=> Extends(u, v) \/ \E i \in Nat : PartsAt(u, v, i)
<1>1. Len(u) \in Nat /\ Len(v) \in Nat /\ DOMAIN u = 1..Len(u) /\ DOMAIN v = 1..Len(v)
  OBVIOUS
<1>2. SubSeq(u, 1, Len(u)) = u
  BY SubSeqFull
<1>3. IsStrictPrefix(u, v) <=> Extends(u, v)
  <2>1. Len(u) <= Len(v) => (SubSeq(u, 1, Len(u)) = SubSeq(v, 1, Len(u))
                               <=> \A k \in 1..Len(u) : u[k] = v[k])
    BY <1>1, SamePrefix
  <2>2. Len(u) = Len(v) /\ (\A k \in 1..Len(u) : u[k] = v[k]) => u = v
    BY SeqEqual
  <2>3. IsStrictPrefix(u, v) <=> /\ Len(u) <= Len(v)
                                 /\ \A k \in 1..Len(u) : u[k] = v[k]
                                 /\ u # v
    BY <1>2, <2>1 DEF IsStrictPrefix, IsPrefix
  <2>4. Len(u) < Len(v) => u # v
    BY <1>1
  <2>5. Len(u) <= Len(v) <=> Len(u) < Len(v) \/ Len(u) = Len(v)
    BY <1>1, Compared, Zenon
  <2>6. QED
    BY <2>2, <2>3, <2>4, <2>5, Zenon DEF Extends
<1>4. (\E i \in DOMAIN u \cap DOMAIN v :
         SubSeq(u, 1, i - 1) = SubSeq(v, 1, i - 1) /\ u[i] < v[i])
        <=> \E i \in Nat : PartsAt(u, v, i)
  <2>1. ASSUME NEW i \in 1..Len(u), i <= Len(v)
        PROVE  SubSeq(u, 1, i - 1) = SubSeq(v, 1, i - 1)
                 <=> \A k \in 1..(i - 1) : u[k] = v[k]
    BY <1>1, <2>1, SamePrefix
  <2>2. \A i \in Nat : i \in DOMAIN u \cap DOMAIN v <=> i \in 1..Len(u) /\ i <= Len(v)
    BY <1>1
  <2>3. DOMAIN u \cap DOMAIN v \subseteq Nat
    BY <1>1
  <2>4. \A i \in Nat : PartsAt(u, v, i) <=>
          /\ i \in DOMAIN u \cap DOMAIN v
          /\ SubSeq(u, 1, i - 1) = SubSeq(v, 1, i - 1) /\ u[i] < v[i]
    BY <2>1, <2>2 DEF PartsAt
  <2>5. QED
    BY <2>3, <2>4
<1>5. QED
  BY <1>3, <1>4 DEF WordBefore

LEMMA WordsDiffer ==
  ASSUME NEW u \in Seq(Letter), NEW v \in Seq(Letter), u # v
  PROVE  WordBefore(u, v) \/ WordBefore(v, u)
<1> DEFINE D == {k \in Nat : k \in 1..Len(u) /\ k \in 1..Len(v) /\ u[k] # v[k]}
<1>1. Len(u) \in Nat /\ Len(v) \in Nat /\ DOMAIN u = 1..Len(u) /\ DOMAIN v = 1..Len(v)
  OBVIOUS
<1>2. CASE D = {}
  <2>1. \A k \in 1..Len(u) : k \in 1..Len(v) => u[k] = v[k]
    BY <1>1, <1>2
  <2>2. Len(u) # Len(v)
    BY <2>1, SeqEqual
  <2>3. Extends(u, v) \/ Extends(v, u)
    <3>1. CASE Len(u) < Len(v)
      BY <1>1, <2>1, <3>1 DEF Extends
    <3>2. CASE Len(v) < Len(u)
      BY <1>1, <2>1, <3>2 DEF Extends
    <3>3. QED
      BY <1>1, <2>2, <3>1, <3>2, Compared, Zenon
  <2>4. QED
    BY <2>3, WordBeforeParts
<1>3. CASE D # {}
  <2>1. PICK i \in D : \A k \in D : i <= k
    BY <1>3, LeastNumber
  <2>2. \A k \in 1..(i - 1) : u[k] = v[k]
    BY <1>1, <2>1
  <2>3. u[i] \in Nat /\ v[i] \in Nat /\ u[i] # v[i]
    BY LettersAreNumbers
  <2>4. PartsAt(u, v, i) \/ PartsAt(v, u, i)
    BY <1>1, <2>2, <2>3 DEF PartsAt
  <2>5. QED
    BY <2>4, WordBeforeParts
<1>4. QED
  BY <1>2, <1>3

LEMMA WordsTransitive ==
  ASSUME NEW u \in Seq(Letter), NEW v \in Seq(Letter), NEW w \in Seq(Letter),
         WordBefore(u, v), WordBefore(v, w)
  PROVE  WordBefore(u, w)
<1>1. /\ Len(u) \in Nat /\ Len(v) \in Nat /\ Len(w) \in Nat
      /\ \A k \in 1..Len(u) : u[k] \in Nat
      /\ \A k \in 1..Len(v) : v[k] \in Nat
      /\ \A k \in 1..Len(w) : w[k] \in Nat
  BY LettersAreNumbers
<1>2. CASE Extends(u, v) /\ Extends(v, w)
  <2>1. Extends(u, w)
    BY <1>1, <1>2 DEF Extends
  <2>2. QED
    BY <2>1, WordBeforeParts
<1>3. ASSUME NEW i \in Nat, Extends(u, v), PartsAt(v, w, i)
      PROVE  WordBefore(u, w)
  <2>1. CASE i <= Len(u)
    <3>1. PartsAt(u, w, i)
      BY <1>1, <1>3, <2>1 DEF Extends, PartsAt
    <3>2. QED
      BY <3>1, WordBeforeParts
  <2>2. CASE i > Len(u)
    <3>1. Extends(u, w)
      BY <1>1, <1>3, <2>2 DEF Extends, PartsAt
    <3>2. QED
      BY <3>1, WordBeforeParts
  <2>3. QED
    BY <1>1, <2>1, <2>2
<1>4. ASSUME NEW i \in Nat, PartsAt(u, v, i), Extends(v, w)
      PROVE  WordBefore(u, w)
  <2>1. PartsAt(u, w, i)
    BY <1>1, <1>4 DEF Extends, PartsAt
  <2>2. QED
    BY <2>1, WordBeforeParts
<1>5. ASSUME NEW i \in Nat, NEW j \in Nat, PartsAt(u, v, i), PartsAt(v, w, j)
      PROVE  WordBefore(u, w)
  <2>1. CASE i <= j
    <3>0. /\ i \in 1..Len(u) /\ i <= Len(v) /\ j <= Len(w) /\ i <= Len(w)
          /\ u[i] < v[i] /\ v[j] < w[j]
          /\ \A k \in 1..(i - 1) : u[k] = v[k]
          /\ \A k \in 1..(j - 1) : v[k] = w[k]
      BY <1>1, <1>5, <2>1 DEF PartsAt
    <3>2. i \in 1..Len(v) /\ i \in 1..Len(w) /\ j \in 1..Len(w)
      BY <1>1, <3>0, <2>1
    <3>3. v[i] <= w[i]
      <4>1. CASE i = j
        BY <1>1, <3>0, <3>2, <4>1
      <4>2. CASE i # j
        BY <1>1, <3>0, <3>2, <2>1, <4>2
      <4>3. QED
        BY <4>1, <4>2
    <3>4. u[i] < w[i]
      <4>1. u[i] \in Nat /\ v[i] \in Nat /\ w[i] \in Nat
        BY <1>1, <3>0, <3>2
      <4>2. QED
        BY <3>0, <3>3, <4>1
    <3>5. \A k \in 1..(i - 1) : u[k] = w[k]
      BY <3>0, <2>1
    <3>1. PartsAt(u, w, i)
      BY <3>0, <3>4, <3>5 DEF PartsAt
    <3>6. QED
      BY <3>1, WordBeforeParts
  <2>2. CASE j < i
    <3>0. /\ j \in 1..Len(v) /\ i \in 1..Len(u) /\ j <= Len(w) /\ v[j] < w[j]
          /\ \A k \in 1..(i - 1) : u[k] = v[k]
          /\ \A k \in 1..(j - 1) : v[k] = w[k]
      BY <1>5 DEF PartsAt
    <3>2. u[j] = v[j] /\ j \in 1..Len(u) /\ \A k \in 1..(j - 1) : u[k] = w[k]
      BY <1>1, <3>0, <2>2
    <3>1. PartsAt(u, w, j)
      BY <3>0, <3>2 DEF PartsAt
    <3>3. QED
      BY <3>1, WordBeforeParts
  <2>3. QED
    BY <2>1, <2>2
<1>6. QED
  BY <1>2, <1>3, <1>4, <1>5, WordBeforeParts

LEMMA WordNotBeforeItself ==
  ASSUME NEW u \in Seq(Letter)
  PROVE  ~WordBefore(u, u)
<1>1. /\ Len(u) \in Nat
      /\ \A k \in 1..Len(u) : u[k] \in Nat
  BY LettersAreNumbers
<1>2. QED
  BY <1>1, WordBeforeParts DEF Extends, PartsAt

(* A dictionary names its words, each of them once. *)
Precedes(S) == {p \in S \X S : WordBefore(p[1], p[2])}

LEMMA PrecedesIsOrder ==
  ASSUME NEW S, S \subseteq Seq(Letter)
  PROVE  IsOrder(S, Precedes(S))
<1>1. \A x, y \in S : <<x, y>> \in Precedes(S) <=> WordBefore(x, y)
  BY DEF Precedes
<1>2. \A x \in S : x \in Seq(Letter)
  OBVIOUS
<1>3. \A x \in S : ~WordBefore(x, x)
  BY <1>2, WordNotBeforeItself
<1>4. \A x, y, z \in S : WordBefore(x, y) /\ WordBefore(y, z) => WordBefore(x, z)
  BY <1>2, WordsTransitive
<1>5. \A x, y \in S : x # y => WordBefore(x, y) \/ WordBefore(y, x)
  BY <1>2, WordsDiffer
<1>6. QED
  BY <1>1, <1>3, <1>4, <1>5 DEF IsOrder

LEMMA SortedArranged ==
  ASSUME NEW S, IsWords(S)
  PROVE  IsArranged(S, Precedes(S), Sorted(S))
<1> DEFINE n == Cardinality(S)
           Lower(x) == {y \in S : WordBefore(y, x)}
           At(k) == CHOOSE x \in S : Cardinality(Lower(x)) = k - 1
<1>1. S \subseteq Seq(Letter) /\ IsFiniteSet(S) /\ IsOrder(S, Precedes(S))
  BY PrecedesIsOrder DEF IsWords
<1>2. \A x \in S : Lower(x) = Below(S, Precedes(S), x)
  BY DEF Below, Precedes
<1>3. Sorted(S) = [k \in 1..n |-> At(k)]
  BY Zenon DEF Sorted, Arranged
<1>4. ASSUME NEW k \in 1..n
      PROVE  At(k) \in S /\ Cardinality(Below(S, Precedes(S), At(k))) = k - 1
  <2>1. \E x \in S : Cardinality(Below(S, Precedes(S), x)) = k - 1
    BY <1>1, PlaceTaken
  <2> HIDE DEF Lower
  <2>2. \E x \in S : Cardinality(Lower(x)) = k - 1
    BY <1>2, <2>1, Zenon
  <2>3. At(k) \in S /\ Cardinality(Lower(At(k))) = k - 1
    BY <2>2, Zenon
  <2>4. QED
    BY <1>2, <2>3
<1> HIDE DEF At
<1>5. QED
  BY <1>3, <1>4 DEF IsArranged

LEMMA SortedNames ==
  ASSUME NEW S, IsWords(S)
  PROVE  /\ Sorted(S) \in Seq(S) /\ Sorted(S) \in Seq(Seq(Letter))
         /\ \A x \in S : \E k \in DOMAIN Sorted(S) : Sorted(S)[k] = x
<1>1. S \subseteq Seq(Letter) /\ IsFiniteSet(S) /\ IsOrder(S, Precedes(S))
  BY PrecedesIsOrder DEF IsWords
<1>2. QED
  BY <1>1, SortedArranged, ArrangedInOrder

-----------------------------------------------------------------------------
(* Letters that two words share                                            *)

(* The first k letters of a word that are c; and the first i letters, each  *)
(* with its number among those alike.                                      *)
Counted(w, c, k) == Cardinality({m \in 1..k : w[m] = c})
NumberedTo(w, i) == {<<w[k], Counted(w, w[k], k)>> : k \in 1..i}

LEMMA CountedNext ==
  ASSUME NEW w, NEW c, NEW k \in Nat
  PROVE  /\ Counted(w, c, 0) = 0
         /\ Counted(w, c, k) \in Nat
         /\ Counted(w, c, k + 1) = IF w[k + 1] = c THEN Counted(w, c, k) + 1
                                   ELSE Counted(w, c, k)
<1> DEFINE T(n) == {m \in 1..n : w[m] = c}
<1>1. \A n \in Nat : IsFiniteSet(T(n)) /\ Cardinality(T(n)) \in Nat
  <2>1. \A n \in Nat : IsFiniteSet(1..n) /\ T(n) \in SUBSET (1..n)
    BY FS_Interval
  <2> HIDE DEF T
  <2>2. QED
    BY <2>1, FS_Subset, FS_CardinalityType
<1>2. T(0) = {}
  OBVIOUS
<1>3. T(k + 1) = IF w[k + 1] = c THEN T(k) \cup {k + 1} ELSE T(k)
  <2>1. 1..(k + 1) = (1..k) \cup {k + 1}
    OBVIOUS
  <2>2. QED
    BY <2>1
<1>4. k + 1 \notin T(k)
  OBVIOUS
<1>5. \A n \in Nat : Counted(w, c, n) = Cardinality(T(n))
  BY DEF Counted
<1> HIDE DEF T
<1>6. Cardinality(T(k) \cup {k + 1}) = Cardinality(T(k)) + 1
  BY <1>1, <1>4, FS_AddElement
<1>7. Cardinality(T(0)) = 0
  BY <1>2, FS_EmptySet
<1>8. 0 \in Nat /\ k + 1 \in Nat
  OBVIOUS
<1>9. QED
  BY <1>1, <1>3, <1>5, <1>6, <1>7, <1>8

LEMMA NumberedNext ==
  ASSUME NEW w, NEW i \in Nat
  PROVE  NumberedTo(w, i + 1) =
           NumberedTo(w, i) \cup {<<w[i + 1], Counted(w, w[i + 1], i + 1)>>}
<1>1. 1..(i + 1) = (1..i) \cup {i + 1}
  OBVIOUS
<1>2. QED
  BY <1>1 DEF NumberedTo

(* A letter is numbered from 1 to the number of times it occurs.           *)
LEMMA NumberedHas ==
  ASSUME NEW w
  PROVE  \A i \in Nat : \A c : \A n \in Nat :
           <<c, n>> \in NumberedTo(w, i) <=> n \in 1..Counted(w, c, i)
<1> DEFINE Has(i) == \A c : \A n \in Nat :
                       <<c, n>> \in NumberedTo(w, i) <=> n \in 1..Counted(w, c, i)
           S == {i \in Nat : Has(i)}
<1>1. 0 \in S
  <2>1. NumberedTo(w, 0) = {}
    BY DEF NumberedTo
  <2>2. \A c : Counted(w, c, 0) = 0
    BY CountedNext
  <2>3. QED
    BY <2>1, <2>2
<1>2. ASSUME NEW i \in Nat, i \in S
      PROVE  i + 1 \in S
  <2>1. ASSUME NEW c, NEW n \in Nat
        PROVE  <<c, n>> \in NumberedTo(w, i + 1) <=> n \in 1..Counted(w, c, i + 1)
    <3>1. <<c, n>> \in NumberedTo(w, i) <=> n \in 1..Counted(w, c, i)
      BY <1>2
    <3>2. <<c, n>> \in NumberedTo(w, i + 1) <=>
            <<c, n>> \in NumberedTo(w, i) \/ (c = w[i + 1] /\ n = Counted(w, w[i + 1], i + 1))
      BY NumberedNext
    <3>3. /\ Counted(w, c, i) \in Nat
          /\ Counted(w, c, i + 1) = IF w[i + 1] = c THEN Counted(w, c, i) + 1
                                    ELSE Counted(w, c, i)
      BY CountedNext
    <3> DEFINE a == Counted(w, c, i)
               b == Counted(w, c, i + 1)
    <3>4. CASE w[i + 1] = c
      <4>1. <<c, n>> \in NumberedTo(w, i + 1) <=> n \in 1..a \/ n = b
        BY <3>1, <3>2, <3>4
      <4>2. a \in Nat /\ b = a + 1
        BY <3>3, <3>4
      <4> HIDE DEF a, b
      <4>3. (n \in 1..a \/ n = b) <=> n \in 1..b
        BY <4>2
      <4>4. QED
        BY <4>1, <4>3 DEF b
    <3>5. CASE w[i + 1] # c
      BY <3>1, <3>2, <3>3, <3>5
    <3>6. QED
      BY <3>4, <3>5
  <2>2. QED
    BY <2>1
<1> HIDE DEF S, Has
<1>3. \A i \in Nat : i \in S
  BY <1>1, <1>2, AllNumbers
<1>4. \A i \in Nat : Has(i)
  BY <1>3 DEF S
<1>5. QED
  BY <1>4, Zenon DEF Has

Shared(u, v, i, j) == NumberedTo(u, i) \cap NumberedTo(v, j)
SharedCount(u, v, i, j) == Cardinality(Shared(u, v, i, j))

LEMMA NumberedFinite ==
  ASSUME NEW w, NEW i \in Nat
  PROVE  IsFiniteSet(NumberedTo(w, i))
<1> DEFINE f == [k \in 1..i |-> <<w[k], Counted(w, w[k], k)>>]
<1>1. IsFiniteSet(1..i)
  BY FS_Interval
<1>2. f \in Surjection(1..i, NumberedTo(w, i))
  BY DEF NumberedTo, Surjection
<1> HIDE DEF f
<1>3. QED
  BY <1>1, <1>2, FS_Surjection

LEMMA SharedGrows ==
  ASSUME NEW u, NEW v, NEW i \in Nat, NEW j \in Nat
  PROVE  /\ SharedCount(u, v, i, j) \in Nat
         /\ SharedCount(u, v, i, j) <= SharedCount(u, v, i + 1, j)
         /\ SharedCount(u, v, i, j) <= SharedCount(u, v, i, j + 1)
         /\ u[i + 1] = v[j + 1] =>
              SharedCount(u, v, i, j) + 1 <= SharedCount(u, v, i + 1, j + 1)
<1>1. ASSUME NEW a \in Nat, NEW b \in Nat
      PROVE  IsFiniteSet(Shared(u, v, a, b)) /\ SharedCount(u, v, a, b) \in Nat
  BY NumberedFinite, FS_Intersection, FS_CardinalityType DEF Shared, SharedCount
<1>2. i + 1 \in Nat /\ j + 1 \in Nat
  OBVIOUS
<1>3. /\ Shared(u, v, i, j) \subseteq Shared(u, v, i + 1, j)
      /\ Shared(u, v, i, j) \subseteq Shared(u, v, i, j + 1)
      /\ Shared(u, v, i, j) \subseteq Shared(u, v, i + 1, j + 1)
  BY NumberedNext DEF Shared
<1>4. /\ SharedCount(u, v, i, j) <= SharedCount(u, v, i + 1, j)
      /\ SharedCount(u, v, i, j) <= SharedCount(u, v, i, j + 1)
  <2>1. IsFiniteSet(Shared(u, v, i + 1, j)) /\ IsFiniteSet(Shared(u, v, i, j + 1))
    BY <1>1, <1>2
  <2>2. QED
    BY <1>3, <2>1, FS_Subset DEF SharedCount
<1>5. ASSUME u[i + 1] = v[j + 1]
      PROVE  SharedCount(u, v, i, j) + 1 <= SharedCount(u, v, i + 1, j + 1)
  <2> DEFINE c == u[i + 1]
             a == Counted(u, c, i)
             b == Counted(v, c, j)
             n == (IF a < b THEN a ELSE b) + 1
  <2>1. /\ a \in Nat /\ b \in Nat
        /\ Counted(u, c, i + 1) = a + 1 /\ Counted(v, c, j + 1) = b + 1
    BY <1>5, CountedNext
  <2>2. n \in Nat /\ n \in 1..(a + 1) /\ n \in 1..(b + 1) /\ ~(n \in 1..a /\ n \in 1..b)
    BY <2>1
  <2> HIDE DEF a, b, n, c
  <2>3. <<c, n>> \in Shared(u, v, i + 1, j + 1)
    BY <1>2, <2>1, <2>2, NumberedHas DEF Shared
  <2>4. <<c, n>> \notin Shared(u, v, i, j)
    <3>1. ~(n \in 1..Counted(u, c, i) /\ n \in 1..Counted(v, c, j))
      BY <2>2 DEF a, b
    <3>2. QED
      BY <2>2, <3>1, NumberedHas DEF Shared
  <2> DEFINE T == Shared(u, v, i, j)
             x == <<c, n>>
  <2>5. T \cup {x} \subseteq Shared(u, v, i + 1, j + 1)
    BY <1>3, <2>3
  <2>6. Cardinality(T \cup {x}) = Cardinality(T) + 1
    BY <1>1, <2>4, FS_AddElement
  <2>7. Cardinality(T \cup {x}) <= SharedCount(u, v, i + 1, j + 1)
    <3>1. IsFiniteSet(Shared(u, v, i + 1, j + 1))
      BY <1>1, <1>2
    <3> HIDE DEF T, x
    <3>2. QED
      BY <2>5, <3>1, FS_Subset DEF SharedCount
  <2>8. QED
    BY <2>6, <2>7 DEF SharedCount
<1>6. QED
  BY <1>1, <1>4, <1>5

LEMMA OverlapIsShared ==
  ASSUME NEW u \in Seq(Letter), NEW v \in Seq(Letter)
  PROVE  Overlap(u, v) = SharedCount(u, v, Len(u), Len(v))
<1>1. ASSUME NEW w \in Seq(Letter)
      PROVE  Numbered(w) = NumberedTo(w, Len(w))
  <2>1. Len(w) \in Nat /\ DOMAIN w = 1..Len(w)
    OBVIOUS
  <2>2. ASSUME NEW k \in 1..Len(w)
        PROVE  Occurrences(w[k], SubSeq(w, 1, k)) = Counted(w, w[k], k)
    <3> DEFINE p == SubSeq(w, 1, k)
               c == w[k]
    <3>1. k \in Nat /\ k <= Len(w)
      BY <2>1
    <3>2. DOMAIN p = 1..k /\ \A m \in 1..k : p[m] = w[m]
      BY <2>1, <3>1, SubSeqProperties
    <3> HIDE DEF p, c
    <3>3. {m \in DOMAIN p : p[m] = c} = {m \in 1..k : w[m] = c}
      BY <3>2
    <3>4. QED
      BY <3>3 DEF Occurrences, Counted, p, c
  <2>3. QED
    BY <2>1, <2>2 DEF Numbered, NumberedTo
<1>2. QED
  BY <1>1 DEF Overlap, SharedCount, Shared

-----------------------------------------------------------------------------
(* Edit distance                                                           *)

LEMMA LeastOf ==
  ASSUME NEW T, T \subseteq Nat, T # {}
  PROVE  Min(T) \in T /\ \A m \in T : Min(T) <= m
<1>1. \E n \in T : \A m \in T : n <= m
  BY LeastNumber
<1>2. QED
  BY <1>1, Zenon DEF Min

(* The cell of a table of distances, from the cells before it.             *)
Cell(u, v, d, i, j) ==
  IF i = 0 \/ j = 0 THEN i + j
  ELSE Min({d[<<i - 1, j>>] + 1, d[<<i, j - 1>>] + 1,
            d[<<i - 1, j - 1>>] + (IF u[i] = v[j] THEN 0 ELSE 1)}
           \cup (IF i > 1 /\ j > 1 /\ u[i] = v[j - 1] /\ u[i - 1] = v[j]
                 THEN {d[<<i - 2, j - 2>>] + 1} ELSE {}))

IsTable(u, v, d) ==
  d = [p \in (0..Len(u)) \X (0..Len(v)) |-> Cell(u, v, d, p[1], p[2])]

(* A table filled up to a diagonal. *)
FilledTo(u, v, d, s) ==
  \A i \in 0..Len(u), j \in 0..Len(v) : i + j <= s => d[<<i, j>>] = Cell(u, v, d, i, j)

(* A cell depends on those of earlier diagonals only.                      *)
LEMMA CellDepends ==
  ASSUME NEW u, NEW v, NEW d, NEW e, Len(u) \in Nat, Len(v) \in Nat,
         NEW i \in 0..Len(u), NEW j \in 0..Len(v),
         \A a \in 0..Len(u), b \in 0..Len(v) : a + b < i + j => d[<<a, b>>] = e[<<a, b>>]
  PROVE  Cell(u, v, d, i, j) = Cell(u, v, e, i, j)
<1>1. CASE i = 0 \/ j = 0
  BY <1>1 DEF Cell
<1>2. CASE i # 0 /\ j # 0
  <2>1. d[<<i - 1, j>>] = e[<<i - 1, j>>] /\ d[<<i, j - 1>>] = e[<<i, j - 1>>]
        /\ d[<<i - 1, j - 1>>] = e[<<i - 1, j - 1>>]
    <3>1. i - 1 \in 0..Len(u) /\ j - 1 \in 0..Len(v)
          /\ (i - 1) + j < i + j /\ i + (j - 1) < i + j /\ (i - 1) + (j - 1) < i + j
      BY <1>2
    <3>2. QED
      BY <3>1
  <2>2. i > 1 /\ j > 1 => d[<<i - 2, j - 2>>] = e[<<i - 2, j - 2>>]
    <3>1. i > 1 /\ j > 1 => i - 2 \in 0..Len(u) /\ j - 2 \in 0..Len(v)
                            /\ (i - 2) + (j - 2) < i + j
      OBVIOUS
    <3>2. QED
      BY <3>1
  <2>3. (IF i > 1 /\ j > 1 /\ u[i] = v[j - 1] /\ u[i - 1] = v[j]
         THEN {d[<<i - 2, j - 2>>] + 1} ELSE {})
        = (IF i > 1 /\ j > 1 /\ u[i] = v[j - 1] /\ u[i - 1] = v[j]
           THEN {e[<<i - 2, j - 2>>] + 1} ELSE {})
    BY <2>2
  <2>4. QED
    BY <2>1, <2>3, Zenon DEF Cell
<1>3. QED
  BY <1>1, <1>2

LEMMA FilledExists ==
  ASSUME NEW u, NEW v, Len(u) \in Nat, Len(v) \in Nat
  PROVE  \A s \in Nat : \E d : FilledTo(u, v, d, s)
<1> DEFINE S == {s \in Nat : \E d : FilledTo(u, v, d, s)}
           I == 0..Len(u)
           J == 0..Len(v)
<1>1. 0 \in S
  <2> DEFINE d == [p \in I \X J |-> 0]
  <2>1. ASSUME NEW i \in I, NEW j \in J, i + j <= 0
        PROVE  d[<<i, j>>] = Cell(u, v, d, i, j)
    <3>1. i = 0 /\ j = 0
      BY <2>1
    <3>2. d[<<i, j>>] = 0
      OBVIOUS
    <3> HIDE DEF d
    <3>3. QED
      BY <3>1, <3>2 DEF Cell
  <2> HIDE DEF d
  <2>2. FilledTo(u, v, d, 0)
    BY <2>1 DEF FilledTo
  <2>3. QED
    BY <2>2
<1>2. ASSUME NEW s \in Nat, s \in S
      PROVE  s + 1 \in S
  <2>1. PICK d : FilledTo(u, v, d, s)
    BY <1>2
  <2> DEFINE C(i, j) == Cell(u, v, d, i, j)
             e == [p \in I \X J |-> IF p[1] + p[2] <= s THEN d[p] ELSE C(p[1], p[2])]
  <2>2. \A i \in I, j \in J : e[<<i, j>>] = IF i + j <= s THEN d[<<i, j>>] ELSE C(i, j)
    <3> HIDE DEF C
    <3>1. QED
      OBVIOUS
  <2> HIDE DEF e
  <2>3. \A i \in I, j \in J : e[<<i, j>>] = C(i, j) \/ i + j <= s
    BY <2>2, Zenon
  <2>4. \A i \in I, j \in J : i + j <= s => e[<<i, j>>] = d[<<i, j>>] /\ d[<<i, j>>] = C(i, j)
    BY <2>1, <2>2 DEF FilledTo
  <2>5. ASSUME NEW i \in I, NEW j \in J, i + j <= s + 1
        PROVE  e[<<i, j>>] = Cell(u, v, e, i, j)
    <3>1. e[<<i, j>>] = Cell(u, v, d, i, j)
      BY <2>3, <2>4
    <3>2. \A a \in I, b \in J : a + b < i + j => d[<<a, b>>] = e[<<a, b>>]
      BY <2>4, <2>5
    <3>3. Cell(u, v, d, i, j) = Cell(u, v, e, i, j)
      BY <3>2, CellDepends
    <3>4. QED
      BY <3>1, <3>3
  <2>6. FilledTo(u, v, e, s + 1)
    BY <2>5 DEF FilledTo
  <2>7. QED
    BY <2>6
<1> HIDE DEF S
<1>3. \A s \in Nat : s \in S
  BY <1>1, <1>2, AllNumbers
<1>4. QED
  BY <1>3 DEF S

LEMMA DistanceTable ==
  ASSUME NEW u, NEW v, Len(u) \in Nat, Len(v) \in Nat
  PROVE  \E d : /\ Distance(u, v) = d[<<Len(u), Len(v)>>]
                /\ \A i \in 0..Len(u), j \in 0..Len(v) : d[<<i, j>>] = Cell(u, v, d, i, j)
<1> DEFINE I == 0..Len(u)
           J == 0..Len(v)
<1>1. PICK d : FilledTo(u, v, d, Len(u) + Len(v))
  <2>1. Len(u) + Len(v) \in Nat
    OBVIOUS
  <2>2. QED
    BY <2>1, FilledExists
<1>2. \A i \in I, j \in J : d[<<i, j>>] = Cell(u, v, d, i, j)
  <2>1. \A i \in I, j \in J : i + j <= Len(u) + Len(v)
    OBVIOUS
  <2>2. QED
    BY <1>1, <2>1, Zenon DEF FilledTo
<1> DEFINE e == [p \in I \X J |-> d[p]]
<1>3. \A i \in I, j \in J : e[<<i, j>>] = d[<<i, j>>]
  OBVIOUS
<1> HIDE DEF e
<1>4. \A i \in I, j \in J : Cell(u, v, d, i, j) = Cell(u, v, e, i, j)
  BY <1>3, CellDepends
<1>5. e = [p \in I \X J |-> Cell(u, v, e, p[1], p[2])]
  <2>1. \A p \in I \X J : e[p] = Cell(u, v, e, p[1], p[2])
    BY <1>2, <1>3, <1>4
  <2>2. e = [p \in I \X J |-> e[p]]
    BY DEF e
  <2>3. QED
    BY <2>1, <2>2
<1>6. IsTable(u, v, e)
  BY <1>5 DEF IsTable
<1> DEFINE f == CHOOSE f : IsTable(u, v, f)
<1>7. Distance(u, v) = f[<<Len(u), Len(v)>>]
  BY Zenon DEF Distance, IsTable, Cell
<1>8. IsTable(u, v, f)
  BY <1>6, Zenon
<1> HIDE DEF f
<1>9. \A i \in I, j \in J : f[<<i, j>>] = Cell(u, v, f, i, j)
  BY <1>8 DEF IsTable
<1>10. QED
  BY <1>7, <1>9

(* What a cell has at least: letters of either word that the other does    *)
(* not share are edited.                                                   *)
Edited(u, v, d, i, j) ==
  /\ d[<<i, j>>] \in Nat
  /\ d[<<i, j>>] + j >= i /\ d[<<i, j>>] + i >= j
  /\ SharedCount(u, v, i, j) + d[<<i, j>>] >= i
  /\ SharedCount(u, v, i, j) + d[<<i, j>>] >= j

LEMMA CellEdited ==
  ASSUME NEW u, NEW v, NEW d, NEW i \in Nat, NEW j \in Nat,
         d[<<i, j>>] = Cell(u, v, d, i, j),
         i # 0 /\ j # 0 => /\ Edited(u, v, d, i - 1, j)
                           /\ Edited(u, v, d, i, j - 1)
                           /\ Edited(u, v, d, i - 1, j - 1),
         i > 1 /\ j > 1 => Edited(u, v, d, i - 2, j - 2)
  PROVE  Edited(u, v, d, i, j)
<1> DEFINE D == d[<<i, j>>]
           n == SharedCount(u, v, i, j)
<1>0. n \in Nat
  BY SharedGrows
<1>1. CASE i = 0 \/ j = 0
  <2>1. D = i + j
    BY <1>1, Zenon DEF Cell
  <2> HIDE DEF D, n
  <2>2. D \in Nat /\ D + j >= i /\ D + i >= j /\ n + D >= i /\ n + D >= j
    BY <1>0, <2>1
  <2>3. QED
    BY <2>2 DEF D, n, Edited
<1>2. CASE i # 0 /\ j # 0
  <2> DEFINE a == d[<<i - 1, j>>]
             b == d[<<i, j - 1>>]
             c == d[<<i - 1, j - 1>>]
             e == d[<<i - 2, j - 2>>]
             na == SharedCount(u, v, i - 1, j)
             nb == SharedCount(u, v, i, j - 1)
             nc == SharedCount(u, v, i - 1, j - 1)
             ne == SharedCount(u, v, i - 2, j - 2)
             same == IF u[i] = v[j] THEN 0 ELSE 1
             swapped == i > 1 /\ j > 1 /\ u[i] = v[j - 1] /\ u[i - 1] = v[j]
             T == {a + 1, b + 1, c + same} \cup (IF swapped THEN {e + 1} ELSE {})
  <2>1. D = Min(T)
    BY <1>2, Zenon DEF Cell
  <2>2. /\ a \in Nat /\ a + j >= i - 1 /\ a + (i - 1) >= j
        /\ na + a >= i - 1 /\ na + a >= j
        /\ b \in Nat /\ b + (j - 1) >= i /\ b + i >= j - 1
        /\ nb + b >= i /\ nb + b >= j - 1
        /\ c \in Nat /\ c + (j - 1) >= i - 1 /\ c + (i - 1) >= j - 1
        /\ nc + c >= i - 1 /\ nc + c >= j - 1
    BY <1>2, Zenon DEF Edited
  <2>3. i > 1 /\ j > 1 => /\ e \in Nat /\ e + (j - 2) >= i - 2 /\ e + (i - 2) >= j - 2
                          /\ ne + e >= i - 2 /\ ne + e >= j - 2
    BY Zenon DEF Edited
  <2>4. /\ na \in Nat /\ na <= n /\ nb \in Nat /\ nb <= n
        /\ nc \in Nat /\ nc <= n /\ (u[i] = v[j] => nc + 1 <= n)
    <3>1. i - 1 \in Nat /\ j - 1 \in Nat /\ (i - 1) + 1 = i /\ (j - 1) + 1 = j
      BY <1>2
    <3>2. na \in Nat /\ na <= n
      <4>1. na \in Nat /\ na <= SharedCount(u, v, (i - 1) + 1, j)
        BY <3>1, SharedGrows
      <4>2. QED
        BY <3>1, <4>1
    <3>3. nb \in Nat /\ nb <= n
      <4>1. nb \in Nat /\ nb <= SharedCount(u, v, i, (j - 1) + 1)
        BY <3>1, SharedGrows
      <4>2. QED
        BY <3>1, <4>1
    <3>4. /\ nc \in Nat /\ nc <= na
          /\ u[i] = v[j] => nc + 1 <= n
      <4>1. /\ nc \in Nat /\ nc <= SharedCount(u, v, i - 1, (j - 1) + 1)
            /\ u[(i - 1) + 1] = v[(j - 1) + 1] =>
                 nc + 1 <= SharedCount(u, v, (i - 1) + 1, (j - 1) + 1)
        BY <3>1, SharedGrows
      <4>2. QED
        BY <3>1, <4>1
    <3> HIDE DEF n, na, nb, nc
    <3>5. QED
      BY <1>0, <3>2, <3>3, <3>4
  <2>5. swapped => ne \in Nat /\ ne + 1 <= n
    <3>1. SUFFICES ASSUME i > 1, j > 1, u[i] = v[j - 1]
                   PROVE  ne \in Nat /\ ne + 1 <= n
      OBVIOUS
    <3>2. /\ i - 1 \in Nat /\ j - 1 \in Nat /\ i - 2 \in Nat /\ j - 2 \in Nat
          /\ (i - 1) + 1 = i /\ (j - 1) + 1 = j /\ (i - 2) + 1 = i - 1 /\ (j - 2) + 1 = j - 1
      BY <3>1
    <3> DEFINE nf == SharedCount(u, v, i - 1, j - 2)
    <3>3. ne \in Nat /\ ne <= nf /\ nf \in Nat
      <4>1. ne \in Nat /\ ne <= SharedCount(u, v, (i - 2) + 1, j - 2)
        BY <3>2, SharedGrows
      <4>2. nf \in Nat
        BY <3>2, SharedGrows
      <4>3. QED
        BY <3>2, <4>1, <4>2
    <3>4. nf + 1 <= nb
      <4>1. u[(i - 1) + 1] = v[(j - 2) + 1] =>
              nf + 1 <= SharedCount(u, v, (i - 1) + 1, (j - 2) + 1)
        BY <3>2, SharedGrows
      <4>2. QED
        BY <3>1, <3>2, <4>1
    <3>5. nb \in Nat /\ nb <= n
      BY <2>4
    <3> HIDE DEF n, nb, ne, nf
    <3>6. QED
      BY <1>0, <3>3, <3>4, <3>5
  <2> HIDE DEF D, n, a, b, c, e, na, nb, nc, ne
  <2>6. T \subseteq Nat /\ T # {}
    BY <2>2, <2>3
  <2>7. D \in Nat /\ (D = a + 1 \/ D = b + 1 \/ D = c + same \/ (swapped /\ D = e + 1))
    <3>1. D \in T
      BY <2>1, <2>6, LeastOf
    <3>2. QED
      BY <2>6, <3>1
  <2>8. D + j >= i /\ D + i >= j /\ n + D >= i /\ n + D >= j
    <3>1. CASE D = a + 1
      BY <1>0, <2>2, <2>4, <3>1
    <3>2. CASE D = b + 1
      BY <1>0, <2>2, <2>4, <3>2
    <3>3. CASE D = c + same
      <4>1. CASE u[i] = v[j]
        BY <1>0, <2>2, <2>4, <3>3, <4>1
      <4>2. CASE u[i] # v[j]
        BY <1>0, <2>2, <2>4, <3>3, <4>2
      <4>3. QED
        BY <4>1, <4>2
    <3>4. CASE swapped /\ D = e + 1
      <4>1. /\ e \in Nat /\ e + (j - 2) >= i - 2 /\ e + (i - 2) >= j - 2
            /\ ne + e >= i - 2 /\ ne + e >= j - 2 /\ ne \in Nat /\ ne + 1 <= n /\ D = e + 1
        BY <2>3, <2>5, <3>4
      <4>2. QED
        BY <1>0, <4>1
    <3>5. QED
      BY <2>7, <3>1, <3>2, <3>3, <3>4
  <2>9. QED
    BY <2>7, <2>8 DEF D, n, Edited
<1>3. QED
  BY <1>1, <1>2

LEMMA TableEdited ==
  ASSUME NEW u, NEW v, NEW d, NEW m \in Nat, NEW n \in Nat,
         \A i \in 0..m, j \in 0..n : d[<<i, j>>] = Cell(u, v, d, i, j)
  PROVE  Edited(u, v, d, m, n)
<1> DEFINE S == {s \in Nat : \A i \in 0..m, j \in 0..n : i + j <= s => Edited(u, v, d, i, j)}
<1>1. 0 \in S
  <2>1. ASSUME NEW i \in 0..m, NEW j \in 0..n, i + j <= 0
        PROVE  Edited(u, v, d, i, j)
    <3>1. i = 0 /\ j = 0 /\ i \in Nat /\ j \in Nat
      BY <2>1
    <3>2. d[<<i, j>>] = Cell(u, v, d, i, j)
      OBVIOUS
    <3>3. ~(i # 0 /\ j # 0) /\ ~(i > 1 /\ j > 1)
      BY <3>1
    <3>4. QED
      BY <3>1, <3>2, <3>3, CellEdited
  <2>2. QED
    BY <2>1
<1>2. ASSUME NEW s \in Nat, s \in S
      PROVE  s + 1 \in S
  <2>1. ASSUME NEW i \in 0..m, NEW j \in 0..n, i + j <= s + 1
        PROVE  Edited(u, v, d, i, j)
    <3>0. i \in Nat /\ j \in Nat
      OBVIOUS
    <3>1. d[<<i, j>>] = Cell(u, v, d, i, j)
      OBVIOUS
    <3>2. \A a \in 0..m, b \in 0..n : a + b <= s => Edited(u, v, d, a, b)
      BY <1>2
    <3>3. i # 0 /\ j # 0 => /\ Edited(u, v, d, i - 1, j)
                            /\ Edited(u, v, d, i, j - 1)
                            /\ Edited(u, v, d, i - 1, j - 1)
      <4>1. i # 0 /\ j # 0 => /\ i - 1 \in 0..m /\ j - 1 \in 0..n
                              /\ (i - 1) + j <= s /\ i + (j - 1) <= s
                              /\ (i - 1) + (j - 1) <= s
        BY <2>1
      <4>2. QED
        BY <3>2, <4>1
    <3>4. i > 1 /\ j > 1 => Edited(u, v, d, i - 2, j - 2)
      <4>1. i > 1 /\ j > 1 => /\ i - 2 \in 0..m /\ j - 2 \in 0..n
                              /\ (i - 2) + (j - 2) <= s
        BY <2>1
      <4>2. QED
        BY <3>2, <4>1
    <3>5. QED
      BY <3>0, <3>1, <3>3, <3>4, CellEdited
  <2>2. QED
    BY <2>1
<1> HIDE DEF S
<1>3. \A s \in Nat : s \in S
  BY <1>1, <1>2, AllNumbers
<1>4. m + n \in S /\ m \in 0..m /\ n \in 0..n
  BY <1>3
<1>5. QED
  BY <1>4 DEF S

(* A distance is a number, no less than the difference of the lengths, and  *)
(* the letters that are not shared are no more than it.                    *)
LEMMA DistanceAtLeast ==
  ASSUME NEW u \in Seq(Letter), NEW v \in Seq(Letter)
  PROVE  /\ Distance(u, v) \in Nat /\ Overlap(u, v) \in Nat
         /\ Distance(u, v) + Len(v) >= Len(u) /\ Distance(u, v) + Len(u) >= Len(v)
         /\ Overlap(u, v) + Distance(u, v) >= Len(u)
         /\ Overlap(u, v) + Distance(u, v) >= Len(v)
<1>1. Len(u) \in Nat /\ Len(v) \in Nat
  OBVIOUS
<1>2. PICK d : /\ Distance(u, v) = d[<<Len(u), Len(v)>>]
               /\ \A i \in 0..Len(u), j \in 0..Len(v) : d[<<i, j>>] = Cell(u, v, d, i, j)
  BY <1>1, DistanceTable
<1>3. Edited(u, v, d, Len(u), Len(v))
  BY <1>1, <1>2, TableEdited
<1>4. SharedCount(u, v, Len(u), Len(v)) \in Nat
  BY <1>1, SharedGrows
<1>5. QED
  BY <1>2, <1>3, <1>4, OverlapIsShared DEF Edited

-----------------------------------------------------------------------------
(* Lowered words                                                           *)

(* The recursion of FlattenSeq has a solution. *)
IsFlat(seqs, f, k) ==
  f = [i \in 1..k |-> IF i = 1 THEN seqs[i] ELSE f[i - 1] \o seqs[i]]

LEMMA FlatExists ==
  ASSUME NEW seqs
  PROVE  \A k \in Nat : \E f : IsFlat(seqs, f, k)
<1> DEFINE S == {k \in Nat : \E f : IsFlat(seqs, f, k)}
<1>1. 0 \in S
  <2> DEFINE f == [i \in 1..0 |-> seqs[i]]
  <2>1. f = [i \in 1..0 |-> IF i = 1 THEN seqs[i] ELSE f[i - 1] \o seqs[i]]
    OBVIOUS
  <2>2. QED
    BY <2>1 DEF IsFlat
<1>2. ASSUME NEW k \in Nat, k \in S
      PROVE  k + 1 \in S
  <2>1. PICK f : IsFlat(seqs, f, k)
    BY <1>2
  <2>2. \A i \in 1..k : f[i] = IF i = 1 THEN seqs[i] ELSE f[i - 1] \o seqs[i]
    BY <2>1 DEF IsFlat
  <2> DEFINE g == [i \in 1..(k + 1) |-> IF i = k + 1
                                        THEN IF i = 1 THEN seqs[i] ELSE f[k] \o seqs[i]
                                        ELSE f[i]]
  <2>3. ASSUME NEW i \in 1..(k + 1)
        PROVE  g[i] = IF i = 1 THEN seqs[i] ELSE g[i - 1] \o seqs[i]
    <3>1. CASE i = k + 1
      <4>1. i # 1 => g[i - 1] = f[k]
        BY <3>1
      <4>2. QED
        BY <3>1, <4>1
    <3>2. CASE i \in 1..k
      <4>1. g[i] = f[i] /\ (i # 1 => g[i - 1] = f[i - 1])
        BY <3>2
      <4>2. QED
        BY <2>2, <3>2, <4>1
    <3>3. QED
      BY <3>1, <3>2
  <2>4. g = [i \in 1..(k + 1) |-> g[i]]
    OBVIOUS
  <2> HIDE DEF g
  <2>5. IsFlat(seqs, g, k + 1)
    BY <2>3, <2>4 DEF IsFlat
  <2>6. QED
    BY <2>5
<1> HIDE DEF S
<1>3. \A k \in Nat : k \in S
  BY <1>1, <1>2, AllNumbers
<1>4. QED
  BY <1>3 DEF S

LEMMA FlattenedLetters ==
  ASSUME NEW seqs \in Seq(Seq(Letter))
  PROVE  FlattenSeq(seqs) \in Seq(Letter)
<1> DEFINE n == Len(seqs)
<1>1. n \in Nat /\ \A i \in 1..n : seqs[i] \in Seq(Letter)
  OBVIOUS
<1>2. CASE n = 0
  <2>1. FlattenSeq(seqs) = seqs /\ seqs = <<>>
    BY <1>2, Zenon, EmptySeq DEF FlattenSeq
  <2>2. QED
    BY <2>1
<1>3. CASE n # 0
  <2> DEFINE f == CHOOSE g : IsFlat(seqs, g, n)
  <2>1. IsFlat(seqs, f, n)
    BY <1>1, FlatExists
  <2>2. FlattenSeq(seqs) = f[n]
    BY <1>3 DEF FlattenSeq, IsFlat
  <2> HIDE DEF f, n
  <2>3. \A i \in 1..n : f[i] = IF i = 1 THEN seqs[i] ELSE f[i - 1] \o seqs[i]
    BY <2>1 DEF IsFlat
  <2> DEFINE S == {k \in Nat : k \in 1..n => f[k] \in Seq(Letter)}
  <2>4. 0 \in S
    OBVIOUS
  <2>5. ASSUME NEW k \in Nat, k \in S, k + 1 \in 1..n
        PROVE  f[k + 1] \in Seq(Letter)
    <3>1. seqs[k + 1] \in Seq(Letter)
      BY <1>1, <2>5
    <3>2. CASE k = 0
      BY <2>3, <2>5, <3>1, <3>2
    <3>3. CASE k # 0
      <4>1. k \in 1..n /\ k + 1 # 1 /\ (k + 1) - 1 = k
        BY <1>1, <2>5, <3>3
      <4>2. f[k] \in Seq(Letter) /\ f[k + 1] = f[k] \o seqs[k + 1]
        BY <2>3, <2>5, <4>1
      <4>3. QED
        BY <3>1, <4>2
    <3>4. QED
      BY <3>2, <3>3
  <2>6. \A k \in Nat : k \in S => k + 1 \in S
    BY <2>5
  <2> HIDE DEF S
  <2>7. \A k \in Nat : k \in S
    BY <2>4, <2>6, AllNumbers
  <2>8. n \in 1..n /\ n \in Nat
    BY <1>1, <1>3
  <2>9. f[n] \in Seq(Letter)
    BY <2>7, <2>8 DEF S
  <2>10. QED
    BY <2>2, <2>9
<1>4. QED
  BY <1>2, <1>3

LEMMA LoweredType ==
  ASSUME NEW w \in Seq(Letter)
  PROVE  Lowered(w) \in Seq(Letter)
<1> DEFINE s == [i \in DOMAIN w |-> Lowercase[w[i]]]
<1>1. Len(w) \in Nat /\ DOMAIN w = 1..Len(w)
  OBVIOUS
<1>2. \A i \in 1..Len(w) : Lowercase[w[i]] \in Seq(Letter)
  <2>1. \A c \in Letter : Lowercase[c] \in Seq(Letter)
    BY LetterAssumption
  <2>2. QED
    BY <2>1, LettersAreNumbers
<1>3. s \in [1..Len(w) -> Seq(Letter)]
  BY <1>1, <1>2
<1>4. s \in Seq(Seq(Letter))
  BY <1>1, <1>3
<1>5. QED
  BY <1>4, FlattenedLetters DEF Lowered

-----------------------------------------------------------------------------
(* What the index keeps                                                    *)

LEMMA OfTwo ==
  ASSUME NEW m \in Nat, NEW n \in Nat
  PROVE  /\ Min({m, n}) = IF m <= n THEN m ELSE n
         /\ Max({m, n}) = IF m >= n THEN m ELSE n
<1>1. Min({m, n}) \in {m, n} /\ \A x \in {m, n} : Min({m, n}) <= x
  BY LeastOf
<1>2. \E x \in {m, n} : \A y \in {m, n} : x >= y
  OBVIOUS
<1>3. Max({m, n}) \in {m, n} /\ \A y \in {m, n} : Max({m, n}) >= y
  BY <1>2, Zenon DEF Max
<1>4. QED
  BY <1>1, <1>3

(* A word that is near has the length and the letters asked for.           *)
LEMMA NearIsPossible ==
  ASSUME NEW query \in Seq(Letter), NEW w \in Seq(Letter),
         NEW distance \in Nat, NEW scalars \in Nat,
         Len(w) <= scalars, Distance(query, w) <= distance
  PROVE  Possible(query, w, distance, scalars)
<1> DEFINE m == Len(query)
           n == Len(w)
           d == Distance(query, w)
           o == Overlap(query, w)
<1>1. m \in Nat /\ n \in Nat /\ d \in Nat /\ o \in Nat /\ n <= scalars /\ d <= distance
      /\ d + n >= m /\ d + m >= n /\ o + d >= m /\ o + d >= n
  <2>1. m \in Nat /\ n \in Nat
    OBVIOUS
  <2>2. /\ d \in Nat /\ o \in Nat /\ d + n >= m /\ d + m >= n
        /\ o + d >= m /\ o + d >= n
    BY DistanceAtLeast
  <2>3. QED
    BY <2>1, <2>2
<1>2. Min({m + distance, scalars}) = IF m + distance <= scalars THEN m + distance ELSE scalars
  BY <1>1, OfTwo
<1>3. Max({m, n}) = IF m >= n THEN m ELSE n
  BY <1>1, OfTwo
<1> HIDE DEF m, n, d, o
<1>4. n \in Saturating(m, distance)..Min({m + distance, scalars})
  BY <1>1, <1>2 DEF Saturating
<1>5. o >= Saturating(Max({m, n}), distance)
  BY <1>1, <1>3 DEF Saturating
<1>6. QED
  BY <1>4, <1>5 DEF Possible, m, n, o

LEMMA InOrderNames ==
  ASSUME NEW T, NEW words \in Seq(T), NEW P, P \subseteq DOMAIN words
  PROVE  /\ InOrder(words, P) \in Seq({words[p] : p \in P})
         /\ \A p \in P : \E k \in DOMAIN InOrder(words, P) : InOrder(words, P)[k] = words[p]
<1> DEFINE place == [k \in 1..Cardinality(P) |->
                       CHOOSE x \in P : Cardinality({y \in P : y < x}) = k - 1]
           s == [k \in DOMAIN place |-> words[place[k]]]
<1>1. InOrder(words, P) = s
  BY Zenon DEF InOrder, Arranged
<1>2. P \in SUBSET Nat /\ IsFiniteSet(P)
  <2>1. Len(words) \in Nat /\ DOMAIN words = 1..Len(words)
    OBVIOUS
  <2>2. IsFiniteSet(1..Len(words))
    BY <2>1, FS_Interval
  <2>3. QED
    BY <2>1, <2>2, FS_Subset
<1>3. IsArranged(P, Less(P), place)
  BY <1>2, NumbersArranged
<1> HIDE DEF place
<1>4. /\ place \in Seq(P) /\ DOMAIN place = 1..Len(place) /\ Len(place) \in Nat
      /\ \A p \in P : \E k \in DOMAIN place : place[k] = p
  BY <1>2, <1>3, LessIsOrder, ArrangedInOrder
<1>5. s \in Seq({words[p] : p \in P})
  <2>1. \A k \in DOMAIN place : place[k] \in P
    BY <1>4
  <2>2. s \in [1..Len(place) -> {words[p] : p \in P}]
    BY <1>4, <2>1
  <2>3. QED
    BY <1>4, <2>2
<1>6. \A p \in P : \E k \in DOMAIN s : s[k] = words[p]
  BY <1>4
<1> HIDE DEF s
<1>7. QED
  BY <1>1, <1>5, <1>6

Filed(words, scalars) == {i \in DOMAIN words : WithinLimit(words[i], scalars)}

LEMMA NewIndexHas ==
  ASSUME NEW words, NEW scalars, NEW x, x = NewIndex(words, scalars)
  PROVE  /\ x.words = words /\ x.scalars = scalars
         /\ \A i \in Filed(words, scalars) : x.lowered[i] = Lowered(words[i])
         /\ \A n \in 0..scalars :
              x.byLength[n] = {i \in Filed(words, scalars) : Len(Lowered(words[i])) = n}
         /\ \A c \in Letter :
              x.byLetter[c] = {i \in Filed(words, scalars) : c \in ToSet(Lowered(words[i]))}
<1> DEFINE F == Filed(words, scalars)
           lowered == [i \in F |-> Lowered(words[i])]
           length == [n \in 0..scalars |-> {i \in F : Len(lowered[i]) = n}]
           letter == [c \in Letter |-> {i \in F : c \in ToSet(lowered[i])}]
<1>1. x = [words |-> words, scalars |-> scalars, lowered |-> lowered,
           byLength |-> length, byLetter |-> letter]
  BY Zenon DEF NewIndex, Filed
<1>2. \A i \in F : lowered[i] = Lowered(words[i])
  OBVIOUS
<1> HIDE DEF F, lowered
<1>3. \A n \in 0..scalars : length[n] = {i \in F : Len(Lowered(words[i])) = n}
  BY <1>2
<1>4. \A c \in Letter : letter[c] = {i \in F : c \in ToSet(Lowered(words[i]))}
  BY <1>2
<1> HIDE DEF length, letter
<1>5. /\ x.words = words /\ x.scalars = scalars /\ x.lowered = lowered
      /\ x.byLength = length /\ x.byLetter = letter
  BY <1>1
<1>6. QED
  BY <1>2, <1>3, <1>4, <1>5 DEF F

(* Words with a letter in common.                                          *)
LEMMA SharedLetter ==
  ASSUME NEW u \in Seq(Letter), NEW v \in Seq(Letter), Overlap(u, v) > 0
  PROVE  \E c \in Letter : c \in ToSet(u) /\ c \in ToSet(v)
<1>1. Numbered(u) \cap Numbered(v) # {}
  <2>1. SUFFICES ASSUME Numbered(u) \cap Numbered(v) = {}
                 PROVE  FALSE
    OBVIOUS
  <2>2. Overlap(u, v) = 0
    BY <2>1, FS_EmptySet DEF Overlap
  <2>3. QED
    BY <2>2
<1>2. PICK x \in Numbered(u) : x \in Numbered(v)
  BY <1>1
<1>3. PICK i \in DOMAIN u : x = <<u[i], Occurrences(u[i], SubSeq(u, 1, i))>>
  BY <1>2 DEF Numbered
<1>4. PICK j \in DOMAIN v : x = <<v[j], Occurrences(v[j], SubSeq(v, 1, j))>>
  BY <1>2 DEF Numbered
<1>5. u[i] = v[j] /\ u[i] \in Letter
  BY <1>3, <1>4, LettersAreNumbers
<1>6. QED
  BY <1>5 DEF ToSet

(* The postings hold every place of a word that is near.                   *)
LEMMA NearIsPosted ==
  ASSUME NEW words \in Seq(Seq(Letter)), NEW built \in Nat,
         NEW x, x = NewIndex(words, built),
         NEW query \in Seq(Letter), NEW distance \in Nat, NEW scalars \in Nat,
         scalars <= built, NEW i \in DOMAIN words, WithinLimit(words[i], scalars),
         Distance(query, Lowered(words[i])) <= distance
  PROVE  i \in Filed(words, built) /\ i \in Posted(x, query, distance, scalars)
<1> DEFINE w == Lowered(words[i])
           m == Len(query)
           n == Len(w)
<1>1. words[i] \in Seq(Letter)
  OBVIOUS
<1>2. w \in Seq(Letter)
  BY <1>1, LoweredType
<1>3. m \in Nat /\ n \in Nat
  BY <1>2
<1>4. n <= scalars /\ n <= built
  BY <1>3 DEF WithinLimit
<1>5. i \in Filed(words, built)
  BY <1>4 DEF Filed, WithinLimit
<1> HIDE DEF w
<1>6. /\ Distance(query, w) \in Nat /\ Overlap(query, w) \in Nat
      /\ Distance(query, w) + m >= n /\ Overlap(query, w) + Distance(query, w) >= m
      /\ Distance(query, w) <= distance
  BY <1>2, DistanceAtLeast DEF w
<1>7. CASE distance >= m
  <2>1. n \in 0..Min({m + distance, scalars})
    <3>1. Min({m + distance, scalars}) = IF m + distance <= scalars THEN m + distance ELSE scalars
      BY <1>3, OfTwo
    <3> DEFINE d == Distance(query, w)
    <3>2. d \in Nat /\ d + m >= n /\ d <= distance
      BY <1>6
    <3> HIDE DEF m, n, d
    <3>3. n <= m + distance
      BY <1>3, <3>2
    <3>4. QED
      BY <1>3, <1>4, <3>1, <3>3
  <2>2. n \in 0..built
    BY <1>3, <1>4
  <2>3. x.byLength[n] = {j \in Filed(words, built) : Len(Lowered(words[j])) = n}
    BY <2>2, NewIndexHas
  <2>4. i \in x.byLength[n]
    BY <1>5, <2>3 DEF w
  <2>5. i \in Posted(x, query, distance, scalars)
    BY <1>7, <2>1, <2>4 DEF Posted
  <2>6. QED
    BY <1>5, <2>5
<1>8. CASE distance < m
  <2>1. Overlap(query, w) > 0
    BY <1>3, <1>6, <1>8
  <2>2. PICK c \in Letter : c \in ToSet(query) /\ c \in ToSet(w)
    BY <1>2, <2>1, SharedLetter
  <2>3. x.byLetter[c] = {j \in Filed(words, built) : c \in ToSet(Lowered(words[j]))}
    BY NewIndexHas
  <2>4. i \in x.byLetter[c]
    BY <1>5, <2>2, <2>3 DEF w
  <2>5. ~(distance >= m)
    BY <1>3, <1>8
  <2>6. i \in Posted(x, query, distance, scalars)
    BY <2>2, <2>4, <2>5 DEF Posted
  <2>7. QED
    BY <1>5, <2>6
<1>9. QED
  BY <1>3, <1>7, <1>8

LEMMA PostedInside ==
  ASSUME NEW words \in Seq(Seq(Letter)), NEW built \in Nat,
         NEW x, x = NewIndex(words, built),
         NEW query \in Seq(Letter), NEW distance \in Nat, NEW scalars \in Nat,
         scalars <= built
  PROVE  Posted(x, query, distance, scalars) \subseteq Filed(words, built)
<1>1. ASSUME NEW i, i \in Posted(x, query, distance, scalars)
      PROVE  i \in Filed(words, built)
  <2>1. CASE distance >= Len(query)
    <3>1. PICK n \in 0..Min({Len(query) + distance, scalars}) : i \in x.byLength[n]
      BY <1>1, <2>1 DEF Posted
    <3>2. n \in 0..built
      <4>1. Len(query) \in Nat /\ Len(query) + distance \in Nat
        OBVIOUS
      <4>2. Min({Len(query) + distance, scalars}) \in Nat
            /\ Min({Len(query) + distance, scalars}) <= scalars
        BY <4>1, OfTwo
      <4>3. QED
        BY <3>1, <4>2
    <3>3. x.byLength[n] \subseteq Filed(words, built)
      BY <3>2, NewIndexHas
    <3>4. QED
      BY <3>1, <3>3
  <2>2. CASE ~(distance >= Len(query))
    <3>1. PICK c \in ToSet(query) : i \in x.byLetter[c]
      BY <1>1, <2>2 DEF Posted
    <3>2. c \in Letter
      BY <3>1, LettersAreNumbers DEF ToSet
    <3>3. QED
      BY <3>1, <3>2, NewIndexHas
  <2>3. QED
    BY <2>1, <2>2
<1>2. QED
  BY <1>1

(* visit_nearby names every word that is near, whichever limit the index    *)
(* was built with, and only words of the dictionary.                       *)
Finds(found, words, query, distance, scalars) ==
  /\ found \in Seq(ToSet(words))
  /\ \A i \in DOMAIN words :
       WithinLimit(words[i], scalars) /\ Distance(query, Lowered(words[i])) <= distance
         => \E k \in DOMAIN found : found[k] = words[i]

LEMMA VisitFinds ==
  ASSUME NEW words \in Seq(Seq(Letter)), NEW built \in Nat,
         NEW query \in Seq(Letter), NEW distance \in Nat, NEW scalars \in Nat,
         Len(query) <= scalars
  PROVE  Finds(VisitNearby(NewIndex(words, built), query, distance, scalars), words, query,
               distance, scalars)
<1> DEFINE x == NewIndex(words, built)
           visited == VisitNearby(x, query, distance, scalars)
           Near1(i) == WithinLimit(words[i], scalars) /\ Distance(query, Lowered(words[i])) <= distance
<1>1. x.words = words /\ x.scalars = built
      /\ \A i \in Filed(words, built) : x.lowered[i] = Lowered(words[i])
  BY NewIndexHas
<1> HIDE DEF x
<1>2. ASSUME NEW i \in DOMAIN words, Near1(i)
      PROVE  Possible(query, Lowered(words[i]), distance, scalars)
  <2>1. words[i] \in Seq(Letter) /\ Lowered(words[i]) \in Seq(Letter)
    BY LoweredType
  <2>2. QED
    BY <1>2, <2>1, NearIsPossible DEF WithinLimit
<1>3. ASSUME NEW P, P \subseteq DOMAIN words, visited = InOrder(words, P),
             \A i \in DOMAIN words : Near1(i) => i \in P
      PROVE  /\ visited \in Seq(ToSet(words))
             /\ \A i \in DOMAIN words : Near1(i) => \E k \in DOMAIN visited : visited[k] = words[i]
  <2> HIDE DEF visited, Near1
  <2>1. /\ visited \in Seq({words[p] : p \in P})
        /\ \A p \in P : \E k \in DOMAIN visited : visited[k] = words[p]
    <3>1. /\ InOrder(words, P) \in Seq({words[p] : p \in P})
          /\ \A p \in P : \E k \in DOMAIN InOrder(words, P) : InOrder(words, P)[k] = words[p]
      BY <1>3, InOrderNames
    <3>2. QED
      BY <1>3, <3>1
  <2>2. {words[p] : p \in P} \subseteq ToSet(words)
    BY <1>3 DEF ToSet
  <2>3. visited \in Seq(ToSet(words))
    BY <2>1, <2>2
  <2>4. QED
    BY <1>3, <2>1, <2>3
<1>4. ASSUME scalars > built
      PROVE  /\ visited \in Seq(ToSet(words))
             /\ \A i \in DOMAIN words : Near1(i) => \E k \in DOMAIN visited : visited[k] = words[i]
  <2> DEFINE P == {i \in DOMAIN words : /\ WithinLimit(words[i], scalars)
                                        /\ Possible(query, Lowered(words[i]), distance, scalars)}
  <2>1. visited = InOrder(words, P)
    BY <1>1, <1>4 DEF VisitNearby, VisitLinear
  <2>2. \A i \in DOMAIN words : Near1(i) => i \in P
    BY <1>2
  <2>3. P \subseteq DOMAIN words
    OBVIOUS
  <2> HIDE DEF P, visited, Near1
  <2>4. QED
    BY <1>3, <2>1, <2>2, <2>3
<1>5. ASSUME scalars <= built
      PROVE  /\ visited \in Seq(ToSet(words))
             /\ \A i \in DOMAIN words : Near1(i) => \E k \in DOMAIN visited : visited[k] = words[i]
  <2> DEFINE P == {i \in Posted(x, query, distance, scalars) :
                     Possible(query, x.lowered[i], distance, scalars)}
  <2>1. visited = InOrder(words, P)
    BY <1>1, <1>5 DEF VisitNearby, VisitIndexed
  <2>2. ASSUME NEW i \in DOMAIN words, Near1(i)
        PROVE  i \in P
    <3>1. i \in Filed(words, built) /\ i \in Posted(x, query, distance, scalars)
      BY <1>5, <2>2, NearIsPosted DEF x
    <3>2. x.lowered[i] = Lowered(words[i])
      BY <1>1, <3>1
    <3>3. QED
      BY <1>2, <2>2, <3>1, <3>2
  <2>3. P \subseteq DOMAIN words
    BY <1>5, PostedInside DEF x, Filed
  <2>4. \A i \in DOMAIN words : Near1(i) => i \in P
    BY <2>2
  <2> HIDE DEF P, visited, Near1
  <2>5. QED
    BY <1>3, <2>1, <2>3, <2>4
<1>6. QED
  <2> HIDE DEF visited
  <2>1. Finds(visited, words, query, distance, scalars)
    BY <1>4, <1>5 DEF Finds, Near1
  <2>2. QED
    BY <2>1 DEF visited, x

-----------------------------------------------------------------------------
(* Suggestions in their order                                              *)

Suggestion == [word: Seq(Letter), distance: Nat, ranking: Nat, frequency: Nat \cup {NotYet}]

LEMMA FrequencyOrder ==
  ASSUME NEW f \in Nat \cup {NotYet}, NEW g \in Nat \cup {NotYet}, NEW h \in Nat \cup {NotYet}
  PROVE  /\ ~MoreFrequent(f, f)
         /\ MoreFrequent(f, g) /\ MoreFrequent(g, h) => MoreFrequent(f, h)
         /\ f # g => MoreFrequent(f, g) \/ MoreFrequent(g, f)
  BY DEF MoreFrequent

SameRank(s, t) == s.ranking = t.ranking /\ s.distance = t.distance

FirstOfRank(s, t) ==
  \/ MoreFrequent(s.frequency, t.frequency)
  \/ s.frequency = t.frequency /\ WordBefore(s.word, t.word)

LEMMA RanksBeforeParts ==
  ASSUME NEW s, NEW t
  PROVE  RanksBefore(s, t) <=> \/ s.ranking < t.ranking
                               \/ s.ranking = t.ranking /\ s.distance < t.distance
                               \/ SameRank(s, t) /\ FirstOfRank(s, t)
  BY DEF RanksBefore, SameRank, FirstOfRank

LEMMA FirstOfRankOrder ==
  ASSUME NEW s \in Suggestion, NEW t \in Suggestion, NEW u \in Suggestion
  PROVE  /\ ~FirstOfRank(s, s)
         /\ FirstOfRank(s, t) /\ FirstOfRank(t, u) => FirstOfRank(s, u)
         /\ SameRank(s, t) /\ s # t => FirstOfRank(s, t) \/ FirstOfRank(t, s)
<1>1. /\ s.word \in Seq(Letter) /\ t.word \in Seq(Letter) /\ u.word \in Seq(Letter)
      /\ s.frequency \in Nat \cup {NotYet} /\ t.frequency \in Nat \cup {NotYet}
      /\ u.frequency \in Nat \cup {NotYet}
  BY DEF Suggestion
<1>2. ~FirstOfRank(s, s)
  BY <1>1, FrequencyOrder, WordNotBeforeItself, Zenon DEF FirstOfRank
<1>3. ASSUME FirstOfRank(s, t), FirstOfRank(t, u)
      PROVE  FirstOfRank(s, u)
  <2>1. CASE MoreFrequent(s.frequency, t.frequency)
    <3>1. MoreFrequent(t.frequency, u.frequency) \/ t.frequency = u.frequency
      BY <1>3, Zenon DEF FirstOfRank
    <3>2. MoreFrequent(s.frequency, u.frequency)
      <4>1. CASE MoreFrequent(t.frequency, u.frequency)
        BY <1>1, <2>1, <4>1, FrequencyOrder, Zenon
      <4>2. CASE t.frequency = u.frequency
        BY <2>1, <4>2, Zenon
      <4>3. QED
        BY <3>1, <4>1, <4>2
    <3>3. QED
      BY <3>2, Zenon DEF FirstOfRank
  <2>2. CASE s.frequency = t.frequency /\ WordBefore(s.word, t.word)
    <3>1. CASE MoreFrequent(t.frequency, u.frequency)
      BY <2>2, <3>1, Zenon DEF FirstOfRank
    <3>2. CASE t.frequency = u.frequency /\ WordBefore(t.word, u.word)
      <4>1. s.frequency = u.frequency
        BY <2>2, <3>2, Zenon
      <4>2. WordBefore(s.word, u.word)
        BY <1>1, <2>2, <3>2, WordsTransitive, Zenon
      <4>3. QED
        BY <4>1, <4>2, Zenon DEF FirstOfRank
    <3>3. QED
      BY <1>3, <3>1, <3>2, Zenon DEF FirstOfRank
  <2>3. QED
    BY <1>3, <2>1, <2>2, Zenon DEF FirstOfRank
<1>4. ASSUME SameRank(s, t), s # t
      PROVE  FirstOfRank(s, t) \/ FirstOfRank(t, s)
  <2>1. s.frequency # t.frequency \/ s.word # t.word
    BY <1>4 DEF Suggestion, SameRank
  <2>2. CASE s.frequency # t.frequency
    BY <1>1, <2>2, FrequencyOrder, Zenon DEF FirstOfRank
  <2>3. CASE s.frequency = t.frequency /\ s.word # t.word
    <3>1. WordBefore(s.word, t.word) \/ WordBefore(t.word, s.word)
      BY <1>1, <2>3, WordsDiffer, Zenon
    <3>2. QED
      BY <2>3, <3>1, Zenon DEF FirstOfRank
  <2>4. QED
    BY <2>1, <2>2, <2>3
<1>5. QED
  BY <1>2, <1>3, <1>4

LEMMA RanksBeforeOrder ==
  ASSUME NEW s \in Suggestion, NEW t \in Suggestion, NEW u \in Suggestion
  PROVE  /\ ~RanksBefore(s, s)
         /\ RanksBefore(s, t) /\ RanksBefore(t, u) => RanksBefore(s, u)
         /\ s # t => RanksBefore(s, t) \/ RanksBefore(t, s)
<1> DEFINE a == s.ranking
           b == t.ranking
           c == u.ranking
           d == s.distance
           e == t.distance
           f == u.distance
<1>1. /\ a \in Nat /\ b \in Nat /\ c \in Nat /\ d \in Nat /\ e \in Nat /\ f \in Nat
  BY DEF Suggestion
<1>2. /\ RanksBefore(s, t) <=> a < b \/ (a = b /\ d < e) \/ (a = b /\ d = e /\ FirstOfRank(s, t))
      /\ RanksBefore(t, s) <=> b < a \/ (b = a /\ e < d) \/ (b = a /\ e = d /\ FirstOfRank(t, s))
      /\ RanksBefore(t, u) <=> b < c \/ (b = c /\ e < f) \/ (b = c /\ e = f /\ FirstOfRank(t, u))
      /\ RanksBefore(s, u) <=> a < c \/ (a = c /\ d < f) \/ (a = c /\ d = f /\ FirstOfRank(s, u))
      /\ RanksBefore(s, s) <=> a < a \/ (a = a /\ d < d) \/ (a = a /\ d = d /\ FirstOfRank(s, s))
  BY RanksBeforeParts, Zenon DEF SameRank
<1>3. /\ ~FirstOfRank(s, s)
      /\ FirstOfRank(s, t) /\ FirstOfRank(t, u) => FirstOfRank(s, u)
      /\ a = b /\ d = e /\ s # t => FirstOfRank(s, t) \/ FirstOfRank(t, s)
  BY FirstOfRankOrder, Zenon DEF SameRank
<1> HIDE DEF a, b, c, d, e, f
<1>4. ~RanksBefore(s, s)
  BY <1>1, <1>2, <1>3
<1>5. RanksBefore(s, t) /\ RanksBefore(t, u) => RanksBefore(s, u)
  BY <1>1, <1>2, <1>3
<1>6. s # t => RanksBefore(s, t) \/ RanksBefore(t, s)
  BY <1>1, <1>2, <1>3
<1>7. QED
  BY <1>4, <1>5, <1>6

Ranks(S) == {p \in S \X S : RanksBefore(p[1], p[2])}

LEMMA RanksIsOrder ==
  ASSUME NEW S, S \subseteq Suggestion
  PROVE  IsOrder(S, Ranks(S))
<1>1. \A x, y \in S : <<x, y>> \in Ranks(S) <=> RanksBefore(x, y)
  BY DEF Ranks
<1>2. \A x \in S : x \in Suggestion
  OBVIOUS
<1>3. \A x \in S : ~RanksBefore(x, x)
  BY <1>2, RanksBeforeOrder
<1>4. \A x, y, z \in S : RanksBefore(x, y) /\ RanksBefore(y, z) => RanksBefore(x, z)
  BY <1>2, RanksBeforeOrder
<1>5. \A x, y \in S : x # y => RanksBefore(x, y) \/ RanksBefore(y, x)
  BY <1>2, RanksBeforeOrder
<1>6. QED
  BY <1>1, <1>3, <1>4, <1>5 DEF IsOrder

LEMMA RanksArranged ==
  ASSUME NEW S, S \subseteq Suggestion, IsFiniteSet(S), NEW s, s = Arranged(S, RanksBefore)
  PROVE  IsArranged(S, Ranks(S), s)
<1> DEFINE n == Cardinality(S)
           Lower(x) == {y \in S : RanksBefore(y, x)}
           At(k) == CHOOSE x \in S : Cardinality(Lower(x)) = k - 1
<1>1. \A x \in S : Lower(x) = Below(S, Ranks(S), x)
  BY DEF Below, Ranks
<1>2. s = [k \in 1..n |-> At(k)]
  BY Zenon DEF Arranged
<1>3. ASSUME NEW k \in 1..n
      PROVE  At(k) \in S /\ Cardinality(Below(S, Ranks(S), At(k))) = k - 1
  <2>1. \E x \in S : Cardinality(Below(S, Ranks(S), x)) = k - 1
    BY RanksIsOrder, PlaceTaken
  <2> HIDE DEF Lower
  <2>2. \E x \in S : Cardinality(Lower(x)) = k - 1
    BY <1>1, <2>1, Zenon
  <2>3. At(k) \in S /\ Cardinality(Lower(At(k))) = k - 1
    BY <2>2, Zenon
  <2>4. QED
    BY <1>1, <2>3
<1> HIDE DEF At
<1>4. QED
  BY <1>2, <1>3 DEF IsArranged

(* A suggestion is the first of its word, or one that ranks before it is.  *)
LEMMA FirstOfWord ==
  ASSUME NEW found, found \subseteq Suggestion, IsFiniteSet(found), NEW s \in found
  PROVE  \E t \in Unrepeated(found) : t.word = s.word /\ t.ranking <= s.ranking
<1> DEFINE S == {t \in found : t.word = s.word}
<1>1. S \subseteq Suggestion /\ IsFiniteSet(S) /\ s \in S
  BY FS_Subset
<1>2. Cardinality(S) \in Nat /\ Cardinality(S) # 0
  BY <1>1, FS_CardinalityType, FS_EmptySet
<1>3. \A t \in found : t.word = s.word <=> t \in S
  OBVIOUS
<1> HIDE DEF S
<1>4. PICK t \in S : Cardinality(Below(S, Ranks(S), t)) = 0
  <2>1. 1 \in 1..Cardinality(S)
    BY <1>2
  <2>2. \E t \in S : Cardinality(Below(S, Ranks(S), t)) = 1 - 1
    BY <1>1, <2>1, RanksIsOrder, PlaceTaken
  <2>3. QED
    BY <2>2
<1>5. Below(S, Ranks(S), t) = {}
  <2>1. IsFiniteSet(Below(S, Ranks(S), t))
    BY <1>1, FS_Subset DEF Below
  <2>2. QED
    BY <1>4, <2>1, FS_EmptySet
<1>6. \A u \in S : ~RanksBefore(u, t)
  BY <1>5 DEF Below, Ranks
<1>7. t \in found /\ t.word = s.word /\ t \in Suggestion /\ s \in Suggestion
  BY <1>1, <1>3 DEF S
<1>8. t \in Unrepeated(found)
  BY <1>3, <1>6, <1>7 DEF Unrepeated
<1>9. t.ranking <= s.ranking
  <2>1. t.ranking \in Nat /\ s.ranking \in Nat
    BY <1>7 DEF Suggestion
  <2>2. ~(s.ranking < t.ranking)
    BY <1>1, <1>6, RanksBeforeParts
  <2>3. QED
    BY <2>1, <2>2
<1>10. QED
  BY <1>7, <1>8, <1>9

LEMMA CutKeeps ==
  ASSUME NEW S, NEW a \in Seq(S), NEW m \in Nat, m <= Len(a)
  PROVE  /\ SubSeq(a, 1, m) \in Seq(S) /\ Len(SubSeq(a, 1, m)) = m
         /\ DOMAIN SubSeq(a, 1, m) = 1..m
         /\ \A i \in 1..m : SubSeq(a, 1, m)[i] = a[i]
  OBVIOUS

LEMMA RankingOrder ==
  ASSUME NEW s \in Suggestion, NEW t \in Suggestion, RanksBefore(s, t)
  PROVE  s.ranking <= t.ranking
<1>1. s.ranking \in Nat /\ t.ranking \in Nat
  BY DEF Suggestion
<1>2. s.ranking < t.ranking \/ s.ranking = t.ranking
  BY RanksBeforeParts, Zenon DEF SameRank
<1>3. QED
  BY <1>1, <1>2

(* rank_suggestions and truncate keep a word, or are full of suggestions    *)
(* that rank before it.                                                    *)
LEMMA RankedKeeps ==
  ASSUME NEW found, found \subseteq Suggestion, IsFiniteSet(found), NEW results \in Nat
  PROVE  /\ Ranked(found, results) \in Seq(found)
         /\ \A s \in found :
              \/ \E i \in DOMAIN Ranked(found, results) : Ranked(found, results)[i].word = s.word
              \/ /\ Len(Ranked(found, results)) = results
                 /\ \A i \in DOMAIN Ranked(found, results) :
                      Ranked(found, results)[i].ranking <= s.ranking
<1>1. PICK S : S = Unrepeated(found)
  OBVIOUS
<1>2. PICK a : a = Arranged(S, RanksBefore)
  OBVIOUS
<1>3. PICK m : m = Min({results, Len(a)})
  OBVIOUS
<1>4. PICK r : r = SubSeq(a, 1, m)
  OBVIOUS
<1>5. Ranked(found, results) = r
  BY <1>1, <1>2, <1>3, <1>4, Zenon DEF Ranked, Truncated
<1>6. S \subseteq found /\ S \subseteq Suggestion /\ IsFiniteSet(S)
  <2>1. S \subseteq found
    BY <1>1 DEF Unrepeated
  <2>2. QED
    BY <2>1, FS_Subset
<1>7. IsArranged(S, Ranks(S), a)
  BY <1>2, <1>6, RanksArranged, Zenon
<1>8. /\ a \in Seq(S)
      /\ \A x \in S : \E k \in 1..Len(a) : a[k] = x
      /\ \A i, j \in 1..Len(a) : i < j => <<a[i], a[j]>> \in Ranks(S)
  <2>1. IsOrder(S, Ranks(S))
    BY <1>6, RanksIsOrder
  <2>2. PICK R : R = Ranks(S)
    OBVIOUS
  <2>3. IsOrder(S, R) /\ IsArranged(S, R, a)
    BY <1>7, <2>1, <2>2
  <2>4. /\ a \in Seq(S) /\ DOMAIN a = 1..Len(a)
        /\ \A x \in S : \E k \in DOMAIN a : a[k] = x
        /\ \A i, j \in DOMAIN a : i < j => <<a[i], a[j]>> \in R
    BY <1>6, <2>3, ArrangedInOrder
  <2>5. QED
    BY <2>2, <2>4
<1>9. Len(a) \in Nat
  BY <1>8
<1>10. m \in Nat /\ m <= Len(a) /\ (m < Len(a) => m = results)
  BY <1>3, <1>9, OfTwo
<1>11. r \in Seq(S) /\ Len(r) = m /\ DOMAIN r = 1..m /\ \A i \in 1..m : r[i] = a[i]
  BY <1>4, <1>8, <1>10, CutKeeps, Zenon
<1>12. ASSUME NEW s \in found, ~\E i \in DOMAIN r : r[i].word = s.word
       PROVE  Len(r) = results /\ \A i \in DOMAIN r : r[i].ranking <= s.ranking
  <2>1. PICK t \in S : t.word = s.word /\ t.ranking <= s.ranking
    BY <1>1, FirstOfWord, Zenon
  <2>2. PICK k \in 1..Len(a) : a[k] = t
    BY <1>8
  <2>3. k \notin 1..m
    BY <1>11, <1>12, <2>1, <2>2
  <2>4. m < k /\ m < Len(a) /\ m = results
    BY <1>9, <1>10, <2>3
  <2>5. ASSUME NEW i \in 1..m
        PROVE  r[i].ranking <= s.ranking
    <3>1. i \in 1..Len(a) /\ i < k
      BY <1>9, <1>10, <2>4
    <3>2. <<a[i], t>> \in Ranks(S)
      BY <1>8, <2>2, <3>1
    <3>3. RanksBefore(a[i], t)
      BY <3>2 DEF Ranks
    <3>4. a[i] \in Suggestion /\ t \in Suggestion /\ s \in Suggestion
      BY <1>6, <1>8, <3>1
    <3>5. a[i].ranking <= t.ranking
      BY <3>3, <3>4, RankingOrder
    <3>6. a[i].ranking \in Nat /\ t.ranking \in Nat /\ s.ranking \in Nat
      BY <3>4 DEF Suggestion
    <3>7. r[i] = a[i]
      BY <1>11
    <3>8. QED
      BY <2>1, <3>5, <3>6, <3>7
  <2>6. QED
    BY <1>11, <2>4, <2>5
<1>13. r \in Seq(found)
  <2>1. \A i \in 1..Len(r) : r[i] \in found
    BY <1>6, <1>11
  <2>2. QED
    BY <1>11, <2>1
<1>14. QED
  BY <1>5, <1>12, <1>13, Zenon

-----------------------------------------------------------------------------
(* What a candidate leads to                                               *)

Query == [word: Seq(Letter), distance: Nat, scalars: Nat, results: Nat]

LEMMA QueryType ==
  ASSUME NEW c \in Caller, NEW q \in Queries[c]
  PROVE  /\ q \in Query
         /\ q.word \in Seq(Letter) /\ q.distance \in Nat /\ q.scalars \in Nat
         /\ q.results \in Nat
<1>1. Queries[c] \subseteq Query
  BY SearchTypes DEF Query
<1>2. QED
  BY <1>1 DEF Query

LEMMA PresentedType ==
  ASSUME NEW word \in Seq(Letter), NEW query
  PROVE  Presented(word, query) \in Seq(Letter)
<1>1. \A c \in Letter : Uppercase[c] \in Seq(Letter)
  BY LetterAssumption
<1>2. FlattenSeq([i \in DOMAIN word |-> Uppercase[word[i]]]) \in Seq(Letter)
  <2> DEFINE s == [i \in DOMAIN word |-> Uppercase[word[i]]]
  <2>1. Len(word) \in Nat /\ DOMAIN word = 1..Len(word)
    OBVIOUS
  <2>2. \A i \in 1..Len(word) : Uppercase[word[i]] \in Seq(Letter)
    BY <1>1, LettersAreNumbers
  <2>3. s \in [1..Len(word) -> Seq(Letter)]
    BY <2>1, <2>2
  <2>4. s \in Seq(Seq(Letter))
    BY <2>1, <2>3
  <2>5. QED
    BY <2>4, FlattenedLetters
<1>3. word # <<>> => Uppercase[Head(word)] \o Lowered(Tail(word)) \in Seq(Letter)
  <2>1. SUFFICES ASSUME word # <<>>
                 PROVE  Uppercase[Head(word)] \o Lowered(Tail(word)) \in Seq(Letter)
    OBVIOUS
  <2>2. Head(word) \in Letter /\ Tail(word) \in Seq(Letter)
    BY <2>1, HeadTailProperties
  <2>3. Uppercase[Head(word)] \in Seq(Letter) /\ Lowered(Tail(word)) \in Seq(Letter)
    BY <1>1, <2>2, LoweredType
  <2>4. QED
    BY <2>3
<1>4. QED
  BY <1>2, <1>3, Zenon DEF Presented

Forms(word, query) == {word, Presented(word, query)}

LEMMA ShownForms ==
  ASSUME NEW word \in Seq(Letter), NEW query
  PROVE  Shown(word, query) \in Forms(word, query) /\ Forms(word, query) \subseteq Seq(Letter)
<1>1. Shown(word, query) \in Forms(word, query)
  BY Zenon DEF Shown, Forms
<1>2. QED
  BY <1>1, PresentedType DEF Forms

LEMMA FrequencyType ==
  ASSUME composition \in Compositions, NEW word
  PROVE  Frequency(word) \in Nat \cup {NotYet}
<1> DEFINE having == {l \in DOMAIN Layers : word \in DOMAIN Layers[l].frequency}
<1>1. CASE having = {}
  BY <1>1 DEF Frequency
<1>2. CASE having # {}
  <2>1. Layers \in Seq(ToSet(Layers)) /\ \A l \in DOMAIN Layers : IsLayer(Layers[l])
    BY SearchTypes DEF Layers
  <2>2. DOMAIN Layers \subseteq Nat
    BY <2>1
  <2>3. Min(having) \in having
    BY <1>2, <2>2, LeastOf
  <2>4. Layers[Min(having)].frequency[word] \in Nat
    BY <2>1, <2>3 DEF IsLayer
  <2>5. QED
    BY <1>2, <2>4 DEF Frequency
<1>3. QED
  BY <1>1, <1>2

LEMMA SuggestionsType ==
  ASSUME composition \in Compositions, NEW word \in Seq(Letter), NEW q \in Query
  PROVE  /\ SuggestionsFor(word, q) \subseteq Suggestion /\ IsFiniteSet(SuggestionsFor(word, q))
         /\ SuggestionsFor(word, q) # {} => Admitted(word)
         /\ \A s \in SuggestionsFor(word, q) :
              /\ s.word \in Forms(word, q.word)
              /\ s.ranking <= Distance(Lowered(q.word), Lowered(word))
<1> DEFINE query == Lowered(q.word)
           lowered == Lowered(word)
           far == Distance(query, lowered)
           distance == IF Replaced(query, lowered) THEN 0 ELSE far
           ranking == Ranking(query, lowered, distance)
           s == [word |-> Shown(word, q.word), distance |-> distance, ranking |-> ranking,
                 frequency |-> Frequency(word)]
<1>1. q.word \in Seq(Letter)
  BY DEF Query
<1>2. query \in Seq(Letter) /\ lowered \in Seq(Letter)
  BY <1>1, LoweredType
<1>3. far \in Nat
  BY <1>2, DistanceAtLeast
<1>4. distance \in Nat /\ distance <= far
  BY <1>3
<1>5. SuggestionsFor(word, q) = {} \/ (SuggestionsFor(word, q) = {s} /\ Admitted(word))
  BY Zenon DEF SuggestionsFor
<1> HIDE DEF query, lowered, far, distance
<1>6. ranking \in Nat /\ ranking <= far
  <2>1. ranking = 0 \/ ranking = distance
    BY Zenon DEF Ranking
  <2>2. QED
    BY <1>3, <1>4, <2>1
<1> HIDE DEF ranking
<1>7. s \in Suggestion /\ s.word \in Forms(word, q.word) /\ s.ranking <= far
  BY <1>4, <1>6, ShownForms, FrequencyType DEF Suggestion
<1> HIDE DEF s
<1>8. SuggestionsFor(word, q) = {} \/ SuggestionsFor(word, q) = {s}
  BY <1>5
<1>9. IsFiniteSet(SuggestionsFor(word, q))
  BY <1>8, FS_EmptySet, FS_Singleton
<1>10. SuggestionsFor(word, q) # {} => Admitted(word)
  BY <1>5
<1>11. QED
  BY <1>7, <1>8, <1>9, <1>10 DEF far, query, lowered

(* A word that is near and admitted leads to a suggestion.                 *)
Represented(word, q, found) ==
  \/ TitleCase(q.word) /\ q.word \in Forms(word, q.word)
  \/ \E s \in found : /\ s.word \in Forms(word, q.word)
                      /\ s.ranking <= Distance(Lowered(q.word), Lowered(word))

LEMMA NearIsRepresented ==
  ASSUME composition \in Compositions, NEW word \in Seq(Letter), NEW q \in Query,
         Near(word, q), Admitted(word)
  PROVE  Represented(word, q, SuggestionsFor(word, q))
<1> DEFINE query == Lowered(q.word)
           lowered == Lowered(word)
           far == Distance(query, lowered)
           distance == IF Replaced(query, lowered) THEN 0 ELSE far
<1>1. q.word \in Seq(Letter) /\ q.distance \in Nat
  BY DEF Query
<1>2. far \in Nat /\ far <= q.distance
  BY <1>1, LoweredType, DistanceAtLeast DEF Near
<1>3. ~(distance > q.distance)
  BY <1>1, <1>2
<1>4. WithinLimit(word, q.scalars)
  BY DEF Near
<1>5. CASE TitleCase(q.word) /\ Shown(word, q.word) = q.word
  BY <1>5, ShownForms DEF Represented
<1>6. CASE ~(TitleCase(q.word) /\ Shown(word, q.word) = q.word)
  <2>1. SuggestionsFor(word, q) # {}
    BY <1>3, <1>4, <1>6 DEF SuggestionsFor
  <2>2. PICK s \in SuggestionsFor(word, q) : TRUE
    BY <2>1
  <2>3. s.word \in Forms(word, q.word) /\ s.ranking <= Distance(Lowered(q.word), Lowered(word))
    BY SuggestionsType
  <2>4. QED
    BY <2>2, <2>3 DEF Represented
<1>7. QED
  BY <1>5, <1>6

-----------------------------------------------------------------------------
(* What a request has found so far, of layers, a query and the words the    *)
(* overlay had at every, or at some, time of it                            *)

(* AdmittedBy, which asks no overlay.                                      *)
Offers(layer, word) ==
  layer.kind = "hunspell" => /\ word \in (layer.words \ layer.hidden) \cup layer.derived
                             /\ word \notin layer.silent

LEMMA OffersIsAdmitted ==
  ASSUME NEW STATE layer, NEW word
  PROVE  AdmittedBy(layer, word) <=> Offers(layer, word)
  BY DEF AdmittedBy, Recognises, Offers

Told(always, layer) == IF layer.kind = "overlay" THEN always ELSE layer.words
Occurs(ever, layer) == IF layer.kind = "overlay" THEN ever ELSE layer.words \cup layer.derived

(* A word that the first n layers store and offer waits to be compared, or  *)
(* has led to a suggestion.                                                *)
Reached(layers, n, q, always, nearby, found) ==
  \A l \in DOMAIN layers : \A word \in Told(always, layers[l]) :
    l <= n /\ Enumerated(layers[l]) /\ Near(word, q) /\ Offers(layers[l], word)
      => word \in ToSet(nearby) \/ Represented(word, q, found)

Kept(layers, q, always, result) ==
  \A l \in DOMAIN layers : \A word \in Told(always, layers[l]) :
    Enumerated(layers[l]) /\ Near(word, q) /\ Offers(layers[l], word)
      => \/ ShownIn(result, word, q)
         \/ /\ Len(result) = q.results
            /\ \A i \in DOMAIN result :
                 result[i].ranking <= Distance(Lowered(q.word), Lowered(word))

(* A word some layer names; one it offers in a form that is shown.         *)
Named(layers, ever, word) ==
  \E l \in DOMAIN layers : Enumerated(layers[l]) /\ word \in Occurs(ever, layers[l])

Offered(layers, q, ever, shown) ==
  \E l \in DOMAIN layers : \E word \in Occurs(ever, layers[l]) :
    Enumerated(layers[l]) /\ Offers(layers[l], word) /\ shown \in Forms(word, q.word)

LEMMA RepresentedGrows ==
  ASSUME NEW word, NEW q, NEW found, NEW more, found \subseteq more, Represented(word, q, found)
  PROVE  Represented(word, q, more)
  BY DEF Represented

LEMMA AppendedSet ==
  ASSUME NEW T, NEW s \in Seq(T), NEW t \in Seq(T)
  PROVE  s \o t \in Seq(T) /\ ToSet(s \o t) = ToSet(s) \cup ToSet(t)
<1>1. s \o t \in Seq(T) /\ Len(s \o t) = Len(s) + Len(t)
  OBVIOUS
<1>2. \A i \in 1..Len(s) : (s \o t)[i] = s[i]
  OBVIOUS
<1>3. \A i \in 1..Len(t) : (s \o t)[Len(s) + i] = t[i]
  OBVIOUS
<1>4. /\ DOMAIN s = 1..Len(s) /\ DOMAIN t = 1..Len(t) /\ DOMAIN (s \o t) = 1..(Len(s) + Len(t))
      /\ Len(s) \in Nat /\ Len(t) \in Nat
  BY <1>1
<1>5. ToSet(s) \cup ToSet(t) \subseteq ToSet(s \o t)
  <2>1. \A i \in 1..Len(s) : i \in DOMAIN (s \o t)
    BY <1>4
  <2>2. \A i \in 1..Len(t) : Len(s) + i \in DOMAIN (s \o t)
    BY <1>4
  <2>3. ToSet(s) \subseteq ToSet(s \o t)
    BY <1>2, <1>4, <2>1 DEF ToSet
  <2>4. ToSet(t) \subseteq ToSet(s \o t)
    BY <1>3, <1>4, <2>2 DEF ToSet
  <2>5. QED
    BY <2>3, <2>4
<1>6. ToSet(s \o t) \subseteq ToSet(s) \cup ToSet(t)
  <2>1. ASSUME NEW i \in 1..(Len(s) + Len(t))
        PROVE  (s \o t)[i] \in ToSet(s) \cup ToSet(t)
    <3>1. CASE i <= Len(s)
      BY <1>2, <1>4, <3>1 DEF ToSet
    <3>2. CASE i > Len(s)
      <4>1. i - Len(s) \in 1..Len(t) /\ i = Len(s) + (i - Len(s))
        BY <1>4, <3>2
      <4>2. (s \o t)[i] = t[i - Len(s)]
        BY <1>3, <4>1
      <4>3. QED
        BY <1>4, <4>1, <4>2 DEF ToSet
    <3>3. QED
      BY <1>4, <3>1, <3>2
  <2>2. QED
    BY <1>4, <2>1 DEF ToSet
<1>7. QED
  BY <1>1, <1>5, <1>6

LEMMA TakenSet ==
  ASSUME NEW T, NEW s \in Seq(T), s # <<>>
  PROVE  /\ Head(s) \in T /\ Tail(s) \in Seq(T) /\ Head(s) \in ToSet(s)
         /\ ToSet(s) = {Head(s)} \cup ToSet(Tail(s))
<1>1. /\ DOMAIN s = 1..Len(s) /\ Len(s) \in Nat \ {0} /\ Head(s) = s[1] /\ Head(s) \in T
      /\ Tail(s) \in Seq(T) /\ Len(Tail(s)) = Len(s) - 1 /\ DOMAIN Tail(s) = 1..(Len(s) - 1)
  OBVIOUS
<1>2. \A i \in 1..(Len(s) - 1) : Tail(s)[i] = s[i + 1]
  OBVIOUS
<1>3. ASSUME NEW i \in 1..Len(s)
      PROVE  s[i] \in {Head(s)} \cup ToSet(Tail(s))
  <2>1. CASE i = 1
    BY <1>1, <2>1
  <2>2. CASE i # 1
    <3>1. i - 1 \in 1..(Len(s) - 1) /\ i = (i - 1) + 1
      BY <1>1, <2>2
    <3>2. Tail(s)[i - 1] = s[i]
      BY <1>2, <3>1
    <3>3. QED
      BY <1>1, <3>1, <3>2 DEF ToSet
  <2>3. QED
    BY <2>1, <2>2
<1>4. \A i \in 1..(Len(s) - 1) : s[i + 1] \in ToSet(s)
  BY <1>1 DEF ToSet
<1>5. Head(s) \in ToSet(s)
  BY <1>1 DEF ToSet
<1>6. ToSet(Tail(s)) \subseteq ToSet(s)
  BY <1>1, <1>2, <1>4 DEF ToSet
<1>7. ToSet(s) \subseteq {Head(s)} \cup ToSet(Tail(s))
  BY <1>1, <1>3 DEF ToSet
<1>8. QED
  BY <1>1, <1>5, <1>6, <1>7

LEMMA ReachedShrinks ==
  ASSUME NEW layers, NEW n, NEW q, NEW always, NEW less, less \subseteq always,
         NEW nearby, NEW found, Reached(layers, n, q, always, nearby, found)
  PROVE  Reached(layers, n, q, less, nearby, found)
  BY DEF Reached, Told

LEMMA KeptShrinks ==
  ASSUME NEW layers, NEW q, NEW always, NEW less, less \subseteq always,
         NEW result, Kept(layers, q, always, result)
  PROVE  Kept(layers, q, less, result)
  BY DEF Kept, Told

LEMMA OfferedGrows ==
  ASSUME NEW layers, NEW ever, NEW more, ever \subseteq more
  PROVE  /\ \A word : Named(layers, ever, word) => Named(layers, more, word)
         /\ \A q, shown : Offered(layers, q, ever, shown) => Offered(layers, q, more, shown)
  BY DEF Named, Offered, Occurs

(* The words of one more layer wait to be compared.                        *)
LEMMA ReachedNext ==
  ASSUME NEW layers, layers \in Seq(ToSet(layers)), NEW n \in Nat, NEW q, NEW always,
         NEW nearby \in Seq(Seq(Letter)), NEW more \in Seq(Seq(Letter)), NEW found,
         Reached(layers, n, q, always, nearby, found),
         \A word \in Told(always, layers[n + 1]) :
           Enumerated(layers[n + 1]) /\ Near(word, q) => word \in ToSet(more)
  PROVE  Reached(layers, n + 1, q, always, nearby \o more, found)
<1>1. ToSet(nearby \o more) = ToSet(nearby) \cup ToSet(more)
  BY AppendedSet
<1>2. \A l \in DOMAIN layers : l <= n + 1 => l <= n \/ l = n + 1
  BY LenProperties
<1>3. QED
  BY <1>1, <1>2, Zenon DEF Reached

(* A word is compared.                                                     *)
LEMMA ReachedCompared ==
  ASSUME NEW layers, NEW n, NEW q, NEW always, NEW nearby \in Seq(Seq(Letter)), nearby # <<>>,
         NEW found, NEW more, Reached(layers, n, q, always, nearby, found),
         \A l \in DOMAIN layers :
           /\ Head(nearby) \in Told(always, layers[l]) /\ Enumerated(layers[l])
           /\ Near(Head(nearby), q) /\ Offers(layers[l], Head(nearby))
           => Represented(Head(nearby), q, more)
  PROVE  Reached(layers, n, q, always, Tail(nearby), found \cup more)
<1>1. ToSet(nearby) = {Head(nearby)} \cup ToSet(Tail(nearby))
  BY TakenSet
<1>2. \A word : Represented(word, q, found) \/ Represented(word, q, more)
                => Represented(word, q, found \cup more)
  BY RepresentedGrows
<1>3. SUFFICES ASSUME NEW l \in DOMAIN layers, NEW word \in Told(always, layers[l]),
                      l <= n, Enumerated(layers[l]), Near(word, q), Offers(layers[l], word)
               PROVE  word \in ToSet(Tail(nearby)) \/ Represented(word, q, found \cup more)
  BY Zenon DEF Reached
<1>4. word \in ToSet(nearby) \/ Represented(word, q, found)
  BY <1>3 DEF Reached
<1>5. CASE word = Head(nearby)
  BY <1>2, <1>3, <1>5
<1>6. QED
  BY <1>1, <1>2, <1>4, <1>5

(* All were compared, and are ranked.                                      *)
LEMMA ReachedRanked ==
  ASSUME NEW layers, layers \in Seq(ToSet(layers)), NEW q \in Query, NEW always,
         \A l \in DOMAIN layers : Told(always, layers[l]) \subseteq Seq(Letter),
         NEW found, found \subseteq Suggestion, IsFiniteSet(found),
         Reached(layers, Len(layers), q, always, <<>>, found)
  PROVE  Kept(layers, q, always, Ranked(found, q.results))
<1> DEFINE result == Ranked(found, q.results)
<1>1. q.results \in Nat /\ q.word \in Seq(Letter)
  BY DEF Query
<1>2. /\ result \in Seq(found)
      /\ \A s \in found : \/ \E i \in DOMAIN result : result[i].word = s.word
                          \/ /\ Len(result) = q.results
                             /\ \A i \in DOMAIN result : result[i].ranking <= s.ranking
  BY <1>1, RankedKeeps
<1> HIDE DEF result
<1>3. SUFFICES ASSUME NEW l \in DOMAIN layers, NEW word \in Told(always, layers[l]),
                      Enumerated(layers[l]), Near(word, q), Offers(layers[l], word)
               PROVE  \/ ShownIn(result, word, q)
                      \/ /\ Len(result) = q.results
                         /\ \A i \in DOMAIN result :
                              result[i].ranking <= Distance(Lowered(q.word), Lowered(word))
  BY Zenon DEF Kept, result
<1>4. ToSet(<<>>) = {}
  BY DEF ToSet
<1>5. l <= Len(layers)
  BY LenProperties
<1>6. Represented(word, q, found)
  BY <1>3, <1>4, <1>5 DEF Reached
<1>7. CASE TitleCase(q.word) /\ q.word \in Forms(word, q.word)
  BY <1>7, Zenon DEF ShownIn, Forms
<1>8. CASE \E s \in found : /\ s.word \in Forms(word, q.word)
                            /\ s.ranking <= Distance(Lowered(q.word), Lowered(word))
  <2>1. PICK s \in found : /\ s.word \in Forms(word, q.word)
                           /\ s.ranking <= Distance(Lowered(q.word), Lowered(word))
    BY <1>8
  <2>2. CASE \E i \in DOMAIN result : result[i].word = s.word
    BY <2>1, <2>2, Zenon DEF ShownIn, Forms
  <2>3. CASE Len(result) = q.results /\ \A i \in DOMAIN result : result[i].ranking <= s.ranking
    <3>1. ASSUME NEW i \in DOMAIN result
          PROVE  result[i].ranking <= Distance(Lowered(q.word), Lowered(word))
      <4>1. result[i] \in Suggestion
        BY <1>2
      <4>2. result[i].ranking \in Nat /\ s.ranking \in Nat
        BY <4>1 DEF Suggestion
      <4>3. word \in Seq(Letter)
        BY <1>3
      <4>4. Distance(Lowered(q.word), Lowered(word)) \in Nat
        BY <1>1, <4>3, LoweredType, DistanceAtLeast
      <4>5. QED
        BY <2>1, <2>3, <4>2, <4>4
    <3>2. QED
      BY <2>3, <3>1
  <2>4. QED
    BY <1>2, <2>2, <2>3
<1>9. QED
  BY <1>6, <1>7, <1>8 DEF Represented

-----------------------------------------------------------------------------
(* The invariant of NothingLost                                            *)

CallRecord == [phase : {"idle", "visit", "done"}, query : Query \cup {NotYet}, layer : Nat,
          nearby : Seq(Seq(Letter)), found : SUBSET Suggestion, result : Seq(Suggestion)]

SearchTyped ==
  /\ composition \in Compositions
  /\ index \in [DOMAIN Layers -> Nat \cup {NotYet}]
  /\ IsWords(overlay)
  /\ call \in [Caller -> CallRecord]
  /\ seen \in [Caller -> [always : SUBSET Seq(Letter), ever : SUBSET Seq(Letter)]]

(* What a request knows of its query, and its history of the overlay.      *)
Asking(c) ==
  /\ IsFiniteSet(call[c].found)
  /\ call[c].phase # "idle" => call[c].query \in Query
  /\ call[c].phase = "visit" => /\ WithinLimit(call[c].query.word, call[c].query.scalars)
                                /\ call[c].layer <= Len(Layers)
  /\ seen[c].always \subseteq overlay
  /\ call[c].phase # "idle" => overlay \subseteq seen[c].ever

(* No word of the layers visited so far is lost.                           *)
Finding(c) ==
  /\ call[c].phase = "visit" =>
       Reached(Layers, call[c].layer, call[c].query, seen[c].always, call[c].nearby,
               call[c].found)
  /\ Answered(c) => Kept(Layers, call[c].query, seen[c].always, call[c].result)

SearchInv == SearchTyped /\ \A c \in Caller : Asking(c) /\ Finding(c)

LEMMA LayersType ==
  ASSUME composition \in Compositions
  PROVE  /\ Layers \in Seq(ToSet(Layers)) /\ Len(Layers) \in Nat
         /\ DOMAIN Layers = 1..Len(Layers)
         /\ \A l \in DOMAIN Layers : IsLayer(Layers[l])
<1>1. Layers \in Seq(ToSet(Layers)) /\ \A l \in DOMAIN Layers : IsLayer(Layers[l])
  BY SearchTypes DEF Layers
<1>2. QED
  BY <1>1

LEMMA CallType ==
  ASSUME SearchTyped, NEW c \in Caller
  PROVE  /\ call[c].phase \in {"idle", "visit", "done"} /\ call[c].layer \in Nat
         /\ call[c].nearby \in Seq(Seq(Letter)) /\ call[c].found \in SUBSET Suggestion
         /\ call[c].result \in Seq(Suggestion) /\ call[c] \in CallRecord
         /\ seen[c].always \subseteq Seq(Letter) /\ seen[c].ever \subseteq Seq(Letter)
         /\ DOMAIN call = Caller
<1>1. call[c] \in CallRecord /\ DOMAIN call = Caller
  BY DEF SearchTyped
<1>2. seen[c] \in [always : SUBSET Seq(Letter), ever : SUBSET Seq(Letter)]
  BY DEF SearchTyped
<1>3. QED
  BY <1>1, <1>2 DEF CallRecord

(* What visit_nearby_candidates of a layer names.                          *)
Gathered(l, q, built) ==
  LET words == Sorted(Stored(Layers[l])) IN
  IF Layers[l].kind \in {"words", "hunspell"}
  THEN VisitNearby(NewIndex(words, built), Lowered(q.word), q.distance, q.scalars)
  ELSE IF Enumerated(Layers[l]) THEN words ELSE <<>>

LEMMA GatheredWords ==
  ASSUME SearchTyped, NEW l \in DOMAIN Layers, NEW q \in Query,
         WithinLimit(q.word, q.scalars), NEW built \in Nat
  PROVE  /\ Gathered(l, q, built) \in Seq(Seq(Letter))
         /\ \A word \in ToSet(Gathered(l, q, built)) :
              Enumerated(Layers[l]) /\ word \in Stored(Layers[l])
         /\ \A word \in Stored(Layers[l]) :
              Enumerated(Layers[l]) /\ Near(word, q) => word \in ToSet(Gathered(l, q, built))
<1>1. PICK S : S = Stored(Layers[l])
  OBVIOUS
<1>2. IsWords(S)
  <2>1. IsWords(Layers[l].words) /\ IsWords(overlay)
    BY LayersType DEF SearchTyped, IsLayer
  <2>2. QED
    BY <1>1, <2>1, Zenon DEF Stored
<1>3. PICK words : words = Sorted(S)
  OBVIOUS
<1>4. /\ words \in Seq(S) /\ words \in Seq(Seq(Letter))
      /\ \A x \in S : \E k \in DOMAIN words : words[k] = x
  BY <1>2, <1>3, SortedNames
<1>5. ToSet(words) = S
  <2>1. \A k \in DOMAIN words : words[k] \in S
    BY <1>4
  <2>2. QED
    BY <1>4, <2>1 DEF ToSet
<1>6. /\ q.word \in Seq(Letter) /\ Lowered(q.word) \in Seq(Letter)
      /\ q.distance \in Nat /\ q.scalars \in Nat /\ Len(Lowered(q.word)) <= q.scalars
  BY LoweredType DEF Query, WithinLimit
<1>7. PICK g : g = Gathered(l, q, built)
  OBVIOUS
<1>8. CASE Layers[l].kind \in {"words", "hunspell"}
  <2>1. g = VisitNearby(NewIndex(words, built), Lowered(q.word), q.distance, q.scalars)
    BY <1>1, <1>3, <1>7, <1>8, Zenon DEF Gathered
  <2>2. /\ g \in Seq(ToSet(words))
        /\ \A i \in DOMAIN words :
             /\ WithinLimit(words[i], q.scalars)
             /\ Distance(Lowered(q.word), Lowered(words[i])) <= q.distance
             => \E k \in DOMAIN g : g[k] = words[i]
    <3>1. PICK query, d, n : query = Lowered(q.word) /\ d = q.distance /\ n = q.scalars
      OBVIOUS
    <3>2. /\ words \in Seq(Seq(Letter)) /\ built \in Nat /\ query \in Seq(Letter)
          /\ d \in Nat /\ n \in Nat /\ Len(query) <= n
      BY <1>4, <1>6, <3>1
    <3>3. g = VisitNearby(NewIndex(words, built), query, d, n)
      BY <2>1, <3>1
    <3>4. Finds(g, words, query, d, n)
      BY <3>2, <3>3, VisitFinds
    <3>5. QED
      BY <3>1, <3>4 DEF Finds
  <2>3. g \in Seq(S)
    BY <1>5, <2>2
  <2>4. g \in Seq(Seq(Letter)) /\ \A k \in DOMAIN g : g[k] \in S
    BY <1>2, <2>3 DEF IsWords
  <2>5. Enumerated(Layers[l])
    BY <1>8 DEF Enumerated
  <2>6. ASSUME NEW word \in S, Near(word, q)
        PROVE  word \in ToSet(g)
    <3>1. PICK i \in DOMAIN words : words[i] = word
      BY <1>4
    <3>2. \E k \in DOMAIN g : g[k] = word
      BY <2>2, <2>6, <3>1 DEF Near
    <3>3. QED
      BY <3>2 DEF ToSet
  <2>7. QED
    BY <1>1, <1>7, <2>4, <2>5, <2>6 DEF ToSet
<1>9. CASE Layers[l].kind \notin {"words", "hunspell"} /\ Enumerated(Layers[l])
  <2>1. g = words
    BY <1>1, <1>3, <1>7, <1>9, Zenon DEF Gathered
  <2>2. QED
    BY <1>1, <1>4, <1>5, <1>7, <1>9, <2>1
<1>10. CASE Layers[l].kind \notin {"words", "hunspell"} /\ ~Enumerated(Layers[l])
  <2>1. g = <<>>
    BY <1>7, <1>10, Zenon DEF Gathered
  <2>2. ToSet(g) = {} /\ g \in Seq(Seq(Letter))
    BY <2>1 DEF ToSet
  <2>3. QED
    BY <1>7, <1>10, <2>2
<1>11. QED
  BY <1>8, <1>9, <1>10

-----------------------------------------------------------------------------
(* Every step keeps the invariant                                          *)

LEMMA SearchInvInit == CallInit => SearchInv
<1> SUFFICES ASSUME CallInit PROVE SearchInv
  OBVIOUS
<1> USE DEF CallInit
<1>1. SearchTyped
  <2>1. Idle \in CallRecord
    BY DEF Idle, CallRecord
  <2>2. call \in [Caller -> CallRecord]
    BY <2>1
  <2>3. IsWords(overlay)
    BY SearchTypes
  <2>4. index \in [DOMAIN Layers -> Nat \cup {NotYet}]
    BY DEF Layers
  <2>5. QED
    BY <2>2, <2>3, <2>4 DEF SearchTyped
<1>2. ASSUME NEW c \in Caller
      PROVE  Asking(c) /\ Finding(c)
  <2>1. call[c].phase = "idle" /\ call[c].found = {} /\ seen[c].always = {}
    BY DEF Idle
  <2>2. QED
    BY <2>1, FS_EmptySet DEF Asking, Finding, Answered
<1>3. QED
  BY <1>1, <1>2 DEF SearchInv

(* A caller that does not move is not disturbed by one that does.           *)
LEMMA OthersStay ==
  ASSUME NEW d \in Caller, Asking(d), Finding(d), composition' = composition,
         overlay' = overlay, call'[d] = call[d], seen'[d] = seen[d]
  PROVE  Asking(d)' /\ Finding(d)'
<1>1. Layers' = Layers
  BY DEF Layers
<1>2. Asking(d)'
  BY <1>1 DEF Asking
<1>3. Answered(d)' => Answered(d)
  BY DEF Answered
<1>4. Finding(d)'
  BY <1>1, <1>3 DEF Finding
<1>5. QED
  BY <1>2, <1>4

LEMMA RequestFinds ==
  ASSUME SearchInv, NEW c \in Caller, NEW q \in Queries[c], Request(c, q)
  PROVE  SearchInv'
<1> USE DEF Request, shared
<1>1. SearchTyped /\ composition \in Compositions
  BY DEF SearchInv, SearchTyped
<1>2. q \in Query
  BY QueryType
<1> DEFINE new == [Idle EXCEPT !.query = q,
                     !.phase = IF WithinLimit(q.word, q.scalars) THEN "visit" ELSE "done"]
<1>3. /\ new.query = q /\ new.layer = 0 /\ new.nearby = <<>> /\ new.found = {}
      /\ new.result = <<>>
      /\ new.phase = IF WithinLimit(q.word, q.scalars) THEN "visit" ELSE "done"
      /\ new \in CallRecord
  <2>1. PICK p : p = IF WithinLimit(q.word, q.scalars) THEN "visit" ELSE "done"
    OBVIOUS
  <2>2. new = [phase |-> p, query |-> q, layer |-> 0, nearby |-> <<>>, found |-> {},
               result |-> <<>>]
    <3>1. new = [Idle EXCEPT !.query = q, !.phase = p]
      BY <2>1, Zenon
    <3> HIDE DEF new
    <3>2. QED
      BY <3>1 DEF Idle
  <2>3. p \in {"idle", "visit", "done"}
    BY <2>1
  <2> HIDE DEF new
  <2>4. new \in CallRecord
    BY <1>2, <2>2, <2>3 DEF CallRecord
  <2>5. QED
    BY <2>1, <2>2, <2>4
<1> HIDE DEF new
<1>4. /\ call' = [call EXCEPT ![c] = new] /\ composition' = composition /\ overlay' = overlay
      /\ index' = index /\ seen' = [seen EXCEPT ![c] = [always |-> overlay, ever |-> overlay]]
  BY DEF new
<1> DEFINE new2 == [always |-> overlay, ever |-> overlay]
<1>5. new2 \in [always : SUBSET Seq(Letter), ever : SUBSET Seq(Letter)]
  BY <1>1 DEF SearchTyped, IsWords
<1>6. Layers' = Layers
  BY <1>4 DEF Layers
<1>7. SearchTyped'
  <2>1. call' \in [Caller -> CallRecord]
    BY <1>1, <1>3, <1>4 DEF SearchTyped
  <2>2. seen' \in [Caller -> [always : SUBSET Seq(Letter), ever : SUBSET Seq(Letter)]]
    BY <1>1, <1>4, <1>5 DEF SearchTyped
  <2>3. QED
    BY <1>1, <1>4, <1>6, <2>1, <2>2 DEF SearchTyped
<1>8. Asking(c)' /\ Finding(c)'
  <2>1. call'[c] = new /\ seen'[c].always = overlay /\ seen'[c].ever = overlay
    BY <1>1, <1>4 DEF SearchTyped
  <2>2. IsFiniteSet(new.found) /\ 0 <= Len(Layers)
    BY <1>1, <1>3, FS_EmptySet, LayersType
  <2>3. Asking(c)'
    BY <1>2, <1>3, <1>4, <1>6, <2>1, <2>2 DEF Asking
  <2>4. ~Answered(c)'
    BY <1>3, <2>1 DEF Answered
  <2>5. \A l \in DOMAIN Layers : ~(l <= 0)
    BY <1>1, LayersType
  <2>6. Reached(Layers, 0, q, overlay, <<>>, {})
    BY <2>5 DEF Reached
  <2>7. QED
    BY <1>3, <1>6, <2>1, <2>3, <2>4, <2>6 DEF Finding
<1>9. ASSUME NEW d \in Caller, d # c
      PROVE  Asking(d)' /\ Finding(d)'
  <2>1. call'[d] = call[d] /\ seen'[d] = seen[d]
    BY <1>1, <1>4, <1>9 DEF SearchTyped
  <2>2. QED
    BY <1>4, <2>1, OthersStay DEF SearchInv
<1>10. QED
  BY <1>7, <1>8, <1>9 DEF SearchInv

(* What a step of one visiting caller changes.                             *)
LEMMA VisitorMoves ==
  ASSUME SearchInv, NEW c \in Caller, NEW new \in CallRecord,
         call' = [call EXCEPT ![c] = new], composition' = composition, overlay' = overlay,
         seen' = seen, index' \in [DOMAIN Layers -> Nat \cup {NotYet}],
         call[c].phase = "visit", new.query = call[c].query, new.phase \in {"visit", "done"},
         new.layer <= Len(Layers), IsFiniteSet(new.found),
         new.phase = "visit" => Reached(Layers, new.layer, new.query, seen[c].always,
                                        new.nearby, new.found),
         new.phase = "done" => Kept(Layers, new.query, seen[c].always, new.result)
  PROVE  SearchInv'
<1>1. SearchTyped /\ Asking(c)
  BY DEF SearchInv
<1>2. Layers' = Layers
  BY DEF Layers
<1>3. SearchTyped'
  <2>1. call' \in [Caller -> CallRecord]
    BY <1>1 DEF SearchTyped
  <2>2. QED
    BY <1>1, <1>2, <2>1 DEF SearchTyped
<1>4. call'[c] = new
  BY <1>1 DEF SearchTyped
<1>5. Asking(c)'
  BY <1>1, <1>2, <1>4 DEF Asking
<1>6. Finding(c)'
  BY <1>2, <1>4 DEF Finding, Answered
<1>7. ASSUME NEW d \in Caller, d # c
      PROVE  Asking(d)' /\ Finding(d)'
  <2>1. call'[d] = call[d] /\ seen'[d] = seen[d]
    BY <1>1, <1>7 DEF SearchTyped
  <2>2. QED
    BY <2>1, OthersStay DEF SearchInv
<1>8. QED
  BY <1>3, <1>5, <1>6, <1>7 DEF SearchInv

LEMMA ToldIsStored ==
  ASSUME NEW c \in Caller, Asking(c), NEW l \in DOMAIN Layers
  PROVE  Told(seen[c].always, Layers[l]) \subseteq Stored(Layers[l])
  BY DEF Told, Stored, Asking

LEMMA VisitLayerFinds ==
  ASSUME SearchInv, NEW c \in Caller, VisitLayer(c)
  PROVE  SearchInv'
<1>1. /\ SearchTyped /\ Asking(c) /\ Finding(c) /\ composition \in Compositions
      /\ call[c].phase = "visit" /\ call[c].layer + 1 \in DOMAIN Layers
  BY DEF SearchInv, SearchTyped, VisitLayer
<1>2. PICK q, l : q = call[c].query /\ l = call[c].layer + 1
  OBVIOUS
<1>3. PICK built : built = IF index[l] = NotYet THEN q.scalars ELSE index[l]
  OBVIOUS
<1>4. /\ q \in Query /\ WithinLimit(q.word, q.scalars) /\ l \in DOMAIN Layers
      /\ call[c].layer \in Nat /\ call[c].nearby \in Seq(Seq(Letter)) /\ call[c] \in CallRecord
  BY <1>1, <1>2, CallType DEF Asking
<1>5. built \in Nat
  <2>1. index[l] \in Nat \cup {NotYet} /\ q.scalars \in Nat
    BY <1>1, <1>4 DEF SearchTyped, Query
  <2>2. QED
    BY <1>3, <2>1
<1>6. PICK more : more = Gathered(l, q, built)
  OBVIOUS
<1>7. /\ more \in Seq(Seq(Letter))
      /\ \A word \in Stored(Layers[l]) :
           Enumerated(Layers[l]) /\ Near(word, q) => word \in ToSet(more)
  BY <1>1, <1>4, <1>5, <1>6, GatheredWords
<1>8. /\ call' = [call EXCEPT ![c].layer = l, ![c].nearby = @ \o more]
      /\ index' = IF Layers[l].kind \in {"words", "hunspell"}
                  THEN [index EXCEPT ![l] = built] ELSE index
      /\ composition' = composition /\ overlay' = overlay /\ seen' = seen
  BY <1>2, <1>3, <1>6, Zenon DEF VisitLayer, Gathered, shared
<1>9. PICK new : new = [call[c] EXCEPT !.layer = l, !.nearby = call[c].nearby \o more]
  OBVIOUS
<1>10. call' = [call EXCEPT ![c] = new]
  BY <1>1, <1>8, <1>9 DEF SearchTyped
<1>11. index' \in [DOMAIN Layers -> Nat \cup {NotYet}]
  BY <1>1, <1>5, <1>8 DEF SearchTyped
<1>12. /\ new.phase = "visit" /\ new.query = q /\ new.layer = l /\ new.found = call[c].found
       /\ new.nearby = call[c].nearby \o more /\ new \in CallRecord
  <2>1. l \in Nat /\ call[c].nearby \o more \in Seq(Seq(Letter))
    BY <1>2, <1>4, <1>7
  <2>2. QED
    BY <1>1, <1>2, <1>4, <1>9, <2>1 DEF CallRecord
<1>13. Reached(Layers, l, q, seen[c].always, new.nearby, new.found)
  <2>1. Reached(Layers, call[c].layer, q, seen[c].always, call[c].nearby, call[c].found)
    BY <1>1, <1>2 DEF Finding
  <2>2. \A word \in Told(seen[c].always, Layers[l]) :
          Enumerated(Layers[l]) /\ Near(word, q) => word \in ToSet(more)
    BY <1>1, <1>4, <1>7, ToldIsStored
  <2>3. Layers \in Seq(ToSet(Layers))
    BY <1>1, LayersType
  <2>4. PICK n \in Nat : n = call[c].layer
    BY <1>4
  <2>5. QED
    BY <1>2, <1>4, <1>7, <1>12, <2>1, <2>2, <2>3, <2>4, ReachedNext
<1>14. l <= Len(Layers) /\ IsFiniteSet(call[c].found)
  BY <1>1, <1>4, LayersType DEF Asking
<1>15. QED
  BY <1>1, <1>2, <1>8, <1>10, <1>11, <1>12, <1>13, <1>14, VisitorMoves

LEMMA OfferedIsAdmitted ==
  ASSUME SearchInv, NEW c \in Caller, NEW l \in DOMAIN Layers,
         NEW word \in Told(seen[c].always, Layers[l]),
         Enumerated(Layers[l]), Offers(Layers[l], word)
  PROVE  Admitted(word)
<1>1. word \in Stored(Layers[l])
  BY ToldIsStored DEF SearchInv
<1>2. AdmittedBy(Layers[l], word)
  BY DEF AdmittedBy, Recognises, Offers
<1>3. Recognises(Layers[l], word)
  BY <1>1 DEF Recognises, Offers
<1>4. QED
  BY <1>2, <1>3 DEF Admitted

LEMMA ConsiderFinds ==
  ASSUME SearchInv, NEW c \in Caller, Consider(c)
  PROVE  SearchInv'
<1>1. /\ SearchTyped /\ Asking(c) /\ Finding(c) /\ composition \in Compositions
      /\ call[c].phase = "visit" /\ call[c].nearby # <<>>
      /\ call[c].layer = Len(Layers)
  BY DEF SearchInv, SearchTyped, Consider
<1>2. PICK q, word, more : /\ q = call[c].query /\ word = Head(call[c].nearby)
                           /\ more = SuggestionsFor(word, q)
  OBVIOUS
<1>3. /\ q \in Query /\ call[c].nearby \in Seq(Seq(Letter)) /\ call[c] \in CallRecord
      /\ call[c].layer \in Nat /\ call[c].found \subseteq Suggestion /\ IsFiniteSet(call[c].found)
  BY <1>1, <1>2, CallType DEF Asking
<1>4. word \in Seq(Letter) /\ Tail(call[c].nearby) \in Seq(Seq(Letter))
  BY <1>1, <1>2, <1>3, TakenSet
<1>5. more \subseteq Suggestion /\ IsFiniteSet(more)
  BY <1>1, <1>2, <1>3, <1>4, SuggestionsType
<1>6. /\ call' = [call EXCEPT ![c].found = @ \cup more, ![c].nearby = Tail(@)]
      /\ composition' = composition /\ overlay' = overlay /\ seen' = seen /\ index' = index
  BY <1>2, Zenon DEF Consider, shared
<1>7. PICK new : new = [call[c] EXCEPT !.found = call[c].found \cup more,
                                        !.nearby = Tail(call[c].nearby)]
  OBVIOUS
<1>8. call' = [call EXCEPT ![c] = new]
  BY <1>1, <1>6, <1>7 DEF SearchTyped
<1>9. /\ new.phase = "visit" /\ new.query = q /\ new.layer = call[c].layer
      /\ new.found = call[c].found \cup more /\ new.nearby = Tail(call[c].nearby)
      /\ new \in CallRecord
  BY <1>1, <1>2, <1>3, <1>4, <1>5, <1>7 DEF CallRecord
<1>10. Reached(Layers, new.layer, q, seen[c].always, new.nearby, new.found)
  <2>1. Reached(Layers, call[c].layer, q, seen[c].always, call[c].nearby, call[c].found)
    BY <1>1, <1>2 DEF Finding
  <2>2. ASSUME NEW l \in DOMAIN Layers, word \in Told(seen[c].always, Layers[l]),
               Enumerated(Layers[l]), Near(word, q), Offers(Layers[l], word)
        PROVE  Represented(word, q, more)
    <3>1. Admitted(word)
      BY <2>2, OfferedIsAdmitted
    <3>2. QED
      BY <1>1, <1>2, <1>3, <1>4, <2>2, <3>1, NearIsRepresented
  <2>3. PICK s \in Seq(Seq(Letter)) : s = call[c].nearby
    BY <1>3
  <2>4. Reached(Layers, call[c].layer, q, seen[c].always, Tail(s), call[c].found \cup more)
    BY <1>1, <1>2, <2>1, <2>2, <2>3, ReachedCompared
  <2>5. QED
    BY <1>9, <2>3, <2>4
<1>11. IsFiniteSet(call[c].found \cup more)
  BY <1>3, <1>5, FS_Union
<1>12. index' \in [DOMAIN Layers -> Nat \cup {NotYet}] /\ call[c].layer <= Len(Layers)
  BY <1>1, <1>6 DEF SearchTyped, Asking
<1>13. QED
  <2>1. new.query = call[c].query /\ new.phase \in {"visit", "done"} /\ new.phase # "done"
    BY <1>2, <1>9
  <2>2. new.layer <= Len(Layers) /\ IsFiniteSet(new.found)
    BY <1>9, <1>11, <1>12
  <2>3. Reached(Layers, new.layer, new.query, seen[c].always, new.nearby, new.found)
    BY <1>9, <1>10
  <2>4. QED
    BY <1>1, <1>6, <1>8, <1>9, <1>12, <2>1, <2>2, <2>3, VisitorMoves

LEMMA RankFinds ==
  ASSUME SearchInv, NEW c \in Caller, Rank(c)
  PROVE  SearchInv'
<1>1. /\ SearchTyped /\ Asking(c) /\ Finding(c) /\ composition \in Compositions
      /\ call[c].phase = "visit" /\ call[c].nearby = <<>>
      /\ call[c].layer = Len(Layers)
  BY DEF SearchInv, SearchTyped, Rank
<1>2. PICK q, found, result : /\ q = call[c].query /\ found = call[c].found
                              /\ result = Ranked(found, q.results)
  OBVIOUS
<1>3. /\ q \in Query /\ q.results \in Nat /\ call[c] \in CallRecord
      /\ found \subseteq Suggestion /\ IsFiniteSet(found)
  BY <1>1, <1>2, CallType DEF Asking, Query
<1>4. result \in Seq(Suggestion)
  <2>1. result \in Seq(found)
    BY <1>2, <1>3, RankedKeeps
  <2>2. QED
    BY <1>3, <2>1
<1>5. /\ call' = [call EXCEPT ![c].phase = "done", ![c].result = result]
      /\ composition' = composition /\ overlay' = overlay /\ seen' = seen /\ index' = index
  BY <1>2, Zenon DEF Rank, shared
<1>6. PICK new : new = [call[c] EXCEPT !.phase = "done", !.result = result]
  OBVIOUS
<1>7. call' = [call EXCEPT ![c] = new]
  BY <1>1, <1>5, <1>6 DEF SearchTyped
<1>8. /\ new.phase = "done" /\ new.query = q /\ new.layer = Len(Layers)
      /\ new.found = found /\ new.result = result /\ new \in CallRecord
  BY <1>1, <1>2, <1>3, <1>4, <1>6 DEF CallRecord
<1>9. Kept(Layers, q, seen[c].always, result)
  <2>1. Reached(Layers, Len(Layers), q, seen[c].always, <<>>, found)
    BY <1>1, <1>2 DEF Finding
  <2>2. ASSUME NEW l \in DOMAIN Layers
        PROVE  Told(seen[c].always, Layers[l]) \subseteq Seq(Letter)
    <3>1. seen[c].always \subseteq Seq(Letter) /\ IsWords(Layers[l].words)
      BY <1>1, CallType, LayersType DEF IsLayer
    <3>2. QED
      BY <3>1 DEF Told, IsWords
  <2>3. Layers \in Seq(ToSet(Layers))
    BY <1>1, LayersType
  <2>4. QED
    BY <1>2, <1>3, <2>1, <2>2, <2>3, ReachedRanked
<1>10. QED
  <2>1. new.query = call[c].query /\ new.phase \in {"visit", "done"} /\ new.phase # "visit"
    BY <1>2, <1>8
  <2>2. new.layer <= Len(Layers) /\ IsFiniteSet(new.found)
    BY <1>1, <1>3, <1>8, LayersType
  <2>3. Kept(Layers, new.query, seen[c].always, new.result)
    BY <1>8, <1>9
  <2>4. index' \in [DOMAIN Layers -> Nat \cup {NotYet}]
    BY <1>1, <1>5 DEF SearchTyped
  <2>5. QED
    BY <1>1, <1>5, <1>7, <1>8, <2>1, <2>2, <2>3, <2>4, VisitorMoves

(* The overlay changes, and with it what may be depended on.               *)
LEMMA ChangeFinds ==
  ASSUME SearchInv, NEW words, IsWords(words), Change(words)
  PROVE  SearchInv'
<1>1. SearchTyped /\ composition \in Compositions
  BY DEF SearchInv, SearchTyped
<1>2. /\ overlay' = words /\ call' = call /\ composition' = composition /\ index' = index
      /\ seen' = [c \in Caller |-> [always |-> seen[c].always \cap words,
                                    ever |-> seen[c].ever \cup words]]
  BY DEF Change, shared
<1>3. Layers' = Layers
  BY <1>2 DEF Layers
<1>4. SearchTyped'
  <2>1. ASSUME NEW c \in Caller
        PROVE  seen[c].always \cap words \subseteq Seq(Letter)
               /\ seen[c].ever \cup words \subseteq Seq(Letter)
    BY <1>1, CallType DEF IsWords
  <2>2. seen' \in [Caller -> [always : SUBSET Seq(Letter), ever : SUBSET Seq(Letter)]]
    BY <1>2, <2>1
  <2>3. QED
    BY <1>1, <1>2, <1>3, <2>2 DEF SearchTyped
<1>5. ASSUME NEW c \in Caller
      PROVE  Asking(c)' /\ Finding(c)'
  <2>1. /\ seen'[c].always = seen[c].always \cap words
        /\ seen'[c].ever = seen[c].ever \cup words /\ call'[c] = call[c]
    BY <1>2
  <2>2. Asking(c) /\ Finding(c)
    BY DEF SearchInv
  <2>3. Asking(c)'
    BY <1>2, <1>3, <2>1, <2>2 DEF Asking
  <2>4. seen'[c].always \subseteq seen[c].always
    BY <2>1
  <2>5. call[c].phase = "visit" =>
          Reached(Layers, call[c].layer, call[c].query, seen'[c].always, call[c].nearby,
                  call[c].found)
    BY <2>2, <2>4, ReachedShrinks DEF Finding
  <2>6. Answered(c) => Kept(Layers, call[c].query, seen'[c].always, call[c].result)
    BY <2>2, <2>4, KeptShrinks DEF Finding
  <2>7. Answered(c)' => Answered(c)
    BY <2>1 DEF Answered
  <2>8. Finding(c)'
    BY <1>3, <2>1, <2>5, <2>6, <2>7 DEF Finding
  <2>9. QED
    BY <2>3, <2>8
<1>6. QED
  BY <1>4, <1>5 DEF SearchInv

LEMMA SearchInvStep == SearchInv /\ [CallNext]_callVars => SearchInv'
<1> SUFFICES ASSUME SearchInv, [CallNext]_callVars PROVE SearchInv'
  OBVIOUS
<1>1. ASSUME NEW c \in Caller, NEW q \in Queries[c], Request(c, q)
      PROVE  SearchInv'
  BY <1>1, RequestFinds
<1>2. ASSUME NEW c \in Caller, VisitLayer(c)
      PROVE  SearchInv'
  BY <1>2, VisitLayerFinds
<1>3. ASSUME NEW c \in Caller, Consider(c)
      PROVE  SearchInv'
  BY <1>3, ConsiderFinds
<1>4. ASSUME NEW c \in Caller, Rank(c)
      PROVE  SearchInv'
  BY <1>4, RankFinds
<1>5. ASSUME NEW word \in Inserted, InsertWord(word) \/ RemoveWord(word)
      PROVE  SearchInv'
  <2>1. IsWords(overlay) /\ word \in Seq(Letter)
    BY SearchTypes DEF SearchInv, SearchTyped
  <2>2. IsWords(overlay \cup {word}) /\ IsWords(overlay \ {word})
    <3>1. IsFiniteSet(overlay \cup {word}) /\ IsFiniteSet(overlay \ {word})
      BY <2>1, FS_AddElement, FS_RemoveElement DEF IsWords
    <3>2. QED
      BY <2>1, <3>1 DEF IsWords
  <2>3. QED
    BY <1>5, <2>2, ChangeFinds DEF InsertWord, RemoveWord
<1>6. CASE UNCHANGED callVars
  <2>1. /\ composition' = composition /\ index' = index /\ overlay' = overlay
        /\ call' = call /\ seen' = seen /\ Layers' = Layers
    BY <1>6 DEF callVars, Layers
  <2>2. SearchTyped'
    BY <2>1 DEF SearchInv, SearchTyped
  <2>3. ASSUME NEW c \in Caller
        PROVE  Asking(c)' /\ Finding(c)'
    BY <2>1, OthersStay DEF SearchInv
  <2>4. QED
    BY <2>2, <2>3 DEF SearchInv
<1>7. QED
  BY <1>1, <1>2, <1>3, <1>4, <1>5, <1>6 DEF CallNext

LEMMA SearchInvariant == CallSpec => []SearchInv
<1>1. CallInit => SearchInv
  BY SearchInvInit
<1>2. SearchInv /\ [CallNext]_callVars => SearchInv'
  BY SearchInvStep
<1>3. QED
  BY <1>1, <1>2, PTL DEF CallSpec

(* A word that a layer stores and offers during the whole request, and that *)
(* is near enough, is shown or left out for others that are at least as     *)
(* near: for every composition, index, query and change of the overlay.     *)
THEOREM NothingLostCorrect == CallSpec => []NothingLost
<1>1. SearchInv => NothingLost
  <2> SUFFICES ASSUME SearchInv PROVE NothingLost
    OBVIOUS
  <2>1. SUFFICES ASSUME NEW c \in Caller, Answered(c),
                        NEW l \in DOMAIN Layers, Enumerated(Layers[l]),
                        NEW word \in Dependable(c, Layers[l]),
                        Near(word, call[c].query), AdmittedBy(Layers[l], word)
                 PROVE  \/ ShownIn(call[c].result, word, call[c].query)
                        \/ /\ Len(call[c].result) = call[c].query.results
                           /\ \A i \in DOMAIN call[c].result :
                                call[c].result[i].ranking
                                  <= Distance(Lowered(call[c].query.word), Lowered(word))
    BY Zenon DEF NothingLost
  <2>2. Kept(Layers, call[c].query, seen[c].always, call[c].result)
    BY <2>1 DEF SearchInv, Finding
  <2>3. word \in Told(seen[c].always, Layers[l])
    BY <2>1 DEF Told, Dependable
  <2>4. Offers(Layers[l], word)
    BY <2>1 DEF AdmittedBy, Recognises, Offers
  <2>5. QED
    BY <2>1, <2>2, <2>3, <2>4, Zenon DEF Kept
<1>2. QED
  BY <1>1, SearchInvariant, PTL

-----------------------------------------------------------------------------
(* The invariant of PolicyKept: what waits is named by a layer, and what    *)
(* was found is offered by one.                                            *)

Offering(c) ==
  /\ call[c].phase = "visit" =>
       /\ \A word \in ToSet(call[c].nearby) : Named(Layers, seen[c].ever, word)
       /\ \A s \in call[c].found : Offered(Layers, call[c].query, seen[c].ever, s.word)
  /\ Answered(c) =>
       \A i \in DOMAIN call[c].result :
         Offered(Layers, call[c].query, seen[c].ever, call[c].result[i].word)

PolicyInv == \A c \in Caller : Offering(c)

LEMMA AdmittedIsOffered ==
  ASSUME PoliciesAlike, SearchInv, NEW c \in Caller, call[c].phase = "visit",
         NEW word, Named(Layers, seen[c].ever, word), Admitted(word),
         NEW q, NEW shown \in Forms(word, q.word)
  PROVE  Offered(Layers, q, seen[c].ever, shown)
<1>1. overlay \subseteq seen[c].ever /\ composition \in Compositions
  BY DEF SearchInv, SearchTyped, Asking
<1>2. PICK l \in DOMAIN Layers :
        /\ Enumerated(Layers[l]) /\ AdmittedBy(Layers[l], word)
        /\ composition.kind = "analysis" => Recognises(Layers[l], word)
  BY DEF Admitted
<1>3. Offers(Layers[l], word)
  BY <1>2 DEF AdmittedBy, Recognises, Offers
<1>4. CASE Recognises(Layers[l], word)
  <2>1. word \in Occurs(seen[c].ever, Layers[l])
    BY <1>1, <1>4 DEF Recognises, Stored, Occurs
  <2>2. QED
    BY <1>2, <1>3, <2>1 DEF Offered
<1>5. CASE ~Recognises(Layers[l], word)
  <2>1. composition.kind # "analysis" /\ Layers[l].kind # "hunspell"
    BY <1>2, <1>5 DEF AdmittedBy
  <2>2. PICK k \in DOMAIN Layers :
          Enumerated(Layers[k]) /\ word \in Occurs(seen[c].ever, Layers[k])
    BY DEF Named
  <2>3. Layers[k].kind # "hunspell"
    BY <1>1, <1>2, <2>1, <2>2 DEF PoliciesAlike, Layers
  <2>4. QED
    BY <2>2, <2>3 DEF Offered, Offers
<1>6. QED
  BY <1>4, <1>5

LEMMA OfferingStays ==
  ASSUME NEW c \in Caller, Offering(c), composition' = composition, call'[c] = call[c],
         seen[c].ever \subseteq seen'[c].ever
  PROVE  Offering(c)'
<1>1. Layers' = Layers
  BY DEF Layers
<1>2. Answered(c)' => Answered(c)
  BY DEF Answered
<1>3. /\ \A word : Named(Layers, seen[c].ever, word) => Named(Layers, seen'[c].ever, word)
      /\ \A q, shown : Offered(Layers, q, seen[c].ever, shown)
                       => Offered(Layers, q, seen'[c].ever, shown)
  BY OfferedGrows
<1>4. call[c].phase = "visit" =>
        /\ \A word \in ToSet(call[c].nearby) : Named(Layers, seen'[c].ever, word)
        /\ \A s \in call[c].found : Offered(Layers, call[c].query, seen'[c].ever, s.word)
  BY <1>3, Zenon DEF Offering
<1>5. Answered(c) =>
        \A i \in DOMAIN call[c].result :
          Offered(Layers, call[c].query, seen'[c].ever, call[c].result[i].word)
  BY <1>3, Zenon DEF Offering
<1>6. QED
  BY <1>1, <1>2, <1>4, <1>5 DEF Offering

LEMMA RequestOffers ==
  ASSUME SearchInv, NEW c \in Caller, NEW q \in Queries[c], Request(c, q)
  PROVE  Offering(c)'
<1>1. PICK p : p = IF WithinLimit(q.word, q.scalars) THEN "visit" ELSE "done"
  OBVIOUS
<1>2. PICK new : new = [Idle EXCEPT !.query = q, !.phase = p]
  OBVIOUS
<1>3. call' = [call EXCEPT ![c] = new]
  BY <1>1, <1>2, Zenon DEF Request
<1>4. call'[c] = new
  BY <1>3, CallType DEF SearchInv
<1>5. new.query = q /\ new.phase = p /\ new.nearby = <<>> /\ new.found = {}
  BY <1>2 DEF Idle
<1>6. ~Answered(c)'
  BY <1>1, <1>4, <1>5 DEF Answered
<1>7. ToSet(<<>>) = {}
  BY DEF ToSet
<1>8. QED
  BY <1>4, <1>5, <1>6, <1>7 DEF Offering

LEMMA VisitLayerOffers ==
  ASSUME SearchInv, NEW c \in Caller, Offering(c), VisitLayer(c)
  PROVE  Offering(c)'
<1>1. /\ SearchTyped /\ Asking(c) /\ composition \in Compositions
      /\ call[c].phase = "visit" /\ call[c].layer + 1 \in DOMAIN Layers
  BY DEF SearchInv, SearchTyped, VisitLayer
<1>2. PICK q, l : q = call[c].query /\ l = call[c].layer + 1
  OBVIOUS
<1>3. PICK built : built = IF index[l] = NotYet THEN q.scalars ELSE index[l]
  OBVIOUS
<1>4. /\ q \in Query /\ WithinLimit(q.word, q.scalars) /\ l \in DOMAIN Layers
      /\ call[c].nearby \in Seq(Seq(Letter)) /\ call[c] \in CallRecord
  BY <1>1, <1>2, CallType DEF Asking
<1>5. built \in Nat
  <2>1. index[l] \in Nat \cup {NotYet} /\ q.scalars \in Nat
    BY <1>1, <1>4 DEF SearchTyped, Query
  <2>2. QED
    BY <1>3, <2>1
<1>6. PICK more : more = Gathered(l, q, built)
  OBVIOUS
<1>7. /\ more \in Seq(Seq(Letter))
      /\ \A word \in ToSet(more) : Enumerated(Layers[l]) /\ word \in Stored(Layers[l])
  BY <1>1, <1>4, <1>5, <1>6, GatheredWords
<1>8. /\ call' = [call EXCEPT ![c].layer = l, ![c].nearby = @ \o more]
      /\ composition' = composition /\ seen' = seen
  BY <1>2, <1>3, <1>6, Zenon DEF VisitLayer, Gathered, shared
<1>9. /\ call'[c].phase = "visit" /\ call'[c].query = q /\ call'[c].found = call[c].found
      /\ call'[c].nearby = call[c].nearby \o more
  BY <1>1, <1>2, <1>8, CallType DEF CallRecord
<1>10. ToSet(call'[c].nearby) = ToSet(call[c].nearby) \cup ToSet(more)
  BY <1>4, <1>7, <1>9, AppendedSet
<1>11. ASSUME NEW word \in ToSet(more)
       PROVE  Named(Layers, seen[c].ever, word)
  <2>1. word \in Occurs(seen[c].ever, Layers[l])
    BY <1>1, <1>7 DEF Asking, Stored, Occurs
  <2>2. QED
    BY <1>4, <1>7, <2>1 DEF Named
<1>12. Layers' = Layers /\ ~Answered(c)'
  BY <1>8, <1>9 DEF Layers, Answered
<1>13. /\ \A word \in ToSet(call[c].nearby) : Named(Layers, seen[c].ever, word)
       /\ \A s \in call[c].found : Offered(Layers, q, seen[c].ever, s.word)
  BY <1>1, <1>2 DEF Offering
<1>14. QED
  BY <1>8, <1>9, <1>10, <1>11, <1>12, <1>13 DEF Offering

LEMMA ConsiderOffers ==
  ASSUME PoliciesAlike, SearchInv, NEW c \in Caller, Offering(c), Consider(c)
  PROVE  Offering(c)'
<1>1. /\ SearchTyped /\ Asking(c) /\ composition \in Compositions
      /\ call[c].phase = "visit" /\ call[c].nearby # <<>>
  BY DEF SearchInv, SearchTyped, Consider
<1>2. PICK q, word, more : /\ q = call[c].query /\ word = Head(call[c].nearby)
                           /\ more = SuggestionsFor(word, q)
  OBVIOUS
<1>3. q \in Query /\ call[c].nearby \in Seq(Seq(Letter)) /\ call[c] \in CallRecord
  BY <1>1, <1>2, CallType DEF Asking
<1>4. /\ word \in Seq(Letter) /\ word \in ToSet(call[c].nearby)
      /\ ToSet(Tail(call[c].nearby)) \subseteq ToSet(call[c].nearby)
  BY <1>1, <1>2, <1>3, TakenSet
<1>5. /\ call' = [call EXCEPT ![c].found = @ \cup more, ![c].nearby = Tail(@)]
      /\ composition' = composition /\ seen' = seen
  BY <1>2, Zenon DEF Consider, shared
<1>6. /\ call'[c].phase = "visit" /\ call'[c].query = q
      /\ call'[c].found = call[c].found \cup more /\ call'[c].nearby = Tail(call[c].nearby)
  BY <1>1, <1>2, <1>5, CallType DEF CallRecord
<1>7. /\ \A w \in ToSet(call[c].nearby) : Named(Layers, seen[c].ever, w)
      /\ \A s \in call[c].found : Offered(Layers, q, seen[c].ever, s.word)
  BY <1>1, <1>2 DEF Offering
<1>8. ASSUME NEW s \in more
      PROVE  Offered(Layers, q, seen[c].ever, s.word)
  <2>1. Admitted(word) /\ s.word \in Forms(word, q.word)
    BY <1>1, <1>2, <1>3, <1>4, SuggestionsType
  <2>2. Named(Layers, seen[c].ever, word)
    BY <1>4, <1>7
  <2>3. QED
    BY <1>1, <2>1, <2>2, AdmittedIsOffered
<1>9. Layers' = Layers /\ ~Answered(c)'
  BY <1>5, <1>6 DEF Layers, Answered
<1>10. QED
  BY <1>4, <1>5, <1>6, <1>7, <1>8, <1>9 DEF Offering

LEMMA RankOffers ==
  ASSUME SearchInv, NEW c \in Caller, Offering(c), Rank(c)
  PROVE  Offering(c)'
<1>1. /\ SearchTyped /\ Asking(c) /\ composition \in Compositions /\ call[c].phase = "visit"
  BY DEF SearchInv, SearchTyped, Rank
<1>2. PICK q, found, result : /\ q = call[c].query /\ found = call[c].found
                              /\ result = Ranked(found, q.results)
  OBVIOUS
<1>3. /\ q \in Query /\ q.results \in Nat /\ call[c] \in CallRecord
      /\ found \subseteq Suggestion /\ IsFiniteSet(found)
  BY <1>1, <1>2, CallType DEF Asking, Query
<1>4. result \in Seq(found)
  BY <1>2, <1>3, RankedKeeps
<1>5. /\ call' = [call EXCEPT ![c].phase = "done", ![c].result = result]
      /\ composition' = composition /\ seen' = seen
  BY <1>2, Zenon DEF Rank, shared
<1>6. call'[c].phase = "done" /\ call'[c].query = q /\ call'[c].result = result
  BY <1>1, <1>2, <1>5, CallType DEF CallRecord
<1>7. \A s \in found : Offered(Layers, q, seen[c].ever, s.word)
  BY <1>1, <1>2 DEF Offering
<1>8. \A i \in DOMAIN result : result[i] \in found
  BY <1>4
<1>9. Layers' = Layers
  BY <1>5 DEF Layers
<1>10. QED
  BY <1>5, <1>6, <1>7, <1>8, <1>9 DEF Offering

LEMMA PolicyInvStep ==
  ASSUME PoliciesAlike, SearchInv, PolicyInv, [CallNext]_callVars
  PROVE  PolicyInv'
<1>1. SearchTyped /\ DOMAIN call = Caller
  BY CallType DEF SearchInv, SearchTyped
<1>2. ASSUME NEW c \in Caller, NEW d \in Caller,
             \/ \E q \in Queries[c] : Request(c, q)
             \/ VisitLayer(c) \/ Consider(c) \/ Rank(c)
      PROVE  Offering(d)'
  <2>1. Offering(c) /\ Offering(d)
    BY DEF PolicyInv
  <2>2. CASE d = c
    BY <1>2, <2>1, <2>2, RequestOffers, VisitLayerOffers, ConsiderOffers, RankOffers
  <2>3. CASE d # c
    <3>1. call'[d] = call[d] /\ seen'[d] = seen[d] /\ composition' = composition
      <4>1. ASSUME NEW q \in Queries[c], Request(c, q)
            PROVE  call'[d] = call[d] /\ seen'[d] = seen[d] /\ composition' = composition
        BY <1>1, <2>3, <4>1 DEF Request, shared, SearchTyped
      <4>2. VisitLayer(c) =>
              call'[d] = call[d] /\ seen'[d] = seen[d] /\ composition' = composition
        BY <1>1, <2>3 DEF VisitLayer, shared, SearchTyped
      <4>3. Consider(c) \/ Rank(c) =>
              call'[d] = call[d] /\ seen'[d] = seen[d] /\ composition' = composition
        BY <1>1, <2>3 DEF Consider, Rank, shared, SearchTyped
      <4>4. QED
        BY <1>2, <4>1, <4>2, <4>3
    <3>2. QED
      BY <2>1, <3>1, OfferingStays
  <2>4. QED
    BY <2>2, <2>3
<1>3. ASSUME NEW word \in Inserted, InsertWord(word) \/ RemoveWord(word), NEW d \in Caller
      PROVE  Offering(d)'
  <2>1. PICK words : Change(words)
    BY <1>3 DEF InsertWord, RemoveWord
  <2>2. call' = call /\ composition' = composition /\ seen[d].ever \subseteq seen'[d].ever
    BY <2>1 DEF Change, shared
  <2>3. QED
    BY <2>2, OfferingStays DEF PolicyInv
<1>4. ASSUME UNCHANGED callVars, NEW d \in Caller
      PROVE  Offering(d)'
  BY <1>4, OfferingStays DEF PolicyInv, callVars
<1>5. QED
  BY <1>2, <1>3, <1>4 DEF CallNext, PolicyInv

(* Nothing is suggested but what a layer stores or derives, and offers,     *)
(* where the layers of a checker have a policy all, or none of them.        *)
THEOREM PolicyKeptCorrect ==
  ASSUME PoliciesAlike
  PROVE  CallSpec => []PolicyKept
<1>1. CallInit => PolicyInv
  BY DEF CallInit, Idle, PolicyInv, Offering, Answered
<1>2. SearchInv /\ PolicyInv /\ [CallNext]_callVars => PolicyInv'
  BY PolicyInvStep
<1>3. PolicyInv => PolicyKept
  <2> SUFFICES ASSUME PolicyInv, NEW c \in Caller, Answered(c),
                      NEW i \in DOMAIN call[c].result
               PROVE  \E l \in DOMAIN Layers : \E word \in Occurring(c, Layers[l]) :
                        /\ Enumerated(Layers[l]) /\ AdmittedBy(Layers[l], word)
                        /\ call[c].result[i].word \in {word, Presented(word, call[c].query.word)}
    BY Zenon DEF PolicyKept
  <2>1. Offered(Layers, call[c].query, seen[c].ever, call[c].result[i].word)
    BY DEF PolicyInv, Offering
  <2>2. PICK l \in DOMAIN Layers : \E word \in Occurs(seen[c].ever, Layers[l]) :
          /\ Enumerated(Layers[l]) /\ Offers(Layers[l], word)
          /\ call[c].result[i].word \in Forms(word, call[c].query.word)
    BY <2>1 DEF Offered
  <2>3. PICK word \in Occurs(seen[c].ever, Layers[l]) :
          /\ Enumerated(Layers[l]) /\ Offers(Layers[l], word)
          /\ call[c].result[i].word \in Forms(word, call[c].query.word)
    BY <2>2
  <2>4. word \in Occurring(c, Layers[l])
    BY <2>3 DEF Occurs, Occurring
  <2>5. AdmittedBy(Layers[l], word)
    BY <2>3 DEF AdmittedBy, Recognises, Offers
  <2>6. QED
    BY <2>3, <2>4, <2>5 DEF Forms
<1>4. QED
  BY <1>1, <1>2, <1>3, SearchInvariant, PTL DEF CallSpec
=============================================================================
