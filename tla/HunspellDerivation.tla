------------------------- MODULE HunspellDerivation -------------------------
(***************************************************************************)
(* The search behind an affixed word (crates/ferrolex-hunspell/src/lib.rs):*)
(* first backwards from the word, by every rule that could have been the   *)
(* last, to the entries it may come from; then forwards from each of those *)
(* entries, until the word is met or nothing is left to derive.            *)
(*                                                                         *)
(* Each half has its budget.  When the first is used up the word counts as *)
(* not derived; when the second is, the entry at hand does.  Both work on a*)
(* stack, so what is taken up is one of the deepest; which of those is left*)
(* open.                                                                   *)
(***************************************************************************)
EXTENDS HunspellLookup

CONSTANTS MaxReverseForms, MaxDerivedCandidates, MaxDerivations

ASSUME SearchBounds ==
  /\ MaxReverseForms \in Nat \ {0} /\ MaxDerivedCandidates \in Nat
  /\ MaxDerivations \in Nat /\ MaxAffixChain \in Nat

VARIABLES hunspell,     \* the dictionary asked
          word, keep,   \* the question: a spelling; whether KEEPCASE entries count
          stage,        \* "idle", "reverse", "entries", "derive", "answered"
          pending,      \* the spellings to take rules off yet, with their depth
          forms,        \* those met
          candidates,   \* the entries to derive from
          states,       \* the derivations of the entry at hand to take up yet
          derivations,  \* how many it has had
          answer,
          exhausted     \* a budget was used up (history)

searchVars == << hunspell, word, keep, stage, pending, forms, candidates,
                 states, derivations, answer, exhausted >>

Question == << hunspell, word, keep >>

SearchInit(d) ==
  /\ hunspell = d /\ word = <<>> /\ keep = TRUE /\ stage = "idle"
  /\ pending = {} /\ forms = {} /\ candidates = {} /\ states = {}
  /\ derivations = 0 /\ answer = FALSE /\ exhausted = FALSE

Ask(w, k) ==
  /\ stage = "idle"
  /\ word' = w /\ keep' = k
  /\ stage' = "reverse"
  /\ pending' = {[form |-> w, depth |-> 0]} /\ forms' = pending'
  /\ candidates' = {} /\ states' = {} /\ derivations' = 0
  /\ answer' = FALSE /\ exhausted' = FALSE
  /\ UNCHANGED hunspell

Answer(found) ==
  /\ stage' = "answered" /\ answer' = found
  /\ pending' = {} /\ forms' = {} /\ candidates' = {} /\ states' = {}

Stems(form) ==
  UNION {ReverseApply(r, form, hunspell.fullStrip) :
           r \in CandidateRules(hunspell.rules, form)}

TakeRulesOff ==
  /\ stage = "reverse"
  /\ \E f \in {x \in pending : \A y \in pending : y.depth <= x.depth} :
       LET stems == IF f.depth = MaxAffixChain THEN {} ELSE Stems(f.form)
           entries == candidates \cup {l \in hunspell.lexemes : l.stem \in stems}
           new == {[form |-> s, depth |-> f.depth + 1] : s \in stems} \ forms
       IN IF \/ Cardinality(entries) > MaxDerivedCandidates
             \/ Cardinality(forms \cup new) > MaxReverseForms
          THEN /\ Answer(FALSE) /\ exhausted' = TRUE
          ELSE /\ candidates' = entries
               /\ forms' = forms \cup new
               /\ pending' = (pending \ {f}) \cup new
               /\ UNCHANGED << stage, states, answer, exhausted >>
  /\ UNCHANGED << Question, derivations >>

AllRulesOff ==
  /\ stage = "reverse" /\ pending = {}
  /\ stage' = "entries"
  /\ UNCHANGED << Question, pending, forms, candidates, states, derivations,
                  answer, exhausted >>

(* Mutant: an entry that may not be used stays where it is. *)
UntakenUsable(l) == IF Usable(hunspell, l, keep) THEN candidates \ {l} ELSE candidates

Untaken(l) == candidates \ {l}

(* An entry that may not be used is passed over.                           *)
NextEntry ==
  /\ stage = "entries"
  /\ \E l \in candidates :
       /\ candidates' = Untaken(l)
       /\ IF Usable(hunspell, l, keep)
          THEN stage' = "derive" /\ states' = {NewForm(l)} /\ derivations' = 0
          ELSE UNCHANGED << stage, states, derivations >>
  /\ UNCHANGED << Question, pending, forms, answer, exhausted >>

NoEntryLeft ==
  /\ stage = "entries" /\ candidates = {}
  /\ Answer(FALSE)
  /\ UNCHANGED << Question, derivations, exhausted >>

Derives(s) == Depth(s) > 0 /\ s.form = word /\ AcceptedState(hunspell, s)

Derive ==
  /\ stage = "derive"
  /\ \E s \in {x \in states : \A y \in states : Depth(y) <= Depth(x)} :
       LET next == IF Depth(s) = MaxAffixChain THEN {} ELSE Successors(hunspell, s)
           made == derivations + Cardinality(next)
       IN \/ /\ Derives(s)
             /\ Answer(TRUE)
             /\ UNCHANGED << derivations, exhausted >>
          \/ /\ ~Derives(s) /\ made <= MaxDerivations
             /\ states' = (states \ {s}) \cup next
             /\ derivations' = made
             /\ UNCHANGED << stage, pending, forms, candidates, answer, exhausted >>
          \/ /\ ~Derives(s) /\ made > MaxDerivations
             /\ stage' = "entries" /\ states' = {} /\ exhausted' = TRUE
             /\ UNCHANGED << pending, forms, candidates, derivations, answer >>
  /\ UNCHANGED Question

EntryDone ==
  /\ stage = "derive" /\ states = {}
  /\ stage' = "entries"
  /\ UNCHANGED << Question, pending, forms, candidates, states, derivations,
                  answer, exhausted >>

(* contains keeps nothing of a question.                                   *)
Forget ==
  /\ stage = "answered" /\ stage' = "idle"
  /\ word' = <<>> /\ keep' = TRUE /\ derivations' = 0
  /\ answer' = FALSE /\ exhausted' = FALSE
  /\ UNCHANGED << hunspell, pending, forms, candidates, states >>

SearchStep ==
  \/ TakeRulesOff \/ AllRulesOff \/ NextEntry \/ NoEntryLeft \/ Derive \/ EntryDone

(* A dictionary that is asked one question after the other.                *)
SearchNext == (\E w, k : Ask(w, k)) \/ SearchStep \/ Forget

SearchSpec(d) == SearchInit(d) /\ [][SearchNext]_searchVars

-----------------------------------------------------------------------------
(* DerivedExact: the search finds a word only if some entry derives it and,*)
(* unless a budget was used up, whenever one does: no rule, condition or   *)
(* index of the way back may hide an entry that the way forth would reach. *)
(* (derived_candidate_indices, matches_derived_word)                       *)
DerivedExact ==
  stage = "answered" =>
    /\ answer => DerivedWord(hunspell, word, keep)
    /\ ~exhausted => (DerivedWord(hunspell, word, keep) => answer)

(* SearchBounded: MAX_AFFIX_CHAIN never cuts a derivation off, since the   *)
(* limits on prefixes and suffixes end it at four rules; and the states    *)
(* kept are no more than those paid for, so the budget bounds the memory.  *)
(* (matches_derived_word, can_apply, expand_matching_rules)                *)
SearchBounded ==
  /\ \A s \in states : Depth(s) <= 4
  /\ Cardinality(states) <= derivations + 1
  /\ derivations <= MaxDerivations
=============================================================================
