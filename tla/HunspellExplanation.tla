------------------------ MODULE HunspellExplanation ------------------------
(***************************************************************************)
(* Why a word was accepted or rejected: HunspellDictionary::explain,       *)
(* crates/ferrolex-hunspell/src/explanation.rs.  It is a second search,    *)
(* written beside the one of HunspellLookup, and keeps a trace.            *)
(*                                                                         *)
(* Each stage is the set of the explanations it may give: the code returns *)
(* the first in the order of the dictionary.  The bound on trace steps is  *)
(* left out: beyond it the stage that only repeats recognition answers.    *)
(***************************************************************************)
EXTENDS HunspellLookup

Because(kind, stem, trace) == [kind |-> kind, stem |-> stem, trace |-> trace]

Compatibility(path) == {Because("compatibility", <<>>, <<path>>)}

ExplainStem(d, w, keep) ==
  {Because("stem", l.stem, <<>>) : l \in
     {x \in LexemesFor(d, w) : AcceptsStem(d, x, keep)}}

ExplainSingleAffix(d, w, keep) ==
  {Because("affixed", p[2].stem, <<p[1].id>>) : p \in SingleAffixPairs(d, w, keep)}

(* Mutant: any chain that spells the word explains it. *)
ExplainDerivedAny(d, w, keep) ==
  UNION {{Because("affixed", l.stem, s.used) : s \in {x \in Chains(d, l) : x.form = w}} :
         l \in {x \in d.lexemes : Usable(d, x, keep)}}

ExplainDerived(d, w, keep) ==
  UNION {{Because("affixed", l.stem, s.used) : s \in
            {x \in Chains(d, l) : x.form = w /\ AcceptedState(d, x)}} :
         l \in {x \in d.lexemes : Usable(d, x, keep)}}

(* The ways to divide w into parts that carry the flags asked for: after   *)
(* so many parts, where they end and what they are.                        *)
Divisions(d, w, flags, keep) ==
  LET Longer(x, i) ==
        {[end |-> end, parts |-> Append(x.parts, SubSeq(w, x.end + 1, end))] : end \in
           {e \in x.end + d.compound.minimum..Len(w) :
              /\ BoundaryAllowed(d, w, x.end, e, FALSE)
              /\ \E l \in LexemesFor(d, SubSeq(w, x.end + 1, e)) :
                   /\ Usable(d, l, keep)
                   /\ i = Len(flags) \/ ~CompoundForbidden(d, l.flags)
                   /\ flags[i] \in l.flags}}
      divisions[i \in 0..Len(flags)] ==
        IF i = 0 THEN {[end |-> 0, parts |-> <<>>]}
        ELSE UNION {Longer(x, i) : x \in divisions[i - 1]}
  IN divisions

TraceComponents(d, w, flags, keep) ==
  {x.parts : x \in {y \in Divisions(d, w, flags, keep)[Len(flags)] : y.end = Len(w)}}

Uniform(flag, n) == [i \in 1..n |-> flag]

(* The counts the code gets to: it gives up the stage after the first that *)
(* cannot be continued.                                                    *)
CountsTried(d, w) ==
  {n \in 2..Len(w) : CountAllowed(d, w, n) /\ \A m \in 2..n - 1 : ~CannotContinue(d, m)}

TracedGeneric(d, w, keep) ==
  UNION {TraceComponents(d, w, Uniform(flag, n), keep) :
           flag \in d.compound.flag, n \in CountsTried(d, w)}

(* Unlike recognition this asks nothing of the number of components.       *)
TracedRules(d, w, keep) ==
  UNION {TraceComponents(d, w, pattern, keep) : pattern \in RulePatterns(d)}

TracedPositioned(d, w, keep) ==
  UNION {TraceComponents(d, w, <<first>> \o middle \o <<last>>, keep) :
           first \in d.compound.begin, last \in d.compound.end,
           middle \in UNION {IF n = 2 THEN {<<>>}
                             ELSE {Uniform(flag, n - 2) : flag \in d.compound.middle} :
                             n \in CountsTried(d, w)}}

GivesUpAfterGeneric(d, w) ==
  /\ d.compound.flag # {}
  /\ \E n \in 2..Len(w) : CountAllowed(d, w, n) /\ CannotContinue(d, n)

(* The first of the sets that has something in it.                         *)
FirstOf(sets) ==
  LET some == {n \in DOMAIN sets : sets[n] # {}}
  IN IF some = {} THEN {} ELSE sets[Min(some)]

ExplainCompound(d, w, keep) ==
  LET traced == << TracedGeneric(d, w, keep), TracedRules(d, w, keep),
                   TracedPositioned(d, w, keep) >>
      tried == IF GivesUpAfterGeneric(d, w) THEN 1 ELSE 3
  IN IF /\ HasCompounds(d)
        /\ ~(d.compound.checkReplacement /\ MatchesNoncompoundReplacement(d, w, keep))
        /\ Len(w) <= MaxCompoundScalars
     THEN {Because("compound", w, trace) :
             trace \in FirstOf([n \in 1..tried |-> traced[n]])}
     ELSE {}

(* Forms with a sharp s count here even for a folded spelling.             *)
ExplainNormalized(d, w, keep) ==
  FirstOf(<< ExplainStem(d, w, keep),
             ExplainSingleAffix(d, w, keep),
             ExplainDerived(d, w, keep),
             ExplainCompound(d, w, keep),
             IF MatchesWithoutBreak(d, w, keep) THEN Compatibility("lookup") ELSE {},
             IF MatchesBreakWord(d, w, keep) THEN Compatibility("break") ELSE {},
             IF w \in SharpForms(d) THEN Compatibility("sharps") ELSE {} >>)

RejectionReasons(d, w) ==
  LET Reason(l) == IF Forbidden(d, l.flags) THEN "forbidden"
                   ELSE IF RequiresAffix(d, l.flags) THEN "needs affix"
                   ELSE IF OnlyInCompound(d, l.flags) THEN "only in compound"
                   ELSE "none"
      reasons == {Reason(l) : l \in LexemesFor(d, w)} \ {"none"}
  IN IF reasons = {} THEN {"no derivation"} ELSE reasons

(* The explanations of an accepted word: the spelling they explain is the  *)
(* one looked up, or one of its folded forms.                              *)
Explanations(d, input) ==
  LET w == NormalizeInput(d, input)
      Of(asked, keep) == UNION {{[of |-> v, because |-> b] :
                                   b \in ExplainNormalized(d, v, keep)} : v \in asked}
  IN FirstOf(<< Of({w}, TRUE), Of(CaseFoldedCandidates(d, w), FALSE) >>)
=============================================================================
