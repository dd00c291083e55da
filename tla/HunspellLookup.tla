--------------------------- MODULE HunspellLookup --------------------------
(***************************************************************************)
(* What a Hunspell dictionary recognises: HunspellDictionary::contains and *)
(* the forms it offers the suggester, crates/ferrolex-hunspell/src/lib.rs. *)
(*                                                                         *)
(* DerivedWord is the relation the affix search looks for; the search and  *)
(* its budgets are HunspellDerivation.                                     *)
(***************************************************************************)
EXTENDS HunspellCompound

CONSTANTS MaxAffixChain, MaxCompoundSplits

--------------------------- (* derived words *) ----------------------------

(* The states that so many rules make of an entry.                         *)
Levels(d, l) ==
  LET level[n \in 0..MaxAffixChain] ==
        IF n = 0 THEN {NewForm(l)}
        ELSE UNION {Successors(d, s) : s \in level[n - 1]}
  IN level

(* Every form one entry derives, by whatever chain of rules.               *)
Chains(d, l) == LET level == Levels(d, l) IN UNION {level[n] : n \in 1..MaxAffixChain}

AcceptedState(d, s) ==
  /\ ~Forbidden(d, s.flags)
  /\ ~RequiresAffix(d, s.flags)
  /\ ~OnlyInCompound(d, s.origin) /\ ~OnlyInCompound(d, s.flags)
  /\ CompleteCircumfix(s)

DerivedWord(d, w, keep) ==
  \E l \in d.lexemes :
    /\ Usable(d, l, keep)
    /\ \E s \in Chains(d, l) : s.form = w /\ AcceptedState(d, s)

---------------------------- (* recognition *) -----------------------------

(* CHECKSHARPS: capitals of the entries with a sharp s that keep their case.*)
SharpForms(d) ==
  LET sharp == {l \in d.lexemes :
        /\ d.checkSharps
        /\ Carries(l.flags, d.keepCase)
        /\ "sharp" \in Range(l.stem)
        /\ ~Forbidden(d, l.flags)
        /\ ~RequiresAffix(d, l.flags)
        /\ ~OnlyInCompound(d, l.flags)}
  IN {InitialCase(l.stem, "default") : l \in sharp}
     \cup {Uppercase(l.stem, "default") : l \in sharp}

MatchesSingleAffixWord(d, w, keep) == SingleAffixPairs(d, w, keep) # {}

MatchesWithoutBreak(d, w, keep) ==
  \/ \E l \in LexemesFor(d, w) : AcceptsStem(d, l, keep)
  \/ MatchesSingleAffixWord(d, w, keep)
  \/ DerivedWord(d, w, keep)
  \/ MatchesSimpleCompound(d, w, keep)
  \/ keep /\ w \in SharpForms(d)

(* BREAK: a mark may be taken off an end, or divide the word in two.       *)
BreakParts(d, w) ==
  LET At(p) == IF p.atStart THEN {{rest} : rest \in Without(w, p.text, "prefix")}
               ELSE IF p.atEnd THEN {{rest} : rest \in Without(w, p.text, "suffix")}
               ELSE {{SubSeq(w, 1, i - 1), SubSeq(w, i + Len(p.text), Len(w))} :
                       i \in Occurrences(w, p.text)}
  IN {parts \in UNION {At(p) : p \in Range(d.breaks)} :
        <<>> \notin parts /\ Len(w) <= MaxCompoundScalars}

MatchesBreakWord(d, w, keep) ==
  \E parts \in BreakParts(d, w) : \A part \in parts : MatchesWithoutBreak(d, part, keep)

ContainsNormalized(d, w, keep) ==
  \E parts \in {{w}} \cup BreakParts(d, w) :
    \A part \in parts : MatchesWithoutBreak(d, part, keep)

CaseFoldedCandidates(d, w) ==
  LET lower == Lowercase(w, d.language)
      pattern == CasePattern(w, d.language)
      folded == IF pattern = "initial" THEN {lower}
                ELSE IF pattern = "upper"
                THEN {lower, InitialCase(w, d.language)}
                ELSE {}
  IN IF d.caseFallback THEN folded \ {w} ELSE {}

ContainsWord(d, input) ==
  LET w == NormalizeInput(d, input)
  IN \E q \in {<< w, TRUE >>} \cup (CaseFoldedCandidates(d, w) \X {FALSE}) :
       ContainsNormalized(d, q[1], q[2])

------------------------- (* suggestion forms *) ---------------------------

IsSuggestableStem(d, stem) ==
  /\ ContainsWord(d, stem)
  /\ LexemesFor(d, stem) # {} =>
       \E l \in LexemesFor(d, stem) : ~Carries(l.flags, d.noSuggest)

(* Mutant: what a form still needs, or may not be, is not asked. *)
RelatedFormsAny(d, stem) ==
  {s.form : s \in UNION {Chains(d, l) : l \in
     {x \in LexemesFor(d, stem) : ~Forbidden(d, x.flags) /\ ~Carries(x.flags, d.noSuggest)}}}

(* The derived forms offered for a seed; the code stops after a number of  *)
(* of them.                                                                *)
RelatedForms(d, stem) ==
  {s.form : s \in
     {s \in UNION {Chains(d, l) : l \in
              {x \in LexemesFor(d, stem) : /\ ~Forbidden(d, x.flags)
                                          /\ ~Carries(x.flags, d.noSuggest)}} :
        /\ AcceptedState(d, s)
        /\ ~Carries(s.origin, d.noSuggest)
        /\ ~Carries(s.flags, d.noSuggest)}}

(* bounded_osa_distance: insert, delete, replace, or swap two neighbours.  *)
OsaDistance(a, b) ==
  LET dist[i \in 0..Len(a), j \in 0..Len(b)] ==
        IF i = 0 \/ j = 0 THEN i + j
        ELSE LET edits == {dist[i - 1, j] + 1, dist[i, j - 1] + 1,
                           dist[i - 1, j - 1] + (IF a[i] = b[j] THEN 0 ELSE 1)}
                 swaps == IF i > 1 /\ j > 1 /\ a[i] = b[j - 1] /\ a[i - 1] = b[j]
                          THEN {dist[i - 2, j - 2] + 1} ELSE {}
             IN Min(edits \cup swaps)
  IN dist[Len(a), Len(b)]

(* The query with one half corrected to the seed, where the other half and *)
(* the whole are words.                                                    *)
CompoundForms(d, query, stem, maximum) ==
  LET cuts == 1..Min({Len(query) - 1, MaxCompoundSplits})
      Left(i) == SubSeq(query, 1, i)
      Right(i) == SubSeq(query, i + 1, Len(query))
      right == {Left(i) \o stem : i \in
                  {c \in cuts : /\ OsaDistance(stem, Right(c)) <= maximum
                                /\ ContainsWord(d, Left(c))}}
      left == {stem \o Right(i) : i \in
                 {c \in cuts : /\ OsaDistance(stem, Left(c)) <= maximum
                               /\ ContainsWord(d, Right(c))}}
  IN {w \in left \cup right : w # query /\ ContainsWord(d, w)}
=============================================================================
