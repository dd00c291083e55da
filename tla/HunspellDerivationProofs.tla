---------------------- MODULE HunspellDerivationProofs ----------------------
(***************************************************************************)
(* Theorems about HunspellDerivation for every dictionary with finitely    *)
(* many affix rules, every spelling and every budget; and what they and    *)
(* HunspellProofs need to know of texts, of the frontiers of a compound    *)
(* and of explanations.                                                    *)
(***************************************************************************)
EXTENDS HunspellDerivation, HunspellExplanation, FiniteSetTheorems, SequenceTheorems,
        NaturalsInduction, WellFoundedInduction, TLAPS

(* A dictionary read from a file: its rules are finitely many, and PFX or   *)
(* SFX each.                                                               *)
Rules(d) == IsFiniteSet(d.rules) /\ \A r \in d.rules : r.kind \in Kind

(* FormState: the rules used are counted by kind, and at most two of each. *)
CountsUsed(d, s) ==
  /\ {"used", "prefixes", "suffixes"} \subseteq DOMAIN s
  /\ s.used \in Seq({r.id : r \in d.rules})
  /\ s.prefixes \in 0..2 /\ s.suffixes \in 0..2
  /\ Len(s.used) = s.prefixes + s.suffixes

(* The inductive invariant: every state kept but the first was paid for.   *)
SearchInv(d) ==
  /\ hunspell = d
  /\ derivations \in 0..MaxDerivations
  /\ IsFiniteSet(states) /\ Cardinality(states) <= derivations + 1
  /\ \A s \in states : CountsUsed(d, s)
  /\ stage # "derive" => states = {}

-----------------------------------------------------------------------------
(* Rules and the states they yield                                         *)

(* A rule makes at most one form of a stem.  (AffixRule::apply)            *)
LEMMA AppliesOnce ==
  ASSUME NEW r, NEW stem, NEW fullStrip
  PROVE  \E form : Apply(r, stem, fullStrip) \subseteq {form}
<1>1. PICK rest : Without(stem, r.strip, r.kind) \subseteq {rest}
  BY Zenon DEF Without
<1>2. Apply(r, stem, fullStrip) \subseteq {With(rest, r.add, r.kind)}
  BY <1>1, Zenon DEF Apply
<1> QED
  BY <1>2

(* A state has finitely many successors.  (expand_matching_rules)          *)
LEMMA SuccessorsFinite ==
  ASSUME NEW d, Rules(d), NEW s
  PROVE  IsFiniteSet(Successors(d, s))
<1> DEFINE Applicable == {x \in d.rules : /\ x.flag \in FlagsFor(s, x.kind)
                                          /\ CanApply(s, x, d.complexPrefixes)}
           Yield(r) == {Extend(s, r, form, d.circumfix) :
                          form \in Apply(r, s.form, d.fullStrip)}
           Yields == {Yield(r) : r \in Applicable}
           yield == [r \in Applicable |-> Yield(r)]
<1>1. IsFiniteSet(Applicable)
  BY FS_Subset DEF Rules
<1>2. ASSUME NEW r \in Applicable
      PROVE  IsFiniteSet(Yield(r))
  <2>1. PICK form : Apply(r, s.form, d.fullStrip) \subseteq {form}
    BY AppliesOnce
  <2>2. Yield(r) \in SUBSET {Extend(s, r, form, d.circumfix)}
    BY <2>1
  <2>3. IsFiniteSet({Extend(s, r, form, d.circumfix)})
    BY FS_Singleton
  <2> QED
    BY <2>2, <2>3, FS_Subset
<1>3. IsFiniteSet(Yields)
  <2>1. yield \in Surjection(Applicable, Yields)
    BY DEF Surjection
  <2> QED
    BY <1>1, <2>1, FS_Surjection
<1>4. IsFiniteSet(UNION Yields)
  BY <1>2, <1>3, FS_UNION
<1> QED
  BY <1>4 DEF Successors

(* FormState::can_apply ends a derivation at two prefixes and two suffixes, *)
(* and FormState::apply counts what it used.                               *)
LEMMA SuccessorsCount ==
  ASSUME NEW d, Rules(d), NEW s, CountsUsed(d, s), NEW t \in Successors(d, s)
  PROVE  CountsUsed(d, t)
<1>1. PICK r \in d.rules :
        /\ CanApply(s, r, d.complexPrefixes)
        /\ \E form \in Apply(r, s.form, d.fullStrip) : t = Extend(s, r, form, d.circumfix)
  BY DEF Successors
<1> DEFINE id == r.id
<1>2. id \in {x.id : x \in d.rules}
  OBVIOUS
<1>3. /\ {"used", "prefixes", "suffixes"} \subseteq DOMAIN t
      /\ t.used = Append(s.used, id)
      /\ t.prefixes = s.prefixes + (IF r.kind = "prefix" THEN 1 ELSE 0)
      /\ t.suffixes = s.suffixes + (IF r.kind = "suffix" THEN 1 ELSE 0)
  BY <1>1 DEF CountsUsed, Extend
<1>4. CASE r.kind = "prefix"
  <2>1. s.prefixes < 2
    BY <1>1, <1>4 DEF CanApply, CountsUsed
  <2> QED
    BY <1>2, <1>3, <1>4, <2>1 DEF CountsUsed
<1>5. CASE r.kind = "suffix"
  <2>1. s.suffixes < 2
    BY <1>1, <1>5 DEF CanApply
  <2> QED
    BY <1>2, <1>3, <1>5, <2>1 DEF CountsUsed
<1> QED
  BY <1>4, <1>5 DEF Rules, Kind

-----------------------------------------------------------------------------
(* The search                                                              *)

LEMMA SearchStarts ==
  ASSUME NEW d, SearchInit(d)
  PROVE  SearchInv(d)
BY SearchBounds, FS_EmptySet DEF SearchInit, SearchInv

(* No derivation is kept: at the answer, and before the first entry.       *)
LEMMA Emptied ==
  ASSUME NEW d, SearchInv(d), hunspell' = hunspell, states' = {},
         derivations' \in {0, derivations}
  PROVE  SearchInv(d)'
BY SearchBounds, FS_EmptySet DEF SearchInv

(* What is taken up is replaced by its successors, each of them paid for.  *)
LEMMA TakenUp ==
  ASSUME NEW d, Rules(d), SearchInv(d), NEW s \in states,
         NEW next \in SUBSET Successors(d, s),
         UNCHANGED << hunspell, stage >>,
         states' = (states \ {s}) \cup next,
         derivations' = derivations + Cardinality(next),
         derivations' <= MaxDerivations
  PROVE  SearchInv(d)'
<1>1. IsFiniteSet(next) /\ Cardinality(next) \in Nat
  <2>1. IsFiniteSet(next)
    BY SuccessorsFinite, FS_Subset
  <2> QED
    BY <2>1, FS_CardinalityType
<1>2. /\ IsFiniteSet(states \ {s})
      /\ Cardinality(states \ {s}) = Cardinality(states) - 1
      /\ Cardinality(states) \in Nat
  BY FS_RemoveElement, FS_CardinalityType DEF SearchInv
<1> DEFINE rest == states \ {s}
           both == rest \cap next
<1>3. IsFiniteSet(both) /\ Cardinality(both) \in Nat
  <2>1. IsFiniteSet(both)
    BY <1>1, FS_Subset
  <2> QED
    BY <2>1, FS_CardinalityType
<1>4. /\ IsFiniteSet(rest \cup next)
      /\ Cardinality(rest \cup next)
           = Cardinality(rest) + Cardinality(next) - Cardinality(both)
  BY <1>1, <1>2, FS_Union
<1>5. Cardinality(states') <= derivations' + 1
  BY <1>1, <1>2, <1>3, <1>4 DEF SearchInv
<1>6. \A t \in states' : CountsUsed(d, t)
  BY SuccessorsCount DEF SearchInv
<1>7. derivations' \in 0..MaxDerivations
  BY <1>1, SearchBounds DEF SearchInv
<1>8. stage' = "derive"
  BY DEF SearchInv
<1> QED
  BY <1>4, <1>5, <1>6, <1>7, <1>8 DEF SearchInv

LEMMA DeriveKeeps ==
  ASSUME NEW d, Rules(d), SearchInv(d), Derive
  PROVE  SearchInv(d)'
<1>1. hunspell' = hunspell /\ hunspell = d
  BY DEF Derive, Question, SearchInv
<1>2. PICK s \in states :
        LET next == IF Depth(s) = MaxAffixChain THEN {} ELSE Successors(hunspell, s)
            made == derivations + Cardinality(next)
        IN \/ Answer(TRUE) /\ UNCHANGED derivations
           \/ /\ made <= MaxDerivations
              /\ states' = (states \ {s}) \cup next
              /\ derivations' = made
              /\ UNCHANGED stage
           \/ states' = {} /\ UNCHANGED derivations
  BY DEF Derive
<1> DEFINE next == IF Depth(s) = MaxAffixChain THEN {} ELSE Successors(hunspell, s)
<1>3. CASE Answer(TRUE) /\ UNCHANGED derivations
  BY <1>1, <1>3, Emptied DEF Answer
<1>4. CASE /\ derivations + Cardinality(next) <= MaxDerivations
           /\ states' = (states \ {s}) \cup next
           /\ derivations' = derivations + Cardinality(next)
           /\ UNCHANGED stage
  <2>1. next \in SUBSET Successors(d, s)
    BY <1>1
  <2> HIDE DEF next
  <2> QED
    BY <1>1, <1>4, <2>1, TakenUp
<1>5. CASE states' = {} /\ UNCHANGED derivations
  BY <1>1, <1>5, Emptied
<1> QED
  BY <1>2, <1>3, <1>4, <1>5

LEMMA NextEntryKeeps ==
  ASSUME NEW d, SearchInv(d), NextEntry
  PROVE  SearchInv(d)'
<1>1. hunspell' = hunspell
  BY DEF NextEntry, Question
<1>2. PICK l \in candidates :
        \/ states' = {NewForm(l)} /\ derivations' = 0 /\ stage' = "derive"
        \/ UNCHANGED << stage, states, derivations >>
  BY DEF NextEntry
<1>3. CASE states' = {NewForm(l)} /\ derivations' = 0 /\ stage' = "derive"
  <2>1. IsFiniteSet(states') /\ Cardinality(states') = 1
    BY <1>3, FS_Singleton
  <2>2. CountsUsed(d, NewForm(l))
    BY DEF CountsUsed, NewForm
  <2> QED
    BY <1>1, <1>3, <2>1, <2>2, SearchBounds DEF SearchInv
<1>4. CASE UNCHANGED << stage, states, derivations >>
  BY <1>1, <1>4 DEF SearchInv
<1> QED
  BY <1>2, <1>3, <1>4

LEMMA SearchGoesOn ==
  ASSUME NEW d, Rules(d), SearchInv(d), [SearchNext]_searchVars
  PROVE  SearchInv(d)'
<1>1. CASE \E w, k : Ask(w, k)
  BY <1>1, Emptied DEF Ask
<1>2. CASE TakeRulesOff
  <2>1. \/ Answer(FALSE)
        \/ UNCHANGED << stage, states >>
    BY <1>2 DEF TakeRulesOff
  <2>2. UNCHANGED << hunspell, derivations >>
    BY <1>2 DEF TakeRulesOff, Question
  <2> QED
    BY <2>1, <2>2, Emptied DEF Answer, SearchInv
<1>3. CASE AllRulesOff \/ EntryDone
  BY <1>3 DEF AllRulesOff, EntryDone, Question, SearchInv
<1>4. CASE NextEntry
  BY <1>4, NextEntryKeeps
<1>5. CASE NoEntryLeft
  BY <1>5, Emptied DEF NoEntryLeft, Answer, Question
<1>6. CASE Derive
  BY <1>6, DeriveKeeps
<1>7. CASE Forget
  <2>1. states = {} /\ UNCHANGED << hunspell, states >> /\ derivations' = 0
    BY <1>7 DEF Forget, SearchInv
  <2> QED
    BY <2>1, Emptied
<1>8. CASE UNCHANGED searchVars
  BY <1>8 DEF searchVars, SearchInv
<1> QED
  BY <1>1, <1>2, <1>3, <1>4, <1>5, <1>6, <1>7, <1>8 DEF SearchNext, SearchStep

(* In every dictionary the search for a derived word keeps to its budget:  *)
(* no derivation uses more than four rules, so that MAX_AFFIX_CHAIN never  *)
(* cuts one off, and no more states are kept than were counted.            *)
(* (matches_derived_word)                                                  *)
THEOREM SearchBoundedCorrect ==
  ASSUME NEW d, Rules(d)
  PROVE  SearchSpec(d) => []SearchBounded
<1>1. SearchInit(d) => SearchInv(d)
  BY SearchStarts
<1>2. SearchInv(d) /\ [SearchNext]_searchVars => SearchInv(d)'
  BY SearchGoesOn
<1>3. SearchInv(d) => SearchBounded
  <2>1. ASSUME NEW s, CountsUsed(d, s)
        PROVE  Depth(s) <= 4
    BY <2>1 DEF CountsUsed, Depth
  <2> QED
    BY <2>1, SearchBounds DEF SearchInv, SearchBounded
<1> QED
  BY <1>1, <1>2, <1>3, PTL DEF SearchSpec

-----------------------------------------------------------------------------
(* Taking a rule off again                                                 *)

(* What is left of a word and the edge taken off make up the word.          *)
LEMMA TakenOff ==
  ASSUME NEW S, NEW w \in Seq(S), NEW edge \in Seq(S), NEW kind,
         NEW rest \in Without(w, edge, kind)
  PROVE  rest \in Seq(S) /\ w = With(rest, edge, kind)
<1>1. CASE kind = "prefix"
  <2>1. /\ Len(edge) <= Len(w)
        /\ SubSeq(edge, 1, Len(edge)) = SubSeq(w, 1, Len(edge))
        /\ rest = SubSeq(w, Len(edge) + 1, Len(w))
    BY <1>1 DEF Without, IsPrefix
  <2>2. rest \in Seq(S) /\ Len(rest) = Len(w) - Len(edge)
        /\ \A i \in 1..Len(rest) : rest[i] = w[Len(edge) + i]
    BY <2>1
  <2>3. \A i \in 1..Len(edge) : edge[i] = w[i]
    <3>1. \A i \in 1..Len(edge) : SubSeq(edge, 1, Len(edge))[i] = edge[i]
      OBVIOUS
    <3>2. \A i \in 1..Len(edge) : SubSeq(w, 1, Len(edge))[i] = w[i]
      BY <2>1
    <3>3. QED
      BY <2>1, <3>1, <3>2
  <2>4. /\ edge \o rest \in Seq(S) /\ Len(edge \o rest) = Len(w)
        /\ \A i \in 1..Len(w) : (edge \o rest)[i] = w[i]
    BY <2>1, <2>2, <2>3
  <2>5. QED
    BY <1>1, <2>2, <2>4, SeqEqual DEF With
<1>2. CASE kind # "prefix"
  <2>1. /\ IsPrefix(Reverse(edge), Reverse(w))
        /\ rest = SubSeq(w, 1, Len(w) - Len(edge))
    BY <1>2 DEF Without, IsSuffix
  <2>2. /\ Reverse(edge) \in Seq(S) /\ Len(Reverse(edge)) = Len(edge)
        /\ Reverse(w) \in Seq(S) /\ Len(Reverse(w)) = Len(w)
    BY DEF Reverse
  <2>3. /\ Len(edge) <= Len(w)
        /\ SubSeq(Reverse(edge), 1, Len(edge)) = SubSeq(Reverse(w), 1, Len(edge))
    BY <2>1, <2>2 DEF IsPrefix
  <2>4. \A i \in 1..Len(edge) : Reverse(edge)[i] = Reverse(w)[i]
    <3>1. \A i \in 1..Len(edge) : SubSeq(Reverse(edge), 1, Len(edge))[i] = Reverse(edge)[i]
      BY <2>2
    <3>2. \A i \in 1..Len(edge) : SubSeq(Reverse(w), 1, Len(edge))[i] = Reverse(w)[i]
      BY <2>2, <2>3
    <3>3. QED
      BY <2>3, <3>1, <3>2
  <2>5. \A i \in 1..Len(edge) : edge[Len(edge) - i + 1] = w[Len(w) - i + 1]
    <3>1. ASSUME NEW i \in 1..Len(edge)
          PROVE  edge[Len(edge) - i + 1] = w[Len(w) - i + 1]
      <4>1. Reverse(edge)[i] = edge[Len(edge) - i + 1]
        BY DEF Reverse
      <4>2. Reverse(w)[i] = w[Len(w) - i + 1]
        BY <2>3 DEF Reverse
      <4>3. QED
        BY <2>4, <4>1, <4>2
    <3>2. QED
      BY <3>1
  <2>6. \A i \in 1..Len(edge) : edge[i] = w[Len(w) - Len(edge) + i]
    <3>1. ASSUME NEW i \in 1..Len(edge)
          PROVE  edge[i] = w[Len(w) - Len(edge) + i]
      <4>1. Len(edge) - i + 1 \in 1..Len(edge)
        OBVIOUS
      <4>2. edge[Len(edge) - (Len(edge) - i + 1) + 1] = w[Len(w) - (Len(edge) - i + 1) + 1]
        BY <2>5, <4>1
      <4>3. /\ Len(edge) - (Len(edge) - i + 1) + 1 = i
            /\ Len(w) - (Len(edge) - i + 1) + 1 = Len(w) - Len(edge) + i
        OBVIOUS
      <4>4. QED
        BY <4>2, <4>3
    <3>2. QED
      BY <3>1
  <2>7. rest \in Seq(S) /\ Len(rest) = Len(w) - Len(edge)
        /\ \A i \in 1..Len(rest) : rest[i] = w[i]
    BY <2>1, <2>3
  <2>8. /\ rest \o edge \in Seq(S) /\ Len(rest \o edge) = Len(w)
        /\ \A i \in 1..Len(w) : (rest \o edge)[i] = w[i]
    <3>1. rest \o edge \in Seq(S) /\ Len(rest \o edge) = Len(w)
      BY <2>7
    <3>2. ASSUME NEW i \in 1..Len(w)
          PROVE  (rest \o edge)[i] = w[i]
      <4>1. CASE i <= Len(rest)
        BY <2>7, <4>1
      <4>2. CASE i > Len(rest)
        <5>1. i - Len(rest) \in 1..Len(edge) /\ (rest \o edge)[i] = edge[i - Len(rest)]
          BY <2>7, <4>2
        <5>2. Len(w) - Len(edge) + (i - Len(rest)) = i
          BY <2>7
        <5>3. QED
          BY <2>6, <5>1, <5>2
      <4>3. QED
        BY <2>7, <4>1, <4>2
    <3>3. QED
      BY <3>1, <3>2
  <2>9. QED
    BY <1>2, <2>7, <2>8, SeqEqual DEF With
<1>3. QED
  BY <1>1, <1>2

(* An edge that was put on can be taken off.                                *)
LEMMA PutOn ==
  ASSUME NEW S, NEW rest \in Seq(S), NEW edge \in Seq(S), NEW kind
  PROVE  rest \in Without(With(rest, edge, kind), edge, kind)
<1>1. CASE kind = "prefix"
  <2> DEFINE w == edge \o rest
  <2>1. /\ w \in Seq(S) /\ Len(w) = Len(edge) + Len(rest)
        /\ \A i \in 1..Len(edge) : w[i] = edge[i]
        /\ \A i \in 1..Len(rest) : w[Len(edge) + i] = rest[i]
    OBVIOUS
  <2> HIDE DEF w
  <2>2. SubSeq(edge, 1, Len(edge)) = SubSeq(w, 1, Len(edge))
    <3>1. /\ SubSeq(edge, 1, Len(edge)) \in Seq(S) /\ SubSeq(w, 1, Len(edge)) \in Seq(S)
          /\ Len(SubSeq(edge, 1, Len(edge))) = Len(edge)
          /\ Len(SubSeq(w, 1, Len(edge))) = Len(edge)
          /\ \A i \in 1..Len(edge) : /\ SubSeq(edge, 1, Len(edge))[i] = edge[i]
                                     /\ SubSeq(w, 1, Len(edge))[i] = w[i]
      BY <2>1
    <3>2. QED
      BY <2>1, <3>1, SeqEqual
  <2>3. SubSeq(w, Len(edge) + 1, Len(w)) = rest
    <3>1. /\ SubSeq(w, Len(edge) + 1, Len(w)) \in Seq(S)
          /\ Len(SubSeq(w, Len(edge) + 1, Len(w))) = Len(rest)
          /\ \A i \in 1..Len(rest) : SubSeq(w, Len(edge) + 1, Len(w))[i] = w[Len(edge) + i]
      BY <2>1
    <3>2. QED
      BY <2>1, <3>1, SeqEqual
  <2>4. IsPrefix(edge, w)
    BY <2>1, <2>2 DEF IsPrefix
  <2>5. With(rest, edge, kind) = w
    BY <1>1 DEF With, w
  <2>6. QED
    BY <1>1, <2>3, <2>4, <2>5 DEF Without
<1>2. CASE kind # "prefix"
  <2> DEFINE w == rest \o edge
  <2>1. /\ w \in Seq(S) /\ Len(w) = Len(edge) + Len(rest)
        /\ \A i \in 1..Len(rest) : w[i] = rest[i]
        /\ \A i \in 1..Len(edge) : w[Len(rest) + i] = edge[i]
    OBVIOUS
  <2> HIDE DEF w
  <2>2. /\ Reverse(edge) \in Seq(S) /\ Len(Reverse(edge)) = Len(edge)
        /\ Reverse(w) \in Seq(S) /\ Len(Reverse(w)) = Len(w)
    BY <2>1 DEF Reverse
  <2>3. \A i \in 1..Len(edge) : Reverse(edge)[i] = Reverse(w)[i]
    <3>1. ASSUME NEW i \in 1..Len(edge)
          PROVE  Reverse(edge)[i] = Reverse(w)[i]
      <4>1. Reverse(edge)[i] = edge[Len(edge) - i + 1]
        BY DEF Reverse
      <4>2. Reverse(w)[i] = w[Len(w) - i + 1]
        BY <2>1 DEF Reverse
      <4>3. Len(edge) - i + 1 \in 1..Len(edge)
        OBVIOUS
      <4>4. Len(w) - i + 1 = Len(rest) + (Len(edge) - i + 1)
        BY <2>1
      <4>5. QED
        BY <2>1, <4>1, <4>2, <4>3, <4>4
    <3>2. QED
      BY <3>1
  <2>4. SubSeq(Reverse(edge), 1, Len(edge)) = SubSeq(Reverse(w), 1, Len(edge))
    <3>1. /\ SubSeq(Reverse(edge), 1, Len(edge)) \in Seq(S)
          /\ SubSeq(Reverse(w), 1, Len(edge)) \in Seq(S)
          /\ Len(SubSeq(Reverse(edge), 1, Len(edge))) = Len(edge)
          /\ Len(SubSeq(Reverse(w), 1, Len(edge))) = Len(edge)
          /\ \A i \in 1..Len(edge) : /\ SubSeq(Reverse(edge), 1, Len(edge))[i] = Reverse(edge)[i]
                                     /\ SubSeq(Reverse(w), 1, Len(edge))[i] = Reverse(w)[i]
      BY <2>1, <2>2
    <3>2. QED
      BY <2>3, <3>1, SeqEqual
  <2>5. SubSeq(w, 1, Len(w) - Len(edge)) = rest
    <3>1. /\ SubSeq(w, 1, Len(w) - Len(edge)) \in Seq(S)
          /\ Len(SubSeq(w, 1, Len(w) - Len(edge))) = Len(rest)
          /\ \A i \in 1..Len(rest) : SubSeq(w, 1, Len(w) - Len(edge))[i] = w[i]
      BY <2>1
    <3>2. QED
      BY <2>1, <3>1, SeqEqual
  <2>6. IsSuffix(edge, w)
    BY <2>1, <2>2, <2>4 DEF IsSuffix, IsPrefix
  <2>7. With(rest, edge, kind) = w
    BY <1>2 DEF With, w
  <2>8. QED
    BY <1>2, <2>5, <2>6, <2>7 DEF Without
<1>3. QED
  BY <1>1, <1>2

(* A dictionary whose spellings are sequences of letters. *)
Spelled(d, Letter) ==
  /\ \A l \in d.lexemes : l.stem \in Seq(Letter)
  /\ \A r \in d.rules : r.add \in Seq(Letter) /\ r.strip \in Seq(Letter)

LEMMA AppliedSpelled ==
  ASSUME NEW Letter, NEW r, r.add \in Seq(Letter), r.strip \in Seq(Letter),
         NEW stem \in Seq(Letter), NEW fullStrip, NEW form \in Apply(r, stem, fullStrip)
  PROVE  form \in Seq(Letter)
<1>1. PICK rest \in Without(stem, r.strip, r.kind) : form = With(rest, r.add, r.kind)
  BY DEF Apply
<1>2. rest \in Seq(Letter)
  BY TakenOff
<1>3. QED
  BY <1>1, <1>2 DEF With

(* A rule taken off a form it made gives the stem back.                     *)
(* (AffixRule::apply, AffixRule::reverse_apply)                            *)
LEMMA ReverseApplies ==
  ASSUME NEW Letter, NEW r, r.add \in Seq(Letter), r.strip \in Seq(Letter),
         NEW stem \in Seq(Letter), NEW fullStrip, NEW form \in Apply(r, stem, fullStrip)
  PROVE  stem \in ReverseApply(r, form, fullStrip)
<1>1. PICK rest \in Without(stem, r.strip, r.kind) :
        /\ ConditionMatches(r.condition, stem, r.kind)
        /\ fullStrip \/ rest # <<>>
        /\ form = With(rest, r.add, r.kind)
  BY DEF Apply
<1>2. rest \in Seq(Letter) /\ stem = With(rest, r.strip, r.kind)
  BY TakenOff
<1>3. rest \in Without(form, r.add, r.kind)
  BY <1>1, <1>2, PutOn
<1>4. QED
  BY <1>1, <1>2, <1>3 DEF ReverseApply

(* The rule that made a form is among those filed for it.                   *)
(* (AffixRuleIndex::candidates)                                            *)
LEMMA RuleFiled ==
  ASSUME NEW Letter, NEW rules, NEW r \in rules, r.kind \in Kind,
         r.add \in Seq(Letter), r.strip \in Seq(Letter),
         NEW stem \in Seq(Letter), NEW fullStrip, NEW form \in Apply(r, stem, fullStrip)
  PROVE  r \in CandidateRules(rules, form)
<1>1. PICK rest \in Without(stem, r.strip, r.kind) : form = With(rest, r.add, r.kind)
  BY DEF Apply
<1>2. rest \in Seq(Letter)
  BY TakenOff
<1>3. CASE r.add = <<>>
  BY <1>3 DEF CandidateRules
<1>4. CASE r.add # <<>>
  <2>1. Len(r.add) \in Nat \ {0}
    BY <1>4, EmptySeq
  <2>2. CASE r.kind = "prefix"
    <3>1. form = r.add \o rest
      BY <1>1, <2>2 DEF With
    <3>2. form[1] = r.add[1] /\ Len(form) # 0
      BY <1>2, <2>1, <3>1
    <3>3. Head(form) = Head(r.add) /\ form # <<>>
      BY <3>2
    <3>4. QED
      BY <1>4, <2>2, <3>3 DEF CandidateRules, EdgeOf
  <2>3. CASE r.kind = "suffix"
    <3>1. form = rest \o r.add
      BY <1>1, <2>3 DEF With
    <3>2. /\ Len(form) = Len(rest) + Len(r.add) /\ Len(rest) \in Nat
          /\ form[Len(rest) + Len(r.add)] = r.add[Len(r.add)]
      BY <1>2, <2>1, <3>1
    <3>3. Last(form) = Last(r.add) /\ form # <<>>
      BY <2>1, <3>2 DEF Last
    <3>4. QED
      BY <1>4, <2>3, <3>3 DEF CandidateRules, EdgeOf
  <2>4. QED
    BY <2>2, <2>3 DEF Kind
<1>5. QED
  BY <1>3, <1>4

-----------------------------------------------------------------------------
(* The forms an entry derives, rule by rule                                *)

LEMMA LeastNumber ==
  ASSUME NEW T \in SUBSET Nat, T # {}
  PROVE  \E n \in T : \A m \in T : n <= m
<1> DEFINE R == {ss \in Nat \X Nat : ss[1] < ss[2]}
<1>1. IsWellFoundedOn(R, Nat)
  BY NatLessThanWellFounded DEF OpToRel
<1>2. ASSUME NEW x \in Nat, NEW y \in Nat, y < x
      PROVE  <<y, x>> \in R
  BY <1>2
<1> HIDE DEF R
<1>3. PICK x \in T : \A y \in T : ~ (<<y, x>> \in R)
  BY <1>1, WFMin
<1>4. \A y \in T : ~(y < x)
  BY <1>2, <1>3, Zenon
<1> QED
  BY <1>4

(* Induction over a set of numbers: what holds of 0, and of n + 1 whenever  *)
(* it holds of n, holds of all.                                            *)
LEMMA AllNumbers ==
  ASSUME NEW S, 0 \in S, \A n \in Nat : n \in S => n + 1 \in S
  PROVE  \A n \in Nat : n \in S
<1> SUFFICES ASSUME Nat \ S # {} PROVE FALSE
  OBVIOUS
<1>1. PICK n \in Nat \ S : \A m \in Nat \ S : n <= m
  BY LeastNumber
<1>2. n # 0 /\ n - 1 \in Nat /\ n - 1 \in S
  BY <1>1
<1> QED
  BY <1>1, <1>2

(* The recursion of Levels has a solution. *)
IsLevel(d, l, f, k) ==
  f = [n \in 0..k |-> IF n = 0 THEN {NewForm(l)}
                      ELSE UNION {Successors(d, s) : s \in f[n - 1]}]

LEMMA LevelsExist ==
  ASSUME NEW d, NEW l
  PROVE  \A k \in Nat : \E f : IsLevel(d, l, f, k)
<1> DEFINE S == {k \in Nat : \E f : IsLevel(d, l, f, k)}
<1>1. 0 \in S
  <2> DEFINE f == [n \in 0..0 |-> {NewForm(l)}]
  <2>1. f = [n \in 0..0 |-> IF n = 0 THEN {NewForm(l)}
                            ELSE UNION {Successors(d, s) : s \in f[n - 1]}]
    OBVIOUS
  <2>2. QED
    BY <2>1 DEF IsLevel
<1>2. ASSUME NEW k \in Nat, k \in S
      PROVE  k + 1 \in S
  <2>1. PICK f : IsLevel(d, l, f, k)
    BY <1>2
  <2> DEFINE g == [n \in 0..(k + 1) |-> IF n = k + 1
                                        THEN UNION {Successors(d, s) : s \in f[k]}
                                        ELSE f[n]]
  <2>2. \A n \in 0..k : f[n] = IF n = 0 THEN {NewForm(l)}
                               ELSE UNION {Successors(d, s) : s \in f[n - 1]}
    BY <2>1 DEF IsLevel
  <2>3. ASSUME NEW n \in 0..(k + 1)
        PROVE  g[n] = IF n = 0 THEN {NewForm(l)}
                      ELSE UNION {Successors(d, s) : s \in g[n - 1]}
    <3>1. CASE n = k + 1
      <4>1. g[n - 1] = f[k] /\ n # 0
        BY <3>1
      <4>2. QED
        BY <3>1, <4>1
    <3>2. CASE n = 0
      <4>1. 0 \in 0..k /\ n # k + 1 /\ g[n] = f[n]
        BY <3>2
      <4>2. f[0] = {NewForm(l)}
        BY <2>2, <4>1
      <4>3. QED
        BY <3>2, <4>1, <4>2
    <3>3. CASE n \in 1..k
      <4>1. g[n] = f[n] /\ g[n - 1] = f[n - 1] /\ n \in 0..k /\ n # 0
        BY <3>3
      <4>2. QED
        BY <2>2, <4>1
    <3>4. QED
      BY <3>1, <3>2, <3>3
  <2>4. g = [n \in 0..(k + 1) |-> g[n]]
    OBVIOUS
  <2> HIDE DEF g
  <2>5. IsLevel(d, l, g, k + 1)
    BY <2>3, <2>4 DEF IsLevel
  <2>6. QED
    BY <2>5
<1> HIDE DEF S
<1>3. \A k \in Nat : k \in S
  BY <1>1, <1>2, AllNumbers
<1>4. QED
  BY <1>3 DEF S

NextLevel(d, level) == UNION {Successors(d, s) : s \in level}

LEMMA LevelsDef ==
  ASSUME NEW d, NEW l
  PROVE  \A n \in 0..MaxAffixChain :
           Levels(d, l)[n] = IF n = 0 THEN {NewForm(l)}
                             ELSE NextLevel(d, Levels(d, l)[n - 1])
<1>1. \E f : IsLevel(d, l, f, MaxAffixChain)
  BY LevelsExist, SearchBounds
<1>2. Levels(d, l) = CHOOSE f : IsLevel(d, l, f, MaxAffixChain)
  BY DEF Levels, IsLevel
<1>3. IsLevel(d, l, Levels(d, l), MaxAffixChain)
  BY <1>1, <1>2
<1>4. QED
  BY <1>3 DEF IsLevel, NextLevel

LEMMA LevelsNext ==
  ASSUME NEW d, NEW l, NEW n \in Nat, n + 1 <= MaxAffixChain
  PROVE  Levels(d, l)[n + 1] = UNION {Successors(d, s) : s \in Levels(d, l)[n]}
<1>1. n + 1 \in 0..MaxAffixChain /\ n + 1 # 0 /\ (n + 1) - 1 = n
  BY SearchBounds
<1>2. Levels(d, l)[n + 1] = IF n + 1 = 0 THEN {NewForm(l)}
                            ELSE NextLevel(d, Levels(d, l)[(n + 1) - 1])
  BY <1>1, LevelsDef
<1>3. Levels(d, l)[n + 1] = NextLevel(d, Levels(d, l)[n])
  BY <1>1, <1>2
<1>4. QED
  BY <1>3 DEF NextLevel

(* A chain of rules, state by state. *)
IsPath(d, l, n, p) ==
  /\ p[0] = NewForm(l)
  /\ \A i \in 0..(n - 1) : p[i + 1] \in Successors(d, p[i])

LEMMA PathTo ==
  ASSUME NEW d, NEW l
  PROVE  \A n \in Nat : n <= MaxAffixChain =>
           \A s \in Levels(d, l)[n] : \E p : IsPath(d, l, n, p) /\ p[n] = s
<1> DEFINE Reached(n) == \A s \in Levels(d, l)[n] : \E p : IsPath(d, l, n, p) /\ p[n] = s
           S == {n \in Nat : n <= MaxAffixChain => Reached(n)}
<1>0. MaxAffixChain \in Nat
  BY SearchBounds
<1>1. 0 \in S
  <2>1. Levels(d, l)[0] = {NewForm(l)}
    <3>1. 0 \in 0..MaxAffixChain
      BY <1>0
    <3>2. QED
      BY <3>1, LevelsDef
  <2>2. \E p : IsPath(d, l, 0, p) /\ p[0] = NewForm(l)
    <3> DEFINE p == [i \in {0} |-> NewForm(l)]
    <3>1. p[0] = NewForm(l)
      OBVIOUS
    <3> HIDE DEF p
    <3>2. IsPath(d, l, 0, p)
      BY <3>1 DEF IsPath
    <3>3. QED
      BY <3>1, <3>2
  <2>3. Reached(0)
    BY <2>1, <2>2
  <2>4. QED
    BY <2>3
<1>2. ASSUME NEW n \in Nat, n \in S
      PROVE  n + 1 \in S
  <2> SUFFICES ASSUME n + 1 <= MaxAffixChain, NEW s \in Levels(d, l)[n + 1]
               PROVE  \E p : IsPath(d, l, n + 1, p) /\ p[n + 1] = s
    BY <1>2
  <2>1. PICK r \in Levels(d, l)[n] : s \in Successors(d, r)
    <3>1. Levels(d, l)[n + 1] = UNION {Successors(d, x) : x \in Levels(d, l)[n]}
      BY LevelsNext
    <3>2. s \in UNION {Successors(d, x) : x \in Levels(d, l)[n]}
      BY <3>1
    <3> HIDE DEF Levels
    <3>3. QED
      BY <3>2
  <2>2. n <= MaxAffixChain
    BY <1>0
  <2>3. PICK q : IsPath(d, l, n, q) /\ q[n] = r
    BY <1>2, <2>1, <2>2
  <2> DEFINE p == [i \in 0..(n + 1) |-> IF i = n + 1 THEN s ELSE q[i]]
  <2>4. p[n + 1] = s /\ \A i \in 0..n : p[i] = q[i]
    OBVIOUS
  <2> HIDE DEF p
  <2>5. ASSUME NEW i \in 0..((n + 1) - 1)
        PROVE  p[i + 1] \in Successors(d, p[i])
    <3>1. CASE i = n
      BY <2>1, <2>3, <2>4, <3>1
    <3>2. CASE i # n
      <4>1. i \in 0..(n - 1) /\ i + 1 \in 0..n /\ i \in 0..n
        BY <3>2
      <4>2. q[i + 1] \in Successors(d, q[i])
        BY <2>3, <4>1 DEF IsPath
      <4>3. QED
        BY <2>4, <4>1, <4>2
    <3>3. QED
      BY <3>1, <3>2
  <2>6. p[0] = NewForm(l)
    BY <2>3, <2>4 DEF IsPath
  <2>7. IsPath(d, l, n + 1, p)
    BY <2>5, <2>6 DEF IsPath
  <2>8. QED
    BY <2>4, <2>7
<1> HIDE DEF S
<1>3. \A n \in Nat : n \in S
  BY <1>1, <1>2, AllNumbers
<1>4. QED
  BY <1>3 DEF S

LEMMA SuccessorsDeeper ==
  ASSUME NEW d, NEW s, CountsUsed(d, s), NEW t \in Successors(d, s)
  PROVE  Depth(t) = Depth(s) + 1
<1>1. PICK r \in d.rules :
        \E form \in Apply(r, s.form, d.fullStrip) : t = Extend(s, r, form, d.circumfix)
  BY DEF Successors
<1>2. t.used = Append(s.used, r.id)
  BY <1>1 DEF Extend, CountsUsed
<1>3. QED
  BY <1>2 DEF Depth, CountsUsed

(* Along a chain every state counts its rules, and its form is spelled.     *)
LEMMA PathCounts ==
  ASSUME NEW Letter, NEW d, Rules(d), Spelled(d, Letter), NEW l \in d.lexemes,
         NEW n \in Nat, NEW p, IsPath(d, l, n, p)
  PROVE  \A i \in 0..n : /\ CountsUsed(d, p[i]) /\ Depth(p[i]) = i
                         /\ "form" \in DOMAIN p[i] /\ p[i].form \in Seq(Letter)
<1> DEFINE Fine(i) == /\ CountsUsed(d, p[i]) /\ Depth(p[i]) = i
                      /\ "form" \in DOMAIN p[i] /\ p[i].form \in Seq(Letter)
           S == {i \in Nat : i <= n => Fine(i)}
<1>1. 0 \in S
  <2>1. p[0] = NewForm(l)
    BY DEF IsPath
  <2>2. CountsUsed(d, NewForm(l)) /\ Depth(NewForm(l)) = 0
    BY DEF CountsUsed, NewForm, Depth
  <2>3. "form" \in DOMAIN NewForm(l) /\ NewForm(l).form \in Seq(Letter)
    BY DEF NewForm, Spelled
  <2>4. QED
    BY <2>1, <2>2, <2>3
<1>2. ASSUME NEW i \in Nat, i \in S
      PROVE  i + 1 \in S
  <2> SUFFICES ASSUME i + 1 <= n
               PROVE  Fine(i + 1)
    OBVIOUS
  <2>1. Fine(i)
    BY <1>2
  <2>2. p[i + 1] \in Successors(d, p[i])
    BY DEF IsPath
  <2>3. CountsUsed(d, p[i + 1])
    BY <2>1, <2>2, SuccessorsCount
  <2>4. PICK r \in d.rules :
          \E form \in Apply(r, p[i].form, d.fullStrip) :
             p[i + 1] = Extend(p[i], r, form, d.circumfix)
    BY <2>2 DEF Successors
  <2>5. PICK form \in Apply(r, p[i].form, d.fullStrip) :
          p[i + 1] = Extend(p[i], r, form, d.circumfix)
    BY <2>4
  <2>6. form \in Seq(Letter)
    BY <2>1, AppliedSpelled DEF Spelled
  <2>7. "form" \in DOMAIN p[i + 1] /\ p[i + 1].form = form
    <3> DEFINE q == p[i]
    <3>1. "form" \in DOMAIN q
      BY <2>1
    <3> HIDE DEF q
    <3>2. LET t == Extend(q, r, form, d.circumfix)
          IN "form" \in DOMAIN t /\ t.form = form
      BY <3>1 DEF Extend
    <3>3. QED
      BY <2>5, <3>2 DEF q
  <2>8. Depth(p[i + 1]) = i + 1
    BY <2>1, <2>2, SuccessorsDeeper
  <2>9. QED
    BY <2>3, <2>6, <2>7, <2>8
<1> HIDE DEF S
<1>3. \A i \in Nat : i \in S
  BY <1>1, <1>2, AllNumbers
<1>4. QED
  BY <1>3 DEF S

(* The stems that some rule of the dictionary makes a form of. *)
StemsOf(d, form) ==
  UNION {ReverseApply(r, form, d.fullStrip) : r \in CandidateRules(d.rules, form)}

(* The way back from the form of a state leads to the one before it.        *)
LEMMA StepsBack ==
  ASSUME NEW Letter, NEW d, Rules(d), Spelled(d, Letter),
         NEW s, s.form \in Seq(Letter), "form" \in DOMAIN s, NEW t \in Successors(d, s)
  PROVE  s.form \in StemsOf(d, t.form)
<1>1. PICK r \in d.rules :
        \E form \in Apply(r, s.form, d.fullStrip) : t = Extend(s, r, form, d.circumfix)
  BY DEF Successors
<1>2. PICK form \in Apply(r, s.form, d.fullStrip) : t = Extend(s, r, form, d.circumfix)
  BY <1>1
<1>3. t.form = form
  BY <1>2 DEF Extend
<1>4. r.kind \in Kind /\ r.add \in Seq(Letter) /\ r.strip \in Seq(Letter)
  BY DEF Rules, Spelled
<1>5. s.form \in ReverseApply(r, form, d.fullStrip)
  BY <1>4, ReverseApplies
<1>6. r \in CandidateRules(d.rules, form)
  BY <1>4, RuleFiled
<1>7. QED
  BY <1>3, <1>5, <1>6 DEF StemsOf

-----------------------------------------------------------------------------
(* What the search finds, and what it cannot miss                          *)

(* A chain of rules that makes the word of a usable entry. *)
Derivation(d, w, k, l, n, p) ==
  /\ l \in d.lexemes /\ Usable(d, l, k)
  /\ n \in 1..MaxAffixChain /\ IsPath(d, l, n, p)
  /\ p[n].form = w /\ AcceptedState(d, p[n])

(* The states kept are made of the entry at hand. *)
StatesDerived(d) ==
  stage = "derive" =>
    \E l \in d.lexemes :
      /\ Usable(d, l, keep)
      /\ \A s \in states : Depth(s) \in 0..MaxAffixChain /\ s \in Levels(d, l)[Depth(s)]

(* No step of the way back was left out. *)
WayBack(d) ==
  stage = "reverse" =>
    /\ [form |-> word, depth |-> 0] \in forms
    /\ \A f \in forms \ pending : f.depth # MaxAffixChain =>
         \A stem \in StemsOf(d, f.form) :
           /\ [form |-> stem, depth |-> f.depth + 1] \in forms
           /\ \A l \in d.lexemes : l.stem = stem => l \in candidates

(* What is still to be taken up leads to the word, if anything does. *)
WayForth(d) ==
  stage \in {"entries", "derive"} /\ ~exhausted /\ DerivedWord(d, word, keep) =>
    \E l, n, p :
      /\ Derivation(d, word, keep, l, n, p)
      /\ \/ l \in candidates
         \/ stage = "derive" /\ \E i \in 0..n : p[i] \in states

ExactInv(d) ==
  /\ SearchInv(d)
  /\ candidates \subseteq d.lexemes
  /\ StatesDerived(d)
  /\ WayBack(d)
  /\ WayForth(d)
  /\ DerivedExact

LEMMA DerivationExists ==
  ASSUME NEW d, DerivedWord(d, word, keep)
  PROVE  \E l, n, p : Derivation(d, word, keep, l, n, p)
<1>1. PICK l \in d.lexemes :
        /\ Usable(d, l, keep)
        /\ \E s \in Chains(d, l) : s.form = word /\ AcceptedState(d, s)
  BY DEF DerivedWord
<1>2. PICK s \in Chains(d, l) : s.form = word /\ AcceptedState(d, s)
  BY <1>1
<1>3. PICK n \in 1..MaxAffixChain : s \in Levels(d, l)[n]
  BY <1>2 DEF Chains
<1>4. PICK p : IsPath(d, l, n, p) /\ p[n] = s
  BY <1>3, PathTo, SearchBounds
<1>5. Derivation(d, word, keep, l, n, p)
  BY <1>1, <1>2, <1>4 DEF Derivation
<1>6. QED
  BY <1>5

(* When nothing is pending the way back has met every entry that derives    *)
(* the word.  (derived_candidate_indices)                                  *)
LEMMA EntryMet ==
  ASSUME NEW Letter, NEW d, Rules(d), Spelled(d, Letter),
         WayBack(d), stage = "reverse", pending = {},
         NEW l, NEW n, NEW p, Derivation(d, word, keep, l, n, p)
  PROVE  l \in candidates
<1> DEFINE At(k) == [form |-> p[n - k].form, depth |-> k]
           S == {k \in Nat : k <= n - 1 => At(k) \in forms}
<1>0. /\ n \in Nat /\ n >= 1 /\ n <= MaxAffixChain /\ MaxAffixChain \in Nat
      /\ l \in d.lexemes /\ IsPath(d, l, n, p) /\ p[n].form = word
  BY SearchBounds DEF Derivation
<1>1. \A i \in 0..n : "form" \in DOMAIN p[i] /\ p[i].form \in Seq(Letter)
  BY <1>0, PathCounts
<1>2. ASSUME NEW k \in 0..(n - 1), At(k) \in forms
      PROVE  /\ [form |-> p[n - (k + 1)].form, depth |-> k + 1] \in forms
             /\ \A x \in d.lexemes : x.stem = p[n - (k + 1)].form => x \in candidates
  <2> DEFINE i == n - (k + 1)
  <2>1. i \in 0..(n - 1) /\ i \in 0..n /\ i + 1 = n - k /\ k # MaxAffixChain
    BY <1>0
  <2> HIDE DEF i
  <2>2. p[i + 1] \in Successors(d, p[i])
    BY <1>0, <2>1 DEF IsPath
  <2>3. p[i].form \in StemsOf(d, p[i + 1].form)
    BY <1>1, <2>1, <2>2, StepsBack
  <2>4. PICK f \in forms : f = [form |-> p[i + 1].form, depth |-> k]
    BY <1>2, <2>1
  <2>5. f.form = p[i + 1].form /\ f.depth = k
    BY <2>4
  <2>6. /\ [form |-> p[i].form, depth |-> k + 1] \in forms
        /\ \A x \in d.lexemes : x.stem = p[i].form => x \in candidates
    BY <2>1, <2>3, <2>5 DEF WayBack
  <2>7. QED
    BY <2>6 DEF i
<1>3. 0 \in S
  BY <1>0 DEF WayBack
<1>4. ASSUME NEW k \in Nat, k \in S
      PROVE  k + 1 \in S
  <2> SUFFICES ASSUME k + 1 <= n - 1
               PROVE  At(k + 1) \in forms
    OBVIOUS
  <2>1. k \in 0..(n - 1) /\ At(k) \in forms
    BY <1>0, <1>4
  <2>2. QED
    BY <1>2, <2>1
<1> HIDE DEF S
<1>5. n - 1 \in S
  BY <1>0, <1>3, <1>4, AllNumbers
<1>6. At(n - 1) \in forms /\ n - 1 \in 0..(n - 1)
  BY <1>0, <1>5 DEF S
<1>7. n - ((n - 1) + 1) = 0 /\ p[0].form = l.stem
  BY <1>0 DEF IsPath, NewForm
<1> HIDE DEF At
<1>8. \A x \in d.lexemes : x.stem = p[n - ((n - 1) + 1)].form => x \in candidates
  BY <1>2, <1>6
<1>9. QED
  BY <1>0, <1>7, <1>8

LEMMA StartsExact ==
  ASSUME NEW d, SearchInit(d)
  PROVE  ExactInv(d)
<1>1. SearchInv(d)
  BY SearchStarts
<1>2. QED
  BY <1>1 DEF SearchInit, ExactInv, StatesDerived, WayBack, WayForth, DerivedExact

LEMMA AskExact ==
  ASSUME NEW d, ExactInv(d), SearchInv(d)', NEW w, NEW k, Ask(w, k)
  PROVE  ExactInv(d)'
<1>1. /\ stage' = "reverse" /\ candidates' = {} /\ word' = w
      /\ pending' = {[form |-> w, depth |-> 0]} /\ forms' = pending'
  BY DEF Ask
<1>2. WayBack(d)'
  BY <1>1 DEF WayBack
<1>3. QED
  BY <1>1, <1>2 DEF ExactInv, StatesDerived, WayForth, DerivedExact

LEMMA AnsweredExact ==
  ASSUME NEW d, SearchInv(d)', stage' = "answered", candidates' = {}, DerivedExact'
  PROVE  ExactInv(d)'
BY DEF ExactInv, StatesDerived, WayBack, WayForth

LEMMA TakeRulesOffExact ==
  ASSUME NEW d, ExactInv(d), SearchInv(d)', TakeRulesOff
  PROVE  ExactInv(d)'
<1>1. /\ hunspell = d /\ stage = "reverse" /\ UNCHANGED << hunspell, word, keep >>
      /\ candidates \subseteq d.lexemes /\ WayBack(d)
  BY DEF TakeRulesOff, Question, ExactInv, SearchInv
<1>2. PICK f \in pending :
        LET stems == IF f.depth = MaxAffixChain THEN {} ELSE Stems(f.form)
            entries == candidates \cup {l \in hunspell.lexemes : l.stem \in stems}
            new == {[form |-> s, depth |-> f.depth + 1] : s \in stems} \ forms
        IN \/ Answer(FALSE) /\ exhausted' = TRUE
           \/ /\ candidates' = entries /\ forms' = forms \cup new
              /\ pending' = (pending \ {f}) \cup new
              /\ UNCHANGED << stage, states, answer, exhausted >>
  BY DEF TakeRulesOff
<1> DEFINE stems == IF f.depth = MaxAffixChain THEN {} ELSE StemsOf(d, f.form)
           new == {[form |-> s, depth |-> f.depth + 1] : s \in stems} \ forms
<1>3. Stems(f.form) = StemsOf(d, f.form)
  BY <1>1 DEF Stems, StemsOf
<1>4. CASE Answer(FALSE) /\ exhausted' = TRUE
  BY <1>4, AnsweredExact DEF Answer, DerivedExact
<1>5. CASE /\ candidates' = candidates \cup {l \in d.lexemes : l.stem \in stems}
           /\ forms' = forms \cup new /\ pending' = (pending \ {f}) \cup new
           /\ UNCHANGED << stage, states, answer, exhausted >>
  <2>1. [form |-> word', depth |-> 0] \in forms'
    BY <1>1, <1>5 DEF WayBack
  <2>2. ASSUME NEW g \in forms' \ pending', g.depth # MaxAffixChain,
               NEW stem \in StemsOf(d, g.form)
        PROVE  /\ [form |-> stem, depth |-> g.depth + 1] \in forms'
               /\ \A l \in d.lexemes : l.stem = stem => l \in candidates'
    <3>1. g = f \/ g \in forms \ pending
      BY <1>5, <2>2
    <3>2. CASE g = f
      <4>1. stem \in stems
        BY <2>2, <3>2
      <4> HIDE DEF stems
      <4>2. [form |-> stem, depth |-> f.depth + 1] \in forms \cup new
        BY <4>1
      <4>3. QED
        BY <1>5, <3>2, <4>1, <4>2
    <3>3. CASE g \in forms \ pending
      BY <1>1, <1>5, <2>2, <3>3 DEF WayBack
    <3>4. QED
      BY <3>1, <3>2, <3>3
  <2>3. WayBack(d)'
    BY <2>1, <2>2 DEF WayBack
  <2>4. candidates' \subseteq d.lexemes
    BY <1>1, <1>5
  <2>5. QED
    BY <1>1, <1>5, <2>3, <2>4 DEF ExactInv, StatesDerived, WayForth, DerivedExact
<1>6. QED
  BY <1>1, <1>2, <1>3, <1>4, <1>5

LEMMA AllRulesOffExact ==
  ASSUME NEW Letter, NEW d, Rules(d), Spelled(d, Letter),
         ExactInv(d), SearchInv(d)', AllRulesOff
  PROVE  ExactInv(d)'
<1>1. /\ stage = "reverse" /\ pending = {} /\ stage' = "entries"
      /\ UNCHANGED << hunspell, word, keep, candidates, exhausted >>
      /\ candidates \subseteq d.lexemes /\ WayBack(d)
  BY DEF AllRulesOff, Question, ExactInv
<1>2. ASSUME DerivedWord(d, word, keep)
      PROVE  \E l, n, p : Derivation(d, word, keep, l, n, p) /\ l \in candidates
  <2>1. PICK l, n, p : Derivation(d, word, keep, l, n, p)
    BY <1>2, DerivationExists
  <2>2. l \in candidates
    BY <1>1, <2>1, EntryMet
  <2>3. QED
    BY <2>1, <2>2
<1>3. WayForth(d)'
  BY <1>1, <1>2 DEF WayForth
<1>4. QED
  BY <1>1, <1>3 DEF ExactInv, StatesDerived, WayBack, DerivedExact

LEMMA NextEntryExact ==
  ASSUME NEW d, ExactInv(d), SearchInv(d)', NextEntry
  PROVE  ExactInv(d)'
<1>1. /\ hunspell = d /\ stage = "entries"
      /\ UNCHANGED << hunspell, word, keep, exhausted >>
      /\ candidates \subseteq d.lexemes /\ WayForth(d)
  BY DEF NextEntry, Question, ExactInv, SearchInv
<1>2. PICK l \in candidates :
        /\ candidates' = candidates \ {l}
        /\ IF Usable(hunspell, l, keep)
           THEN stage' = "derive" /\ states' = {NewForm(l)}
           ELSE UNCHANGED << stage, states >>
  BY DEF NextEntry, Untaken
<1>3. CASE Usable(d, l, keep)
  <2>1. stage' = "derive" /\ states' = {NewForm(l)} /\ l \in d.lexemes
    BY <1>1, <1>2, <1>3
  <2>2. StatesDerived(d)'
    <3>1. Depth(NewForm(l)) = 0 /\ NewForm(l) \in Levels(d, l)[0] /\ 0 \in 0..MaxAffixChain
      <4>1. 0 \in 0..MaxAffixChain
        BY SearchBounds
      <4>2. Levels(d, l)[0] = {NewForm(l)}
        BY <4>1, LevelsDef
      <4>3. Depth(NewForm(l)) = 0
        BY DEF Depth, NewForm
      <4>4. QED
        BY <4>1, <4>2, <4>3
    <3>2. Usable(d, l, keep')
      BY <1>1, <1>3
    <3>3. \A s \in states' : Depth(s) \in 0..MaxAffixChain /\ s \in Levels(d, l)[Depth(s)]
      BY <2>1, <3>1
    <3>4. QED
      BY <2>1, <3>2, <3>3 DEF StatesDerived
  <2>3. WayForth(d)'
    <3>1. SUFFICES ASSUME ~exhausted, DerivedWord(d, word, keep)
                   PROVE  \E x, n, p : /\ Derivation(d, word, keep, x, n, p)
                                       /\ \/ x \in candidates'
                                          \/ \E i \in 0..n : p[i] \in states'
      BY <1>1, <2>1 DEF WayForth
    <3>2. PICK x, n, p : Derivation(d, word, keep, x, n, p) /\ x \in candidates
      BY <1>1, <3>1 DEF WayForth
    <3>3. CASE x = l
      <4>1. p[0] \in states' /\ 0 \in 0..n
        BY <2>1, <3>2, <3>3 DEF Derivation, IsPath
      <4>2. QED
        BY <3>2, <4>1
    <3>4. CASE x # l
      BY <1>2, <3>2, <3>4
    <3>5. QED
      BY <3>3, <3>4
  <2>4. candidates' \subseteq d.lexemes
    BY <1>1, <1>2
  <2>5. QED
    BY <2>1, <2>2, <2>3, <2>4 DEF ExactInv, WayBack, DerivedExact
<1>4. CASE ~Usable(d, l, keep)
  <2>1. UNCHANGED << stage, states >>
    BY <1>1, <1>2, <1>4
  <2>2. WayForth(d)'
    <3>1. SUFFICES ASSUME ~exhausted, DerivedWord(d, word, keep)
                   PROVE  \E x, n, p : Derivation(d, word, keep, x, n, p) /\ x \in candidates'
      BY <1>1, <2>1 DEF WayForth
    <3>2. PICK x, n, p : Derivation(d, word, keep, x, n, p) /\ x \in candidates
      BY <1>1, <3>1 DEF WayForth
    <3>3. x # l
      BY <1>4, <3>2 DEF Derivation
    <3>4. QED
      BY <1>2, <3>2, <3>3
  <2>3. candidates' \subseteq d.lexemes
    BY <1>1, <1>2
  <2>4. QED
    BY <1>1, <2>1, <2>2, <2>3 DEF ExactInv, StatesDerived, WayBack, DerivedExact
<1>5. QED
  BY <1>3, <1>4

LEMMA NoEntryLeftExact ==
  ASSUME NEW d, ExactInv(d), SearchInv(d)', NoEntryLeft
  PROVE  ExactInv(d)'
<1>1. /\ hunspell = d /\ stage = "entries" /\ candidates = {} /\ answer' = FALSE
      /\ UNCHANGED << hunspell, word, keep, exhausted >> /\ WayForth(d)
      /\ stage' = "answered" /\ candidates' = {}
  BY DEF NoEntryLeft, Answer, Question, ExactInv, SearchInv
<1>2. ~exhausted => ~DerivedWord(d, word, keep)
  BY <1>1 DEF WayForth
<1>3. DerivedExact'
  BY <1>1, <1>2 DEF DerivedExact
<1>4. QED
  BY <1>1, <1>3, AnsweredExact

(* A derivation that is taken up without being the word leaves its next     *)
(* state behind.                                                           *)
LEMMA TakenUpExact ==
  ASSUME NEW Letter, NEW d, Rules(d), Spelled(d, Letter), ExactInv(d), SearchInv(d)',
         stage = "derive", NEW s \in states, ~Derives(s),
         UNCHANGED << Question, stage, candidates, exhausted >>,
         states' = (states \ {s}) \cup
                     (IF Depth(s) = MaxAffixChain THEN {} ELSE Successors(hunspell, s))
  PROVE  ExactInv(d)'
<1> DEFINE next == IF Depth(s) = MaxAffixChain THEN {} ELSE Successors(d, s)
<1>1. /\ hunspell = d /\ hunspell' = d /\ stage' = "derive"
      /\ UNCHANGED << word, keep, candidates, exhausted >>
      /\ candidates \subseteq d.lexemes /\ WayForth(d) /\ StatesDerived(d)
      /\ states' = (states \ {s}) \cup next /\ CountsUsed(d, s)
  BY DEF Question, ExactInv, SearchInv
<1>2. StatesDerived(d)'
  <2>1. PICK l \in d.lexemes :
          /\ Usable(d, l, keep)
          /\ \A x \in states : Depth(x) \in 0..MaxAffixChain /\ x \in Levels(d, l)[Depth(x)]
    BY <1>1 DEF StatesDerived
  <2>2. ASSUME NEW t \in next
        PROVE  Depth(t) \in 0..MaxAffixChain /\ t \in Levels(d, l)[Depth(t)]
    <3>1. Depth(s) # MaxAffixChain /\ t \in Successors(d, s)
      BY <2>2
    <3>2. Depth(s) \in Nat /\ Depth(s) + 1 \in 0..MaxAffixChain /\ s \in Levels(d, l)[Depth(s)]
      BY <2>1, <3>1, SearchBounds
    <3>3. Depth(t) = Depth(s) + 1
      BY <1>1, <3>1, SuccessorsDeeper
    <3>4. t \in Levels(d, l)[Depth(s) + 1]
      BY <3>1, <3>2, LevelsNext
    <3>5. QED
      BY <3>2, <3>3, <3>4
  <2>3. Usable(d, l, keep')
    BY <1>1, <2>1
  <2> HIDE DEF next
  <2>4. \A x \in states' : Depth(x) \in 0..MaxAffixChain /\ x \in Levels(d, l)[Depth(x)]
    BY <1>1, <2>1, <2>2
  <2>5. QED
    BY <2>3, <2>4 DEF StatesDerived
<1>3. WayForth(d)'
  <2>1. SUFFICES ASSUME ~exhausted, DerivedWord(d, word, keep)
                 PROVE  \E l, n, p : /\ Derivation(d, word, keep, l, n, p)
                                     /\ \/ l \in candidates
                                        \/ \E i \in 0..n : p[i] \in states'
    BY <1>1 DEF WayForth
  <2>2. PICK l, n, p : /\ Derivation(d, word, keep, l, n, p)
                       /\ l \in candidates \/ \E i \in 0..n : p[i] \in states
    BY <1>1, <2>1 DEF WayForth
  <2>3. CASE l \in candidates
    BY <2>2, <2>3
  <2>4. CASE \E i \in 0..n : p[i] \in states
    <3>1. PICK i \in 0..n : p[i] \in states
      BY <2>4
    <3>2. CASE p[i] # s
      BY <1>1, <2>2, <3>1, <3>2
    <3>3. CASE p[i] = s
      <4>1. /\ n \in 1..MaxAffixChain /\ MaxAffixChain \in Nat /\ n \in Nat
            /\ l \in d.lexemes /\ IsPath(d, l, n, p)
            /\ p[n].form = word /\ AcceptedState(d, p[n])
        BY <2>2, SearchBounds DEF Derivation
      <4>2. Depth(s) = i
        BY <3>3, <4>1, PathCounts
      <4>3. i # n
        BY <1>1, <3>3, <4>1, <4>2 DEF Derives
      <4>4. i \in 0..(n - 1) /\ i + 1 \in 0..n /\ i # MaxAffixChain
        BY <4>1, <4>3
      <4>5. p[i + 1] \in Successors(d, s)
        BY <3>3, <4>1, <4>4 DEF IsPath
      <4>6. p[i + 1] \in states'
        BY <1>1, <4>2, <4>4, <4>5
      <4>7. QED
        BY <2>2, <4>4, <4>6
    <3>4. QED
      BY <3>2, <3>3
  <2>5. QED
    BY <2>2, <2>3, <2>4
<1>4. QED
  BY <1>1, <1>2, <1>3 DEF ExactInv, WayBack, DerivedExact

LEMMA DeriveExact ==
  ASSUME NEW Letter, NEW d, Rules(d), Spelled(d, Letter),
         ExactInv(d), SearchInv(d)', Derive
  PROVE  ExactInv(d)'
<1>1. /\ hunspell = d /\ stage = "derive" /\ UNCHANGED Question
      /\ candidates \subseteq d.lexemes /\ StatesDerived(d)
  BY DEF Derive, ExactInv, SearchInv
<1>2. PICK s \in states :
        LET next == IF Depth(s) = MaxAffixChain THEN {} ELSE Successors(hunspell, s)
        IN \/ Derives(s) /\ Answer(TRUE)
           \/ /\ ~Derives(s) /\ states' = (states \ {s}) \cup next
              /\ UNCHANGED << stage, candidates, exhausted >>
           \/ /\ stage' = "entries" /\ states' = {} /\ exhausted' = TRUE
              /\ UNCHANGED candidates
  BY DEF Derive
<1>3. CASE Derives(s) /\ Answer(TRUE)
  <2>1. PICK l \in d.lexemes :
          /\ Usable(d, l, keep)
          /\ Depth(s) \in 0..MaxAffixChain /\ s \in Levels(d, l)[Depth(s)]
    BY <1>1 DEF StatesDerived
  <2>2. Depth(s) \in 1..MaxAffixChain /\ s.form = word /\ AcceptedState(d, s)
    BY <1>1, <1>3, <2>1, SearchBounds DEF Derives
  <2>3. s \in Chains(d, l)
    BY <2>1, <2>2 DEF Chains
  <2>4. DerivedWord(d, word, keep)
    BY <2>1, <2>2, <2>3 DEF DerivedWord
  <2>5. DerivedExact'
    BY <1>1, <1>3, <2>4 DEF DerivedExact, Answer, Question
  <2>6. QED
    BY <1>3, <2>5, AnsweredExact DEF Answer
<1>4. CASE /\ ~Derives(s)
           /\ states' = (states \ {s}) \cup
                (IF Depth(s) = MaxAffixChain THEN {} ELSE Successors(hunspell, s))
           /\ UNCHANGED << stage, candidates, exhausted >>
  BY <1>1, <1>4, TakenUpExact
<1>5. CASE stage' = "entries" /\ states' = {} /\ exhausted' = TRUE /\ UNCHANGED candidates
  BY <1>1, <1>5 DEF ExactInv, StatesDerived, WayBack, WayForth, DerivedExact
<1>6. QED
  BY <1>2, <1>3, <1>4, <1>5

LEMMA EntryDoneExact ==
  ASSUME NEW d, ExactInv(d), SearchInv(d)', EntryDone
  PROVE  ExactInv(d)'
<1>1. /\ stage = "derive" /\ states = {} /\ stage' = "entries"
      /\ UNCHANGED << hunspell, word, keep, candidates, exhausted >>
      /\ candidates \subseteq d.lexemes /\ WayForth(d)
  BY DEF EntryDone, Question, ExactInv
<1>2. WayForth(d)'
  BY <1>1 DEF WayForth
<1>3. QED
  BY <1>1, <1>2 DEF ExactInv, StatesDerived, WayBack, DerivedExact

LEMMA SearchStaysExact ==
  ASSUME NEW Letter, NEW d, Rules(d), Spelled(d, Letter),
         ExactInv(d), [SearchNext]_searchVars
  PROVE  ExactInv(d)'
<1>1. SearchInv(d)'
  BY SearchGoesOn DEF ExactInv
<1>2. CASE \E w, k : Ask(w, k)
  BY <1>1, <1>2, AskExact
<1>3. CASE TakeRulesOff
  BY <1>1, <1>3, TakeRulesOffExact
<1>4. CASE AllRulesOff
  BY <1>1, <1>4, AllRulesOffExact
<1>5. CASE NextEntry
  BY <1>1, <1>5, NextEntryExact
<1>6. CASE NoEntryLeft
  BY <1>1, <1>6, NoEntryLeftExact
<1>7. CASE Derive
  BY <1>1, <1>7, DeriveExact
<1>8. CASE EntryDone
  BY <1>1, <1>8, EntryDoneExact
<1>9. CASE Forget
  BY <1>1, <1>9 DEF Forget, ExactInv, StatesDerived, WayBack, WayForth, DerivedExact
<1>10. CASE UNCHANGED searchVars
  BY <1>1, <1>10 DEF searchVars, ExactInv, StatesDerived, WayBack, WayForth, DerivedExact
<1>11. QED
  BY <1>2, <1>3, <1>4, <1>5, <1>6, <1>7, <1>8, <1>9, <1>10 DEF SearchNext, SearchStep

(* In every dictionary, whatever its rules, the search finds a word only if *)
(* some entry derives it, and, unless a budget was used up, whenever one    *)
(* does: the way back by the filed rules misses no entry the way forth      *)
(* would reach.  (derived_candidate_indices, matches_derived_word)         *)
THEOREM DerivedExactCorrect ==
  ASSUME NEW Letter, NEW d, Rules(d), Spelled(d, Letter)
  PROVE  SearchSpec(d) => []DerivedExact
<1>1. SearchInit(d) => ExactInv(d)
  BY StartsExact
<1>2. ExactInv(d) /\ [SearchNext]_searchVars => ExactInv(d)'
  BY SearchStaysExact
<1>3. ExactInv(d) => DerivedExact
  BY DEF ExactInv
<1> QED
  BY <1>1, <1>2, <1>3, PTL DEF SearchSpec

-----------------------------------------------------------------------------
(* Texts                                                                   *)

LEMMA TextType ==
  ASSUME NEW t, IsText(t)
  PROVE  /\ Len(t) \in Nat /\ DOMAIN t = 1..Len(t)
         /\ IsFiniteSet(DOMAIN t) /\ DOMAIN t \in SUBSET Nat
<1>1. Len(t) \in Nat /\ DOMAIN t = 1..Len(t)
  BY LenProperties DEF IsText
<1>2. IsFiniteSet(1..Len(t))
  BY <1>1, FS_Interval
<1>3. QED
  BY <1>1, <1>2

LEMMA TextMade ==
  ASSUME NEW n \in Nat, NEW t, DOMAIN t = 1..n, t = [i \in DOMAIN t |-> t[i]]
  PROVE  IsText(t) /\ Len(t) = n
<1>1. t \in [1..n -> Range(t)]
  BY DEF Range
<1>2. t \in Seq(Range(t))
  BY <1>1
<1>3. QED
  BY <1>2, LenProperties DEF IsText

LEMMA SeqIsText ==
  ASSUME NEW S, NEW s \in Seq(S)
  PROVE  IsText(s) /\ Range(s) \subseteq S
<1>1. Len(s) \in Nat /\ DOMAIN s = 1..Len(s) /\ s = [i \in DOMAIN s |-> s[i]]
  BY LenProperties
<1>2. \A i \in DOMAIN s : s[i] \in S
  BY <1>1, ElementOfSeq
<1>3. QED
  BY <1>1, <1>2, TextMade DEF Range

LEMMA PartIsText ==
  ASSUME NEW s, NEW a \in Int, NEW b \in Int
  PROVE  IsText(SubSeq(s, a, b))
<1> DEFINE S == {s[i] : i \in a..b}
<1>1. \A i \in a..b : s[i] \in S
  OBVIOUS
<1> HIDE DEF S
<1>2. SubSeq(s, a, b) \in Seq(S)
  BY <1>1, SubSeqProperties
<1>3. QED
  BY <1>2, SeqIsText

LEMMA JoinIsText ==
  ASSUME NEW s, IsText(s), NEW t, IsText(t)
  PROVE  IsText(s \o t)
<1> DEFINE S == Range(s) \cup Range(t)
<1>1. s \in Seq(S) /\ t \in Seq(S)
  BY SeqMonotonic DEF IsText
<1> HIDE DEF S
<1>2. s \o t \in Seq(S)
  BY <1>1, ConcatProperties
<1>3. QED
  BY <1>2, SeqIsText

LEMMA EmptyText == IsText(<<>>) /\ Range(<<>>) = {}
<1>1. DOMAIN <<>> = 1..0 /\ <<>> = [n \in DOMAIN <<>> |-> <<>>[n]]
  OBVIOUS
<1>2. \A x : x \notin DOMAIN <<>>
  BY <1>1
<1>3. QED
  BY <1>1, <1>2, TextMade DEF Range

LEMMA SingletonText ==
  ASSUME NEW x
  PROVE  IsText(<<x>>)
<1>1. DOMAIN <<x>> = 1..1 /\ <<x>> = [i \in DOMAIN <<x>> |-> <<x>>[i]]
  OBVIOUS
<1>2. QED
  BY <1>1, TextMade

-----------------------------------------------------------------------------
(* Recursion                                                               *)

(* A recursion over the numbers up to N whose values stay in a set has a    *)
(* solution.                                                               *)
IsSequel(D, b, Step, f, k) ==
  f \in [0..k -> D] /\ f[0] = b /\ \A n \in 1..k : f[n] = Step[n][f[n - 1]]

LEMMA SequelExists ==
  ASSUME NEW N \in Nat, NEW D, NEW b \in D, NEW Step \in [1..N -> [D -> D]]
  PROVE  \E f : IsSequel(D, b, Step, f, N)
<1> DEFINE S == {k \in Nat : k <= N => \E f : IsSequel(D, b, Step, f, k)}
<1>1. 0 \in S
  <2>1. IsSequel(D, b, Step, [n \in 0..0 |-> b], 0)
    BY DEF IsSequel
  <2>2. QED
    BY <2>1
<1>2. ASSUME NEW k \in Nat, k \in S
      PROVE  k + 1 \in S
  <2> SUFFICES ASSUME k + 1 <= N
               PROVE  \E f : IsSequel(D, b, Step, f, k + 1)
    OBVIOUS
  <2>1. PICK f : IsSequel(D, b, Step, f, k)
    BY <1>2
  <2> DEFINE g == [n \in 0..(k + 1) |-> IF n = k + 1 THEN Step[k + 1][f[k]] ELSE f[n]]
  <2>2. f[k] \in D /\ Step[k + 1][f[k]] \in D
    <3>1. f[k] \in D /\ k + 1 \in 1..N
      BY <2>1 DEF IsSequel
    <3>2. Step[k + 1] \in [D -> D]
      BY <3>1
    <3>3. QED
      BY <3>1, <3>2
  <2>3. g \in [0..(k + 1) -> D] /\ g[0] = b
    BY <2>1, <2>2 DEF IsSequel
  <2>4. ASSUME NEW n \in 1..(k + 1)
        PROVE  g[n] = Step[n][g[n - 1]]
    <3>1. CASE n = k + 1
      BY <3>1
    <3>2. CASE n \in 1..k
      <4>1. g[n] = f[n] /\ g[n - 1] = f[n - 1]
        BY <3>2
      <4>2. QED
        BY <2>1, <3>2, <4>1 DEF IsSequel
    <3>3. QED
      BY <3>1, <3>2
  <2> HIDE DEF g
  <2>5. IsSequel(D, b, Step, g, k + 1)
    BY <2>3, <2>4 DEF IsSequel
  <2>6. QED
    BY <2>5
<1> HIDE DEF S
<1>3. N \in S
  BY <1>1, <1>2, AllNumbers
<1> QED
  BY <1>3 DEF S

-----------------------------------------------------------------------------
(* Frontiers of boundaries                                                 *)

(* What n components can end at, when <<i, start, end>> among the edges     *)
(* says that the i-th may lie between start and end.                       *)
Extended(edges, L, n, reach) ==
  {end \in 1..L : \E start \in reach : <<n, start, end>> \in edges}

IsFrontier(edges, L, N, f) ==
  f[0] = {0} /\ \A n \in 1..N : f[n] = Extended(edges, L, n, f[n - 1])

LEMMA FrontierExists ==
  ASSUME NEW edges, NEW L \in Nat, NEW N \in Nat
  PROVE  \E f : /\ f = [n \in 0..N |-> f[n]]
                /\ \A n \in 0..N : f[n] \subseteq 0..L
                /\ IsFrontier(edges, L, N, f)
<1> DEFINE D == SUBSET (0..L)
           Step == [n \in 1..N |-> [r \in D |-> Extended(edges, L, n, r)]]
<1>1. Step \in [1..N -> [D -> D]]
  BY DEF Extended
<1>2. ASSUME NEW n \in 1..N, NEW r \in D
      PROVE  Step[n][r] = Extended(edges, L, n, r)
  OBVIOUS
<1>3. {0} \in D
  OBVIOUS
<1> HIDE DEF Step
<1>4. PICK f : IsSequel(D, {0}, Step, f, N)
  BY <1>1, <1>3, SequelExists
<1>5. \A n \in 1..N : f[n] = Extended(edges, L, n, f[n - 1])
  BY <1>2, <1>4 DEF IsSequel
<1>6. QED
  BY <1>4, <1>5 DEF IsSequel, IsFrontier

(* Sequences put together one after the other: what the first i make. *)
IsJoining(T, seqs, g) ==
  /\ g[0] = <<>> /\ \A i \in 0..Len(seqs) : g[i] \in Seq(T)
  /\ \A i \in 1..Len(seqs) : g[i] = g[i - 1] \o seqs[i]

LEMMA FlattenSteps ==
  ASSUME NEW T, NEW n \in Nat, NEW seqs, DOMAIN seqs = 1..n,
         seqs = [i \in DOMAIN seqs |-> seqs[i]], \A i \in 1..n : seqs[i] \in Seq(T)
  PROVE  Len(seqs) = n /\ \E g : IsJoining(T, seqs, g) /\ FlattenSeq(seqs) = g[n]
<1> DEFINE IsJoined(f) == f = [i \in 1..n |-> IF i = 1 THEN seqs[i] ELSE f[i - 1] \o seqs[i]]
           Step == [i \in 1..n |-> [s \in Seq(T) |-> s \o seqs[i]]]
<1>1. IsText(seqs) /\ Len(seqs) = n
  BY TextMade
<1>2. \A i \in 1..n : \A s \in Seq(T) : s \o seqs[i] \in Seq(T)
  BY ConcatProperties
<1>3. Step \in [1..n -> [Seq(T) -> Seq(T)]]
  BY <1>2
<1>4. \A i \in 1..n : \A s \in Seq(T) : Step[i][s] = s \o seqs[i]
  OBVIOUS
<1>5. <<>> \in Seq(T)
  BY EmptySeq
<1> HIDE DEF Step
<1>6. PICK g : IsSequel(Seq(T), <<>>, Step, g, n)
  BY <1>3, <1>5, SequelExists
<1>7. g[0] = <<>> /\ \A i \in 0..n : g[i] \in Seq(T)
  BY <1>6 DEF IsSequel
<1>8. ASSUME NEW i \in 1..n
      PROVE  g[i] = g[i - 1] \o seqs[i]
  <2>1. i - 1 \in 0..n /\ g[i] = Step[i][g[i - 1]]
    BY <1>6 DEF IsSequel
  <2>2. QED
    BY <1>4, <1>7, <2>1
<1>9. IsJoining(T, seqs, g)
  BY <1>1, <1>7, <1>8 DEF IsJoining
<1>10. CASE n = 0
  <2>1. seqs = <<>>
    BY <1>1, <1>10, EmptySeq DEF IsText
  <2>2. FlattenSeq(seqs) = seqs
    BY <1>1, <1>10, Zenon DEF FlattenSeq
  <2>3. QED
    BY <1>1, <1>7, <1>9, <1>10, <2>1, <2>2
<1>11. CASE n # 0
  <2> DEFINE h == [i \in 1..n |-> g[i]]
  <2>1. ASSUME NEW i \in 1..n
        PROVE  g[i] = IF i = 1 THEN seqs[i] ELSE h[i - 1] \o seqs[i]
    <3>1. CASE i = 1
      <4>1. <<>> \o seqs[i] = seqs[i]
        BY ConcatEmptySeq
      <4>2. g[i] = g[i - 1] \o seqs[i]
        BY <1>8
      <4>3. i - 1 = 0
        BY <3>1
      <4>4. QED
        BY <1>7, <3>1, <4>1, <4>2, <4>3
    <3>2. CASE i # 1
      <4>1. h[i - 1] = g[i - 1]
        BY <3>2
      <4>2. QED
        BY <1>8, <3>2, <4>1
    <3>3. QED
      BY <3>1, <3>2
  <2>2. IsJoined(h)
    <3>1. h = [i \in 1..n |-> IF i = 1 THEN seqs[i] ELSE h[i - 1] \o seqs[i]]
      BY <2>1, Zenon
    <3> HIDE DEF h
    <3>2. QED
      BY <3>1
  <2> DEFINE f == CHOOSE f : IsJoined(f)
  <2>3. FlattenSeq(seqs) = f[n]
    BY <1>1, <1>11 DEF FlattenSeq
  <2> HIDE DEF h
  <2>4. IsJoined(f)
    BY <2>2, Zenon
  <2> HIDE DEF f
  <2> DEFINE G == {i \in Nat : i \in 1..n => f[i] = g[i]}
  <2>5. \A i \in 1..n : f[i] = IF i = 1 THEN seqs[i] ELSE f[i - 1] \o seqs[i]
    BY <2>4
  <2>6. 0 \in G
    OBVIOUS
  <2>7. ASSUME NEW i \in Nat, i \in G
        PROVE  i + 1 \in G
    <3> SUFFICES ASSUME i + 1 \in 1..n
                 PROVE  f[i + 1] = g[i + 1]
      OBVIOUS
    <3>1. CASE i = 0
      BY <2>1, <2>5, <3>1
    <3>2. CASE i # 0
      <4>1. i \in 1..n /\ i + 1 # 1 /\ (i + 1) - 1 = i
        BY <3>2
      <4>2. f[i + 1] = f[i] \o seqs[i + 1] /\ g[i + 1] = g[i] \o seqs[i + 1] /\ f[i] = g[i]
        BY <1>8, <2>5, <2>7, <4>1
      <4>3. QED
        BY <4>2
    <3>3. QED
      BY <3>1, <3>2
  <2> HIDE DEF G
  <2>8. n \in G
    BY <2>6, <2>7, AllNumbers
  <2>9. QED
    BY <1>1, <1>9, <1>11, <2>3, <2>8 DEF G
<1>12. QED
  BY <1>10, <1>11

LEMMA FlattenIsSeq ==
  ASSUME NEW T, NEW n \in Nat, NEW seqs, DOMAIN seqs = 1..n,
         seqs = [i \in DOMAIN seqs |-> seqs[i]], \A i \in 1..n : seqs[i] \in Seq(T)
  PROVE  FlattenSeq(seqs) \in Seq(T)
<1>1. PICK g : IsJoining(T, seqs, g) /\ FlattenSeq(seqs) = g[n]
  BY FlattenSteps
<1>2. Len(seqs) = n
  BY FlattenSteps
<1>3. QED
  BY <1>1, <1>2 DEF IsJoining

(* One more sequence at the end. *)
LEMMA FlattenAppended ==
  ASSUME NEW T, NEW seqs \in Seq(Seq(T)), NEW s \in Seq(T)
  PROVE  FlattenSeq(Append(seqs, s)) = FlattenSeq(seqs) \o s
<1> DEFINE n == Len(seqs)
           more == Append(seqs, s)
<1>1. /\ n \in Nat /\ DOMAIN seqs = 1..n /\ seqs = [i \in DOMAIN seqs |-> seqs[i]]
      /\ \A i \in 1..n : seqs[i] \in Seq(T)
  BY LenProperties, ElementOfSeq
<1>2. /\ more \in Seq(Seq(T)) /\ Len(more) = n + 1 /\ more[n + 1] = s
      /\ \A i \in 1..n : more[i] = seqs[i]
  BY AppendProperties
<1>0. n \in Nat
  BY <1>1
<1> HIDE DEF more, n
<1>3. /\ DOMAIN more = 1..(n + 1) /\ more = [i \in DOMAIN more |-> more[i]]
      /\ \A i \in 1..(n + 1) : more[i] \in Seq(T)
  BY <1>2, LenProperties, ElementOfSeq
<1>4. PICK g : IsJoining(T, seqs, g) /\ FlattenSeq(seqs) = g[n]
  BY <1>1, FlattenSteps
<1>5. PICK h : IsJoining(T, more, h) /\ FlattenSeq(more) = h[n + 1]
  <2>1. n + 1 \in Nat
    BY <1>0
  <2> DEFINE m == n + 1
  <2> HIDE DEF m
  <2>2. \E h : IsJoining(T, more, h) /\ FlattenSeq(more) = h[m]
    BY <1>3, <2>1, FlattenSteps DEF m
  <2>3. QED
    BY <2>2 DEF m
<1> DEFINE G == {i \in Nat : i <= n => g[i] = h[i]}
<1>6. 0 \in G
  BY <1>4, <1>5 DEF IsJoining
<1>7. ASSUME NEW i \in Nat, i \in G
      PROVE  i + 1 \in G
  <2> SUFFICES ASSUME i + 1 <= n
               PROVE  g[i + 1] = h[i + 1]
    OBVIOUS
  <2>1. i + 1 \in 1..n /\ i + 1 \in 1..(n + 1) /\ (i + 1) - 1 = i
    BY <1>0
  <2>2. g[i + 1] = g[i] \o seqs[i + 1]
    BY <1>4, <2>1 DEF IsJoining, n
  <2>3. h[i + 1] = h[i] \o more[i + 1]
    BY <1>2, <1>5, <2>1 DEF IsJoining
  <2>4. g[i] = h[i]
    BY <1>0, <1>7
  <2>5. QED
    BY <1>2, <2>1, <2>2, <2>3, <2>4
<1> HIDE DEF G
<1>8. g[n] = h[n]
  <2>1. n \in G
    BY <1>0, <1>6, <1>7, AllNumbers
  <2>2. QED
    BY <1>0, <2>1 DEF G
<1>9. h[n + 1] = h[n] \o s
  <2>1. n + 1 \in 1..(n + 1) /\ (n + 1) - 1 = n
    BY <1>0
  <2>2. QED
    BY <1>2, <1>5, <2>1 DEF IsJoining
<1>10. QED
  BY <1>4, <1>5, <1>8, <1>9 DEF more

-----------------------------------------------------------------------------
(* The frontiers of the three kinds of compound                            *)

Allowed(d, w, start, end, triples) ==
  start + d.compound.minimum <= end /\ BoundaryAllowed(d, w, start, end, triples)

Triples(N, L) == (1..N) \X (0..L) \X (1..L)

GenericEdges(d, w, flag, kept, triples) ==
  {e \in Triples(Len(w), Len(w)) :
     /\ Allowed(d, w, e[2], e[3], triples)
     /\ MatchesComponent(d, SubSeq(w, e[2] + 1, e[3]), flag, e[3] = Len(w), kept)}

GenericStep(d, w, flag, kept, triples, reach) ==
  {end \in 1..Len(w) : \E start \in reach :
     /\ start + d.compound.minimum <= end
     /\ BoundaryAllowed(d, w, start, end, triples)
     /\ MatchesComponent(d, SubSeq(w, start + 1, end), flag, end = Len(w), kept)}

IsGenericReach(d, w, flag, kept, triples, f) ==
  f = [n \in 0..Len(w) |-> IF n = 0 THEN {0}
                           ELSE GenericStep(d, w, flag, kept, triples, f[n - 1])]

LEMMA GenericStepEdges ==
  ASSUME NEW d, NEW w, NEW flag, NEW kept, NEW triples, Len(w) \in Nat,
         NEW n \in 1..Len(w), NEW reach \in SUBSET (0..Len(w))
  PROVE  GenericStep(d, w, flag, kept, triples, reach) =
           Extended(GenericEdges(d, w, flag, kept, triples), Len(w), n, reach)
<1>1. ASSUME NEW end \in 1..Len(w), NEW start \in reach
      PROVE  <<n, start, end>> \in GenericEdges(d, w, flag, kept, triples) <=>
               /\ start + d.compound.minimum <= end
               /\ BoundaryAllowed(d, w, start, end, triples)
               /\ MatchesComponent(d, SubSeq(w, start + 1, end), flag, end = Len(w), kept)
  <2>1. <<n, start, end>> \in Triples(Len(w), Len(w))
    BY DEF Triples
  <2>2. QED
    BY <2>1 DEF GenericEdges, Allowed
<1>2. QED
  BY <1>1 DEF GenericStep, Extended

LEMMA GenericIsFrontier ==
  ASSUME NEW d, NEW w, NEW flag, NEW kept, NEW triples, Len(w) \in Nat
  PROVE  IsFrontier(GenericEdges(d, w, flag, kept, triples), Len(w), Len(w),
                    GenericReach(d, w, flag, kept, triples))
<1> DEFINE edges == GenericEdges(d, w, flag, kept, triples)
           Step(r) == GenericStep(d, w, flag, kept, triples, r)
           L == Len(w)
<1>1. ASSUME NEW n \in 1..L, NEW r \in SUBSET (0..L)
      PROVE  Step(r) = Extended(edges, L, n, r)
  BY <1>1, GenericStepEdges
<1>2. \A r : Step(r) \subseteq 0..L
  BY DEF GenericStep
<1>3. \E f : IsGenericReach(d, w, flag, kept, triples, f)
  <2> HIDE DEF edges, Step
  <2>1. PICK f : /\ f = [n \in 0..L |-> f[n]]
                 /\ \A n \in 0..L : f[n] \subseteq 0..L
                 /\ IsFrontier(edges, L, L, f)
    BY FrontierExists
  <2>2. ASSUME NEW n \in 0..L
        PROVE  f[n] = IF n = 0 THEN {0} ELSE Step(f[n - 1])
    <3>1. CASE n = 0
      BY <2>1, <3>1 DEF IsFrontier
    <3>2. CASE n # 0
      <4>1. n \in 1..L /\ n - 1 \in 0..L
        BY <3>2
      <4>2. f[n] = Extended(edges, L, n, f[n - 1]) /\ f[n - 1] \in SUBSET (0..L)
        BY <2>1, <4>1 DEF IsFrontier
      <4>3. QED
        BY <1>1, <3>2, <4>1, <4>2
    <3>3. QED
      BY <3>1, <3>2
  <2>3. f = [n \in 0..L |-> IF n = 0 THEN {0} ELSE Step(f[n - 1])]
    BY <2>1, <2>2
  <2>4. QED
    BY <2>3 DEF IsGenericReach, Step
<1> DEFINE f == GenericReach(d, w, flag, kept, triples)
<1>4. f = CHOOSE g : IsGenericReach(d, w, flag, kept, triples, g)
  BY DEF GenericReach, IsGenericReach, GenericStep, ExtendComponents
<1>5. IsGenericReach(d, w, flag, kept, triples, f)
  BY <1>3, <1>4
<1> HIDE DEF edges, f
<1>6. \A n \in 0..L : f[n] = IF n = 0 THEN {0} ELSE Step(f[n - 1])
  BY <1>5 DEF IsGenericReach
<1> HIDE DEF Step
<1>7. f[0] = {0}
  BY <1>6
<1>8. ASSUME NEW n \in 1..L
      PROVE  f[n] = Extended(edges, L, n, f[n - 1])
  <2>1. n \in 0..L /\ n # 0 /\ n - 1 \in 0..L
    OBVIOUS
  <2>2. f[n - 1] \in SUBSET (0..L)
    <3>1. f[n - 1] = IF n - 1 = 0 THEN {0} ELSE Step(f[(n - 1) - 1])
      BY <1>6, <2>1
    <3>2. QED
      BY <1>2, <3>1
  <2>3. f[n] = Step(f[n - 1])
    BY <1>6, <2>1
  <2>4. QED
    BY <1>1, <2>2, <2>3
<1>9. QED
  BY <1>7, <1>8 DEF IsFrontier, edges, f

PatternEdges(d, w, pattern, kept, triples) ==
  {e \in Triples(Len(pattern), Len(w)) :
     /\ Allowed(d, w, e[2], e[3], triples)
     /\ MatchesComponent(d, SubSeq(w, e[2] + 1, e[3]), pattern[e[1]], e[3] = Len(w), kept)}

PatternStep(d, w, pattern, kept, triples, n, reach) ==
  {end \in 1..Len(w) : \E start \in reach :
     /\ start + d.compound.minimum <= end
     /\ BoundaryAllowed(d, w, start, end, triples)
     /\ MatchesComponent(d, SubSeq(w, start + 1, end), pattern[n], end = Len(w), kept)}

IsPatternReach(d, w, pattern, kept, triples, f) ==
  f = [n \in 0..Len(pattern) |-> IF n = 0 THEN {0}
                           ELSE PatternStep(d, w, pattern, kept, triples, n, f[n - 1])]

LEMMA PatternStepEdges ==
  ASSUME NEW d, NEW w, NEW pattern, NEW kept, NEW triples, Len(w) \in Nat, Len(pattern) \in Nat,
         NEW n \in 1..Len(pattern), NEW reach \in SUBSET (0..Len(w))
  PROVE  PatternStep(d, w, pattern, kept, triples, n, reach) =
           Extended(PatternEdges(d, w, pattern, kept, triples), Len(w), n, reach)
<1>1. ASSUME NEW end \in 1..Len(w), NEW start \in reach
      PROVE  <<n, start, end>> \in PatternEdges(d, w, pattern, kept, triples) <=>
               /\ start + d.compound.minimum <= end
               /\ BoundaryAllowed(d, w, start, end, triples)
               /\ MatchesComponent(d, SubSeq(w, start + 1, end), pattern[n], end = Len(w), kept)
  <2>1. <<n, start, end>> \in Triples(Len(pattern), Len(w))
    BY DEF Triples
  <2>2. QED
    BY <2>1 DEF PatternEdges, Allowed
<1>2. QED
  BY <1>1 DEF PatternStep, Extended

LEMMA PatternIsFrontier ==
  ASSUME NEW d, NEW w, NEW pattern, NEW kept, NEW triples, Len(w) \in Nat, Len(pattern) \in Nat
  PROVE  IsFrontier(PatternEdges(d, w, pattern, kept, triples), Len(w), Len(pattern),
                    PatternReach(d, w, pattern, kept, triples))
<1> DEFINE edges == PatternEdges(d, w, pattern, kept, triples)
           Step(n, r) == PatternStep(d, w, pattern, kept, triples, n, r)
           L == Len(w)
           N == Len(pattern)
<1>1. ASSUME NEW n \in 1..N, NEW r \in SUBSET (0..L)
      PROVE  Step(n, r) = Extended(edges, L, n, r)
  BY <1>1, PatternStepEdges
<1>2. \A n, r : Step(n, r) \subseteq 0..L
  BY DEF PatternStep
<1>3. \E f : IsPatternReach(d, w, pattern, kept, triples, f)
  <2> HIDE DEF edges, Step
  <2>1. PICK f : /\ f = [n \in 0..N |-> f[n]]
                 /\ \A n \in 0..N : f[n] \subseteq 0..L
                 /\ IsFrontier(edges, L, N, f)
    BY FrontierExists
  <2>2. ASSUME NEW n \in 0..N
        PROVE  f[n] = IF n = 0 THEN {0} ELSE Step(n, f[n - 1])
    <3>1. CASE n = 0
      BY <2>1, <3>1 DEF IsFrontier
    <3>2. CASE n # 0
      <4>1. n \in 1..N /\ n - 1 \in 0..N
        BY <3>2
      <4>2. f[n] = Extended(edges, L, n, f[n - 1]) /\ f[n - 1] \in SUBSET (0..L)
        BY <2>1, <4>1 DEF IsFrontier
      <4>3. QED
        BY <1>1, <3>2, <4>1, <4>2
    <3>3. QED
      BY <3>1, <3>2
  <2>3. f = [n \in 0..N |-> IF n = 0 THEN {0} ELSE Step(n, f[n - 1])]
    BY <2>1, <2>2
  <2>4. QED
    BY <2>3 DEF IsPatternReach, Step
<1> DEFINE f == PatternReach(d, w, pattern, kept, triples)
<1>4. f = CHOOSE g : IsPatternReach(d, w, pattern, kept, triples, g)
  BY DEF PatternReach, IsPatternReach, PatternStep, ExtendComponents
<1>5. IsPatternReach(d, w, pattern, kept, triples, f)
  BY <1>3, <1>4
<1> HIDE DEF edges, f
<1>6. \A n \in 0..N : f[n] = IF n = 0 THEN {0} ELSE Step(n, f[n - 1])
  BY <1>5 DEF IsPatternReach
<1> HIDE DEF Step
<1>7. f[0] = {0}
  BY <1>6
<1>8. ASSUME NEW n \in 1..N
      PROVE  f[n] = Extended(edges, L, n, f[n - 1])
  <2>1. n \in 0..N /\ n # 0 /\ n - 1 \in 0..N
    OBVIOUS
  <2>2. f[n - 1] \in SUBSET (0..L)
    <3>1. f[n - 1] = IF n - 1 = 0 THEN {0} ELSE Step(n - 1, f[(n - 1) - 1])
      BY <1>6, <2>1
    <3>2. QED
      BY <1>2, <3>1
  <2>3. f[n] = Step(n, f[n - 1])
    BY <1>6, <2>1
  <2>4. QED
    BY <1>1, <2>2, <2>3
<1>9. QED
  BY <1>7, <1>8 DEF IsFrontier, edges, f

PositionOf(n, N) == IF n = 1 THEN "begin" ELSE IF n = N THEN "end" ELSE "middle"

PositionedEdges(d, w, kept, triples, N) ==
  {e \in Triples(N, Len(w)) :
     /\ Allowed(d, w, e[2], e[3], triples)
     /\ \E flag \in d.compound[PositionOf(e[1], N)] :
          MatchesPositionedComponent(d, SubSeq(w, e[2] + 1, e[3]), flag,
                                     PositionOf(e[1], N), kept)}

PositionedStep(d, w, kept, triples, position, reach) ==
  {end \in 1..Len(w) : \E start \in reach :
     /\ start + d.compound.minimum <= end
     /\ BoundaryAllowed(d, w, start, end, triples)
     /\ \E flag \in d.compound[position] :
          MatchesPositionedComponent(d, SubSeq(w, start + 1, end), flag, position, kept)}

IsPositionedReach(d, w, kept, triples, f) ==
  f = [n \in 1..Len(w) |->
         IF n = 1 THEN PositionedStep(d, w, kept, triples, "begin", {0})
         ELSE PositionedStep(d, w, kept, triples, "middle", f[n - 1])]

LEMMA PositionedStepEdges ==
  ASSUME NEW d, NEW w, NEW kept, NEW triples, Len(w) \in Nat, NEW N \in Nat,
         NEW n \in 1..N, NEW reach \in SUBSET (0..Len(w))
  PROVE  PositionedStep(d, w, kept, triples, PositionOf(n, N), reach) =
           Extended(PositionedEdges(d, w, kept, triples, N), Len(w), n, reach)
<1>1. ASSUME NEW end \in 1..Len(w), NEW start \in reach
      PROVE  <<n, start, end>> \in PositionedEdges(d, w, kept, triples, N) <=>
               /\ start + d.compound.minimum <= end
               /\ BoundaryAllowed(d, w, start, end, triples)
               /\ \E flag \in d.compound[PositionOf(n, N)] :
                    MatchesPositionedComponent(d, SubSeq(w, start + 1, end), flag,
                                               PositionOf(n, N), kept)
  <2>1. <<n, start, end>> \in Triples(N, Len(w))
    BY DEF Triples
  <2>2. QED
    BY <2>1 DEF PositionedEdges, Allowed
<1>2. QED
  BY <1>1 DEF PositionedStep, Extended

LEMMA PositionedReachDef ==
  ASSUME NEW d, NEW w, NEW kept, NEW triples, Len(w) \in Nat
  PROVE  IsPositionedReach(d, w, kept, triples, PositionedReach(d, w, kept, triples))
<1> DEFINE N == Len(w) + 1
           L == Len(w)
           edges == PositionedEdges(d, w, kept, triples, N)
           Step(position, r) == PositionedStep(d, w, kept, triples, position, r)
<1>1. ASSUME NEW n \in 1..L, NEW r \in SUBSET (0..L)
      PROVE  Step(IF n = 1 THEN "begin" ELSE "middle", r) = Extended(edges, L, n, r)
  <2>1. n \in 1..N /\ PositionOf(n, N) = IF n = 1 THEN "begin" ELSE "middle"
    BY DEF PositionOf
  <2>2. Step(PositionOf(n, N), r) = Extended(edges, L, n, r)
    BY <2>1, PositionedStepEdges
  <2>3. QED
    BY <2>1, <2>2
<1>2. \E f : IsPositionedReach(d, w, kept, triples, f)
  <2> HIDE DEF edges, Step
  <2>1. PICK f : /\ f = [n \in 0..N |-> f[n]]
                 /\ \A n \in 0..N : f[n] \subseteq 0..L
                 /\ IsFrontier(edges, L, N, f)
    <3>1. N \in Nat
      OBVIOUS
    <3> HIDE DEF N
    <3>2. QED
      BY <3>1, FrontierExists
  <2> DEFINE g == [n \in 1..L |-> f[n]]
  <2>2. ASSUME NEW n \in 1..L
        PROVE  g[n] = IF n = 1 THEN Step("begin", {0}) ELSE Step("middle", g[n - 1])
    <3>1. f[n] = Extended(edges, L, n, f[n - 1]) /\ f[n - 1] \in SUBSET (0..L)
      <4>1. n \in 1..N /\ n - 1 \in 0..N
        OBVIOUS
      <4> HIDE DEF N
      <4>2. f[n] = Extended(edges, L, n, f[n - 1])
        BY <2>1, <4>1 DEF IsFrontier
      <4>3. f[n - 1] \in SUBSET (0..L)
        BY <2>1, <4>1
      <4>4. QED
        BY <4>2, <4>3
    <3>2. f[n] = Step(IF n = 1 THEN "begin" ELSE "middle", f[n - 1])
      BY <1>1, <3>1
    <3>3. CASE n = 1
      <4>1. f[n - 1] = {0}
        BY <2>1, <3>3 DEF IsFrontier
      <4>2. QED
        BY <3>2, <3>3, <4>1
    <3>4. CASE n # 1
      <4>1. g[n - 1] = f[n - 1]
        BY <3>4
      <4>2. QED
        BY <3>2, <3>4, <4>1
    <3>5. QED
      BY <3>3, <3>4
  <2>3. g = [n \in 1..L |-> g[n]]
    OBVIOUS
  <2> HIDE DEF g
  <2>4. g = [n \in 1..L |-> IF n = 1 THEN Step("begin", {0}) ELSE Step("middle", g[n - 1])]
    BY <2>2, <2>3
  <2>5. IsPositionedReach(d, w, kept, triples, g)
    BY <2>4 DEF IsPositionedReach, Step
  <2>6. QED
    BY <2>5
<1>3. PositionedReach(d, w, kept, triples) =
        CHOOSE f : IsPositionedReach(d, w, kept, triples, f)
  BY DEF PositionedReach, IsPositionedReach, PositionedStep, ExtendPositioned, ExtendComponents
<1>4. QED
  BY <1>2, <1>3

(* The boundaries that a compound of n positioned components ends at.      *)
LastPositioned(d, w, kept, triples, n) ==
  ExtendPositioned(d, w, PositionedReach(d, w, kept, triples)[n - 1],
                   d.compound.end, "end", kept, triples)

LEMMA PositionedIsFrontier ==
  ASSUME NEW d, NEW w, NEW kept, NEW triples, Len(w) \in Nat, NEW N \in 2..Len(w)
  PROVE  \E f : /\ IsFrontier(PositionedEdges(d, w, kept, triples, N), Len(w), N, f)
                /\ f[N] = LastPositioned(d, w, kept, triples, N)
<1> DEFINE L == Len(w)
           edges == PositionedEdges(d, w, kept, triples, N)
           Step(position, r) == PositionedStep(d, w, kept, triples, position, r)
           R == PositionedReach(d, w, kept, triples)
           f == [n \in 0..N |-> IF n = 0 THEN {0}
                                ELSE IF n = N THEN Step("end", R[N - 1]) ELSE R[n]]
<1>1. \A n \in 1..L : R[n] = IF n = 1 THEN Step("begin", {0}) ELSE Step("middle", R[n - 1])
  BY PositionedReachDef DEF IsPositionedReach
<1>2. \A position, r : Step(position, r) \subseteq 0..L
  BY DEF PositionedStep
<1>3. LastPositioned(d, w, kept, triples, N) = Step("end", R[N - 1])
  BY DEF LastPositioned, ExtendPositioned, ExtendComponents, PositionedStep
<1>4. ASSUME NEW n \in 1..N, NEW r \in SUBSET (0..L)
      PROVE  Step(PositionOf(n, N), r) = Extended(edges, L, n, r)
  BY PositionedStepEdges
<1> HIDE DEF edges, Step, R
<1>5. ASSUME NEW n \in 1..N
      PROVE  f[n] = Step(PositionOf(n, N), f[n - 1])
  <2>1. CASE n = 1
    <3>1. f[n] = R[1] /\ f[n - 1] = {0} /\ PositionOf(n, N) = "begin"
      BY <2>1 DEF PositionOf
    <3>2. R[1] = Step("begin", {0})
      BY <1>1
    <3>3. QED
      BY <3>1, <3>2
  <2>2. CASE n # 1 /\ n # N
    <3>1. f[n] = R[n] /\ f[n - 1] = R[n - 1] /\ PositionOf(n, N) = "middle"
      BY <2>2 DEF PositionOf
    <3>2. R[n] = Step("middle", R[n - 1])
      BY <1>1, <2>2
    <3>3. QED
      BY <3>1, <3>2
  <2>3. CASE n = N
    <3>1. f[n] = Step("end", R[N - 1]) /\ f[n - 1] = R[N - 1] /\ PositionOf(n, N) = "end"
      BY <2>3 DEF PositionOf
    <3>2. QED
      BY <3>1
  <2>4. QED
    BY <2>1, <2>2, <2>3
<1>6. \A n \in 0..N : f[n] \in SUBSET (0..L)
  <2>1. ASSUME NEW n \in 1..N
        PROVE  f[n] \in SUBSET (0..L)
    <3>1. Step(PositionOf(n, N), f[n - 1]) \subseteq 0..L
      BY <1>2
    <3> HIDE DEF f
    <3>2. QED
      BY <1>5, <3>1
  <2>2. f[0] = {0}
    OBVIOUS
  <2>3. QED
    BY <2>1, <2>2
<1>7. f[0] = {0} /\ f[N] = Step("end", R[N - 1])
  OBVIOUS
<1> HIDE DEF f
<1>8. \A n \in 1..N : f[n] = Extended(edges, L, n, f[n - 1])
  BY <1>4, <1>5, <1>6
<1>9. IsFrontier(edges, L, N, f)
  BY <1>7, <1>8 DEF IsFrontier
<1>10. QED
  BY <1>3, <1>7, <1>9 DEF edges, R

(* What the import makes of the options of compounds. *)
CompoundTyped(d) ==
  /\ d.compound.minimum \in Nat \ {0}
  /\ d.compound.maximum \in SUBSET Nat
  /\ \A pattern \in RulePatterns(d) : Len(pattern) \in Nat

(* A count that is allowed is not one at which the code gives up before.    *)
LEMMA NotGivenUp ==
  ASSUME NEW d, NEW w, CompoundTyped(d), NEW n \in Nat, CountAllowed(d, w, n),
         NEW m \in Nat, m < n
  PROVE  ~CannotContinue(d, m)
<1>1. d.compound.syllables = {} => \A maximum \in d.compound.maximum : n <= maximum
  BY Zenon DEF CountAllowed
<1>2. QED
  BY <1>1 DEF CannotContinue, CompoundTyped

-----------------------------------------------------------------------------
(* Explanations                                                            *)

(* The first of the sets that has something in it is one of them, and is    *)
(* empty only if all are.                                                  *)
LEMMA FirstOfSets ==
  ASSUME NEW n \in Nat, NEW sets, DOMAIN sets = 1..n
  PROVE  /\ \A x \in FirstOf(sets) : \E i \in 1..n : x \in sets[i]
         /\ (\E i \in 1..n : sets[i] # {}) => FirstOf(sets) # {}
<1> DEFINE some == {i \in DOMAIN sets : sets[i] # {}}
<1>1. FirstOf(sets) = IF some = {} THEN {} ELSE sets[Min(some)]
  BY DEF FirstOf
<1>2. some \in SUBSET (1..n) /\ some \in SUBSET Nat
  OBVIOUS
<1>3. ASSUME some # {}
      PROVE  Min(some) \in some
  <2> HIDE DEF some
  <2>1. \E x \in some : \A y \in some : x <= y
    BY <1>2, <1>3, LeastNumber
  <2>2. QED
    BY <2>1 DEF Min
<1>4. \A i \in some : i \in 1..n /\ sets[i] # {}
  OBVIOUS
<1>5. \A i \in 1..n : sets[i] # {} => i \in some
  OBVIOUS
<1> HIDE DEF some
<1>6. QED
  BY <1>1, <1>3, <1>4, <1>5

(* The seven stages, in the order in which they are asked.                 *)
Stages(d, w, kept) ==
  << ExplainStem(d, w, kept),
     ExplainSingleAffix(d, w, kept),
     ExplainDerived(d, w, kept),
     ExplainCompound(d, w, kept),
     IF MatchesWithoutBreak(d, w, kept) THEN Compatibility("lookup") ELSE {},
     IF MatchesBreakWord(d, w, kept) THEN Compatibility("break") ELSE {},
     IF w \in SharpForms(d) THEN Compatibility("sharps") ELSE {} >>

LEMMA StagesOf ==
  ASSUME NEW d, NEW w, NEW kept
  PROVE  /\ ExplainNormalized(d, w, kept) = FirstOf(Stages(d, w, kept))
         /\ DOMAIN Stages(d, w, kept) = 1..7
<1>1. ExplainNormalized(d, w, kept) = FirstOf(Stages(d, w, kept))
  BY Zenon DEF ExplainNormalized, Stages
<1>2. DOMAIN Stages(d, w, kept) = 1..7
  BY DEF Stages
<1>3. QED
  BY <1>1, <1>2

(* What is recognised is explained, if only by the recognition itself.      *)
LEMMA RecognisedExplained ==
  ASSUME NEW d, NEW w, NEW kept, ContainsNormalized(d, w, kept)
  PROVE  ExplainNormalized(d, w, kept) # {}
<1>1. MatchesWithoutBreak(d, w, kept) \/ MatchesBreakWord(d, w, kept)
  <2>1. PICK parts \in {{w}} \cup BreakParts(d, w) :
          \A part \in parts : MatchesWithoutBreak(d, part, kept)
    BY Zenon DEF ContainsNormalized
  <2>2. CASE parts = {w}
    BY <2>1, <2>2
  <2>3. CASE parts \in BreakParts(d, w)
    BY <2>1, <2>3, Zenon DEF MatchesBreakWord
  <2>4. QED
    BY <2>1, <2>2, <2>3
<1>2. Compatibility("lookup") # {} /\ Compatibility("break") # {}
  BY DEF Compatibility
<1>3. Stages(d, w, kept)[5] # {} \/ Stages(d, w, kept)[6] # {}
  <2>1. MatchesWithoutBreak(d, w, kept) => Stages(d, w, kept)[5] = Compatibility("lookup")
    BY DEF Stages
  <2>2. MatchesBreakWord(d, w, kept) => Stages(d, w, kept)[6] = Compatibility("break")
    BY DEF Stages
  <2>3. QED
    BY <1>1, <1>2, <2>1, <2>2
<1>4. FirstOf(Stages(d, w, kept)) # {}
  <2>1. \E i \in 1..7 : Stages(d, w, kept)[i] # {}
    BY <1>3
  <2>2. QED
    BY <2>1, StagesOf, FirstOfSets
<1>5. QED
  BY <1>4, StagesOf

-----------------------------------------------------------------------------
(* The rules an explanation names                                          *)

(* A rule taken off a form puts the form back on the stem it leaves.        *)
(* (AffixRule::reverse_apply, AffixRule::apply)                            *)
LEMMA AppliesAgain ==
  ASSUME NEW Letter, NEW r, r.add \in Seq(Letter), r.strip \in Seq(Letter),
         NEW form \in Seq(Letter), NEW fullStrip, NEW stem \in ReverseApply(r, form, fullStrip)
  PROVE  form \in Apply(r, stem, fullStrip)
<1>1. PICK rest \in Without(form, r.add, r.kind) :
        /\ fullStrip \/ rest # <<>>
        /\ stem = With(rest, r.strip, r.kind)
        /\ ConditionMatches(r.condition, stem, r.kind)
  BY DEF ReverseApply
<1>2. rest \in Seq(Letter) /\ form = With(rest, r.add, r.kind)
  BY TakenOff
<1>3. rest \in Without(stem, r.strip, r.kind)
  BY <1>1, <1>2, PutOn
<1>4. QED
  BY <1>1, <1>2, <1>3 DEF Apply

RulesNamed(d, id) == {r \in d.rules : r.id = id}

MadeBy(d, id, shapes) ==
  UNION {Apply(r, form, d.fullStrip) : r \in RulesNamed(d, id), form \in shapes}

(* What the rules of a chain make of a stem, rule by rule.                 *)
IsMaking(d, stem, chain, f) ==
  f = [n \in 0..Len(chain) |-> IF n = 0 THEN {stem} ELSE MadeBy(d, chain[n], f[n - 1])]

Makes(d, stem, chain, w) ==
  w \in (CHOOSE f : IsMaking(d, stem, chain, f))[Len(chain)]

LEMMA MakingExists ==
  ASSUME NEW Letter, NEW d, Spelled(d, Letter), NEW stem \in Seq(Letter),
         NEW chain, Len(chain) \in Nat
  PROVE  \E f : IsMaking(d, stem, chain, f)
<1> DEFINE N == Len(chain)
           D == SUBSET Seq(Letter)
           Step == [n \in 1..N |-> [shapes \in D |-> MadeBy(d, chain[n], shapes)]]
<1>1. ASSUME NEW id, NEW shapes \in D
      PROVE  MadeBy(d, id, shapes) \in D
  <2>1. ASSUME NEW r \in RulesNamed(d, id), NEW form \in shapes, NEW x \in Apply(r, form, d.fullStrip)
        PROVE  x \in Seq(Letter)
    BY AppliedSpelled DEF RulesNamed, Spelled
  <2>2. QED
    BY <2>1 DEF MadeBy
<1> HIDE DEF D
<1>2. Step \in [1..N -> [D -> D]]
  BY <1>1
<1>3. \A n \in 1..N : \A shapes \in D : Step[n][shapes] = MadeBy(d, chain[n], shapes)
  OBVIOUS
<1>4. {stem} \in D
  BY DEF D
<1> HIDE DEF Step
<1>5. PICK f : IsSequel(D, {stem}, Step, f, N)
  BY <1>2, <1>4, SequelExists
<1>6. f = [n \in 0..N |-> f[n]] /\ f[0] = {stem} /\ \A n \in 0..N : f[n] \in D
  BY <1>5 DEF IsSequel
<1>7. \A n \in 1..N : f[n] = MadeBy(d, chain[n], f[n - 1])
  <2>1. ASSUME NEW n \in 1..N
        PROVE  f[n] = MadeBy(d, chain[n], f[n - 1])
    <3>1. n - 1 \in 0..N
      OBVIOUS
    <3>2. f[n] = Step[n][f[n - 1]] /\ f[n - 1] \in D
      BY <1>5, <1>6, <3>1 DEF IsSequel
    <3>3. QED
      BY <1>3, <3>2
  <2>2. QED
    BY <2>1
<1>8. \A n \in 0..N : f[n] = IF n = 0 THEN {stem} ELSE MadeBy(d, chain[n], f[n - 1])
  BY <1>6, <1>7
<1>9. f = [n \in 0..N |-> IF n = 0 THEN {stem} ELSE MadeBy(d, chain[n], f[n - 1])]
  BY <1>6, <1>8
<1>10. QED
  BY <1>9 DEF IsMaking

(* A form for every rule of the chain, each made of the one before it.     *)
LEMMA MadeStepwise ==
  ASSUME NEW Letter, NEW d, Spelled(d, Letter), NEW stem \in Seq(Letter),
         NEW chain, Len(chain) \in Nat, NEW shapes, shapes[0] = stem,
         \A i \in 0..(Len(chain) - 1) : \E r \in RulesNamed(d, chain[i + 1]) :
           shapes[i + 1] \in Apply(r, shapes[i], d.fullStrip)
  PROVE  Makes(d, stem, chain, shapes[Len(chain)])
<1> DEFINE N == Len(chain)
           f == CHOOSE g : IsMaking(d, stem, chain, g)
           S == {n \in Nat : n <= N => shapes[n] \in f[n]}
<1>1. IsMaking(d, stem, chain, f)
  BY MakingExists
<1> HIDE DEF f
<1>2. \A n \in 0..N : f[n] = IF n = 0 THEN {stem} ELSE MadeBy(d, chain[n], f[n - 1])
  BY <1>1 DEF IsMaking
<1>3. 0 \in S
  BY <1>2
<1>4. ASSUME NEW n \in Nat, n \in S
      PROVE  n + 1 \in S
  <2> SUFFICES ASSUME n + 1 <= N
               PROVE  shapes[n + 1] \in f[n + 1]
    OBVIOUS
  <2>1. PICK r \in RulesNamed(d, chain[n + 1]) : shapes[n + 1] \in Apply(r, shapes[n], d.fullStrip)
    OBVIOUS
  <2>2. shapes[n] \in f[n]
    BY <1>4
  <2>3. f[n + 1] = MadeBy(d, chain[n + 1], f[n])
    <3>1. n + 1 \in 0..N /\ n + 1 # 0 /\ (n + 1) - 1 = n
      OBVIOUS
    <3>2. QED
      BY <1>2, <3>1
  <2>4. QED
    BY <2>1, <2>2, <2>3 DEF MadeBy
<1> HIDE DEF S
<1>5. N \in S
  BY <1>3, <1>4, AllNumbers
<1>6. QED
  BY <1>5 DEF S, Makes, f

(* The rule and the entry of a single affix make the word.                 *)
LEMMA SingleAffixMakes ==
  ASSUME NEW Letter, NEW d, Spelled(d, Letter), NEW w \in Seq(Letter), NEW kept,
         NEW p \in SingleAffixPairs(d, w, kept)
  PROVE  Makes(d, p[2].stem, <<p[1].id>>, w) /\ LexemesFor(d, p[2].stem) # {}
<1> DEFINE r == p[1]
           l == p[2]
           chain == <<r.id>>
           shapes == [i \in 0..1 |-> IF i = 0 THEN l.stem ELSE w]
<1>1. r \in d.rules /\ l \in d.lexemes /\ l.stem \in ReverseApply(r, w, d.fullStrip)
  BY DEF SingleAffixPairs, CandidateRules
<1>2. r.add \in Seq(Letter) /\ r.strip \in Seq(Letter) /\ l.stem \in Seq(Letter)
  BY <1>1 DEF Spelled
<1>3. w \in Apply(r, l.stem, d.fullStrip)
  BY <1>1, <1>2, AppliesAgain
<1>4. Len(chain) = 1 /\ chain[1] = r.id /\ r \in RulesNamed(d, r.id)
  BY <1>1 DEF RulesNamed
<1>5. shapes[0] = l.stem /\ shapes[1] = w
  OBVIOUS
<1>6. l \in LexemesFor(d, l.stem)
  BY <1>1 DEF LexemesFor
<1> HIDE DEF r, l, chain, shapes
<1>7. \A i \in 0..(Len(chain) - 1) : \E x \in RulesNamed(d, chain[i + 1]) :
        shapes[i + 1] \in Apply(x, shapes[i], d.fullStrip)
  <2>1. \A i \in 0..(Len(chain) - 1) : i = 0
    BY <1>4
  <2>2. shapes[0 + 1] \in Apply(r, shapes[0], d.fullStrip) /\ r \in RulesNamed(d, chain[0 + 1])
    BY <1>3, <1>4, <1>5
  <2>3. QED
    BY <2>1, <2>2
<1>8. Makes(d, l.stem, chain, shapes[Len(chain)])
  <2>1. Len(chain) \in Nat /\ l.stem \in Seq(Letter) /\ shapes[0] = l.stem
    BY <1>2, <1>4, <1>5
  <2>2. QED
    BY <1>7, <2>1, MadeStepwise
<1>9. Makes(d, l.stem, chain, w)
  BY <1>4, <1>5, <1>8
<1>10. QED
  BY <1>6, <1>9 DEF r, l, chain

(* Along a chain the rules used so far stay as they are.                   *)
LEMMA PathUses ==
  ASSUME NEW Letter, NEW d, Rules(d), Spelled(d, Letter), NEW l \in d.lexemes,
         NEW n \in Nat, NEW p, IsPath(d, l, n, p)
  PROVE  \A i \in 0..(n - 1) : \E r \in RulesNamed(d, p[n].used[i + 1]) :
           p[i + 1].form \in Apply(r, p[i].form, d.fullStrip)
<1>1. \A i \in 0..n : /\ CountsUsed(d, p[i]) /\ Depth(p[i]) = i
                      /\ "form" \in DOMAIN p[i] /\ p[i].form \in Seq(Letter)
  BY PathCounts
<1>2. ASSUME NEW i \in 0..(n - 1)
      PROVE  \E r \in d.rules : /\ p[i + 1].used = Append(p[i].used, r.id)
                                /\ p[i + 1].form \in Apply(r, p[i].form, d.fullStrip)
  <2>1. p[i + 1] \in Successors(d, p[i]) /\ i \in 0..n
    BY DEF IsPath
  <2>2. CountsUsed(d, p[i]) /\ "form" \in DOMAIN p[i]
    BY <1>1, <2>1
  <2>3. PICK r \in d.rules :
          \E form \in Apply(r, p[i].form, d.fullStrip) :
             p[i + 1] = Extend(p[i], r, form, d.circumfix)
    BY <2>1 DEF Successors
  <2>4. PICK form \in Apply(r, p[i].form, d.fullStrip) :
          p[i + 1] = Extend(p[i], r, form, d.circumfix)
    BY <2>3
  <2> DEFINE q == p[i]
  <2>5. {"form", "used"} \subseteq DOMAIN q
    BY <2>2 DEF CountsUsed
  <2> HIDE DEF q
  <2>6. LET t == Extend(q, r, form, d.circumfix)
        IN t.form = form /\ t.used = Append(q.used, r.id)
    BY <2>5 DEF Extend
  <2>7. p[i + 1].form = form /\ p[i + 1].used = Append(p[i].used, r.id)
    BY <2>4, <2>6 DEF q
  <2>8. QED
    BY <2>7
<1> DEFINE Ids == {r.id : r \in d.rules}
           Named(m) == \A i \in 0..(m - 1) : \E r \in RulesNamed(d, p[m].used[i + 1]) :
                         p[i + 1].form \in Apply(r, p[i].form, d.fullStrip)
           S == {m \in Nat : m <= n => Named(m)}
<1>3. \A i \in 0..n : p[i].used \in Seq(Ids) /\ Len(p[i].used) = i
  BY <1>1 DEF CountsUsed, Depth
<1> HIDE DEF Ids
<1>4. 0 \in S
  OBVIOUS
<1>5. ASSUME NEW m \in Nat, m \in S
      PROVE  m + 1 \in S
  <2> SUFFICES ASSUME m + 1 <= n
               PROVE  Named(m + 1)
    OBVIOUS
  <2>0. m \in 0..(n - 1)
    OBVIOUS
  <2>1. PICK r \in d.rules : /\ p[m + 1].used = Append(p[m].used, r.id)
                             /\ p[m + 1].form \in Apply(r, p[m].form, d.fullStrip)
    BY <1>2, <2>0
  <2> DEFINE u == p[m].used
             v == p[m + 1].used
             id == r.id
  <2>2. u \in Seq(Ids) /\ Len(u) = m /\ v = Append(u, id) /\ id \in Ids
    BY <1>3, <2>1 DEF Ids
  <2>3. Named(m)
    BY <1>5
  <2> HIDE DEF u, v, id
  <2>4. v[m + 1] = id /\ \A i \in 1..m : v[i] = u[i]
    BY <2>2
  <2>5. ASSUME NEW i \in 0..((m + 1) - 1)
        PROVE  \E x \in RulesNamed(d, v[i + 1]) : p[i + 1].form \in Apply(x, p[i].form, d.fullStrip)
    <3>1. CASE i = m
      <4>1. r \in RulesNamed(d, v[m + 1])
        BY <2>4 DEF RulesNamed, id
      <4>2. QED
        BY <2>1, <3>1, <4>1
    <3>2. CASE i # m
      <4>1. i \in 0..(m - 1) /\ i + 1 \in 1..m
        BY <3>2
      <4>2. v[i + 1] = p[m].used[i + 1]
        BY <2>4, <4>1 DEF u
      <4>3. QED
        BY <2>3, <4>1, <4>2
    <3>3. QED
      BY <3>1, <3>2
  <2>6. QED
    BY <2>5 DEF v
<1> HIDE DEF S
<1>6. n \in S
  BY <1>4, <1>5, AllNumbers
<1>7. QED
  BY <1>6 DEF S

(* The rules of a derivation make its form.                                *)
LEMMA ChainMakes ==
  ASSUME NEW Letter, NEW d, Rules(d), Spelled(d, Letter), NEW l \in d.lexemes,
         NEW s \in Chains(d, l)
  PROVE  Makes(d, l.stem, s.used, s.form) /\ LexemesFor(d, l.stem) # {}
<1>1. PICK n \in 1..MaxAffixChain : s \in Levels(d, l)[n]
  BY Zenon DEF Chains
<1>2. n \in Nat /\ n <= MaxAffixChain
  BY SearchBounds
<1>3. PICK p : IsPath(d, l, n, p) /\ p[n] = s
  BY <1>1, <1>2, PathTo
<1>4. /\ CountsUsed(d, s) /\ Depth(s) = n
  BY <1>2, <1>3, PathCounts
<1> DEFINE chain == s.used
           shapes == [i \in 0..n |-> p[i].form]
<1>5. Len(chain) = n
  BY <1>4 DEF Depth
<1>6. l.stem \in Seq(Letter) /\ shapes[0] = l.stem /\ shapes[n] = s.form
  <2>1. p[0].form = l.stem
    BY <1>3 DEF IsPath, NewForm
  <2>2. QED
    BY <1>2, <1>3, <2>1 DEF Spelled
<1>7. \A i \in 0..(n - 1) : \E r \in RulesNamed(d, chain[i + 1]) :
        p[i + 1].form \in Apply(r, p[i].form, d.fullStrip)
  BY <1>2, <1>3, PathUses
<1>8. \A i \in 0..(n - 1) : shapes[i] = p[i].form /\ shapes[i + 1] = p[i + 1].form
  OBVIOUS
<1> HIDE DEF chain, shapes
<1>9. \A i \in 0..(Len(chain) - 1) : \E r \in RulesNamed(d, chain[i + 1]) :
        shapes[i + 1] \in Apply(r, shapes[i], d.fullStrip)
  BY <1>5, <1>7, <1>8
<1>10. Makes(d, l.stem, chain, shapes[Len(chain)])
  BY <1>2, <1>5, <1>6, <1>9, MadeStepwise
<1>11. l \in LexemesFor(d, l.stem)
  BY DEF LexemesFor
<1>12. QED
  BY <1>5, <1>6, <1>10, <1>11 DEF chain

-----------------------------------------------------------------------------
(* The parts an explanation names                                          *)

(* An entry that may be the i-th part, with the flag asked for.            *)
PartFits(d, w, flags, kept, i, start, end) ==
  \E l \in LexemesFor(d, SubSeq(w, start + 1, end)) :
    /\ Usable(d, l, kept)
    /\ i = Len(flags) \/ ~CompoundForbidden(d, l.flags)
    /\ flags[i] \in l.flags

DividedAt(d, w, flags, kept, i, start) ==
  {end \in start + d.compound.minimum..Len(w) :
     /\ BoundaryAllowed(d, w, start, end, FALSE)
     /\ PartFits(d, w, flags, kept, i, start, end)}

Longer(d, w, flags, kept, i, x) ==
  {[end |-> end, parts |-> Append(x.parts, SubSeq(w, x.end + 1, end))] :
     end \in DividedAt(d, w, flags, kept, i, x.end)}

IsDivided(d, w, flags, kept, f) ==
  f = [i \in 0..Len(flags) |-> IF i = 0 THEN {[end |-> 0, parts |-> <<>>]}
                               ELSE UNION {Longer(d, w, flags, kept, i, x) : x \in f[i - 1]}]

LEMMA DividedForward ==
  ASSUME NEW d, CompoundTyped(d), NEW w, Len(w) \in Nat, NEW flags, NEW kept, NEW i,
         NEW start \in 0..Len(w), NEW end \in DividedAt(d, w, flags, kept, i, start)
  PROVE  end \in 1..Len(w) /\ start < end
<1>1. d.compound.minimum \in Nat \ {0}
  BY DEF CompoundTyped
<1>2. end \in start + d.compound.minimum..Len(w)
  BY DEF DividedAt
<1>3. QED
  BY <1>1, <1>2

LEMMA DivisionsDef ==
  ASSUME NEW Letter, NEW d, CompoundTyped(d), NEW w \in Seq(Letter),
         NEW flags, Len(flags) \in Nat, NEW kept
  PROVE  IsDivided(d, w, flags, kept, Divisions(d, w, flags, kept))
<1> DEFINE N == Len(flags)
           U == [end : 0..Len(w), parts : Seq(Seq(Letter))]
           D == SUBSET U
           Next1(i, divided) == UNION {Longer(d, w, flags, kept, i, x) : x \in divided}
           Step == [i \in 1..N |-> [divided \in D |-> Next1(i, divided)]]
           none == [end |-> 0, parts |-> <<>>]
<1>1. ASSUME NEW i, NEW x \in U, NEW y \in Longer(d, w, flags, kept, i, x)
      PROVE  y \in U
  <2>1. PICK end \in DividedAt(d, w, flags, kept, i, x.end) :
          y = [end |-> end, parts |-> Append(x.parts, SubSeq(w, x.end + 1, end))]
    BY DEF Longer
  <2>2. x.end \in 0..Len(w) /\ x.parts \in Seq(Seq(Letter)) /\ Len(w) \in Nat
    OBVIOUS
  <2>3. end \in 1..Len(w) /\ x.end < end
    BY <2>2, DividedForward
  <2> DEFINE part == SubSeq(w, x.end + 1, end)
  <2>4. part \in Seq(Letter)
    BY <2>2, <2>3
  <2> HIDE DEF part
  <2>5. Append(x.parts, part) \in Seq(Seq(Letter))
    BY <2>2, <2>4, AppendProperties
  <2>6. QED
    BY <2>1, <2>3, <2>5 DEF part
<1>2. ASSUME NEW i, NEW divided \in D
      PROVE  Next1(i, divided) \in D
  <2> HIDE DEF U
  <2>1. \A x \in divided : x \in U
    OBVIOUS
  <2>2. QED
    BY <1>1, <2>1
<1>3. {none} \in D
  BY EmptySeq
<1> HIDE DEF D, Next1
<1>4. Step \in [1..N -> [D -> D]]
  BY <1>2
<1>5. \A i \in 1..N : \A divided \in D : Step[i][divided] = Next1(i, divided)
  OBVIOUS
<1> HIDE DEF Step, none
<1>6. PICK f : IsSequel(D, {none}, Step, f, N)
  BY <1>3, <1>4, SequelExists
<1>7. f = [i \in 0..N |-> f[i]] /\ f[0] = {none} /\ \A i \in 0..N : f[i] \in D
  BY <1>6 DEF IsSequel
<1>8. \A i \in 1..N : f[i] = Next1(i, f[i - 1])
  <2>1. ASSUME NEW i \in 1..N
        PROVE  f[i] = Next1(i, f[i - 1])
    <3>1. i - 1 \in 0..N
      OBVIOUS
    <3>2. f[i] = Step[i][f[i - 1]] /\ f[i - 1] \in D
      BY <1>6, <1>7, <3>1 DEF IsSequel
    <3>3. QED
      BY <1>5, <3>2
  <2>2. QED
    BY <2>1
<1>9. \A i \in 0..N : f[i] = IF i = 0 THEN {none} ELSE Next1(i, f[i - 1])
  <2>1. \A i \in 0..N : i = 0 \/ i \in 1..N
    OBVIOUS
  <2>2. f[0] = {none}
    BY <1>7
  <2>3. QED
    BY <1>8, <2>1, <2>2
<1>10. f = [i \in 0..N |-> IF i = 0 THEN {none} ELSE Next1(i, f[i - 1])]
  BY <1>7, <1>9
<1>11. IsDivided(d, w, flags, kept, f)
  BY <1>10 DEF IsDivided, none, Next1
<1>12. Divisions(d, w, flags, kept) = CHOOSE g : IsDivided(d, w, flags, kept, g)
  BY DEF Divisions, IsDivided, Longer, DividedAt, PartFits
<1>13. QED
  BY <1>11, <1>12

(* A division into so many parts: they are the beginning of the word.      *)
IsDivision(Letter, d, w, i, x) ==
  /\ x.end \in 0..Len(w)
  /\ x.parts \in Seq(Seq(Letter)) /\ Len(x.parts) = i
  /\ FlattenSeq(x.parts) = SubSeq(w, 1, x.end)
  /\ \A j \in 1..i : LexemesFor(d, x.parts[j]) # {}

LEMMA LongerDivision ==
  ASSUME NEW Letter, NEW d, CompoundTyped(d), NEW w \in Seq(Letter), NEW flags, NEW kept,
         NEW n, NEW i \in Nat, NEW x, IsDivision(Letter, d, w, i, x),
         NEW y \in Longer(d, w, flags, kept, n, x)
  PROVE  IsDivision(Letter, d, w, i + 1, y)
<1>1. PICK end \in DividedAt(d, w, flags, kept, n, x.end) :
        y = [end |-> end, parts |-> Append(x.parts, SubSeq(w, x.end + 1, end))]
  BY DEF Longer
<1> DEFINE part == SubSeq(w, x.end + 1, end)
           parts == x.parts
           start == x.end
<1>2. start \in 0..Len(w) /\ Len(w) \in Nat
  BY DEF IsDivision
<1>3. end \in 1..Len(w) /\ start < end
  BY <1>2, DividedForward
<1>4. part \in Seq(Letter)
  BY <1>2, <1>3
<1>5. LexemesFor(d, part) # {}
  BY <1>1 DEF DividedAt, PartFits
<1>6. parts \in Seq(Seq(Letter)) /\ Len(parts) = i /\ FlattenSeq(parts) = SubSeq(w, 1, start)
      /\ \A j \in 1..i : LexemesFor(d, parts[j]) # {}
  BY DEF IsDivision
<1>7. SubSeq(w, 1, start) \o part = SubSeq(w, 1, end)
  <2>1. 1 \in 1..Len(w) + 1 /\ start \in 1 - 1..Len(w) /\ end \in start..Len(w)
    BY <1>2, <1>3
  <2>2. QED
    BY <2>1, ConcatAdjacentSubSeq
<1> HIDE DEF part, parts, start
<1>8. y.end = end /\ y.parts = Append(parts, part)
  BY <1>1 DEF part, parts, start
<1>9. /\ y.parts \in Seq(Seq(Letter)) /\ Len(y.parts) = i + 1
      /\ y.parts[i + 1] = part /\ \A j \in 1..i : y.parts[j] = parts[j]
  BY <1>4, <1>6, <1>8, AppendProperties
<1>10. FlattenSeq(y.parts) = SubSeq(w, 1, y.end)
  BY <1>4, <1>6, <1>7, <1>8, FlattenAppended
<1>11. \A j \in 1..(i + 1) : LexemesFor(d, y.parts[j]) # {}
  <2>1. \A j \in 1..(i + 1) : j \in 1..i \/ j = i + 1
    OBVIOUS
  <2>2. QED
    BY <1>5, <1>6, <1>9, <2>1
<1>12. y.end \in 0..Len(w)
  BY <1>3, <1>8
<1>13. QED
  BY <1>9, <1>10, <1>11, <1>12 DEF IsDivision

(* An extension by a part that fits is an edge of the frontier.            *)
FollowsEdges(d, w, flags, kept, edges) ==
  \A i \in 1..Len(flags) : \A start \in 0..Len(w) :
    \A end \in DividedAt(d, w, flags, kept, i, start) :
      i < Len(flags) \/ end = Len(w) => <<i, start, end>> \in edges

(* What the trace finds is a division, and the frontier reaches its end.   *)
(* (trace_components, extend_generic_components)                           *)
LEMMA DivisionsReached ==
  ASSUME NEW Letter, NEW d, CompoundTyped(d), NEW w \in Seq(Letter),
         NEW flags, Len(flags) \in Nat, NEW kept,
         NEW edges, FollowsEdges(d, w, flags, kept, edges),
         NEW g, IsFrontier(edges, Len(w), Len(flags), g)
  PROVE  \A i \in 0..Len(flags) : \A x \in Divisions(d, w, flags, kept)[i] :
           /\ IsDivision(Letter, d, w, i, x)
           /\ i < Len(flags) \/ x.end = Len(w) => x.end \in g[i]
<1> DEFINE N == Len(flags)
           f == Divisions(d, w, flags, kept)
           Fine(i) == \A x \in f[i] : /\ IsDivision(Letter, d, w, i, x)
                                      /\ i < N \/ x.end = Len(w) => x.end \in g[i]
           S == {i \in Nat : i <= N => Fine(i)}
           none == [end |-> 0, parts |-> <<>>]
<1>1. \A i \in 0..N : f[i] = IF i = 0 THEN {none}
                            ELSE UNION {Longer(d, w, flags, kept, i, x) : x \in f[i - 1]}
  BY DivisionsDef DEF IsDivided
<1>2. Len(w) \in Nat
  OBVIOUS
<1> HIDE DEF f
<1>3. 0 \in S
  <2>1. f[0] = {none} /\ g[0] = {0}
    <3>1. 0 \in 0..N
      OBVIOUS
    <3> HIDE DEF N, none
    <3>2. f[0] = {none}
      BY <1>1, <3>1
    <3>3. g[0] = {0}
      BY DEF IsFrontier
    <3>4. QED
      BY <3>2, <3>3
  <2>2. IsDivision(Letter, d, w, 0, none)
    <3>1. <<>> \in Seq(Seq(Letter)) /\ Len(<<>>) = 0 /\ FlattenSeq(<<>>) = <<>>
      <4>1. FlattenSeq(<<>>) = <<>>
        BY EmptySeq DEF FlattenSeq
      <4>2. QED
        BY <4>1, EmptySeq
    <3>2. SubSeq(w, 1, 0) = <<>>
      BY SubSeqEmpty
    <3>3. none.end = 0 /\ none.parts = <<>>
      OBVIOUS
    <3> HIDE DEF none
    <3>4. none.parts \in Seq(Seq(Letter)) /\ Len(none.parts) = 0
      BY <3>1, <3>3
    <3>5. FlattenSeq(none.parts) = SubSeq(w, 1, none.end)
      BY <3>1, <3>2, <3>3
    <3>6. none.end \in 0..Len(w) /\ \A j \in 1..0 : LexemesFor(d, none.parts[j]) # {}
      BY <1>2, <3>3
    <3>7. QED
      BY <3>4, <3>5, <3>6 DEF IsDivision
  <2>3. none.end = 0
    OBVIOUS
  <2> HIDE DEF none
  <2>4. QED
    BY <2>1, <2>2, <2>3
<1>4. ASSUME NEW i \in Nat, i \in S
      PROVE  i + 1 \in S
  <2> SUFFICES ASSUME i + 1 <= N, NEW y \in f[i + 1]
               PROVE  /\ IsDivision(Letter, d, w, i + 1, y)
                      /\ i + 1 < N \/ y.end = Len(w) => y.end \in g[i + 1]
    OBVIOUS
  <2>1. PICK x \in f[i] : y \in Longer(d, w, flags, kept, i + 1, x)
    <3>1. i + 1 \in 0..N /\ i + 1 # 0 /\ (i + 1) - 1 = i
      OBVIOUS
    <3>2. f[i + 1] = UNION {Longer(d, w, flags, kept, i + 1, x) : x \in f[i]}
      BY <1>1, <3>1
    <3>3. QED
      BY <3>2
  <2>2. IsDivision(Letter, d, w, i, x) /\ x.end \in g[i]
    BY <1>4, <2>1
  <2>3. IsDivision(Letter, d, w, i + 1, y)
    BY <2>1, <2>2, LongerDivision
  <2>4. ASSUME i + 1 < N \/ y.end = Len(w)
        PROVE  y.end \in g[i + 1]
    <3>1. y.end \in DividedAt(d, w, flags, kept, i + 1, x.end)
      BY <2>1 DEF Longer
    <3>2. x.end \in 0..Len(w) /\ i + 1 \in 1..N
      BY <2>2 DEF IsDivision
    <3>3. <<i + 1, x.end, y.end>> \in edges
      BY <2>4, <3>1, <3>2 DEF FollowsEdges
    <3>4. y.end \in 1..Len(w)
      BY <1>2, <3>1, <3>2, DividedForward
    <3>5. g[i + 1] = Extended(edges, Len(w), i + 1, g[(i + 1) - 1]) /\ (i + 1) - 1 = i
      BY <3>2 DEF IsFrontier
    <3>6. QED
      BY <2>2, <3>3, <3>4, <3>5 DEF Extended
  <2>5. QED
    BY <2>3, <2>4
<1> HIDE DEF S
<1>5. \A i \in Nat : i \in S
  BY <1>3, <1>4, AllNumbers
<1>6. QED
  BY <1>5 DEF S, f

(* The parts of a trace make up the word, and each is an entry.            *)
TraceOf(d, w, trace) ==
  FlattenSeq(trace) = w /\ \A j \in DOMAIN trace : LexemesFor(d, trace[j]) # {}

LEMMA TraceReached ==
  ASSUME NEW Letter, NEW d, CompoundTyped(d), NEW w \in Seq(Letter),
         NEW flags, Len(flags) \in Nat, NEW kept,
         NEW edges, FollowsEdges(d, w, flags, kept, edges),
         NEW g, IsFrontier(edges, Len(w), Len(flags), g),
         NEW trace \in TraceComponents(d, w, flags, kept)
  PROVE  TraceOf(d, w, trace) /\ Len(trace) = Len(flags) /\ Len(w) \in g[Len(flags)]
<1>1. PICK x \in Divisions(d, w, flags, kept)[Len(flags)] : x.end = Len(w) /\ x.parts = trace
  BY DEF TraceComponents
<1>2. Len(flags) \in 0..Len(flags)
  OBVIOUS
<1>3. IsDivision(Letter, d, w, Len(flags), x) /\ x.end \in g[Len(flags)]
  BY <1>1, <1>2, DivisionsReached
<1>4. /\ trace \in Seq(Seq(Letter)) /\ Len(trace) = Len(flags)
      /\ FlattenSeq(trace) = SubSeq(w, 1, Len(w))
      /\ \A j \in 1..Len(flags) : LexemesFor(d, trace[j]) # {}
  BY <1>1, <1>3 DEF IsDivision
<1>5. SubSeq(w, 1, Len(w)) = w
  BY SubSeqFull
<1>6. DOMAIN trace = 1..Len(flags)
  BY <1>4
<1>7. QED
  BY <1>1, <1>3, <1>4, <1>5, <1>6 DEF TraceOf

LEMMA FewerFrontiers ==
  ASSUME NEW edges, NEW L, NEW N \in Nat, NEW n \in 0..N, NEW g, IsFrontier(edges, L, N, g)
  PROVE  IsFrontier(edges, L, n, g)
<1>1. \A i \in 1..n : i \in 1..N
  OBVIOUS
<1>2. QED
  BY <1>1 DEF IsFrontier

LEMMA UniformText ==
  ASSUME NEW flag, NEW n \in Nat
  PROVE  /\ Len(Uniform(flag, n)) = n /\ IsText(Uniform(flag, n))
         /\ DOMAIN Uniform(flag, n) = 1..n
         /\ \A i \in 1..n : Uniform(flag, n)[i] = flag
<1>1. /\ DOMAIN Uniform(flag, n) = 1..n
      /\ Uniform(flag, n) = [i \in DOMAIN Uniform(flag, n) |-> Uniform(flag, n)[i]]
      /\ \A i \in 1..n : Uniform(flag, n)[i] = flag
  BY DEF Uniform
<1>2. QED
  BY <1>1, TextMade

(* A part that fits is a component of the word, which may be forbidden at  *)
(* other places than the end.                                              *)
LEMMA PartIsComponent ==
  ASSUME NEW d, CompoundTyped(d), NEW w, Len(w) \in Nat, NEW flags, Len(flags) \in Nat, NEW kept,
         NEW i \in 1..Len(flags), NEW start \in 0..Len(w),
         NEW end \in DividedAt(d, w, flags, kept, i, start), i < Len(flags) \/ end = Len(w)
  PROVE  /\ end \in 1..Len(w) /\ Allowed(d, w, start, end, FALSE)
         /\ MatchesComponent(d, SubSeq(w, start + 1, end), flags[i], end = Len(w), kept)
<1>1. end \in 1..Len(w)
  BY DividedForward
<1>2. d.compound.minimum \in Nat
  BY DEF CompoundTyped
<1>3. Allowed(d, w, start, end, FALSE)
  <2>1. end \in start + d.compound.minimum..Len(w) /\ BoundaryAllowed(d, w, start, end, FALSE)
    BY DEF DividedAt
  <2>2. start + d.compound.minimum <= end
    BY <1>2, <2>1
  <2>3. QED
    BY <2>1, <2>2 DEF Allowed
<1>4. PartFits(d, w, flags, kept, i, start, end)
  BY DEF DividedAt
<1>5. MatchesComponent(d, SubSeq(w, start + 1, end), flags[i], end = Len(w), kept)
  BY <1>4 DEF PartFits, MatchesComponent
<1>6. QED
  BY <1>1, <1>3, <1>5

LEMMA GenericTraced ==
  ASSUME NEW Letter, NEW d, CompoundTyped(d), NEW w \in Seq(Letter), NEW kept, NEW flag,
         NEW n \in 2..Len(w), NEW trace \in TraceComponents(d, w, Uniform(flag, n), kept)
  PROVE  TraceOf(d, w, trace) /\ Len(trace) = n /\ Len(w) \in GenericReach(d, w, flag, kept, FALSE)[n]
<1> DEFINE flags == Uniform(flag, n)
           edges == GenericEdges(d, w, flag, kept, FALSE)
           g == GenericReach(d, w, flag, kept, FALSE)
<1>1. Len(w) \in Nat /\ n \in Nat /\ n \in 0..Len(w)
  OBVIOUS
<1>2. IsFrontier(edges, Len(w), Len(w), g)
  BY <1>1, GenericIsFrontier
<1>3. Len(flags) = n /\ \A i \in 1..n : flags[i] = flag
  BY <1>1, UniformText
<1> HIDE DEF g, flags
<1>4. ASSUME NEW i \in 1..Len(flags), NEW start \in 0..Len(w),
             NEW end \in DividedAt(d, w, flags, kept, i, start), i < Len(flags) \/ end = Len(w)
      PROVE  <<i, start, end>> \in edges
  <2>1. /\ end \in 1..Len(w) /\ Allowed(d, w, start, end, FALSE)
        /\ MatchesComponent(d, SubSeq(w, start + 1, end), flags[i], end = Len(w), kept)
    BY <1>1, <1>3, <1>4, PartIsComponent
  <2>2. <<i, start, end>> \in Triples(Len(w), Len(w))
    BY <1>1, <1>3, <2>1 DEF Triples
  <2>3. flags[i] = flag
    BY <1>3
  <2>4. QED
    BY <2>1, <2>2, <2>3 DEF GenericEdges
<1> HIDE DEF edges
<1>5. FollowsEdges(d, w, flags, kept, edges)
  BY <1>4 DEF FollowsEdges
<1>6. IsFrontier(edges, Len(w), Len(flags), g)
  BY <1>1, <1>2, <1>3, FewerFrontiers
<1>7. Len(flags) \in Nat
  BY <1>1, <1>3
<1>8. TraceOf(d, w, trace) /\ Len(trace) = Len(flags) /\ Len(w) \in g[Len(flags)]
  BY <1>5, <1>6, <1>7, TraceReached DEF flags
<1>9. QED
  BY <1>3, <1>8 DEF g

LEMMA PatternTraced ==
  ASSUME NEW Letter, NEW d, CompoundTyped(d), NEW w \in Seq(Letter), NEW kept,
         NEW pattern, Len(pattern) \in Nat, NEW trace \in TraceComponents(d, w, pattern, kept)
  PROVE  /\ TraceOf(d, w, trace) /\ Len(trace) = Len(pattern)
         /\ Len(w) \in PatternReach(d, w, pattern, kept, FALSE)[Len(pattern)]
<1> DEFINE edges == PatternEdges(d, w, pattern, kept, FALSE)
           g == PatternReach(d, w, pattern, kept, FALSE)
<1>1. Len(w) \in Nat
  OBVIOUS
<1>2. IsFrontier(edges, Len(w), Len(pattern), g)
  BY <1>1, PatternIsFrontier
<1> HIDE DEF g
<1>3. ASSUME NEW i \in 1..Len(pattern), NEW start \in 0..Len(w),
             NEW end \in DividedAt(d, w, pattern, kept, i, start), i < Len(pattern) \/ end = Len(w)
      PROVE  <<i, start, end>> \in edges
  <2>1. /\ end \in 1..Len(w) /\ Allowed(d, w, start, end, FALSE)
        /\ MatchesComponent(d, SubSeq(w, start + 1, end), pattern[i], end = Len(w), kept)
    BY <1>1, <1>3, PartIsComponent
  <2>2. <<i, start, end>> \in Triples(Len(pattern), Len(w))
    BY <1>1, <2>1 DEF Triples
  <2>3. QED
    BY <2>1, <2>2 DEF PatternEdges
<1> HIDE DEF edges
<1>4. FollowsEdges(d, w, pattern, kept, edges)
  BY <1>3 DEF FollowsEdges
<1>5. QED
  BY <1>2, <1>4, TraceReached DEF g

(* The flags of a positioned compound of n parts.                          *)
IsPositions(d, n, flags) ==
  /\ Len(flags) = n
  /\ \A i \in 1..n : flags[i] \in d.compound[PositionOf(i, n)]

LEMMA PositionedTraced ==
  ASSUME NEW Letter, NEW d, CompoundTyped(d), NEW w \in Seq(Letter), NEW kept,
         NEW n \in 2..Len(w), NEW flags, IsPositions(d, n, flags),
         NEW trace \in TraceComponents(d, w, flags, kept)
  PROVE  TraceOf(d, w, trace) /\ Len(trace) = n /\ Len(w) \in LastPositioned(d, w, kept, FALSE, n)
<1> DEFINE edges == PositionedEdges(d, w, kept, FALSE, n)
<1>1. Len(w) \in Nat /\ n \in Nat
  OBVIOUS
<1>2. PICK g : IsFrontier(edges, Len(w), n, g) /\ g[n] = LastPositioned(d, w, kept, FALSE, n)
  BY <1>1, PositionedIsFrontier
<1>3. Len(flags) = n
  BY DEF IsPositions
<1>4. ASSUME NEW i \in 1..Len(flags), NEW start \in 0..Len(w),
             NEW end \in DividedAt(d, w, flags, kept, i, start), i < Len(flags) \/ end = Len(w)
      PROVE  <<i, start, end>> \in edges
  <2>1. end \in 1..Len(w) /\ Allowed(d, w, start, end, FALSE)
    BY <1>1, <1>3, <1>4, PartIsComponent
  <2>2. <<i, start, end>> \in Triples(n, Len(w))
    BY <1>1, <1>3, <2>1 DEF Triples
  <2>3. PICK l \in LexemesFor(d, SubSeq(w, start + 1, end)) :
          /\ Usable(d, l, kept)
          /\ i = n \/ ~CompoundForbidden(d, l.flags)
          /\ flags[i] \in l.flags
    BY <1>3 DEF DividedAt, PartFits
  <2>4. i = n => PositionOf(i, n) = "end"
    BY DEF PositionOf
  <2>5. MatchesPositionedComponent(d, SubSeq(w, start + 1, end), flags[i], PositionOf(i, n), kept)
    BY <2>3, <2>4 DEF MatchesPositionedComponent, Positioned
  <2>6. flags[i] \in d.compound[PositionOf(i, n)]
    BY <1>3 DEF IsPositions
  <2>7. QED
    BY <2>1, <2>2, <2>5, <2>6 DEF PositionedEdges
<1> HIDE DEF edges
<1>5. FollowsEdges(d, w, flags, kept, edges)
  BY <1>4 DEF FollowsEdges
<1>6. IsFrontier(edges, Len(w), Len(flags), g) /\ Len(flags) \in Nat
  BY <1>1, <1>2, <1>3
<1>7. TraceOf(d, w, trace) /\ Len(trace) = Len(flags) /\ Len(w) \in g[Len(flags)]
  BY <1>5, <1>6, TraceReached
<1>8. QED
  BY <1>2, <1>3, <1>7

(* What a traced compound is: recognised as one, unless it has too many    *)
(* components.                                                             *)
Traced(d, w, kept, trace) ==
  /\ TraceOf(d, w, trace)
  /\ MatchesWithTriples(d, w, kept, FALSE) \/ ~CountAllowed(d, w, Len(trace))

LEMMA TracedGenericRecognised ==
  ASSUME NEW Letter, NEW d, CompoundTyped(d), NEW w \in Seq(Letter), NEW kept,
         NEW trace \in TracedGeneric(d, w, kept)
  PROVE  Traced(d, w, kept, trace)
<1>1. PICK flag \in d.compound.flag, n \in CountsTried(d, w) :
        trace \in TraceComponents(d, w, Uniform(flag, n), kept)
  BY DEF TracedGeneric
<1>2. n \in 2..Len(w) /\ CountAllowed(d, w, n)
  BY DEF CountsTried
<1>3. TraceOf(d, w, trace) /\ Len(w) \in GenericReach(d, w, flag, kept, FALSE)[n]
  BY <1>1, <1>2, GenericTraced
<1>4. \A m \in 1..n - 1 : ~CannotContinue(d, m)
  <2>1. n \in Nat /\ \A m \in 1..n - 1 : m \in Nat /\ m < n
    BY <1>2
  <2>2. QED
    BY <1>2, <2>1, NotGivenUp
<1>5. MatchesGeneric(d, w, flag, kept, FALSE)
  BY <1>2, <1>3, <1>4, Zenon DEF MatchesGeneric
<1>6. QED
  BY <1>1, <1>3, <1>5, Zenon DEF Traced, MatchesWithTriples

LEMMA TracedRulesRecognised ==
  ASSUME NEW Letter, NEW d, CompoundTyped(d), NEW w \in Seq(Letter), NEW kept,
         \A pattern \in RulePatterns(d) : 2 <= Len(pattern),
         NEW trace \in TracedRules(d, w, kept)
  PROVE  Traced(d, w, kept, trace)
<1>1. PICK pattern \in RulePatterns(d) : trace \in TraceComponents(d, w, pattern, kept)
  BY DEF TracedRules
<1>2. Len(pattern) \in Nat /\ Len(pattern) >= 2
  BY DEF CompoundTyped
<1>3. /\ TraceOf(d, w, trace) /\ Len(trace) = Len(pattern)
      /\ Len(w) \in PatternReach(d, w, pattern, kept, FALSE)[Len(pattern)]
  BY <1>1, <1>2, PatternTraced
<1>4. CountAllowed(d, w, Len(trace)) => MatchesFixedPattern(d, w, pattern, kept, FALSE)
  BY <1>2, <1>3 DEF MatchesFixedPattern
<1>5. QED
  BY <1>1, <1>3, <1>4, Zenon DEF Traced, MatchesWithTriples

LEMMA PositionsGiven ==
  ASSUME NEW d, NEW n \in Nat, n >= 2,
         NEW first \in d.compound.begin, NEW last \in d.compound.end,
         NEW middle \in IF n = 2 THEN {<<>>}
                        ELSE {Uniform(flag, n - 2) : flag \in d.compound.middle}
  PROVE  IsPositions(d, n, <<first>> \o middle \o <<last>>)
<1> DEFINE S == {first, last} \cup Range(middle)
           m == n - 2
<1>1. m \in Nat
  OBVIOUS
<1>2. IsText(middle) /\ Len(middle) = m /\ \A i \in 1..m : middle[i] \in d.compound.middle
  <2>1. CASE n = 2
    <3>1. middle = <<>> /\ m = 0
      BY <2>1
    <3>2. \A i \in 1..m : FALSE
      BY <3>1
    <3>3. Len(middle) = m
      BY <3>1
    <3>4. QED
      BY <3>1, <3>2, <3>3, EmptyText
  <2>2. CASE n # 2
    <3>1. PICK flag \in d.compound.middle : middle = Uniform(flag, m)
      BY <2>2
    <3> HIDE DEF m
    <3>2. QED
      BY <1>1, <3>1, UniformText
  <2>3. QED
    BY <2>1, <2>2
<1>3. middle \in Seq(S)
  BY <1>2, SeqMonotonic DEF IsText
<1>4. first \in S /\ last \in S
  OBVIOUS
<1> HIDE DEF S, m
<1>5. <<first>> \in Seq(S) /\ <<last>> \in Seq(S)
      /\ Len(<<first>>) = 1 /\ Len(<<last>>) = 1
  BY <1>4
<1> DEFINE left == <<first>> \o middle
<1>6. left \in Seq(S) /\ Len(left) = m + 1 /\ left[1] = first
      /\ \A i \in 2..(m + 1) : left[i] = middle[i - 1]
  BY <1>1, <1>2, <1>3, <1>5
<1> HIDE DEF left
<1> DEFINE flags == left \o <<last>>
<1>7. Len(flags) = m + 2 /\ flags[m + 2] = last /\ \A i \in 1..(m + 1) : flags[i] = left[i]
  BY <1>1, <1>5, <1>6
<1> HIDE DEF flags
<1>8. n = m + 2
  BY DEF m
<1>9. ASSUME NEW i \in 1..n
      PROVE  flags[i] \in d.compound[PositionOf(i, n)]
  <2>1. CASE i = 1
    <3>1. flags[i] = first /\ PositionOf(i, n) = "begin"
      BY <1>1, <1>6, <1>7, <2>1 DEF PositionOf
    <3>2. QED
      BY <3>1
  <2>2. CASE i = n
    <3>1. flags[i] = last /\ PositionOf(i, n) = "end"
      BY <1>1, <1>7, <1>8, <2>2 DEF PositionOf
    <3>2. QED
      BY <3>1
  <2>3. CASE i # 1 /\ i # n
    <3>1. i \in 2..(m + 1) /\ i \in 1..(m + 1) /\ i - 1 \in 1..m
      BY <1>1, <1>8, <2>3
    <3>2. flags[i] = middle[i - 1] /\ PositionOf(i, n) = "middle"
      BY <1>6, <1>7, <2>3, <3>1 DEF PositionOf
    <3>3. QED
      BY <1>2, <3>1, <3>2
  <2>4. QED
    BY <2>1, <2>2, <2>3
<1>10. IsPositions(d, n, flags)
  BY <1>7, <1>8, <1>9 DEF IsPositions
<1>11. QED
  BY <1>10 DEF flags, left

LEMMA TracedPositionedRecognised ==
  ASSUME NEW Letter, NEW d, CompoundTyped(d), NEW w \in Seq(Letter), NEW kept,
         NEW trace \in TracedPositioned(d, w, kept)
  PROVE  Traced(d, w, kept, trace)
<1> DEFINE Middles(n) == IF n = 2 THEN {<<>>}
                         ELSE {Uniform(flag, n - 2) : flag \in d.compound.middle}
           Parts == UNION {Middles(n) : n \in CountsTried(d, w)}
           Trace(first, last, middle) ==
             TraceComponents(d, w, <<first>> \o middle \o <<last>>, kept)
<1>0. TracedPositioned(d, w, kept) =
        UNION {Trace(first, last, middle) :
                 first \in d.compound.begin, last \in d.compound.end, middle \in Parts}
  BY DEF TracedPositioned
<1>1. PICK first \in d.compound.begin, last \in d.compound.end, middle \in Parts :
        trace \in Trace(first, last, middle)
  <2> HIDE DEF Parts, Trace
  <2>1. QED
    BY <1>0
<1>2. PICK n \in CountsTried(d, w) : middle \in Middles(n)
  BY <1>1
<1>3. /\ n \in 2..Len(w) /\ CountAllowed(d, w, n)
      /\ \A m \in 2..n - 1 : ~CannotContinue(d, m)
  BY DEF CountsTried
<1>4. n \in Nat /\ n >= 2
  BY <1>3
<1> DEFINE flags == <<first>> \o middle \o <<last>>
<1>5. IsPositions(d, n, flags)
  BY <1>2, <1>4, PositionsGiven
<1> HIDE DEF flags, Middles
<1>6. TraceOf(d, w, trace) /\ Len(w) \in LastPositioned(d, w, kept, FALSE, n)
  <2>1. trace \in TraceComponents(d, w, flags, kept)
    BY <1>1 DEF flags
  <2>2. QED
    BY <1>3, <1>5, <2>1, PositionedTraced
<1>7. MatchesPositioned(d, w, kept, FALSE)
  <2>1. d.compound.begin # {} /\ d.compound.end # {}
    BY <1>1
  <2>2. QED
    BY <1>3, <1>6, <2>1, Zenon DEF MatchesPositioned, LastPositioned
<1>8. QED
  BY <1>6, <1>7, Zenon DEF Traced, MatchesWithTriples

(* A compound that is explained is recognised, unless it has too many      *)
(* components; and its parts make it up.  (explain_compound)               *)
LEMMA ExplainedCompound ==
  ASSUME NEW Letter, NEW d, CompoundTyped(d), NEW w \in Seq(Letter), NEW kept,
         \A pattern \in RulePatterns(d) : 2 <= Len(pattern),
         NEW b \in ExplainCompound(d, w, kept)
  PROVE  \E trace : /\ b = Because("compound", w, trace)
                    /\ TraceOf(d, w, trace)
                    /\ \/ MatchesSimpleCompound(d, w, kept)
                       \/ ~CountAllowed(d, w, Len(trace))
<1> DEFINE traced == << TracedGeneric(d, w, kept), TracedRules(d, w, kept),
                        TracedPositioned(d, w, kept) >>
           tried == IF GivesUpAfterGeneric(d, w) THEN 1 ELSE 3
           sets == [n \in 1..tried |-> traced[n]]
           Guard == /\ HasCompounds(d)
                    /\ ~(d.compound.checkReplacement /\ MatchesNoncompoundReplacement(d, w, kept))
                    /\ Len(w) <= MaxCompoundScalars
<1>1. ExplainCompound(d, w, kept) = IF Guard THEN {Because("compound", w, trace) : trace \in FirstOf(sets)}
                                    ELSE {}
  BY Zenon DEF ExplainCompound
<1>2. Guard /\ b \in {Because("compound", w, trace) : trace \in FirstOf(sets)}
  BY <1>1
<1>3. PICK trace \in FirstOf(sets) : b = Because("compound", w, trace)
  BY <1>2
<1>4. tried \in {1, 3}
  OBVIOUS
<1>5. DOMAIN sets = 1..tried
  OBVIOUS
<1>6. \A n \in 1..tried : n \in 1..3 /\ sets[n] = traced[n]
  OBVIOUS
<1>7. traced[1] = TracedGeneric(d, w, kept) /\ traced[2] = TracedRules(d, w, kept)
      /\ traced[3] = TracedPositioned(d, w, kept)
  OBVIOUS
<1> HIDE DEF tried, sets, traced
<1>8. tried \in Nat
  BY <1>4
<1>9. PICK n \in 1..tried : trace \in sets[n]
  BY <1>5, <1>8, FirstOfSets
<1>10. n = 1 \/ n = 2 \/ n = 3
  BY <1>6
<1>11. Traced(d, w, kept, trace)
  <2>1. trace \in traced[n]
    BY <1>6, <1>9
  <2>2. CASE n = 1
    BY <1>7, <2>1, <2>2, TracedGenericRecognised
  <2>3. CASE n = 2
    BY <1>7, <2>1, <2>3, TracedRulesRecognised
  <2>4. CASE n = 3
    BY <1>7, <2>1, <2>4, TracedPositionedRecognised
  <2>5. QED
    BY <1>10, <2>2, <2>3, <2>4
<1>12. MatchesWithTriples(d, w, kept, FALSE) => MatchesSimpleCompound(d, w, kept)
  <2> DEFINE v == << w, FALSE >>
  <2>1. v[1] = w /\ v[2] = FALSE
    OBVIOUS
  <2>2. v \in {<< w, FALSE >>}
    OBVIOUS
  <2> HIDE DEF v
  <2>3. MatchesWithTriples(d, w, kept, FALSE) => MatchesWithTriples(d, v[1], kept, v[2])
    BY <2>1
  <2>4. v \in ({<< w, FALSE >>} \cup (SimplifiedTriples(d, w) \X {TRUE}))
              \cup (PatternReplacements(d, w) \X {FALSE})
    BY <2>2, Zenon
  <2>5. QED
    BY <1>2, <2>3, <2>4, Zenon DEF MatchesSimpleCompound
<1>13. QED
  BY <1>3, <1>11, <1>12 DEF Traced

-----------------------------------------------------------------------------
(* What an explanation says is so                                          *)

(* The entry, the rules and the parts it names make up the word.           *)
ExplainsBy(d, w, b) ==
  /\ b.kind = "stem" => b.stem = w
  /\ b.kind = "affixed" => LexemesFor(d, b.stem) # {} /\ Makes(d, b.stem, b.trace, w)
  /\ b.kind = "compound" => TraceOf(d, w, b.trace)

(* It is given to a word that is recognised, or is of one of two kinds.    *)
Warranted(d, w, kept, b) ==
  \/ ContainsNormalized(d, w, kept)
  \/ b = Because("compatibility", <<>>, <<"sharps">>) /\ ~kept
  \/ b.kind = "compound" /\ ~CountAllowed(d, w, Len(b.trace))

Explains(d, w, kept, b) == ExplainsBy(d, w, b) /\ Warranted(d, w, kept, b)

LEMMA BecauseFields ==
  ASSUME NEW kind, NEW stem, NEW trace
  PROVE  LET b == Because(kind, stem, trace)
         IN b.kind = kind /\ b.stem = stem /\ b.trace = trace
  BY DEF Because

LEMMA WholeRecognised ==
  ASSUME NEW d, NEW w, NEW kept, MatchesWithoutBreak(d, w, kept)
  PROVE  ContainsNormalized(d, w, kept)
<1>1. \A part \in {w} : MatchesWithoutBreak(d, part, kept)
  OBVIOUS
<1>2. {w} \in {{w}} \cup BreakParts(d, w)
  OBVIOUS
<1>3. QED
  BY <1>1, <1>2, Zenon DEF ContainsNormalized

LEMMA StemExplains ==
  ASSUME NEW d, NEW w, NEW kept, NEW b \in ExplainStem(d, w, kept)
  PROVE  Explains(d, w, kept, b)
<1>1. PICK l \in LexemesFor(d, w) : AcceptsStem(d, l, kept) /\ b = Because("stem", l.stem, <<>>)
  BY DEF ExplainStem
<1>2. b.kind = "stem" /\ b.stem = w
  BY <1>1, BecauseFields DEF LexemesFor
<1>3. MatchesWithoutBreak(d, w, kept)
  BY <1>1, Zenon DEF MatchesWithoutBreak
<1>4. QED
  BY <1>2, <1>3, WholeRecognised DEF Explains, ExplainsBy, Warranted

LEMMA SingleAffixExplains ==
  ASSUME NEW Letter, NEW d, Spelled(d, Letter), NEW w \in Seq(Letter), NEW kept,
         NEW b \in ExplainSingleAffix(d, w, kept)
  PROVE  Explains(d, w, kept, b)
<1>1. PICK p \in SingleAffixPairs(d, w, kept) : b = Because("affixed", p[2].stem, <<p[1].id>>)
  BY DEF ExplainSingleAffix
<1>2. b.kind = "affixed" /\ b.stem = p[2].stem /\ b.trace = <<p[1].id>>
  BY <1>1, BecauseFields
<1>3. Makes(d, p[2].stem, <<p[1].id>>, w) /\ LexemesFor(d, p[2].stem) # {}
  BY SingleAffixMakes
<1>4. MatchesWithoutBreak(d, w, kept)
  <2>1. SingleAffixPairs(d, w, kept) # {}
    OBVIOUS
  <2>2. QED
    BY <2>1, Zenon DEF MatchesWithoutBreak, MatchesSingleAffixWord
<1>5. QED
  BY <1>2, <1>3, <1>4, WholeRecognised DEF Explains, ExplainsBy, Warranted

LEMMA DerivedExplains ==
  ASSUME NEW Letter, NEW d, Rules(d), Spelled(d, Letter), NEW w, NEW kept,
         NEW b \in ExplainDerived(d, w, kept)
  PROVE  Explains(d, w, kept, b)
<1>1. PICK l \in {x \in d.lexemes : Usable(d, x, kept)} :
        b \in {Because("affixed", l.stem, s.used) : s \in
                 {x \in Chains(d, l) : x.form = w /\ AcceptedState(d, x)}}
  BY DEF ExplainDerived
<1>2. PICK s \in {x \in Chains(d, l) : x.form = w /\ AcceptedState(d, x)} :
        b = Because("affixed", l.stem, s.used)
  BY <1>1
<1>3. l \in d.lexemes /\ Usable(d, l, kept) /\ s \in Chains(d, l) /\ s.form = w
      /\ AcceptedState(d, s)
  BY <1>1, <1>2
<1>4. b.kind = "affixed" /\ b.stem = l.stem /\ b.trace = s.used
  BY <1>2, BecauseFields
<1>5. Makes(d, l.stem, s.used, w) /\ LexemesFor(d, l.stem) # {}
  BY <1>3, ChainMakes
<1>6. MatchesWithoutBreak(d, w, kept)
  BY <1>3, Zenon DEF MatchesWithoutBreak, DerivedWord
<1>7. QED
  BY <1>4, <1>5, <1>6, WholeRecognised DEF Explains, ExplainsBy, Warranted

LEMMA CompoundExplains ==
  ASSUME NEW Letter, NEW d, CompoundTyped(d), NEW w \in Seq(Letter), NEW kept,
         \A pattern \in RulePatterns(d) : 2 <= Len(pattern),
         NEW b \in ExplainCompound(d, w, kept)
  PROVE  Explains(d, w, kept, b)
<1>1. PICK trace : /\ b = Because("compound", w, trace)
                   /\ TraceOf(d, w, trace)
                   /\ \/ MatchesSimpleCompound(d, w, kept)
                      \/ ~CountAllowed(d, w, Len(trace))
  BY ExplainedCompound
<1>2. b.kind = "compound" /\ b.trace = trace
  BY <1>1, BecauseFields
<1>3. MatchesSimpleCompound(d, w, kept) => ContainsNormalized(d, w, kept)
  <2>1. MatchesSimpleCompound(d, w, kept) => MatchesWithoutBreak(d, w, kept)
    BY Zenon DEF MatchesWithoutBreak
  <2>2. QED
    BY <2>1, WholeRecognised
<1>4. QED
  BY <1>1, <1>2, <1>3 DEF Explains, ExplainsBy, Warranted

LEMMA CompatibilityExplains ==
  ASSUME NEW d, NEW w, NEW kept \in BOOLEAN, NEW path, NEW b \in Compatibility(path),
         \/ path = "lookup" /\ MatchesWithoutBreak(d, w, kept)
         \/ path = "break" /\ MatchesBreakWord(d, w, kept)
         \/ path = "sharps" /\ w \in SharpForms(d)
  PROVE  Explains(d, w, kept, b)
<1>1. b = Because("compatibility", <<>>, <<path>>)
  BY DEF Compatibility
<1>2. b.kind = "compatibility"
  BY <1>1, BecauseFields
<1>3. MatchesBreakWord(d, w, kept) => ContainsNormalized(d, w, kept)
  BY Zenon DEF MatchesBreakWord, ContainsNormalized
<1>4. kept /\ w \in SharpForms(d) => MatchesWithoutBreak(d, w, kept)
  BY Zenon DEF MatchesWithoutBreak
<1>5. Warranted(d, w, kept, b)
  BY <1>1, <1>3, <1>4, WholeRecognised DEF Warranted
<1>6. ExplainsBy(d, w, b)
  BY <1>2 DEF ExplainsBy
<1>7. QED
  BY <1>5, <1>6 DEF Explains

(* Every stage gives what explains the word.                               *)
LEMMA ExplanationExplains ==
  ASSUME NEW Letter, NEW d, CompoundTyped(d), Rules(d), Spelled(d, Letter),
         \A pattern \in RulePatterns(d) : 2 <= Len(pattern),
         NEW w \in Seq(Letter), NEW kept \in BOOLEAN, NEW b \in ExplainNormalized(d, w, kept)
  PROVE  Explains(d, w, kept, b)
<1> DEFINE S == Stages(d, w, kept)
<1>1. PICK i \in 1..7 : b \in S[i]
  <2>1. b \in FirstOf(S) /\ DOMAIN S = 1..7
    BY StagesOf
  <2> HIDE DEF S
  <2>2. QED
    BY <2>1, FirstOfSets
<1>2. /\ S[1] = ExplainStem(d, w, kept) /\ S[2] = ExplainSingleAffix(d, w, kept)
      /\ S[3] = ExplainDerived(d, w, kept) /\ S[4] = ExplainCompound(d, w, kept)
      /\ S[5] = IF MatchesWithoutBreak(d, w, kept) THEN Compatibility("lookup") ELSE {}
      /\ S[6] = IF MatchesBreakWord(d, w, kept) THEN Compatibility("break") ELSE {}
      /\ S[7] = IF w \in SharpForms(d) THEN Compatibility("sharps") ELSE {}
  BY DEF Stages
<1> HIDE DEF S
<1>3. i = 1 \/ i = 2 \/ i = 3 \/ i = 4 \/ i = 5 \/ i = 6 \/ i = 7
  OBVIOUS
<1>4. CASE i = 1
  BY <1>1, <1>2, <1>4, StemExplains
<1>5. CASE i = 2
  BY <1>1, <1>2, <1>5, SingleAffixExplains
<1>6. CASE i = 3
  BY <1>1, <1>2, <1>6, DerivedExplains
<1>7. CASE i = 4
  BY <1>1, <1>2, <1>7, CompoundExplains
<1>8. CASE i = 5
  <2>1. MatchesWithoutBreak(d, w, kept) /\ b \in Compatibility("lookup")
    BY <1>1, <1>2, <1>8
  <2>2. QED
    BY <2>1, CompatibilityExplains
<1>9. CASE i = 6
  <2>1. MatchesBreakWord(d, w, kept) /\ b \in Compatibility("break")
    BY <1>1, <1>2, <1>9
  <2>2. QED
    BY <2>1, CompatibilityExplains
<1>10. CASE i = 7
  <2>1. w \in SharpForms(d) /\ b \in Compatibility("sharps")
    BY <1>1, <1>2, <1>10
  <2>2. QED
    BY <2>1, CompatibilityExplains
<1>11. QED
  BY <1>3, <1>4, <1>5, <1>6, <1>7, <1>8, <1>9, <1>10

-----------------------------------------------------------------------------
(* Folded and converted spellings are texts                                *)

LEMMA CaseIsText ==
  ASSUME NEW lang \in Languages, NEW c
  PROVE  IsText(LowerOf(c, lang)) /\ IsText(UpperOf(c, lang))
<1>1. ASSUME NEW map \in {Casing[lang].lower, Casing[lang].upper}
      PROVE  IsText(InCase(c, map))
  <2>1. c \in DOMAIN map => IsText(map[c])
    BY CasesAreLetters
  <2>2. QED
    BY <2>1, SingletonText DEF InCase
<1>2. QED
  BY <1>1 DEF LowerOf, UpperOf

LEMMA JoinedIsText ==
  ASSUME NEW n \in Nat, NEW seqs, DOMAIN seqs = 1..n, seqs = [i \in DOMAIN seqs |-> seqs[i]],
         \A i \in 1..n : IsText(seqs[i])
  PROVE  IsText(FlattenSeq(seqs))
<1> DEFINE T == UNION {Range(seqs[i]) : i \in 1..n}
<1>1. ASSUME NEW i \in 1..n
      PROVE  seqs[i] \in Seq(T)
  <2>1. seqs[i] \in Seq(Range(seqs[i])) /\ Range(seqs[i]) \subseteq T
    BY DEF IsText
  <2> HIDE DEF T
  <2>2. QED
    BY <2>1, SeqMonotonic
<1> HIDE DEF T
<1>2. FlattenSeq(seqs) \in Seq(T)
  BY <1>1, FlattenIsSeq
<1>3. QED
  BY <1>2, SeqIsText

LEMMA LowercaseIsText ==
  ASSUME NEW lang \in Languages, NEW w, IsText(w)
  PROVE  IsText(Lowercase(w, lang))
<1> DEFINE seqs == [i \in DOMAIN w |-> LowerOf(w[i], lang)]
<1>1. Len(w) \in Nat /\ DOMAIN w = 1..Len(w)
  BY TextType
<1>2. DOMAIN seqs = 1..Len(w) /\ seqs = [i \in DOMAIN seqs |-> seqs[i]]
  BY <1>1
<1>3. \A i \in 1..Len(w) : IsText(seqs[i])
  BY <1>1, CaseIsText
<1> HIDE DEF seqs
<1>4. IsText(FlattenSeq(seqs))
  BY <1>1, <1>2, <1>3, JoinedIsText
<1>5. QED
  BY <1>4 DEF Lowercase, seqs

LEMMA InitialCaseIsText ==
  ASSUME NEW lang \in Languages, NEW w, IsText(w)
  PROVE  IsText(InitialCase(w, lang))
<1>1. CASE w = <<>>
  BY <1>1, EmptyText DEF InitialCase
<1>2. CASE w # <<>>
  <2>1. IsText(Tail(w))
    <3>1. Tail(w) \in Seq(Range(w))
      BY <1>2, HeadTailProperties DEF IsText
    <3>2. QED
      BY <3>1, SeqIsText
  <2>2. IsText(UpperOf(Head(w), lang)) /\ IsText(Lowercase(Tail(w), lang))
    BY <2>1, CaseIsText, LowercaseIsText
  <2>3. QED
    BY <1>2, <2>2, JoinIsText DEF InitialCase
<1>3. QED
  BY <1>1, <1>2

(* The spellings tried in place of a word are texts, and are others.       *)
(* (case_folded_candidates)                                                *)
LEMMA FoldedAreTexts ==
  ASSUME NEW d, d.language \in Languages, NEW w, IsText(w),
         NEW v \in CaseFoldedCandidates(d, w)
  PROVE  IsText(v) /\ v # w
<1> DEFINE lang == d.language
           folded == IF CasePattern(w, lang) = "initial" THEN {Lowercase(w, lang)}
                     ELSE IF CasePattern(w, lang) = "upper"
                     THEN {Lowercase(w, lang), InitialCase(w, lang)}
                     ELSE {}
<1>1. CaseFoldedCandidates(d, w) = IF d.caseFallback THEN folded \ {w} ELSE {}
  BY Zenon DEF CaseFoldedCandidates
<1>2. folded \subseteq {Lowercase(w, lang), InitialCase(w, lang)}
  OBVIOUS
<1>3. IsText(Lowercase(w, lang)) /\ IsText(InitialCase(w, lang))
  BY LowercaseIsText, InitialCaseIsText
<1> HIDE DEF folded
<1>4. v \in folded \ {w}
  BY <1>1
<1>5. QED
  BY <1>2, <1>3, <1>4

LEMMA GreatestNumber ==
  ASSUME NEW N \in Nat, NEW T \in SUBSET (0..N), T # {}
  PROVE  Max(T) \in T
<1> DEFINE R == {N - n : n \in T}
<1>0. \A n \in T : n \in 0..N /\ n \in Int /\ N - n \in Nat
  <2>1. \A n \in T : n \in 0..N
    OBVIOUS
  <2>2. \A n \in 0..N : n \in Int /\ N - n \in Nat
    OBVIOUS
  <2>3. QED
    BY <2>1, <2>2
<1>1. R \in SUBSET Nat /\ R # {}
  BY <1>0
<1>2. PICK r \in R : \A m \in R : r <= m
  <2> HIDE DEF R
  <2>1. QED
    BY <1>1, LeastNumber
<1>3. PICK n \in T : r = N - n
  OBVIOUS
<1>4. \A m \in T : n >= m
  <2>1. ASSUME NEW m \in T
        PROVE  n >= m
    <3>1. r <= N - m
      BY <1>2
    <3>2. n \in Int /\ m \in Int
      BY <1>0
    <3>3. QED
      BY <1>3, <3>1, <3>2
  <2>2. QED
    BY <2>1
<1>5. QED
  BY <1>4 DEF Max

(* A recursion from the end: each value is some text, and then the value   *)
(* at a place further on.                                                  *)
IsSpliced(L, text, next, f) ==
  f = [i \in 1..(L + 1) |-> IF i > L THEN <<>> ELSE text[i] \o f[next[i]]]

SplicedFrom(L, text, next, first, f) ==
  f = [i \in first..(L + 1) |-> IF i > L THEN <<>> ELSE text[i] \o f[next[i]]]

LEMMA SplicedExists ==
  ASSUME NEW L \in Nat, NEW text, NEW next, \A i \in 1..L : next[i] \in (i + 1)..(L + 1)
  PROVE  \E f : IsSpliced(L, text, next, f)
<1> DEFINE S == {n \in Nat : n <= L => \E f : SplicedFrom(L, text, next, L + 1 - n, f)}
<1>1. 0 \in S
  <2> DEFINE f == [i \in (L + 1)..(L + 1) |-> <<>>]
  <2>1. \A i \in (L + 1)..(L + 1) : i > L
    OBVIOUS
  <2>2. f = [i \in (L + 1)..(L + 1) |-> IF i > L THEN <<>> ELSE text[i] \o f[next[i]]]
    BY <2>1
  <2> HIDE DEF f
  <2>3. SplicedFrom(L, text, next, L + 1, f) /\ L + 1 = L + 1 - 0
    BY <2>2 DEF SplicedFrom
  <2>4. \E h : SplicedFrom(L, text, next, L + 1 - 0, h)
    BY <2>3
  <2>5. QED
    BY <2>4
<1>2. ASSUME NEW n \in Nat, n \in S
      PROVE  n + 1 \in S
  <2> SUFFICES ASSUME n + 1 <= L
               PROVE  \E f : SplicedFrom(L, text, next, L + 1 - (n + 1), f)
    OBVIOUS
  <2> DEFINE m == L + 1 - (n + 1)
  <2>1. PICK f : SplicedFrom(L, text, next, m + 1, f)
    BY <1>2
  <2>2. m \in 1..L
    OBVIOUS
  <2> HIDE DEF m
  <2> DEFINE g == [i \in m..(L + 1) |-> IF i = m THEN text[m] \o f[next[m]] ELSE f[i]]
  <2>3. \A i \in (m + 1)..(L + 1) : g[i] = f[i]
    BY <2>2
  <2>4. g[m] = text[m] \o f[next[m]] /\ g = [i \in m..(L + 1) |-> g[i]]
    <3>1. m \in m..(L + 1)
      BY <2>2
    <3>2. QED
      BY <3>1
  <2> HIDE DEF g
  <2>5. ASSUME NEW i \in m..(L + 1), i <= L
        PROVE  g[next[i]] = f[next[i]]
    <3>1. next[i] \in (i + 1)..(L + 1)
      BY <2>2, <2>5
    <3>2. next[i] \in (m + 1)..(L + 1)
      BY <2>2, <3>1
    <3>3. QED
      BY <2>3, <3>2
  <2>6. ASSUME NEW i \in m..(L + 1)
        PROVE  g[i] = IF i > L THEN <<>> ELSE text[i] \o g[next[i]]
    <3>1. CASE i = m
      <4>1. i <= L /\ ~(i > L)
        BY <2>2, <3>1
      <4>2. QED
        BY <2>4, <2>5, <3>1, <4>1
    <3>2. CASE i # m
      <4>1. i \in (m + 1)..(L + 1)
        BY <2>2, <3>2
      <4>2. f[i] = IF i > L THEN <<>> ELSE text[i] \o f[next[i]]
        BY <2>1, <4>1 DEF SplicedFrom
      <4>3. i > L \/ i <= L
        BY <2>2
      <4>4. QED
        BY <2>3, <2>5, <4>1, <4>2, <4>3
    <3>3. QED
      BY <3>1, <3>2
  <2>7. SplicedFrom(L, text, next, m, g)
    BY <2>4, <2>6 DEF SplicedFrom
  <2>8. QED
    BY <2>7 DEF m
<1> HIDE DEF S
<1>3. L \in S
  BY <1>1, <1>2, AllNumbers
<1>4. PICK f : SplicedFrom(L, text, next, L + 1 - L, f)
  BY <1>3 DEF S
<1>5. L + 1 - L = 1
  OBVIOUS
<1>6. IsSpliced(L, text, next, f)
  BY <1>4, <1>5 DEF SplicedFrom, IsSpliced
<1>7. QED
  BY <1>6

LEMMA SplicedIsText ==
  ASSUME NEW L \in Nat, NEW text, NEW next, \A i \in 1..L : next[i] \in (i + 1)..(L + 1),
         \A i \in 1..L : IsText(text[i]), NEW f, IsSpliced(L, text, next, f)
  PROVE  IsText(f[1])
<1> DEFINE S == {n \in Nat : \A m \in 0..n : m <= L => IsText(f[L + 1 - m])}
<1>1. ASSUME NEW i \in 1..(L + 1), \A j \in (i + 1)..(L + 1) : IsText(f[j])
      PROVE  IsText(f[i])
  <2>1. f[i] = IF i > L THEN <<>> ELSE text[i] \o f[next[i]]
    BY DEF IsSpliced
  <2>2. CASE i > L
    BY <2>1, <2>2, EmptyText
  <2>3. CASE ~(i > L)
    <3>1. i \in 1..L
      BY <2>3
    <3>2. IsText(text[i]) /\ IsText(f[next[i]])
      BY <1>1, <3>1
    <3>3. f[i] = text[i] \o f[next[i]]
      BY <2>1, <2>3
    <3>4. QED
      BY <3>2, <3>3, JoinIsText
  <2>4. QED
    BY <2>2, <2>3
<1>2. 0 \in S
  <2>1. IsText(f[L + 1])
    <3>1. L + 1 \in 1..(L + 1) /\ \A j \in ((L + 1) + 1)..(L + 1) : FALSE
      OBVIOUS
    <3>2. QED
      BY <1>1, <3>1
  <2>2. \A m \in 0..0 : L + 1 - m = L + 1
    OBVIOUS
  <2>3. QED
    BY <2>1, <2>2
<1>3. ASSUME NEW n \in Nat, n \in S
      PROVE  n + 1 \in S
  <2>1. ASSUME n + 1 <= L
        PROVE  IsText(f[L + 1 - (n + 1)])
    <3>1. ASSUME NEW j \in ((L + 1 - (n + 1)) + 1)..(L + 1)
          PROVE  IsText(f[j])
      <4>1. L + 1 - j \in 0..n /\ L + 1 - j <= L /\ L + 1 - (L + 1 - j) = j
        BY <2>1
      <4>2. QED
        BY <1>3, <4>1
    <3>2. L + 1 - (n + 1) \in 1..(L + 1)
      BY <2>1
    <3>3. QED
      BY <1>1, <3>1, <3>2
  <2>2. \A m \in 0..(n + 1) : m \in 0..n \/ m = n + 1
    OBVIOUS
  <2>3. QED
    BY <1>3, <2>1, <2>2
<1> HIDE DEF S
<1>4. L \in S
  BY <1>2, <1>3, AllNumbers
<1>5. L \in 0..L /\ L + 1 - L = 1
  OBVIOUS
<1>6. IsText(f[L + 1 - L])
  BY <1>4, <1>5 DEF S
<1>7. QED
  BY <1>5, <1>6

(* The conversions of a dictionary: from something to some text.           *)
ConversionsTyped(conversions) ==
  \A n \in DOMAIN conversions :
    /\ IsText(conversions[n].from) /\ conversions[n].from # <<>>
    /\ IsText(conversions[n].to)

ConversionMatches(w, conversions, n, i) ==
  LET c == conversions[n]
  IN /\ c.atStart => i = 1
     /\ c.atEnd => Len(c.from) = Len(w) - i + 1
     /\ IsPrefix(c.from, SubSeq(w, i, Len(w)))

ConversionHits(w, conversions, i) ==
  {n \in DOMAIN conversions : ConversionMatches(w, conversions, n, i)}

BestConversion(w, conversions, i) ==
  LET hits == ConversionHits(w, conversions, i)
      longest == Max({Len(conversions[n].from) : n \in hits})
  IN Min({n \in hits : Len(conversions[n].from) = longest})

LEMMA HitInside ==
  ASSUME NEW w, IsText(w), NEW conversions, ConversionsTyped(conversions),
         NEW i \in 1..Len(w), NEW n \in ConversionHits(w, conversions, i)
  PROVE  Len(conversions[n].from) \in 1..(Len(w) + 1 - i)
<1> DEFINE from == conversions[n].from
           rest == SubSeq(w, i, Len(w))
<1>1. n \in DOMAIN conversions /\ IsPrefix(from, rest)
  BY DEF ConversionHits, ConversionMatches
<1>2. IsText(from) /\ from # <<>>
  BY <1>1 DEF ConversionsTyped
<1>3. Len(w) \in Nat /\ w \in Seq(Range(w))
  BY TextType DEF IsText
<1>4. Len(rest) = Len(w) - i + 1
  BY <1>3
<1> HIDE DEF from, rest
<1>5. Len(from) \in Nat /\ Len(from) # 0
  BY <1>2, TextType, EmptySeq DEF IsText
<1>6. Len(from) <= Len(rest)
  BY <1>1 DEF IsPrefix
<1>7. QED
  BY <1>3, <1>4, <1>5, <1>6 DEF from

LEMMA BestIsHit ==
  ASSUME NEW w, IsText(w), NEW conversions, IsText(conversions), ConversionsTyped(conversions),
         NEW i \in 1..Len(w), ConversionHits(w, conversions, i) # {}
  PROVE  BestConversion(w, conversions, i) \in ConversionHits(w, conversions, i)
<1> DEFINE hits == ConversionHits(w, conversions, i)
           lengths == {Len(conversions[n].from) : n \in hits}
           longest == Max(lengths)
           longests == {n \in hits : Len(conversions[n].from) = longest}
<1>1. Len(w) \in Nat
  BY TextType
<1>2. lengths \in SUBSET (0..Len(w)) /\ lengths # {}
  <2>1. \A n \in hits : Len(conversions[n].from) \in 1..(Len(w) + 1 - i)
    BY HitInside
  <2>2. \A x \in 1..(Len(w) + 1 - i) : x \in 0..Len(w)
    BY <1>1
  <2>3. QED
    BY <2>1, <2>2
<1>3. longest \in lengths
  <2> HIDE DEF lengths
  <2>1. QED
    BY <1>1, <1>2, GreatestNumber
<1> HIDE DEF longest
<1>4. longests # {}
  BY <1>3
<1>5. hits \subseteq Nat
  <2>1. DOMAIN conversions \in SUBSET Nat
    BY TextType
  <2>2. QED
    BY <2>1 DEF ConversionHits
<1> HIDE DEF hits
<1>6. longests \in SUBSET Nat /\ longests \subseteq hits
  BY <1>5
<1> HIDE DEF longests
<1>7. Min(longests) \in longests
  <2>1. \E x \in longests : \A y \in longests : x <= y
    BY <1>4, <1>6, LeastNumber
  <2>2. QED
    BY <2>1 DEF Min
<1>8. BestConversion(w, conversions, i) = Min(longests)
  BY DEF BestConversion, hits, longest, longests
<1>9. QED
  BY <1>6, <1>7, <1>8 DEF hits

(* What the conversions make of a text is one.  (apply_conversions)        *)
LEMMA ConvertedIsText ==
  ASSUME NEW w, IsText(w), NEW conversions, IsText(conversions), ConversionsTyped(conversions)
  PROVE  IsText(ApplyConversions(w, conversions))
<1> DEFINE L == Len(w)
           Hits(i) == ConversionHits(w, conversions, i)
           Best(i) == BestConversion(w, conversions, i)
           text == [i \in 1..L |-> IF Hits(i) # {} THEN conversions[Best(i)].to ELSE <<w[i]>>]
           next == [i \in 1..L |-> IF Hits(i) # {} THEN i + Len(conversions[Best(i)].from)
                                   ELSE i + 1]
           Value(f, i) == IF i > L THEN <<>>
                          ELSE IF Hits(i) # {}
                          THEN conversions[Best(i)].to \o f[i + Len(conversions[Best(i)].from)]
                          ELSE <<w[i]>> \o f[i + 1]
           Converted(f) == f = [i \in 1..(L + 1) |-> Value(f, i)]
<1>1. L \in Nat
  BY TextType
<1>2. ASSUME NEW i \in 1..L
      PROVE  next[i] \in (i + 1)..(L + 1) /\ IsText(text[i])
  <2>1. CASE Hits(i) # {}
    <3> DEFINE n == Best(i)
    <3>1. n \in Hits(i)
      BY <2>1, BestIsHit
    <3> HIDE DEF n
    <3>2. Len(conversions[n].from) \in 1..(L + 1 - i)
      BY <3>1, HitInside
    <3>3. IsText(conversions[n].to)
      BY <3>1 DEF ConversionHits, ConversionsTyped
    <3>4. next[i] = i + Len(conversions[n].from) /\ text[i] = conversions[n].to
      BY <2>1 DEF n
    <3>5. i + Len(conversions[n].from) \in (i + 1)..(L + 1)
      BY <1>1, <3>2
    <3>6. QED
      BY <3>3, <3>4, <3>5
  <2>2. CASE Hits(i) = {}
    <3>1. next[i] = i + 1 /\ text[i] = <<w[i]>>
      BY <2>2
    <3>2. QED
      BY <1>1, <3>1, SingletonText
  <2>3. QED
    BY <2>1, <2>2
<1>3. ASSUME NEW f, NEW i \in 1..(L + 1)
      PROVE  Value(f, i) = IF i > L THEN <<>> ELSE text[i] \o f[next[i]]
  <2>1. CASE i > L
    BY <2>1
  <2>2. CASE ~(i > L)
    <3>1. i \in 1..L
      BY <1>1, <2>2
    <3>2. CASE Hits(i) # {}
      BY <2>2, <3>1, <3>2
    <3>3. CASE Hits(i) = {}
      BY <2>2, <3>1, <3>3
    <3>4. QED
      BY <3>2, <3>3
  <2>3. QED
    BY <2>1, <2>2
<1>4. ApplyConversions(w, conversions) = (CHOOSE f : Converted(f))[1]
  BY DEF ApplyConversions, ConversionHits, ConversionMatches, BestConversion
<1> HIDE DEF text, next, Value
<1>5. \A f : Converted(f) <=> IsSpliced(L, text, next, f)
  BY <1>3 DEF IsSpliced
<1> HIDE DEF Converted
<1>6. \E f : IsSpliced(L, text, next, f)
  BY <1>1, <1>2, SplicedExists
<1> DEFINE f == CHOOSE g : Converted(g)
<1>7. Converted(f)
  BY <1>5, <1>6
<1> HIDE DEF f
<1>8. IsText(f[1])
  BY <1>1, <1>2, <1>5, <1>7, SplicedIsText
<1>9. QED
  BY <1>4, <1>8 DEF f
=============================================================================
