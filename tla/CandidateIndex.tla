--------------------------- MODULE CandidateIndex ---------------------------
(***************************************************************************)
(* candidate_index.rs of crates/ferrolex-core: the index by which a source *)
(* of stored words leaves out those that cannot be near a misspelling, and *)
(* the edit distance of crates/ferrolex-suggest it must not lose a word of. *)
(*                                                                         *)
(* A word is a sequence of Unicode scalar values.                          *)
(***************************************************************************)
EXTENDS Naturals, SequencesExt

CONSTANTS
  Letter,      \* scalar values
  Lowercase,   \* char::to_lowercase, which may give several
  Uppercase    \* char::to_uppercase

ASSUME LetterAssumption ==
  /\ Letter \subseteq Nat
  /\ Lowercase \in [Letter -> Seq(Letter)]
  /\ Uppercase \in [Letter -> Seq(Letter)]

Lowered(word) == FlattenSeq([i \in DOMAIN word |-> Lowercase[word[i]]])

(* lowercase_bounded: the limit counts the scalars of the lowered word. *)
WithinLimit(word, scalars) == Len(Lowered(word)) <= scalars

Saturating(m, n) == IF m > n THEN m - n ELSE 0

(* osa_distance without its cut: insertions, deletions, substitutions and   *)
(* transpositions of neighbours, none of which is edited again.            *)
Distance(u, v) ==
  LET d[p \in (0..Len(u)) \X (0..Len(v))] ==
        LET i == p[1]
            j == p[2]
        IN  IF i = 0 \/ j = 0 THEN i + j
            ELSE Min({d[<<i - 1, j>>] + 1, d[<<i, j - 1>>] + 1,
                      d[<<i - 1, j - 1>>] + (IF u[i] = v[j] THEN 0 ELSE 1)}
                     \cup (IF i > 1 /\ j > 1 /\ u[i] = v[j - 1] /\ u[i - 1] = v[j]
                           THEN {d[<<i - 2, j - 2>>] + 1} ELSE {}))
  IN  d[<<Len(u), Len(v)>>]

Occurrences(c, word) == Cardinality({i \in DOMAIN word : word[i] = c})

(* The letters of a word, each with its number among those alike.          *)
Numbered(word) ==
  {<<word[i], Occurrences(word[i], SubSeq(word, 1, i))>> : i \in DOMAIN word}

(* multiset_overlap *)
Overlap(u, v) == Cardinality(Numbered(u) \cap Numbered(v))

(* What a lowered word must have in common with the lowered query.         *)
Possible(query, word, distance, scalars) ==
  /\ Len(word) \in Saturating(Len(query), distance)..Min({Len(query) + distance, scalars})
  /\ Overlap(query, word) >= Saturating(Max({Len(query), Len(word)}), distance)

-----------------------------------------------------------------------------

(* CandidateIndex::new: a word beyond the limit has its place and no entry. *)
NewIndex(words, scalars) ==
  LET indexed == {i \in DOMAIN words : WithinLimit(words[i], scalars)}
      lowered == [i \in indexed |-> Lowered(words[i])]
  IN  [words    |-> words,
       scalars  |-> scalars,
       lowered  |-> lowered,
       byLength |-> [n \in 0..scalars |-> {i \in indexed : Len(lowered[i]) = n}],
       byLetter |-> [c \in Letter |-> {i \in indexed : c \in ToSet(lowered[i])}]]

(* The members of a finite set, one after the other. *)
Arranged(S, Before(_, _)) ==
  [k \in 1..Cardinality(S) |->
     CHOOSE x \in S : Cardinality({y \in S : Before(y, x)}) = k - 1]

(* Words at some positions, in the order of the source. *)
InOrder(words, positions) ==
  LET place == Arranged(positions, <) IN [k \in DOMAIN place |-> words[place[k]]]

(* visit_nearby_linear: without the index, by the limit of the request.    *)
VisitLinear(index, query, distance, scalars) ==
  InOrder(index.words,
    {i \in DOMAIN index.words :
       /\ WithinLimit(index.words[i], scalars)
       /\ Possible(query, Lowered(index.words[i]), distance, scalars)})

(* By length if every letter may be edited away, else by the letters shared. *)
Posted(index, query, distance, scalars) ==
  IF distance >= Len(query)
  THEN UNION {index.byLength[n] : n \in 0..Min({Len(query) + distance, scalars})}
  ELSE UNION {index.byLetter[c] : c \in ToSet(query)}

VisitIndexed(index, query, distance, scalars) ==
  InOrder(index.words,
    {i \in Posted(index, query, distance, scalars) :
       Possible(query, index.lowered[i], distance, scalars)})

(* Mutant: the index answers whatever limit it was built with. *)
VisitNearbyIndexed(index, query, distance, scalars) ==
  IF Len(query) > scalars THEN <<>>
  ELSE LET least == Min({scalars, index.scalars})
       IN  VisitIndexed(index, query, distance, least)

(* visit_nearby, of a lowered query. *)
VisitNearby(index, query, distance, scalars) ==
  IF Len(query) > scalars THEN <<>>
  ELSE IF scalars > index.scalars
  THEN VisitLinear(index, query, distance, scalars)
  ELSE VisitIndexed(index, query, distance, scalars)
=============================================================================
