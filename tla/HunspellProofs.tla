--------------------------- MODULE HunspellProofs ---------------------------
(***************************************************************************)
(* Theorems about Hunspell for every dictionary its importer makes of any  *)
(* sources, and every spelling asked of it.                                *)
(***************************************************************************)
EXTENDS Hunspell, HunspellDerivationProofs

-----------------------------------------------------------------------------
(* Cuts of a word                                                          *)

(* A boundary that the greatest of a set of cuts reaches. *)
IsEdge(edges, p) == <<p.number, p.start, p.end>> \in edges

EdgesOf(edges, n, end, cuts) ==
  /\ cuts \subseteq 1..end /\ end \in cuts /\ Cardinality(cuts) = n
  /\ \A b \in cuts : IsEdge(edges, Boundary(cuts, b))

Forward(edges) == \A e \in edges : e[2] < e[3]

LEMMA CutsFinite ==
  ASSUME NEW L \in Nat, NEW cuts, cuts \subseteq 1..L
  PROVE  IsFiniteSet(cuts)
<1>1. IsFiniteSet(1..L)
  BY FS_Interval
<1>2. QED
  BY <1>1, FS_Subset

Nearest(cuts, s, b) == s \in cuts /\ s < b /\ \A c \in cuts : c < b => c <= s
AllBefore(cuts, end) == \A c \in cuts : c < end

LEMMA FirstBoundary ==
  ASSUME NEW cuts \in SUBSET Nat, NEW b \in cuts, \A c \in cuts : ~(c < b)
  PROVE  Boundary(cuts, b) = [number |-> 1, end |-> b, start |-> 0]
<1>1. {c \in cuts : c <= b} = {b}
  <2>1. \A c \in cuts : c <= b <=> c = b
    OBVIOUS
  <2>2. QED
    BY <2>1
<1>2. Cardinality({b}) = 1
  BY FS_Singleton
<1>3. QED
  BY <1>1, <1>2 DEF Boundary

LEMMA NextBoundary ==
  ASSUME NEW cuts \in SUBSET Nat, IsFiniteSet(cuts), NEW b \in cuts, NEW s,
         Nearest(cuts, s, b)
  PROVE  /\ Boundary(cuts, b).start = s
         /\ Boundary(cuts, b).end = b
         /\ Boundary(cuts, b).number = Boundary(cuts, s).number + 1
         /\ Boundary(cuts, s).number \in Nat \ {0}
<1>0. s \in cuts /\ s < b /\ \A c \in cuts : c < b => c <= s
  BY DEF Nearest
<1>1. Max({c \in cuts : c < b}) = s
  <2>1. s \in {c \in cuts : c < b} /\ \A c \in {c \in cuts : c < b} : s >= c
    BY <1>0
  <2>2. \A x \in {c \in cuts : c < b} : (\A y \in {c \in cuts : c < b} : x >= y) => x = s
    BY <2>1
  <2>3. QED
    BY <2>1, <2>2 DEF Max
<1>2. {c \in cuts : c <= b} = {c \in cuts : c <= s} \cup {b} /\ b \notin {c \in cuts : c <= s}
  <2>1. \A c \in cuts : c <= b <=> c <= s \/ c = b
    BY <1>0
  <2>2. ~(b <= s)
    BY <1>0
  <2>3. QED
    BY <2>1, <2>2
<1>3. IsFiniteSet({c \in cuts : c <= s})
  BY FS_Subset
<1>4. Cardinality({c \in cuts : c <= b}) = Cardinality({c \in cuts : c <= s}) + 1
  BY <1>2, <1>3, FS_AddElement
<1>5. Cardinality({c \in cuts : c <= s}) \in Nat \ {0}
  <2>1. s \in {c \in cuts : c <= s}
    BY <1>0
  <2>2. QED
    BY <1>3, <2>1, FS_CardinalityType, FS_EmptySet
<1>6. QED
  BY <1>0, <1>1, <1>4, <1>5 DEF Boundary

LEMMA LastBoundary ==
  ASSUME NEW cuts, NEW b \in cuts, \A c \in cuts : c <= b
  PROVE  Boundary(cuts, b).number = Cardinality(cuts) /\ Boundary(cuts, b).end = b
<1>1. {c \in cuts : c <= b} = cuts
  OBVIOUS
<1>2. QED
  BY <1>1 DEF Boundary

LEMMA NearestExists ==
  ASSUME NEW L \in Nat, NEW cuts, cuts \subseteq 1..L, NEW b \in cuts, \E c \in cuts : c < b
  PROVE  \E s : Nearest(cuts, s, b)
<1> DEFINE Left == {L - c : c \in {x \in cuts : x < b}}
<1>1. Left \in SUBSET Nat /\ Left # {}
  OBVIOUS
<1> HIDE DEF Left
<1>2. PICK m \in Left : \A k \in Left : m <= k
  BY <1>1, LeastNumber
<1> USE DEF Left
<1>3. PICK s \in cuts : s < b /\ m = L - s
  BY <1>2
<1>4. ASSUME NEW c \in cuts, c < b
      PROVE  c <= s
  <2>1. L - s <= L - c
    BY <1>2, <1>3, <1>4
  <2>2. QED
    BY <2>1
<1>5. QED
  BY <1>3, <1>4 DEF Nearest

(* A larger boundary changes nothing for those before it. *)
LEMMA EarlierBoundary ==
  ASSUME NEW cuts \in SUBSET Nat, NEW end \in Nat, AllBefore(cuts, end), NEW b \in cuts
  PROVE  Boundary(cuts \cup {end}, b) = Boundary(cuts, b)
<1>0. b < end
  BY DEF AllBefore
<1>1. {c \in cuts \cup {end} : c <= b} = {c \in cuts : c <= b}
  BY <1>0
<1>2. {c \in cuts \cup {end} : c < b} = {c \in cuts : c < b}
  BY <1>0
<1>3. (\E c \in cuts \cup {end} : c < b) <=> (\E c \in cuts : c < b)
  BY <1>2
<1>4. QED
  BY <1>1, <1>2, <1>3 DEF Boundary

LEMMA CutsBehind ==
  ASSUME NEW edges, NEW L \in Nat, NEW N \in Nat, NEW f, IsFrontier(edges, L, N, f),
         Forward(edges)
  PROVE  \A n \in 1..N : \A end \in f[n] :
           end \in 1..L /\ \E cuts : EdgesOf(edges, n, end, cuts)
<1> DEFINE Cut(n) == \A end \in f[n] : end \in 1..L /\ \E cuts : EdgesOf(edges, n, end, cuts)
           S == {n \in Nat : n \in 1..N => Cut(n)}
<1>1. 0 \in S
  OBVIOUS
<1>2. ASSUME NEW n \in Nat, n \in S
      PROVE  n + 1 \in S
  <2> SUFFICES ASSUME n + 1 \in 1..N, NEW end \in f[n + 1]
               PROVE  end \in 1..L /\ \E cuts : EdgesOf(edges, n + 1, end, cuts)
    OBVIOUS
  <2>1. f[n + 1] = Extended(edges, L, n + 1, f[n])
    BY DEF IsFrontier
  <2>2. PICK start \in f[n] : <<n + 1, start, end>> \in edges
    BY <2>1 DEF Extended
  <2>3. end \in 1..L /\ start < end
    BY <2>1, <2>2 DEF Extended, Forward
  <2>4. CASE n = 0
    <3>1. start = 0
      BY <2>2, <2>4 DEF IsFrontier
    <3>2. Boundary({end}, end) = [number |-> 1, end |-> end, start |-> 0]
      BY <2>3, FirstBoundary
    <3>3. Cardinality({end}) = 1
      BY FS_Singleton
    <3>4. EdgesOf(edges, n + 1, end, {end})
      BY <2>2, <2>3, <2>4, <3>1, <3>2, <3>3 DEF EdgesOf, IsEdge
    <3>5. QED
      BY <2>3, <3>4
  <2>5. CASE n # 0
    <3>1. start \in 1..L /\ \E cuts : EdgesOf(edges, n, start, cuts)
      BY <1>2, <2>2, <2>5
    <3>2. PICK cuts : EdgesOf(edges, n, start, cuts)
      BY <3>1
    <3>3. cuts \subseteq 1..L /\ start \in cuts /\ \A c \in cuts : c < end /\ c <= start
      BY <2>3, <3>1, <3>2 DEF EdgesOf
    <3> DEFINE new == cuts \cup {end}
    <3>4. new \subseteq 1..L /\ new \subseteq 1..end /\ end \in new /\ start \in new
      <4>1. \A c \in new : c \in 1..L /\ c \in 1..end
        BY <2>3, <3>1, <3>3
      <4>2. QED
        BY <3>3, <4>1
    <3>5. Cardinality(new) = n + 1
      <4>1. IsFiniteSet(cuts)
        BY <3>3, CutsFinite
      <4>2. end \notin cuts
        BY <2>3, <3>3
      <4>3. QED
        BY <3>2, <4>1, <4>2, FS_AddElement DEF EdgesOf
    <3>6. ASSUME NEW b \in cuts
          PROVE  IsEdge(edges, Boundary(new, b))
      <4>1. end \in Nat /\ cuts \in SUBSET Nat /\ AllBefore(cuts, end)
        BY <2>3, <3>3 DEF AllBefore
      <4>2. Boundary(new, b) = Boundary(cuts, b)
        BY <4>1, EarlierBoundary
      <4>3. IsEdge(edges, Boundary(cuts, b))
        BY <3>2 DEF EdgesOf
      <4>4. QED
        BY <4>2, <4>3
    <3>7. IsEdge(edges, Boundary(new, end))
      <4> HIDE DEF new
      <4>0. Nearest(new, start, end) /\ new \in SUBSET Nat /\ IsFiniteSet(new)
        <5>1. \A c \in new : c < end => c <= start
          BY <2>3, <3>1, <3>3 DEF new
        <5>2. IsFiniteSet(new)
          BY <3>4, CutsFinite
        <5>3. QED
          BY <2>3, <3>4, <5>1, <5>2 DEF Nearest
      <4>1. Boundary(new, end).start = start
        BY <3>4, <4>0, NextBoundary
      <4>2. Boundary(new, end).number = n + 1 /\ Boundary(new, end).end = end
        <5>1. \A c \in new : c <= end
          BY <3>4
        <5>2. QED
          BY <3>4, <3>5, <5>1, LastBoundary
      <4>3. QED
        BY <2>2, <4>1, <4>2 DEF IsEdge
    <3>8. EdgesOf(edges, n + 1, end, new)
      BY <3>4, <3>5, <3>6, <3>7 DEF EdgesOf
    <3>9. QED
      BY <2>3, <3>8
  <2>6. QED
    BY <2>4, <2>5
<1> HIDE DEF S
<1>3. \A n \in Nat : n \in S
  BY <1>1, <1>2, AllNumbers
<1> QED
  BY <1>3 DEF S

LEMMA CutsReached ==
  ASSUME NEW edges, NEW L \in Nat, NEW N \in Nat, NEW f, IsFrontier(edges, L, N, f),
         NEW n \in 1..N, NEW end \in 1..L, NEW cuts, EdgesOf(edges, n, end, cuts)
  PROVE  end \in f[n]
<1>1. cuts \subseteq 1..L /\ cuts \subseteq Nat /\ IsFiniteSet(cuts)
  <2>1. cuts \subseteq 1..L
    BY DEF EdgesOf
  <2>2. cuts \subseteq Nat
    BY <2>1
  <2>3. IsFiniteSet(cuts)
    BY <2>1, CutsFinite
  <2>4. QED
    BY <2>1, <2>2, <2>3
<1>2. ASSUME NEW b \in cuts
      PROVE  Boundary(cuts, b).number \in 1..N
  <2>1. {c \in cuts : c <= b} \subseteq cuts /\ b \in {c \in cuts : c <= b}
    BY <1>1
  <2>2. /\ IsFiniteSet({c \in cuts : c <= b})
        /\ Cardinality({c \in cuts : c <= b}) <= Cardinality(cuts)
    BY <1>1, <2>1, FS_Subset
  <2>3. Cardinality({c \in cuts : c <= b}) \in Nat \ {0}
    BY <2>1, <2>2, FS_CardinalityType, FS_EmptySet
  <2>4. QED
    BY <2>2, <2>3 DEF Boundary, EdgesOf
<1> DEFINE Met(b) == b \in f[Boundary(cuts, b).number]
           T == {b \in cuts : ~Met(b)}
<1>3. ASSUME T # {}
      PROVE  FALSE
  <2>1. T \in SUBSET Nat
    BY <1>1
  <2> HIDE DEF T
  <2>2. PICK b \in T : \A c \in T : b <= c
    BY <1>3, <2>1, LeastNumber
  <2> USE DEF T
  <2>3. b \in cuts /\ ~Met(b) /\ IsEdge(edges, Boundary(cuts, b)) /\ b \in 1..L
    BY <1>1, <2>2 DEF EdgesOf
  <2>4. CASE \A c \in cuts : ~(c < b)
    <3>1. Boundary(cuts, b) = [number |-> 1, end |-> b, start |-> 0]
      BY <1>1, <2>3, <2>4, FirstBoundary
    <3>2. <<1, 0, b>> \in edges /\ 1 \in 1..N
      BY <1>2, <2>3, <3>1 DEF IsEdge
    <3>3. f[1] = Extended(edges, L, 1, f[0]) /\ 0 \in f[0]
      <4>1. f[1] = Extended(edges, L, 1, f[1 - 1])
        BY <3>2 DEF IsFrontier
      <4>2. QED
        BY <4>1 DEF IsFrontier
    <3>4. b \in f[1]
      BY <2>3, <3>2, <3>3 DEF Extended
    <3>5. QED
      BY <2>3, <3>1, <3>4
  <2>5. CASE \E c \in cuts : c < b
    <3>1. PICK s \in cuts : Nearest(cuts, s, b)
      BY <1>1, <2>3, <2>5, NearestExists DEF Nearest
    <3>2. /\ Boundary(cuts, b).start = s
          /\ Boundary(cuts, b).end = b
          /\ Boundary(cuts, b).number = Boundary(cuts, s).number + 1
      BY <1>1, <2>3, <3>1, NextBoundary
    <3>3. Met(s)
      <4>1. s \notin T
        BY <1>1, <2>2, <2>3, <3>1 DEF Nearest
      <4>2. QED
        BY <4>1
    <3> DEFINE k == Boundary(cuts, s).number
    <3>4. k + 1 \in 1..N /\ k \in 1..N
      BY <1>2, <2>3, <3>1, <3>2
    <3>5. <<k + 1, s, b>> \in edges /\ s \in f[k]
      BY <2>3, <3>2, <3>3 DEF IsEdge
    <3> HIDE DEF k
    <3>6. f[k + 1] = Extended(edges, L, k + 1, f[k])
      <4>1. f[k + 1] = Extended(edges, L, k + 1, f[(k + 1) - 1]) /\ (k + 1) - 1 = k
        BY <3>4 DEF IsFrontier
      <4>2. QED
        BY <4>1
    <3>7. b \in f[k + 1]
      BY <2>3, <3>5, <3>6 DEF Extended
    <3> USE DEF k
    <3>8. QED
      BY <2>3, <3>2, <3>7
  <2>6. QED
    BY <2>4, <2>5
<1>4. Met(end)
  BY <1>3 DEF EdgesOf
<1>5. Boundary(cuts, end).number = n
  <2>1. end \in cuts /\ Cardinality(cuts) = n /\ \A c \in cuts : c <= end
    BY DEF EdgesOf
  <2>2. QED
    BY <1>1, <2>1, LastBoundary
<1>6. QED
  BY <1>4, <1>5

-----------------------------------------------------------------------------
(* Cuts and frontiers                                                      *)

WholeCut(cuts, n, L) == cuts \subseteq 1..L /\ L \in cuts /\ Cardinality(cuts) = n

CutAllowed(d, w, cuts, triples) ==
  \A b \in cuts : Allowed(d, w, Boundary(cuts, b).start, Boundary(cuts, b).end, triples)

PartOf(w, p) == SubSeq(w, p.start + 1, p.end)

CutGeneric(d, w, cuts, flag) ==
  \A b \in cuts : MatchesComponent(d, PartOf(w, Boundary(cuts, b)), flag,
                                   Boundary(cuts, b).end = Len(w), TRUE)

CutPattern(d, w, cuts, pattern) ==
  \A b \in cuts : MatchesComponent(d, PartOf(w, Boundary(cuts, b)),
                                   pattern[Boundary(cuts, b).number],
                                   Boundary(cuts, b).end = Len(w), TRUE)

PositionIn(w, p) ==
  IF p.number = 1 THEN "begin" ELSE IF p.end = Len(w) THEN "end" ELSE "middle"

FitsPositioned(d, w, p) ==
  \E flag \in d.compound[PositionIn(w, p)] :
    MatchesPositionedComponent(d, PartOf(w, p), flag, PositionIn(w, p), TRUE)

CutPositioned(d, w, cuts) == \A b \in cuts : FitsPositioned(d, w, Boundary(cuts, b))

LEMMA CutIntoDef ==
  ASSUME NEW d, NEW w, NEW cuts, NEW triples
  PROVE  CutInto(d, w, cuts, triples) <=>
           /\ CountAllowed(d, w, Cardinality(cuts))
           /\ CutAllowed(d, w, cuts, triples)
           /\ \/ \E flag \in d.compound.flag : CutGeneric(d, w, cuts, flag)
              \/ \E rule \in RulePatterns(d) :
                   Len(rule) = Cardinality(cuts) /\ CutPattern(d, w, cuts, rule)
              \/ CutPositioned(d, w, cuts)
  BY DEF CutInto, CutAllowed, Allowed, CutGeneric, CutPattern, CutPositioned, PartOf,
         FitsPositioned, PositionIn

LEMMA BoundaryType ==
  ASSUME NEW L \in Nat, NEW cuts, cuts \subseteq 1..L, NEW b \in cuts
  PROVE  /\ Boundary(cuts, b).number \in 1..Cardinality(cuts)
         /\ Boundary(cuts, b).start \in 0..L
         /\ Boundary(cuts, b).end = b
<1>1. IsFiniteSet(cuts) /\ cuts \in SUBSET Nat
  <2>1. IsFiniteSet(cuts)
    BY CutsFinite
  <2>2. QED
    BY <2>1
<1>2. {c \in cuts : c <= b} \subseteq cuts /\ b \in {c \in cuts : c <= b}
  OBVIOUS
<1>3. /\ IsFiniteSet({c \in cuts : c <= b})
      /\ Cardinality({c \in cuts : c <= b}) <= Cardinality(cuts)
  BY <1>1, <1>2, FS_Subset
<1>4. Cardinality({c \in cuts : c <= b}) \in Nat \ {0} /\ Cardinality(cuts) \in Nat
  BY <1>1, <1>2, <1>3, FS_CardinalityType, FS_EmptySet
<1>5. Boundary(cuts, b).number \in 1..Cardinality(cuts) /\ Boundary(cuts, b).end = b
  BY <1>3, <1>4 DEF Boundary
<1>6. Boundary(cuts, b).start \in 0..L
  <2>1. CASE \E c \in cuts : c < b
    <3>1. PICK s : Nearest(cuts, s, b)
      BY <2>1, NearestExists
    <3>2. Boundary(cuts, b).start = s
      BY <1>1, <3>1, NextBoundary
    <3>3. QED
      BY <3>1, <3>2 DEF Nearest
  <2>2. CASE ~ \E c \in cuts : c < b
    <3>1. Boundary(cuts, b).start = 0
      BY <2>2 DEF Boundary
    <3>2. QED
      BY <3>1
  <2>3. QED
    BY <2>1, <2>2
<1>7. QED
  BY <1>5, <1>6

LEMMA CutsCount ==
  ASSUME NEW L \in Nat, NEW cuts, cuts \subseteq 1..L
  PROVE  Cardinality(cuts) \in 0..L
<1>1. IsFiniteSet(1..L) /\ Cardinality(1..L) = L
  <2>1. 1 \in Int /\ L \in Int /\ (IF 1 > L THEN 0 ELSE L - 1 + 1) = L
    OBVIOUS
  <2>2. QED
    BY <2>1, FS_Interval
<1>2. IsFiniteSet(cuts) /\ Cardinality(cuts) <= L
  BY <1>1, FS_Subset
<1>3. QED
  BY <1>2, FS_CardinalityType

(* Only the last part has the number of parts for its number. *)
LEMMA LastIsWhole ==
  ASSUME NEW L \in Nat, NEW n, NEW cuts, WholeCut(cuts, n, L), NEW b \in cuts
  PROVE  Boundary(cuts, b).number = n <=> b = L
<1>1. cuts \subseteq 1..L /\ L \in cuts /\ Cardinality(cuts) = n
  BY DEF WholeCut
<1>2. IsFiniteSet(cuts)
  BY <1>1, CutsFinite
<1>3. ASSUME Boundary(cuts, b).number = n
      PROVE  b = L
  <2>1. Cardinality({c \in cuts : c <= b}) = Cardinality(cuts)
    BY <1>1, <1>3 DEF Boundary
  <2>2. {c \in cuts : c <= b} \in SUBSET cuts
    OBVIOUS
  <2>3. {c \in cuts : c <= b} = cuts
    BY <1>2, <2>1, <2>2, FS_Subset
  <2>4. L <= b
    BY <1>1, <2>3
  <2>5. QED
    BY <1>1, <2>4
<1>4. ASSUME b = L
      PROVE  Boundary(cuts, b).number = n
  <2>1. \A c \in cuts : c <= b
    BY <1>1, <1>4
  <2>2. QED
    BY <1>1, <2>1, LastBoundary
<1>5. QED
  BY <1>3, <1>4

LEMMA GenericCuts ==
  ASSUME NEW d, NEW w, NEW triples, NEW flag, Len(w) \in Nat, NEW n \in 1..Len(w), NEW cuts
  PROVE  EdgesOf(GenericEdges(d, w, flag, TRUE, triples), n, Len(w), cuts) <=>
           /\ WholeCut(cuts, n, Len(w)) /\ CutAllowed(d, w, cuts, triples)
           /\ CutGeneric(d, w, cuts, flag)
<1> SUFFICES ASSUME WholeCut(cuts, n, Len(w))
             PROVE  (\A b \in cuts : IsEdge(GenericEdges(d, w, flag, TRUE, triples),
                                            Boundary(cuts, b))) <=>
                      CutAllowed(d, w, cuts, triples) /\ CutGeneric(d, w, cuts, flag)
  BY DEF EdgesOf, WholeCut
<1>1. ASSUME NEW b \in cuts
      PROVE  IsEdge(GenericEdges(d, w, flag, TRUE, triples), Boundary(cuts, b)) <=>
               /\ Allowed(d, w, Boundary(cuts, b).start, Boundary(cuts, b).end, triples)
               /\ MatchesComponent(d, PartOf(w, Boundary(cuts, b)), flag,
                                   Boundary(cuts, b).end = Len(w), TRUE)
  <2> DEFINE p == Boundary(cuts, b)
  <2>1. p.number \in 1..n /\ p.start \in 0..Len(w) /\ p.end = b /\ b \in 1..Len(w)
    BY BoundaryType DEF WholeCut
  <2> HIDE DEF p
  <2>2. <<p.number, p.start, p.end>> \in Triples(Len(w), Len(w))
    BY <2>1 DEF Triples
  <2>3. QED
    BY <2>2 DEF IsEdge, GenericEdges, PartOf, p
<1>2. QED
  BY <1>1 DEF CutAllowed, CutGeneric

LEMMA PatternCuts ==
  ASSUME NEW d, NEW w, NEW triples, NEW pattern, Len(w) \in Nat, Len(pattern) \in Nat, NEW cuts
  PROVE  EdgesOf(PatternEdges(d, w, pattern, TRUE, triples), Len(pattern), Len(w), cuts) <=>
           /\ WholeCut(cuts, Len(pattern), Len(w)) /\ CutAllowed(d, w, cuts, triples)
           /\ CutPattern(d, w, cuts, pattern)
<1> SUFFICES ASSUME WholeCut(cuts, Len(pattern), Len(w))
             PROVE  (\A b \in cuts : IsEdge(PatternEdges(d, w, pattern, TRUE, triples),
                                            Boundary(cuts, b))) <=>
                      CutAllowed(d, w, cuts, triples) /\ CutPattern(d, w, cuts, pattern)
  BY DEF EdgesOf, WholeCut
<1>1. ASSUME NEW b \in cuts
      PROVE  IsEdge(PatternEdges(d, w, pattern, TRUE, triples), Boundary(cuts, b)) <=>
               /\ Allowed(d, w, Boundary(cuts, b).start, Boundary(cuts, b).end, triples)
               /\ MatchesComponent(d, PartOf(w, Boundary(cuts, b)),
                                   pattern[Boundary(cuts, b).number],
                                   Boundary(cuts, b).end = Len(w), TRUE)
  <2> DEFINE p == Boundary(cuts, b)
  <2>1. p.number \in 1..Len(pattern) /\ p.start \in 0..Len(w) /\ p.end = b /\ b \in 1..Len(w)
    BY BoundaryType DEF WholeCut
  <2> HIDE DEF p
  <2>2. <<p.number, p.start, p.end>> \in Triples(Len(pattern), Len(w))
    BY <2>1 DEF Triples
  <2>3. QED
    BY <2>2 DEF IsEdge, PatternEdges, PartOf, p
<1>2. QED
  BY <1>1 DEF CutAllowed, CutPattern

LEMMA PositionedCuts ==
  ASSUME NEW d, NEW w, NEW triples, Len(w) \in Nat, NEW n \in 2..Len(w), NEW cuts
  PROVE  EdgesOf(PositionedEdges(d, w, TRUE, triples, n), n, Len(w), cuts) <=>
           /\ WholeCut(cuts, n, Len(w)) /\ CutAllowed(d, w, cuts, triples)
           /\ CutPositioned(d, w, cuts)
<1> SUFFICES ASSUME WholeCut(cuts, n, Len(w))
             PROVE  (\A b \in cuts : IsEdge(PositionedEdges(d, w, TRUE, triples, n),
                                            Boundary(cuts, b))) <=>
                      CutAllowed(d, w, cuts, triples) /\ CutPositioned(d, w, cuts)
  BY DEF EdgesOf, WholeCut
<1>1. ASSUME NEW b \in cuts
      PROVE  IsEdge(PositionedEdges(d, w, TRUE, triples, n), Boundary(cuts, b)) <=>
               /\ Allowed(d, w, Boundary(cuts, b).start, Boundary(cuts, b).end, triples)
               /\ FitsPositioned(d, w, Boundary(cuts, b))
  <2> DEFINE p == Boundary(cuts, b)
  <2>1. p.number \in 1..n /\ p.start \in 0..Len(w) /\ p.end = b /\ b \in 1..Len(w)
    BY BoundaryType DEF WholeCut
  <2>2. p.number = n <=> p.end = Len(w)
    BY <2>1, LastIsWhole
  <2> HIDE DEF p
  <2>3. <<p.number, p.start, p.end>> \in Triples(n, Len(w))
    BY <2>1 DEF Triples
  <2>4. PositionOf(p.number, n) = PositionIn(w, p)
    BY <2>2 DEF PositionOf, PositionIn
  <2>5. QED
    BY <2>3, <2>4 DEF IsEdge, PositionedEdges, PartOf, FitsPositioned, p
<1>2. QED
  BY <1>1 DEF CutAllowed, CutPositioned

LEMMA ReachedByCuts ==
  ASSUME NEW edges, NEW L \in Nat, NEW N \in Nat, NEW f, IsFrontier(edges, L, N, f),
         Forward(edges), NEW n \in 1..N
  PROVE  L \in f[n] <=> \E cuts : EdgesOf(edges, n, L, cuts)
<1>1. ASSUME NEW cuts, EdgesOf(edges, n, L, cuts)
      PROVE  L \in f[n]
  <2>1. L \in 1..L
    BY <1>1 DEF EdgesOf
  <2>2. QED
    BY <1>1, <2>1, CutsReached
<1>2. QED
  BY <1>1, CutsBehind

LEMMA EdgesForward ==
  ASSUME NEW d, NEW w, NEW triples, Len(w) \in Nat, CompoundTyped(d)
  PROVE  /\ \A flag : Forward(GenericEdges(d, w, flag, TRUE, triples))
         /\ \A pattern : Forward(PatternEdges(d, w, pattern, TRUE, triples))
         /\ \A n : Forward(PositionedEdges(d, w, TRUE, triples, n))
<1>1. ASSUME NEW N, NEW e \in Triples(N, Len(w)), Allowed(d, w, e[2], e[3], triples)
      PROVE  e[2] < e[3]
  <2>1. e[2] \in Nat /\ e[3] \in Nat
    BY DEF Triples
  <2>2. e[2] + d.compound.minimum <= e[3] /\ d.compound.minimum \in Nat \ {0}
    BY <1>1 DEF Allowed, CompoundTyped
  <2>3. QED
    BY <2>1, <2>2
<1>2. QED
  BY <1>1 DEF Forward, GenericEdges, PatternEdges, PositionedEdges

LEMMA GenericByCuts ==
  ASSUME NEW d, NEW w, NEW triples, NEW flag, Len(w) \in Nat, CompoundTyped(d)
  PROVE  MatchesGeneric(d, w, flag, TRUE, triples) <=>
           \E cuts : /\ Cardinality(cuts) \in 2..Len(w)
                     /\ WholeCut(cuts, Cardinality(cuts), Len(w))
                     /\ CountAllowed(d, w, Cardinality(cuts))
                     /\ CutAllowed(d, w, cuts, triples)
                     /\ CutGeneric(d, w, cuts, flag)
<1> DEFINE L == Len(w)
           edges == GenericEdges(d, w, flag, TRUE, triples)
           f == GenericReach(d, w, flag, TRUE, triples)
<1>1. IsFrontier(edges, L, L, f) /\ Forward(edges)
  BY GenericIsFrontier, EdgesForward
<1>2. ASSUME NEW n \in 1..L
      PROVE  L \in f[n] <=> \E cuts : EdgesOf(edges, n, L, cuts)
  <2> HIDE DEF edges, f
  <2>1. QED
    BY <1>1, ReachedByCuts
<1>3. ASSUME NEW n \in 1..L, NEW cuts
      PROVE  EdgesOf(edges, n, L, cuts) <=>
               WholeCut(cuts, n, L) /\ CutAllowed(d, w, cuts, triples) /\ CutGeneric(d, w, cuts, flag)
  BY GenericCuts
<1>4. ASSUME NEW n \in 2..L, CountAllowed(d, w, n)
      PROVE  \A m \in 1..n - 1 : ~CannotContinue(d, m)
  BY <1>4, NotGivenUp
<1>5. MatchesGeneric(d, w, flag, TRUE, triples) <=>
        \E n \in 2..L : CountAllowed(d, w, n) /\ L \in f[n]
  BY <1>4 DEF MatchesGeneric
<1> HIDE DEF edges, f
<1>6. ASSUME NEW n \in 2..L
      PROVE  L \in f[n] <=>
               \E cuts : /\ WholeCut(cuts, n, L) /\ CutAllowed(d, w, cuts, triples)
                         /\ CutGeneric(d, w, cuts, flag)
  <2>1. n \in 1..L
    OBVIOUS
  <2>2. QED
    BY <1>2, <1>3, <2>1
<1>7. QED
  BY <1>5, <1>6 DEF WholeCut

LEMMA PatternByCuts ==
  ASSUME NEW d, NEW w, NEW triples, NEW pattern \in RulePatterns(d), Len(w) \in Nat,
         CompoundTyped(d)
  PROVE  MatchesFixedPattern(d, w, pattern, TRUE, triples) <=>
           \E cuts : /\ Cardinality(cuts) \in 2..Len(w)
                     /\ WholeCut(cuts, Cardinality(cuts), Len(w))
                     /\ CountAllowed(d, w, Cardinality(cuts))
                     /\ CutAllowed(d, w, cuts, triples)
                     /\ Len(pattern) = Cardinality(cuts)
                     /\ CutPattern(d, w, cuts, pattern)
<1> DEFINE L == Len(w)
           N == Len(pattern)
           edges == PatternEdges(d, w, pattern, TRUE, triples)
           f == PatternReach(d, w, pattern, TRUE, triples)
<1>0. N \in Nat
  BY DEF CompoundTyped
<1>1. IsFrontier(edges, L, N, f) /\ Forward(edges)
  BY <1>0, PatternIsFrontier, EdgesForward
<1>2. ASSUME N >= 2
      PROVE  L \in f[N] <=> \E cuts : EdgesOf(edges, N, L, cuts)
  <2> HIDE DEF edges, f
  <2>1. N \in 1..N
    BY <1>0, <1>2
  <2> HIDE DEF N
  <2>2. QED
    BY <1>0, <1>1, <2>1, ReachedByCuts
<1>3. ASSUME NEW cuts
      PROVE  EdgesOf(edges, N, L, cuts) <=>
               /\ WholeCut(cuts, N, L) /\ CutAllowed(d, w, cuts, triples)
               /\ CutPattern(d, w, cuts, pattern)
  BY <1>0, PatternCuts
<1>4. ASSUME NEW cuts, WholeCut(cuts, N, L), N >= 2
      PROVE  N \in 2..L
  <2>1. Cardinality(cuts) \in 0..L /\ Cardinality(cuts) = N
    BY <1>4, CutsCount DEF WholeCut
  <2>2. QED
    BY <1>4, <2>1
<1>5. MatchesFixedPattern(d, w, pattern, TRUE, triples) <=>
        N >= 2 /\ CountAllowed(d, w, N) /\ L \in f[N]
  BY DEF MatchesFixedPattern
<1> HIDE DEF edges, f, N
<1>6. ASSUME MatchesFixedPattern(d, w, pattern, TRUE, triples)
      PROVE  \E cuts : /\ Cardinality(cuts) \in 2..L
                       /\ WholeCut(cuts, Cardinality(cuts), L)
                       /\ CountAllowed(d, w, Cardinality(cuts))
                       /\ CutAllowed(d, w, cuts, triples)
                       /\ N = Cardinality(cuts)
                       /\ CutPattern(d, w, cuts, pattern)
  <2>1. N >= 2 /\ CountAllowed(d, w, N)
    BY <1>5, <1>6
  <2>2. PICK cuts : EdgesOf(edges, N, L, cuts)
    BY <1>2, <1>5, <1>6
  <2>3. WholeCut(cuts, N, L) /\ CutAllowed(d, w, cuts, triples) /\ CutPattern(d, w, cuts, pattern)
    BY <1>3, <2>2
  <2>4. N = Cardinality(cuts) /\ N \in 2..L
    BY <1>4, <2>1, <2>3 DEF WholeCut
  <2>5. QED
    BY <2>1, <2>3, <2>4
<1>7. ASSUME NEW cuts, Cardinality(cuts) \in 2..L, WholeCut(cuts, Cardinality(cuts), L),
             CountAllowed(d, w, Cardinality(cuts)), CutAllowed(d, w, cuts, triples),
             N = Cardinality(cuts), CutPattern(d, w, cuts, pattern)
      PROVE  MatchesFixedPattern(d, w, pattern, TRUE, triples)
  <2>1. N >= 2 /\ CountAllowed(d, w, N) /\ WholeCut(cuts, N, L)
    BY <1>7
  <2>2. EdgesOf(edges, N, L, cuts)
    BY <1>3, <1>7, <2>1
  <2>3. L \in f[N]
    BY <1>2, <2>1, <2>2
  <2>4. QED
    BY <1>5, <2>1, <2>3
<1>8. QED
  BY <1>6, <1>7 DEF N

LEMMA PositionedByCuts ==
  ASSUME NEW d, NEW w, NEW triples, Len(w) \in Nat, CompoundTyped(d)
  PROVE  MatchesPositioned(d, w, TRUE, triples) <=>
           \E cuts : /\ Cardinality(cuts) \in 2..Len(w)
                     /\ WholeCut(cuts, Cardinality(cuts), Len(w))
                     /\ CountAllowed(d, w, Cardinality(cuts))
                     /\ CutAllowed(d, w, cuts, triples)
                     /\ CutPositioned(d, w, cuts)
<1> DEFINE L == Len(w)
           Ends(n) == LastPositioned(d, w, TRUE, triples, n)
<1>1. ASSUME NEW n \in 2..L
      PROVE  L \in Ends(n) <=>
               \E cuts : /\ WholeCut(cuts, n, L) /\ CutAllowed(d, w, cuts, triples)
                         /\ CutPositioned(d, w, cuts)
  <2> DEFINE edges == PositionedEdges(d, w, TRUE, triples, n)
  <2>1. PICK f : IsFrontier(edges, L, n, f) /\ f[n] = Ends(n)
    <3>1. n \in 2..Len(w)
      OBVIOUS
    <3> HIDE DEF L
    <3>2. \E f : /\ IsFrontier(edges, Len(w), n, f)
                 /\ f[n] = Ends(n)
      BY <3>1, PositionedIsFrontier
    <3>3. QED
      BY <3>2 DEF L
  <2>2. Forward(edges)
    BY EdgesForward
  <2>3. \A cuts : EdgesOf(edges, n, L, cuts) <=>
                    /\ WholeCut(cuts, n, L) /\ CutAllowed(d, w, cuts, triples)
                    /\ CutPositioned(d, w, cuts)
    BY PositionedCuts
  <2> HIDE DEF edges, Ends
  <2>4. n \in 1..n /\ n \in Nat
    OBVIOUS
  <2>5. L \in f[n] <=> \E cuts : EdgesOf(edges, n, L, cuts)
    BY <2>1, <2>2, <2>4, ReachedByCuts
  <2>6. QED
    BY <2>1, <2>3, <2>5
<1>2. ASSUME NEW n \in 2..L, CountAllowed(d, w, n)
      PROVE  \A m \in 2..n - 1 : ~CannotContinue(d, m)
  BY <1>2, NotGivenUp
<1>3. ASSUME NEW n \in 2..L, NEW cuts, WholeCut(cuts, n, L), CutPositioned(d, w, cuts)
      PROVE  d.compound.begin # {} /\ d.compound.end # {}
  <2>1. cuts \subseteq 1..L /\ L \in cuts /\ cuts \in SUBSET Nat /\ cuts # {}
    BY <1>3 DEF WholeCut
  <2>2. PICK b \in cuts : \A c \in cuts : b <= c
    BY <2>1, LeastNumber
  <2>3. Boundary(cuts, b).number = 1
    <3>1. \A c \in cuts : ~(c < b)
      BY <2>1, <2>2
    <3>2. QED
      BY <2>1, <3>1, FirstBoundary
  <2>4. Boundary(cuts, L).number = n /\ Boundary(cuts, L).end = L
    <3>1. Boundary(cuts, L).number = n
      <4>1. L \in Nat /\ L \in cuts /\ WholeCut(cuts, n, L)
        BY <1>3, <2>1
      <4> HIDE DEF L
      <4>2. QED
        BY <4>1, LastIsWhole
    <3>2. Boundary(cuts, L).end = L
      BY DEF Boundary
    <3>3. QED
      BY <3>1, <3>2
  <2>5. FitsPositioned(d, w, Boundary(cuts, b)) /\ FitsPositioned(d, w, Boundary(cuts, L))
    BY <1>3, <2>1 DEF CutPositioned
  <2>6. d.compound.begin # {}
    BY <2>3, <2>5 DEF FitsPositioned, PositionIn
  <2>7. d.compound.end # {}
    <3>1. PositionIn(w, Boundary(cuts, L)) = "end"
      BY <2>4 DEF PositionIn
    <3>2. QED
      BY <2>5, <3>1 DEF FitsPositioned
  <2>8. QED
    BY <2>6, <2>7
<1>4. MatchesPositioned(d, w, TRUE, triples) <=>
        /\ d.compound.begin # {} /\ d.compound.end # {}
        /\ \E n \in 2..L : CountAllowed(d, w, n) /\ L \in Ends(n)
  BY <1>2 DEF MatchesPositioned, LastPositioned
<1> HIDE DEF Ends
<1>5. QED
  BY <1>1, <1>3, <1>4 DEF WholeCut

(* Extending frontiers finds a compound exactly when some cuts make one. *)
LEMMA CompoundsByCuts ==
  ASSUME NEW d, NEW w, NEW triples, Len(w) \in Nat, CompoundTyped(d)
  PROVE  MatchesWithTriples(d, w, TRUE, triples) <=>
           \E cuts \in SUBSET (1..Len(w)) :
             Cardinality(cuts) > 1 /\ Len(w) \in cuts /\ CutInto(d, w, cuts, triples)
<1>1. ASSUME NEW cuts
      PROVE  cuts \in SUBSET (1..Len(w)) /\ Cardinality(cuts) > 1 /\ Len(w) \in cuts <=>
               /\ Cardinality(cuts) \in 2..Len(w)
               /\ WholeCut(cuts, Cardinality(cuts), Len(w))
  <2>1. cuts \subseteq 1..Len(w) => Cardinality(cuts) \in 0..Len(w)
    BY CutsCount
  <2>2. QED
    BY <2>1 DEF WholeCut
<1> DEFINE Good(cuts) == /\ Cardinality(cuts) \in 2..Len(w)
                         /\ WholeCut(cuts, Cardinality(cuts), Len(w))
                         /\ CountAllowed(d, w, Cardinality(cuts))
                         /\ CutAllowed(d, w, cuts, triples)
<1>2. \A flag : MatchesGeneric(d, w, flag, TRUE, triples) <=>
                  \E cuts : Good(cuts) /\ CutGeneric(d, w, cuts, flag)
  BY GenericByCuts
<1>3. \A pattern \in RulePatterns(d) :
        MatchesFixedPattern(d, w, pattern, TRUE, triples) <=>
          \E cuts : /\ Good(cuts) /\ Len(pattern) = Cardinality(cuts)
                    /\ CutPattern(d, w, cuts, pattern)
  BY PatternByCuts
<1>4. MatchesPositioned(d, w, TRUE, triples) <=>
        \E cuts : Good(cuts) /\ CutPositioned(d, w, cuts)
  BY PositionedByCuts
<1>5. (\E cuts \in SUBSET (1..Len(w)) :
        Cardinality(cuts) > 1 /\ Len(w) \in cuts /\ CutInto(d, w, cuts, triples)) <=>
        \E cuts : /\ Good(cuts)
                  /\ \/ \E flag \in d.compound.flag : CutGeneric(d, w, cuts, flag)
                     \/ \E rule \in RulePatterns(d) :
                          Len(rule) = Cardinality(cuts) /\ CutPattern(d, w, cuts, rule)
                     \/ CutPositioned(d, w, cuts)
  BY <1>1, CutIntoDef
<1> HIDE DEF Good
<1>6. QED
  BY <1>2, <1>3, <1>4, <1>5 DEF MatchesWithTriples

-----------------------------------------------------------------------------
(* What the importer makes of a field                                      *)

Single(S) == \A x, y \in S : x = y

LEMMA SingleFinite ==
  ASSUME NEW S, Single(S)
  PROVE  IsFiniteSet(S)
<1>1. S = {} \/ \E x : S = {x}
  BY DEF Single
<1>2. QED
  BY <1>1, FS_EmptySet, FS_Singleton

LEMMA OptionSingle ==
  ASSUME NEW test, NEW value
  PROVE  Single(Option(test, value)) /\ \A x \in Option(test, value) : x = value
  BY DEF Single, Option

LEMMA NumberType ==
  ASSUME NEW field
  PROVE  Number(field) \in SUBSET Nat /\ Single(Number(field))
<1>1. Number(field) \in SUBSET Nat
  BY DigitsAreNumbers DEF Number
<1>2. \A c, e \in {x \in DOMAIN DigitValue : field = <<x>>} : c = e
  OBVIOUS
<1>3. Single(Number(field))
  BY <1>2 DEF Number, Single
<1>4. QED
  BY <1>1, <1>3

(* Every rank of a finite set of numbers is taken. *)
LEMMA RanksTaken ==
  ASSUME NEW places \in SUBSET Nat, IsFiniteSet(places)
  PROVE  \A k \in 1..Cardinality(places) :
           \E i \in places : Cardinality({j \in places : j <= i}) = k
<1> DEFINE n == Cardinality(places)
           rank(i) == Cardinality({j \in places : j <= i})
           r == [i \in places |-> rank(i)]
<1>1. n \in Nat /\ IsFiniteSet(1..n) /\ Cardinality(1..n) = n
  <2>1. n \in Nat
    BY FS_CardinalityType
  <2>2. IsFiniteSet(1..n) /\ Cardinality(1..n) = IF 1 > n THEN 0 ELSE n - 1 + 1
    BY <2>1, FS_Interval
  <2>3. QED
    BY <2>1, <2>2
<1>2. ASSUME NEW i \in places
      PROVE  IsFiniteSet({j \in places : j <= i}) /\ rank(i) \in 1..n
  <2>1. {j \in places : j <= i} \subseteq places /\ i \in {j \in places : j <= i}
    OBVIOUS
  <2>2. IsFiniteSet({j \in places : j <= i}) /\ rank(i) <= n
    BY <2>1, FS_Subset
  <2>3. rank(i) \in Nat /\ rank(i) # 0
    BY <2>1, <2>2, FS_CardinalityType, FS_EmptySet
  <2>4. QED
    BY <1>1, <2>2, <2>3
<1>3. ASSUME NEW i \in places, NEW j \in places, i < j
      PROVE  rank(i) # rank(j)
  <2>1. {x \in places : x <= i} \subseteq {x \in places : x <= j}
    <3>1. i \in Nat /\ j \in Nat /\ \A x \in places : x \in Nat
      OBVIOUS
    <3>2. \A x \in places : x <= i => x <= j
      BY <1>3, <3>1
    <3>3. QED
      BY <3>2, Zenon
  <2>2. {x \in places : x <= i} # {x \in places : x <= j}
    BY <1>3
  <2>3. QED
    BY <1>2, <2>1, <2>2, FS_Subset
<1> HIDE DEF rank, n
<1>4. r \in Injection(places, 1..n)
  <2>1. r \in [places -> 1..n]
    BY <1>2
  <2>2. \A i, j \in places : rank(i) = rank(j) => i = j
    BY <1>3
  <2>3. IsInjective(r)
    BY <2>2 DEF IsInjective
  <2>4. QED
    BY <2>1, <2>3 DEF Injection
<1>5. r \in Surjection(places, 1..n)
  BY <1>1, <1>4, FS_Injection DEF n
<1>6. QED
  BY <1>5 DEF Surjection, rank, n

LEMMA LeftToRightType ==
  ASSUME NEW places \in SUBSET Nat, IsFiniteSet(places)
  PROVE  /\ IsText(LeftToRight(places))
         /\ Len(LeftToRight(places)) = Cardinality(places)
         /\ DOMAIN LeftToRight(places) = 1..Cardinality(places)
         /\ \A k \in 1..Cardinality(places) : LeftToRight(places)[k] \in places
<1>1. Cardinality(places) \in Nat
  BY FS_CardinalityType
<1>2. \A k \in 1..Cardinality(places) : LeftToRight(places)[k] \in places
  BY RanksTaken DEF LeftToRight
<1> DEFINE E(k) == CHOOSE i \in places : Cardinality({j \in places : j <= i}) = k
<1>3. LeftToRight(places) = [k \in 1..Cardinality(places) |-> E(k)]
  BY DEF LeftToRight
<1> HIDE DEF E
<1>4. /\ DOMAIN LeftToRight(places) = 1..Cardinality(places)
      /\ LeftToRight(places) = [k \in DOMAIN LeftToRight(places) |-> LeftToRight(places)[k]]
  BY <1>3
<1>5. QED
  BY <1>1, <1>2, <1>4, TextMade

LEMMA PickedType ==
  ASSUME NEW s, NEW places \in SUBSET Nat, IsFiniteSet(places)
  PROVE  /\ IsText(Picked(s, places))
         /\ \A x \in Range(Picked(s, places)) : \E i \in places : x = s[i]
<1> DEFINE order == LeftToRight(places)
<1>1. Cardinality(places) \in Nat
  BY FS_CardinalityType
<1>2. \A k \in 1..Cardinality(places) : order[k] \in places
  BY LeftToRightType
<1> HIDE DEF order
<1>3. Picked(s, places) = [k \in 1..Cardinality(places) |-> s[order[k]]]
  BY DEF Picked, order
<1>4. IsText(Picked(s, places))
  BY <1>1, <1>3, TextMade
<1>5. ASSUME NEW k \in 1..Cardinality(places)
      PROVE  Picked(s, places)[k] = s[order[k]] /\ order[k] \in places
  BY <1>2, <1>3
<1>6. DOMAIN Picked(s, places) = 1..Cardinality(places)
  BY <1>3
<1>7. QED
  BY <1>4, <1>5, <1>6 DEF Range

(* How often each flag is repeated can be chosen in finitely many ways. *)
LEMMA ExtensionsFinite ==
  ASSUME NEW choices \in SUBSET Seq(Nat), IsFiniteSet(choices),
         NEW repeats \in SUBSET Nat, IsFiniteSet(repeats)
  PROVE  Extensions(choices, repeats) \in SUBSET Seq(Nat) /\ IsFiniteSet(Extensions(choices, repeats))
<1> DEFINE P == {x \in choices \X repeats : WithinLimit(x[1], x[2])}
           A(p) == Append(p[1], p[2])
           T == {A(p) : p \in P}
           f == [p \in P |-> A(p)]
<1>1. P \subseteq choices \X repeats /\ IsFiniteSet(P)
  <2>1. IsFiniteSet(choices \X repeats)
    BY FS_Product
  <2>2. QED
    BY <2>1, FS_Subset
<1>2. Extensions(choices, repeats) = T
  BY DEF Extensions
<1>3. \A p \in P : A(p) \in Seq(Nat)
  <2>1. ASSUME NEW s \in Seq(Nat), NEW n \in Nat
        PROVE  Append(s, n) \in Seq(Nat)
    OBVIOUS
  <2>2. \A p \in P : p[1] \in Seq(Nat) /\ p[2] \in Nat
    BY <1>1
  <2> HIDE DEF P
  <2>3. QED
    BY <2>1, <2>2
<1> HIDE DEF P, A
<1>4. f \in Surjection(P, T)
  BY DEF Surjection
<1>5. IsFiniteSet(T)
  BY <1>1, <1>4, FS_Surjection
<1>6. QED
  BY <1>2, <1>3, <1>5

RepeatsTyped(repeats) ==
  /\ Len(repeats) \in Nat
  /\ \A i \in 1..Len(repeats) : repeats[i] \in SUBSET Nat /\ IsFiniteSet(repeats[i])

IsChosen(repeats, f) ==
  f = [i \in 0..Len(repeats) |-> IF i = 0 THEN {<<>>} ELSE Extensions(f[i - 1], repeats[i])]

LEMMA ChosenFinite ==
  ASSUME NEW repeats, RepeatsTyped(repeats)
  PROVE  /\ IsChosen(repeats, Chosen(repeats))
         /\ \A i \in 0..Len(repeats) : /\ Chosen(repeats)[i] \in SUBSET Seq(Nat)
                                       /\ IsFiniteSet(Chosen(repeats)[i])
<1> DEFINE N == Len(repeats)
           D == {S \in SUBSET Seq(Nat) : IsFiniteSet(S)}
           Step == [i \in 1..N |-> [S \in D |-> Extensions(S, repeats[i])]]
<1>1. N \in Nat /\ \A i \in 1..N : repeats[i] \in SUBSET Nat /\ IsFiniteSet(repeats[i])
  BY DEF RepeatsTyped
<1>2. \A i \in 1..N : \A S \in D : Extensions(S, repeats[i]) \in D
  BY <1>1, ExtensionsFinite
<1>3. {<<>>} \in D
  <2>1. IsFiniteSet({<<>>})
    BY FS_Singleton
  <2>2. <<>> \in Seq(Nat)
    OBVIOUS
  <2>3. QED
    BY <2>1, <2>2
<1> HIDE DEF D
<1>4. Step \in [1..N -> [D -> D]]
  BY <1>2
<1>5. \A i \in 1..N : \A S \in D : Step[i][S] = Extensions(S, repeats[i])
  OBVIOUS
<1> HIDE DEF Step, N
<1>6. PICK g : IsSequel(D, {<<>>}, Step, g, N)
  BY <1>1, <1>3, <1>4, SequelExists
<1>7. \A i \in 1..N : g[i] = Extensions(g[i - 1], repeats[i])
  <2>1. ASSUME NEW i \in 1..N
        PROVE  g[i] = Extensions(g[i - 1], repeats[i])
    <3>1. i - 1 \in 0..N
      BY <1>1
    <3>2. g[i] = Step[i][g[i - 1]] /\ g[i - 1] \in D
      BY <1>6, <3>1 DEF IsSequel
    <3>3. QED
      BY <1>5, <3>2
  <2>2. QED
    BY <2>1
<1>8. IsChosen(repeats, g)
  <2>1. g = [i \in 0..N |-> g[i]] /\ g[0] = {<<>>}
    BY <1>6 DEF IsSequel
  <2>2. \A i \in 0..N : i # 0 => i \in 1..N
    BY <1>1
  <2>3. \A i \in 0..N : g[i] = IF i = 0 THEN {<<>>} ELSE Extensions(g[i - 1], repeats[i])
    BY <1>7, <2>1, <2>2
  <2>4. g = [i \in 0..N |-> IF i = 0 THEN {<<>>} ELSE Extensions(g[i - 1], repeats[i])]
    BY <2>1, <2>3
  <2>5. QED
    BY <2>4 DEF IsChosen, N
<1> DEFINE f == Chosen(repeats)
<1>9. IsChosen(repeats, f)
  <2>1. f = CHOOSE h : IsChosen(repeats, h)
    BY DEF Chosen, IsChosen
  <2>2. QED
    BY <1>8, <2>1
<1> HIDE DEF f
<1>10. \A i \in 0..N : f[i] = IF i = 0 THEN {<<>>} ELSE Extensions(f[i - 1], repeats[i])
  BY <1>9 DEF IsChosen, N
<1> DEFINE G == {i \in Nat : i <= N => f[i] \in D}
<1>11. 0 \in G
  BY <1>1, <1>3, <1>10
<1>12. ASSUME NEW i \in Nat, i \in G
       PROVE  i + 1 \in G
  <2> SUFFICES ASSUME i + 1 <= N PROVE f[i + 1] \in D
    OBVIOUS
  <2>1. i + 1 \in 1..N /\ i + 1 \in 0..N /\ i + 1 # 0 /\ (i + 1) - 1 = i /\ f[i] \in D
    BY <1>1, <1>12
  <2>2. f[i + 1] = Extensions(f[i], repeats[i + 1])
    BY <1>10, <2>1
  <2>3. QED
    BY <1>2, <2>1, <2>2
<1> HIDE DEF G
<1>13. \A i \in Nat : i \in G
  BY <1>11, <1>12, AllNumbers
<1>14. QED
  BY <1>1, <1>9, <1>13 DEF G, D, f, N

(* Each flag is repeated a number of times. *)
LEMMA ChosenLengths ==
  ASSUME NEW repeats, RepeatsTyped(repeats)
  PROVE  \A choice \in Chosen(repeats)[Len(repeats)] :
           choice \in Seq(Nat) /\ Len(choice) = Len(repeats)
<1> DEFINE N == Len(repeats)
           f == Chosen(repeats)
           G == {i \in Nat : i <= N => \A choice \in f[i] : choice \in Seq(Nat) /\ Len(choice) = i}
<1>1. N \in Nat /\ \A i \in 1..N : repeats[i] \in SUBSET Nat /\ IsFiniteSet(repeats[i])
  BY DEF RepeatsTyped
<1>2. \A i \in 0..N : f[i] = IF i = 0 THEN {<<>>} ELSE Extensions(f[i - 1], repeats[i])
  <2>1. IsChosen(repeats, f)
    BY ChosenFinite
  <2> HIDE DEF f
  <2>2. QED
    BY <2>1 DEF IsChosen, N
<1> HIDE DEF f, N
<1>3. 0 \in G
  <2>1. f[0] = {<<>>}
    BY <1>1, <1>2
  <2>2. <<>> \in Seq(Nat) /\ Len(<<>>) = 0
    OBVIOUS
  <2>3. QED
    BY <2>1, <2>2
<1>4. ASSUME NEW i \in Nat, i \in G
      PROVE  i + 1 \in G
  <2> SUFFICES ASSUME i + 1 <= N, NEW choice \in f[i + 1]
               PROVE  choice \in Seq(Nat) /\ Len(choice) = i + 1
    OBVIOUS
  <2>1. i + 1 \in 0..N /\ i + 1 \in 1..N /\ i + 1 # 0 /\ (i + 1) - 1 = i
    BY <1>1
  <2>2. choice \in Extensions(f[i], repeats[i + 1])
    BY <1>2, <2>1
  <2>3. PICK p \in f[i] \X repeats[i + 1] : choice = Append(p[1], p[2])
    BY <2>2 DEF Extensions
  <2>4. p[1] \in Seq(Nat) /\ Len(p[1]) = i /\ p[2] \in Nat
    BY <1>1, <1>4, <2>1, <2>3
  <2>5. QED
    BY <2>3, <2>4, AppendProperties
<1> HIDE DEF G
<1>5. N \in G
  BY <1>1, <1>3, <1>4, AllNumbers
<1>6. QED
  BY <1>1, <1>5 DEF G, f, N

LEMMA RepeatChoicesFinite ==
  ASSUME NEW repeats, RepeatsTyped(repeats)
  PROVE  /\ Single(RepeatChoices(repeats))
         /\ \A cs \in RepeatChoices(repeats) :
              /\ IsFiniteSet(cs)
              /\ \A choice \in cs : choice \in Seq(Nat) /\ Len(choice) = Len(repeats)
<1>1. \A cs \in RepeatChoices(repeats) : cs = Chosen(repeats)[Len(repeats)]
  BY OptionSingle DEF RepeatChoices
<1>2. Len(repeats) \in 0..Len(repeats)
  BY DEF RepeatsTyped
<1>3. IsFiniteSet(Chosen(repeats)[Len(repeats)])
  BY <1>2, ChosenFinite
<1>4. QED
  BY <1>1, <1>3, ChosenLengths DEF Single

LEMMA RepeatsFinite ==
  ASSUME NEW quantifier
  PROVE  Repeats(quantifier) \in SUBSET Nat /\ IsFiniteSet(Repeats(quantifier))
<1>1. /\ IsFiniteSet(0..MaxRuleComponents) /\ IsFiniteSet(1..MaxRuleComponents)
      /\ IsFiniteSet(0..1) /\ IsFiniteSet(1..1)
  <2>1. 0 \in Int /\ 1 \in Int /\ MaxRuleComponents \in Int
    BY LimitsAreNumbers
  <2>2. \A a, b \in Int : IsFiniteSet(a..b)
    BY FS_Interval
  <2>3. QED
    BY <2>1, <2>2
<1>2. \/ Repeats(quantifier) = 0..MaxRuleComponents \/ Repeats(quantifier) = 1..MaxRuleComponents
      \/ Repeats(quantifier) = 0..1 \/ Repeats(quantifier) = 1..1
  BY DEF Repeats
<1>3. /\ 0..MaxRuleComponents \in SUBSET Nat /\ 1..MaxRuleComponents \in SUBSET Nat
      /\ 0..1 \in SUBSET Nat /\ 1..1 \in SUBSET Nat
  BY LimitsAreNumbers
<1>4. QED
  BY <1>1, <1>2, <1>3, Zenon
LEMMA FlagSequenceSingle ==
  ASSUME NEW field, NEW m
  PROVE  Single(FlagSequence(field, m))
<1>1. Single(NumericFlags(field))
  <2>1. \E test, value : NumericFlags(field) = Option(test, value)
    BY Zenon DEF NumericFlags
  <2>2. QED
    BY <2>1, OptionSingle
<1>2. Single(LongFlags(field))
  BY OptionSingle DEF LongFlags
<1>3. Single(UnicodeTokens(field))
  BY OptionSingle DEF UnicodeTokens
<1>4. \/ FlagSequence(field, m) = NumericFlags(field)
      \/ FlagSequence(field, m) = LongFlags(field)
      \/ FlagSequence(field, m) = UnicodeTokens(field)
  BY DEF FlagSequence
<1>5. QED
  BY <1>1, <1>2, <1>3, <1>4

LEMMA TokensType ==
  ASSUME NEW field, IsText(field)
  PROVE  Single(UnicodeTokens(field)) /\ \A t \in UnicodeTokens(field) : IsText(t)
<1> DEFINE Selects(i) == i \in DOMAIN field /\ field[i] \in VariationSelector
           starts == {i \in DOMAIN field : ~Selects(i)}
           from == LeftToRight(starts)
           E(k) == SubSeq(field, from[k], from[k] + (IF Selects(from[k] + 1) THEN 1 ELSE 0))
           tokens == [k \in DOMAIN from |-> E(k)]
<1>1. Single(UnicodeTokens(field)) /\ \A t \in UnicodeTokens(field) : t = tokens
  BY OptionSingle DEF UnicodeTokens
<1>2. starts \in SUBSET Nat /\ IsFiniteSet(starts)
  <2>1. starts \subseteq DOMAIN field
    OBVIOUS
  <2>2. QED
    BY <2>1, TextType, FS_Subset
<1> HIDE DEF starts
<1>3. DOMAIN from = 1..Cardinality(starts) /\ Cardinality(starts) \in Nat
  BY <1>2, LeftToRightType, FS_CardinalityType
<1> HIDE DEF E, from
<1>4. DOMAIN tokens = 1..Cardinality(starts) /\ tokens = [k \in DOMAIN tokens |-> tokens[k]]
  BY <1>3
<1> HIDE DEF tokens
<1>5. IsText(tokens)
  BY <1>3, <1>4, TextMade
<1>6. QED
  BY <1>1, <1>5

LEMMA QuantifiedRuleType ==
  ASSUME NEW tokens, IsText(tokens)
  PROVE  Single(QuantifiedRule(tokens)) /\ \A rule \in QuantifiedRule(tokens) : IsText(rule)
<1> DEFINE places == {i \in DOMAIN tokens : ~IsMark(tokens[i])}
           flags == LeftToRight(places)
           Mark(i) == IF i < Len(tokens) /\ IsMark(tokens[i + 1])
                      THEN Head(tokens[i + 1]) ELSE ""
           Spelled0(choice) == FlattenSeq([k \in DOMAIN flags |->
                                [n \in 1..choice[k] |-> tokens[flags[k]]]])
           valid == \A i \in DOMAIN tokens :
                      IsMark(tokens[i]) => i > 1 /\ ~IsMark(tokens[i - 1])
           repeats == [k \in DOMAIN flags |-> Repeats(Mark(flags[k]))]
           Rule0(cs) == [n \in 1..Cardinality(cs) |-> Spelled0(SetToSeq(cs)[n])]
<1>1. QuantifiedRule(tokens) = {} \/ QuantifiedRule(tokens) = {Rule0(cs) : cs \in RepeatChoices(repeats)}
  <2>1. QuantifiedRule(tokens) =
          IF ~valid THEN {} ELSE {Rule0(cs) : cs \in RepeatChoices(repeats)}
    BY Zenon DEF QuantifiedRule
  <2> HIDE DEF valid, repeats, Rule0
  <2>2. QED
    BY <2>1
<1>2. places \in SUBSET Nat /\ IsFiniteSet(places)
  <2>1. places \subseteq DOMAIN tokens
    OBVIOUS
  <2>2. QED
    BY <2>1, TextType, FS_Subset
<1> HIDE DEF places
<1>3. DOMAIN flags = 1..Cardinality(places) /\ Cardinality(places) \in Nat
  BY <1>2, LeftToRightType, FS_CardinalityType
<1> HIDE DEF flags, Mark, Spelled0
<1>4. /\ DOMAIN repeats = 1..Cardinality(places)
      /\ repeats = [k \in DOMAIN repeats |-> repeats[k]]
      /\ \A k \in 1..Cardinality(places) : repeats[k] \in SUBSET Nat /\ IsFiniteSet(repeats[k])
  BY <1>3, RepeatsFinite
<1> HIDE DEF repeats
<1>5. RepeatsTyped(repeats)
  BY <1>3, <1>4, TextMade DEF RepeatsTyped
<1>6. Single(RepeatChoices(repeats)) /\ \A cs \in RepeatChoices(repeats) : IsFiniteSet(cs)
  BY <1>5, RepeatChoicesFinite
<1>7. ASSUME NEW cs \in RepeatChoices(repeats)
      PROVE  IsText(Rule0(cs))
  <2>1. Cardinality(cs) \in Nat
    BY <1>6, FS_CardinalityType
  <2>2. DOMAIN Rule0(cs) = 1..Cardinality(cs) /\ Rule0(cs) = [n \in DOMAIN Rule0(cs) |-> Rule0(cs)[n]]
    OBVIOUS
  <2> HIDE DEF Rule0
  <2>3. QED
    BY <2>1, <2>2, TextMade
<1> HIDE DEF Rule0
<1>8. QED
  BY <1>1, <1>6, <1>7 DEF Single

LEMMA ParenthesizedRuleType ==
  ASSUME NEW field, NEW m
  PROVE  Single(ParenthesizedRule(field, m)) /\ \A rule \in ParenthesizedRule(field, m) : IsText(rule)
<1>1. \E test, x : ParenthesizedRule(field, m) = Option(test, <<x>>)
  BY DEF ParenthesizedRule
<1>2. QED
  BY <1>1, OptionSingle, SingletonText

(* A rule is a finite list of patterns of two or more flags. *)
RuleTyped(rule) ==
  IsText(rule) /\ \A pattern \in Range(rule) : Len(pattern) \in Nat /\ 2 <= Len(pattern)

LEMMA CompoundRuleType ==
  ASSUME NEW field, IsText(field), NEW m
  PROVE  /\ Single(ParseCompoundRule(field, m))
         /\ \A rule \in ParseCompoundRule(field, m) : RuleTyped(rule)
<1> DEFINE rules == IF Range(field) \cap {"(", ")"} # {} THEN ParenthesizedRule(field, m)
                    ELSE IF m # "unicode" THEN {<<s>> : s \in FlagSequence(field, m)}
                    ELSE UNION {QuantifiedRule(t) : t \in UnicodeTokens(field)}
           Long(rule) == {i \in DOMAIN rule : Len(rule[i]) \in 2..MaxRuleComponents}
           Bounded(rule) == Picked(rule, Long(rule))
<1>1. ParseCompoundRule(field, m) = {Bounded(rule) : rule \in {r \in rules : Bounded(r) # <<>>}}
  BY DEF ParseCompoundRule
<1>2. Single(rules) /\ \A rule \in rules : IsText(rule)
  <2>1. CASE Range(field) \cap {"(", ")"} # {}
    BY <2>1, ParenthesizedRuleType
  <2>2. CASE Range(field) \cap {"(", ")"} = {} /\ m # "unicode"
    <3>1. rules = {<<s>> : s \in FlagSequence(field, m)}
      BY <2>2
    <3> HIDE DEF rules
    <3>2. QED
      BY <3>1, FlagSequenceSingle, SingletonText DEF Single
  <2>3. CASE Range(field) \cap {"(", ")"} = {} /\ m = "unicode"
    <3>1. rules = UNION {QuantifiedRule(t) : t \in UnicodeTokens(field)}
      BY <2>3
    <3> HIDE DEF rules
    <3>2. QED
      BY <3>1, TokensType, QuantifiedRuleType DEF Single
  <2>4. QED
    BY <2>1, <2>2, <2>3
<1> HIDE DEF rules
<1>3. ASSUME NEW rule \in rules
      PROVE  RuleTyped(Bounded(rule))
  <2>1. Long(rule) \in SUBSET Nat /\ IsFiniteSet(Long(rule))
    <3>1. IsFiniteSet(DOMAIN rule) /\ DOMAIN rule \in SUBSET Nat
      BY <1>2, TextType
    <3>2. Long(rule) \subseteq DOMAIN rule
      OBVIOUS
    <3> HIDE DEF Long
    <3>3. QED
      BY <3>1, <3>2, FS_Subset
  <2>2. \A i \in Long(rule) : Len(rule[i]) \in Nat /\ 2 <= Len(rule[i])
    BY LimitsAreNumbers
  <2> HIDE DEF Long
  <2>3. IsText(Bounded(rule)) /\ \A x \in Range(Bounded(rule)) : \E i \in Long(rule) : x = rule[i]
    BY <2>1, PickedType
  <2>4. QED
    BY <2>2, <2>3 DEF RuleTyped
<1> HIDE DEF Bounded
<1>4. QED
  BY <1>1, <1>2, <1>3 DEF Single

-----------------------------------------------------------------------------
(* What the importer makes of the sources                                  *)

DictionaryFields ==
  {"mode", "language", "caseFallback", "lexemes", "rules", "circumfix", "forbidden", "keepCase",
   "needAffix", "onlyInCompound", "noSuggest", "checkSharps", "fullStrip", "complexPrefixes",
   "compound", "breaks", "replacements"}

BreakTyped(p) == IsText(p.text) /\ p.text # <<>>
BreaksTyped(list) == IsText(list) /\ \A p \in Range(list) : BreakTyped(p)

PatternTyped(p) ==
  /\ IsText(p.ending) /\ IsText(p.beginning)
  /\ \A t \in p.replacement : IsText(t) /\ t # <<>>
PatternsTyped(list) == IsText(list) /\ \A p \in Range(list) : PatternTyped(p)

CompoundOptions(c) ==
  /\ {"minimum", "maximum", "rules", "patterns"} \subseteq DOMAIN c
  /\ c.minimum \in Nat \ {0} /\ c.maximum \in SUBSET Nat
  /\ IsText(c.rules) /\ \A rule \in Range(c.rules) : RuleTyped(rule)
  /\ PatternsTyped(c.patterns)

DictionaryTyped(d) ==
  /\ DictionaryFields \subseteq DOMAIN d
  /\ d.caseFallback \in BOOLEAN
  /\ CompoundOptions(d.compound)
  /\ BreaksTyped(d.breaks)

LEMMA TypedCompounds ==
  ASSUME NEW d, DictionaryTyped(d)
  PROVE  CompoundTyped(d) /\ \A pattern \in RulePatterns(d) : 2 <= Len(pattern)
  BY DEF DictionaryTyped, CompoundOptions, CompoundTyped, RulePatterns, RuleTyped

LEMMA OtherField ==
  ASSUME NEW d, DictionaryTyped(d), NEW f, f \notin {"compound", "caseFallback", "breaks"}, NEW v
  PROVE  DictionaryTyped([d EXCEPT ![f] = v])
<1>1. {"compound", "caseFallback", "breaks"} \subseteq DOMAIN d
  BY DEF DictionaryTyped, DictionaryFields
<1>2. /\ DOMAIN [d EXCEPT ![f] = v] = DOMAIN d
      /\ [d EXCEPT ![f] = v].compound = d.compound
      /\ [d EXCEPT ![f] = v].caseFallback = d.caseFallback
      /\ [d EXCEPT ![f] = v].breaks = d.breaks
  BY <1>1
<1>3. QED
  BY <1>2 DEF DictionaryTyped

LEMMA BreaksStored ==
  ASSUME NEW d, DictionaryTyped(d), NEW v, BreaksTyped(v)
  PROVE  DictionaryTyped([d EXCEPT !.breaks = v])
<1>1. {"compound", "caseFallback", "breaks"} \subseteq DOMAIN d
  BY DEF DictionaryTyped, DictionaryFields
<1>2. /\ DOMAIN [d EXCEPT !.breaks = v] = DOMAIN d
      /\ [d EXCEPT !.breaks = v].compound = d.compound
      /\ [d EXCEPT !.breaks = v].caseFallback = d.caseFallback
      /\ [d EXCEPT !.breaks = v].breaks = v
  BY <1>1
<1>3. QED
  BY <1>2 DEF DictionaryTyped

(* Storing one of the options of compounds. *)
LEMMA CompoundStored ==
  ASSUME NEW d, DictionaryTyped(d), NEW c, CompoundOptions(c)
  PROVE  DictionaryTyped([d EXCEPT !.compound = c])
<1>1. {"compound", "caseFallback", "breaks"} \subseteq DOMAIN d
  BY DEF DictionaryTyped, DictionaryFields
<1>2. /\ DOMAIN [d EXCEPT !.compound = c] = DOMAIN d
      /\ [d EXCEPT !.compound = c].compound = c
      /\ [d EXCEPT !.compound = c].caseFallback = d.caseFallback
      /\ [d EXCEPT !.compound = c].breaks = d.breaks
  BY <1>1
<1>3. QED
  BY <1>2 DEF DictionaryTyped

LEMMA OtherCompoundField ==
  ASSUME NEW d, DictionaryTyped(d), NEW f, f \notin {"minimum", "maximum", "rules", "patterns"},
         NEW v
  PROVE  DictionaryTyped([d EXCEPT !.compound[f] = v])
<1> DEFINE c == [d.compound EXCEPT ![f] = v]
<1>1. [d EXCEPT !.compound[f] = v] = [d EXCEPT !.compound = c]
  OBVIOUS
<1>2. /\ DOMAIN c = DOMAIN d.compound
      /\ \A g \in DOMAIN c : g # f => c[g] = d.compound[g]
  OBVIOUS
<1> HIDE DEF c
<1>3. CompoundOptions(c)
  <2>1. c["minimum"] = d.compound["minimum"] /\ c["maximum"] = d.compound["maximum"]
        /\ c["rules"] = d.compound["rules"] /\ c["patterns"] = d.compound["patterns"]
    BY <1>2 DEF DictionaryTyped, CompoundOptions
  <2>2. QED
    BY <1>2, <2>1 DEF DictionaryTyped, CompoundOptions
<1>4. QED
  BY <1>1, <1>3, CompoundStored

LEMMA MinimumStored ==
  ASSUME NEW d, DictionaryTyped(d), NEW v \in Nat \ {0}
  PROVE  DictionaryTyped([d EXCEPT !.compound.minimum = v])
<1>1. CompoundOptions([d.compound EXCEPT !.minimum = v])
  BY DEF DictionaryTyped, CompoundOptions
<1>2. [d EXCEPT !.compound.minimum = v] = [d EXCEPT !.compound = [d.compound EXCEPT !.minimum = v]]
  OBVIOUS
<1>3. QED
  BY <1>1, <1>2, CompoundStored

LEMMA MaximumStored ==
  ASSUME NEW d, DictionaryTyped(d), NEW v \in SUBSET Nat
  PROVE  DictionaryTyped([d EXCEPT !.compound.maximum = v])
<1>1. CompoundOptions([d.compound EXCEPT !.maximum = v])
  BY DEF DictionaryTyped, CompoundOptions
<1>2. [d EXCEPT !.compound.maximum = v] = [d EXCEPT !.compound = [d.compound EXCEPT !.maximum = v]]
  OBVIOUS
<1>3. QED
  BY <1>1, <1>2, CompoundStored

LEMMA SetToSeqType ==
  ASSUME NEW S, IsFiniteSet(S)
  PROVE  SetToSeq(S) \in Seq(S) /\ Len(SetToSeq(S)) = Cardinality(S)
<1>1. Cardinality(S) \in Nat /\ ExistsBijection(1..Cardinality(S), S)
  BY FS_CardinalityType
<1>2. \E f \in [1..Cardinality(S) -> S] : IsInjective(f)
  BY <1>1 DEF ExistsBijection, Bijection, Injection
<1> DEFINE s == SetToSeq(S)
<1>3. s \in [1..Cardinality(S) -> S]
  BY <1>2 DEF SetToSeq
<1> HIDE DEF s
<1>4. s \in Seq(S) /\ Len(s) = Cardinality(S)
  BY <1>1, <1>3
<1>5. QED
  BY <1>4 DEF s

LEMMA AppendedType ==
  ASSUME NEW list, IsText(list), NEW items, Single(items)
  PROVE  IsText(Appended(list, items)) /\ Range(Appended(list, items)) \subseteq Range(list) \cup items
<1> DEFINE S == Range(list) \cup items
           more == SetToSeq(items)
<1>1. IsFiniteSet(items) /\ Cardinality(items) \in Nat
  BY SingleFinite, FS_CardinalityType
<1>2. more \in Seq(items)
  BY <1>1, SetToSeqType
<1> HIDE DEF more
<1>3. list \in Seq(S) /\ more \in Seq(S)
  <2>1. list \in Seq(Range(list))
    BY DEF IsText
  <2>2. QED
    BY <1>2, <2>1, SeqMonotonic
<1>4. list \o more \in Seq(S)
  <2> HIDE DEF S
  <2>1. QED
    BY <1>3, ConcatProperties
<1>5. QED
  BY <1>4, SeqIsText DEF Appended, more

LEMMA RulesStored ==
  ASSUME NEW d, DictionaryTyped(d), NEW rules, Single(rules), \A rule \in rules : RuleTyped(rule)
  PROVE  DictionaryTyped([d EXCEPT !.compound.rules = Appended(@, rules)])
<1> DEFINE v == Appended(d.compound.rules, rules)
<1>1. [d EXCEPT !.compound.rules = Appended(@, rules)] =
        [d EXCEPT !.compound = [d.compound EXCEPT !.rules = v]]
  OBVIOUS
<1>2. IsText(v) /\ \A rule \in Range(v) : RuleTyped(rule)
  <2>1. IsText(d.compound.rules) /\ \A rule \in Range(d.compound.rules) : RuleTyped(rule)
    BY DEF DictionaryTyped, CompoundOptions
  <2>2. IsText(v) /\ Range(v) \subseteq Range(d.compound.rules) \cup rules
    BY <2>1, AppendedType
  <2> HIDE DEF v
  <2>3. QED
    BY <2>1, <2>2
<1> HIDE DEF v
<1>3. CompoundOptions([d.compound EXCEPT !.rules = v])
  BY <1>2 DEF DictionaryTyped, CompoundOptions
<1>4. QED
  BY <1>1, <1>3, CompoundStored

LEMMA PatternsStored ==
  ASSUME NEW d, DictionaryTyped(d), NEW items, Single(items), \A p \in items : PatternTyped(p)
  PROVE  DictionaryTyped([d EXCEPT !.compound.patterns = Appended(@, items)])
<1> DEFINE v == Appended(d.compound.patterns, items)
<1>1. [d EXCEPT !.compound.patterns = Appended(@, items)] =
        [d EXCEPT !.compound = [d.compound EXCEPT !.patterns = v]]
  OBVIOUS
<1>2. PatternsTyped(v)
  <2>1. IsText(d.compound.patterns) /\ \A p \in Range(d.compound.patterns) : PatternTyped(p)
    BY DEF DictionaryTyped, CompoundOptions, PatternsTyped
  <2>2. IsText(v) /\ Range(v) \subseteq Range(d.compound.patterns) \cup items
    BY <2>1, AppendedType
  <2> HIDE DEF v
  <2>3. QED
    BY <2>1, <2>2 DEF PatternsTyped
<1> HIDE DEF v
<1>3. CompoundOptions([d.compound EXCEPT !.patterns = v])
  BY <1>2 DEF DictionaryTyped, CompoundOptions
<1>4. QED
  BY <1>1, <1>3, CompoundStored

LEMMA FieldNames ==
  /\ \A x \in DOMAIN FlagFields : FlagFields[x] \notin {"compound", "caseFallback", "breaks"}
  /\ \A x \in DOMAIN MarkerFields : MarkerFields[x] \notin {"compound", "caseFallback", "breaks"}
  /\ \A x \in DOMAIN CharacterFields : CharacterFields[x] \notin {"compound", "caseFallback", "breaks"}
  /\ \A x \in DOMAIN CompoundFlagFields : CompoundFlagFields[x] \notin {"minimum", "maximum", "rules", "patterns"}
  /\ \A x \in DOMAIN CompoundMarkerFields : CompoundMarkerFields[x] \notin {"minimum", "maximum", "rules", "patterns"}
<1>1. \A x \in DOMAIN FlagFields : FlagFields[x] \notin {"compound", "caseFallback", "breaks"}
  BY DEF FlagFields
<1>2. \A x \in DOMAIN MarkerFields : MarkerFields[x] \notin {"compound", "caseFallback", "breaks"}
  BY DEF MarkerFields
<1>3. \A x \in DOMAIN CharacterFields : CharacterFields[x] \notin {"compound", "caseFallback", "breaks"}
  BY DEF CharacterFields
<1>4. \A x \in DOMAIN CompoundFlagFields : CompoundFlagFields[x] \notin {"minimum", "maximum", "rules", "patterns"}
  BY DEF CompoundFlagFields
<1>5. \A x \in DOMAIN CompoundMarkerFields : CompoundMarkerFields[x] \notin {"minimum", "maximum", "rules", "patterns"}
  BY DEF CompoundMarkerFields
<1>6. QED
  BY <1>1, <1>2, <1>3, <1>4, <1>5

LEMMA StoreKeeps ==
  ASSUME NEW valid, NEW stored, NEW severity, Store(valid, stored, severity),
         DictionaryTyped(dictionary), valid => DictionaryTyped(stored)
  PROVE  DictionaryTyped(dictionary')
  BY DEF Store

LEMMA ItemKeeps ==
  ASSUME NEW items, NEW stored, Item(items, stored),
         DictionaryTyped(dictionary), DictionaryTyped(stored)
  PROVE  DictionaryTyped(dictionary')
  BY DEF Item

(* No directive takes the options of compounds out of their types. *)
LEMMA DirectiveKeeps ==
  ASSUME DictionaryTyped(dictionary), Directive
  PROVE  DictionaryTyped(dictionary')
<1>1. CASE SpecialFlag
  <2> DEFINE f == FlagFields[line.name]
             flag == DecodeFlag(Field(line, 1), mode)
  <2>1. f \notin {"compound", "caseFallback", "breaks"}
    BY <1>1, FieldNames DEF SpecialFlag
  <2>2. DictionaryTyped([dictionary EXCEPT ![f] = flag])
    BY <2>1, OtherField
  <2>3. \E valid : Store(valid, [dictionary EXCEPT ![f] = flag], "error")
    BY <1>1, Zenon DEF SpecialFlag
  <2>4. QED
    BY <2>2, <2>3, StoreKeeps
<1>2. CASE CompoundFlag
  <2> DEFINE f == CompoundFlagFields[line.name]
             flag == DecodeFlag(Field(line, 1), mode)
  <2>1. f \notin {"minimum", "maximum", "rules", "patterns"}
    BY <1>2, FieldNames DEF CompoundFlag
  <2>2. DictionaryTyped([dictionary EXCEPT !.compound[f] = flag])
    BY <2>1, OtherCompoundField
  <2>3. \E valid : Store(valid, [dictionary EXCEPT !.compound[f] = flag], "error")
    BY <1>2, Zenon DEF CompoundFlag
  <2>4. QED
    BY <2>2, <2>3, StoreKeeps
<1>3. CASE Marker
  <2> DEFINE f == MarkerFields[line.name]
  <2>1. f \notin {"compound", "caseFallback", "breaks"}
    BY <1>3, FieldNames DEF Marker
  <2>2. DictionaryTyped([dictionary EXCEPT ![f] = TRUE])
    BY <2>1, OtherField
  <2>3. \E valid : Store(valid, [dictionary EXCEPT ![f] = TRUE], "error")
    BY <1>3, Zenon DEF Marker
  <2>4. QED
    BY <2>2, <2>3, StoreKeeps
<1>4. CASE CompoundMarker
  <2> DEFINE f == CompoundMarkerFields[line.name]
  <2>1. f \notin {"minimum", "maximum", "rules", "patterns"}
    BY <1>4, FieldNames DEF CompoundMarker
  <2>2. DictionaryTyped([dictionary EXCEPT !.compound[f] = TRUE])
    BY <2>1, OtherCompoundField
  <2>3. \E valid : Store(valid, [dictionary EXCEPT !.compound[f] = TRUE], "error")
    BY <1>4, Zenon DEF CompoundMarker
  <2>4. QED
    BY <2>2, <2>3, StoreKeeps
<1>5. CASE Characters
  <2> DEFINE f == CharacterFields[line.name]
             v == Range(Field(line, 1))
  <2>1. f \notin {"compound", "caseFallback", "breaks"}
    BY <1>5, FieldNames DEF Characters
  <2>2. DictionaryTyped([dictionary EXCEPT ![f] = v])
    BY <2>1, OtherField
  <2>3. \E valid : Store(valid, [dictionary EXCEPT ![f] = v], "error")
    BY <1>5, Zenon DEF Characters
  <2>4. QED
    BY <2>2, <2>3, StoreKeeps
<1>6. CASE Keyboard
  <2>1. DictionaryTyped([dictionary EXCEPT !.keyboard = {Field(line, 1)}])
    BY OtherField
  <2>2. \E valid : Store(valid, [dictionary EXCEPT !.keyboard = {Field(line, 1)}], "warning")
    BY <1>6, Zenon DEF Keyboard
  <2>3. QED
    BY <2>1, <2>2, StoreKeeps
<1>7. CASE CompoundMinimum
  <2> DEFINE n == Number(Field(line, 1))
             stored == [dictionary EXCEPT !.compound.minimum = Max(n \cup {1})]
  <2>1. ASSUME n # {}
        PROVE  DictionaryTyped(stored)
    <3>1. PICK v \in Nat : n = {v}
      BY <2>1, NumberType DEF Single
    <3>2. Max(n \cup {1}) \in Nat \ {0}
      <4>1. n \cup {1} = {v, 1}
        BY <3>1
      <4>2. \E x \in {v, 1} : \A y \in {v, 1} : x >= y
        BY <3>1
      <4>3. Max({v, 1}) \in {v, 1} /\ Max({v, 1}) >= 1
        BY <4>2 DEF Max
      <4>4. QED
        BY <3>1, <4>1, <4>3
    <3>3. QED
      BY <3>2, MinimumStored
  <2> HIDE DEF stored
  <2>2. Store(Len(line.args) = 1 /\ n # {}, stored, "error")
    BY <1>7 DEF CompoundMinimum, stored
  <2>3. QED
    BY <2>1, <2>2, StoreKeeps
<1>8. CASE CompoundWordMaximum
  <2> DEFINE n == Number(Field(line, 1))
             stored == [dictionary EXCEPT !.compound.maximum = n]
  <2>1. DictionaryTyped(stored)
    BY NumberType, MaximumStored
  <2>2. \E valid : Store(valid, stored, "error")
    BY <1>8, Zenon DEF CompoundWordMaximum
  <2>3. QED
    BY <2>1, <2>2, StoreKeeps
<1>9. CASE CompoundSyllables
  <2> DEFINE limits == {[maximum |-> n, vowels |-> Range(Field(line, 2))] :
                          n \in Number(Field(line, 1))}
             stored == [dictionary EXCEPT !.compound.syllables = limits]
  <2>1. DictionaryTyped(stored)
    BY OtherCompoundField
  <2>2. \E valid : Store(valid, stored, "error")
    BY <1>9, Zenon DEF CompoundSyllables
  <2>3. QED
    BY <2>1, <2>2, StoreKeeps
<1>10. CASE SetEncoding
  <2>1. \E valid : Store(valid, dictionary, "error")
    BY <1>10, Zenon DEF SetEncoding
  <2>2. QED
    BY <2>1, StoreKeeps
<1>11. CASE FlagMode
  <2>1. dictionary' = dictionary \/ \E m : dictionary' = [dictionary EXCEPT !.mode = m]
    BY <1>11 DEF FlagMode
  <2>2. \A m : DictionaryTyped([dictionary EXCEPT !.mode = m])
    BY OtherField
  <2>3. QED
    BY <2>1, <2>2
<1>12. CASE CaseLanguage
  <2>1. dictionary' = dictionary \/ \E v : dictionary' = [dictionary EXCEPT !.language = v]
    BY <1>12 DEF CaseLanguage
  <2>2. \A v : DictionaryTyped([dictionary EXCEPT !.language = v])
    BY OtherField
  <2>3. QED
    BY <2>1, <2>2
<1>13. CASE OpenSection
  <2>1. dictionary' = dictionary \/ dictionary' = [dictionary EXCEPT !.breaks = <<>>]
    BY <1>13 DEF OpenSection
  <2>2. BreaksTyped(<<>>)
    BY EmptyText DEF BreaksTyped
  <2>3. DictionaryTyped([dictionary EXCEPT !.breaks = <<>>])
    BY <2>2, BreaksStored
  <2>4. QED
    BY <2>1, <2>3
<1>14. CASE OpenGroup \/ UnknownDirective
  BY <1>14 DEF OpenGroup, UnknownDirective
<1>15. QED
  BY <1>1, <1>2, <1>3, <1>4, <1>5, <1>6, <1>7, <1>8, <1>9, <1>10, <1>11, <1>12, <1>13,
     <1>14 DEF Directive

LEMMA FieldIsText ==
  ASSUME NEW l, IsLine(l), NEW i
  PROVE  IsText(Field(l, i)) /\ (i \in DOMAIN l.args => Field(l, i) # <<>>)
  BY EmptyText DEF Field, Range, IsLine

LEMMA TailIsText ==
  ASSUME NEW t, IsText(t), t # <<>>
  PROVE  IsText(Tail(t))
<1>1. Tail(t) \in Seq(Range(t))
  BY HeadTailProperties DEF IsText
<1>2. QED
  BY <1>1, SeqIsText

LEMMA AnchoredType ==
  ASSUME NEW field, IsText(field)
  PROVE  IsText(Anchored(field).text)
<1> DEFINE starts == field # <<>> /\ Head(field) = "^"
           tail == IF starts THEN Tail(field) ELSE field
           ends == tail # <<>> /\ Last(tail) = "$"
<1>1. IsText(tail)
  BY TailIsText
<1>2. Anchored(field).text = IF ends THEN Front(tail) ELSE tail
  BY DEF Anchored
<1> HIDE DEF tail
<1>3. IsText(Front(tail))
  <2>1. Len(tail) - 1 \in Int
    BY <1>1, TextType
  <2>2. QED
    BY <2>1, PartIsText DEF Front
<1>4. QED
  BY <1>1, <1>2, <1>3

LEMMA BreakItems ==
  ASSUME NEW field, IsText(field)
  PROVE  /\ Single(ParseBreakPattern(field))
         /\ \A p \in ParseBreakPattern(field) : BreakTyped(p)
<1>1. \E test : ParseBreakPattern(field) = Option(Anchored(field).text # <<>> /\ test, Anchored(field))
  <2> DEFINE a == Anchored(field)
             test == ~(a.atStart /\ a.atEnd) /\ Range(a.text) \cap {"^", "$"} = {}
  <2>1. ParseBreakPattern(field) = Option(a.text # <<>> /\ test, a)
    BY DEF ParseBreakPattern, Option
  <2>2. QED
    BY <2>1
<1>2. PICK test : ParseBreakPattern(field) = Option(Anchored(field).text # <<>> /\ test, Anchored(field))
  BY <1>1
<1>3. Single(ParseBreakPattern(field))
  BY <1>2, OptionSingle
<1>4. \A p \in ParseBreakPattern(field) : p = Anchored(field) /\ Anchored(field).text # <<>>
  BY <1>2 DEF Option
<1>5. QED
  BY <1>3, <1>4, AnchoredType DEF BreakTyped

LEMMA BeforeIsText ==
  ASSUME NEW field, IsText(field), NEW c
  PROVE  IsText(Before(field, c))
<1> DEFINE I == {i \in 1..Len(field) : field[i] = c}
           place == IF I # {} THEN Min(I) ELSE 0
<1>1. Before(field, c) = SubSeq(field, 1, place - 1)
  BY DEF Before, SelectInSeq
<1>2. I \in SUBSET Nat
  BY TextType
<1> HIDE DEF I
<1>3. place \in Int
  <2>1. CASE I # {}
    <3>1. \E i \in I : \A j \in I : i <= j
      BY <1>2, <2>1, LeastNumber
    <3>2. Min(I) \in I
      BY <3>1 DEF Min
    <3>3. place = Min(I)
      BY <2>1
    <3>4. Min(I) \in Nat
      BY <1>2, <3>2
    <3>5. QED
      BY <3>3, <3>4
  <2>2. QED
    BY <2>1
<1> HIDE DEF place
<1>4. QED
  BY <1>1, <1>3, PartIsText

LEMMA PatternParts ==
  ASSUME NEW field, IsText(field), NEW m
  PROVE  /\ Single(ParsePatternPart(field, m))
         /\ \A x \in ParsePatternPart(field, m) : IsText(x.text)
<1>1. CASE ~Has(field, "/")
  <2>1. ParsePatternPart(field, m) = {[text |-> field, flag |-> {}]}
    BY <1>1 DEF ParsePatternPart
  <2>2. QED
    BY <2>1 DEF Single
<1>2. CASE Has(field, "/")
  <2> DEFINE flags == DecodeFlag(After(field, "/"), m)
  <2>1. ParsePatternPart(field, m) = {[text |-> Before(field, "/"), flag |-> {f}] : f \in flags}
    BY <1>2 DEF ParsePatternPart
  <2>2. Single(flags)
    BY FlagSequenceSingle DEF DecodeFlag, Single
  <2> HIDE DEF flags
  <2>3. QED
    BY <2>1, <2>2, BeforeIsText DEF Single
<1>3. QED
  BY <1>1, <1>2

LEMMA PatternItems ==
  ASSUME NEW ending, IsText(ending), NEW beginning, IsText(beginning),
         NEW replacement, \A t \in replacement : IsText(t) /\ t # <<>>, NEW m
  PROVE  /\ Single(ParseCompoundPattern(ending, beginning, replacement, m))
         /\ \A p \in ParseCompoundPattern(ending, beginning, replacement, m) : PatternTyped(p)
<1> DEFINE A == ParsePatternPart(ending, m)
           B == ParsePatternPart(beginning, m)
           P == {parts \in A \X B : \E i \in 1..2 : parts[i] # [text |-> <<>>, flag |-> {}]}
           Of(p) == [ending |-> p[1].text, endingFlag |-> p[1].flag,
                     beginning |-> p[2].text, beginningFlag |-> p[2].flag,
                     replacement |-> replacement]
<1>1. ParseCompoundPattern(ending, beginning, replacement, m) = {Of(p) : p \in P}
  BY DEF ParseCompoundPattern
<1>2. /\ Single(A) /\ \A x \in A : IsText(x.text)
      /\ Single(B) /\ \A x \in B : IsText(x.text)
  BY PatternParts
<1>3. \A p \in P : p[1] \in A /\ p[2] \in B /\ p = <<p[1], p[2]>>
  OBVIOUS
<1> HIDE DEF A, B, P
<1>4. Single(P)
  BY <1>2, <1>3 DEF Single
<1>5. ASSUME NEW p \in P
      PROVE  PatternTyped(Of(p))
  BY <1>2, <1>3 DEF PatternTyped
<1> HIDE DEF Of
<1>6. QED
  BY <1>1, <1>4, <1>5 DEF Single

LEMMA SectionKeeps ==
  ASSUME DictionaryTyped(dictionary), IsLine(line), InSection
  PROVE  DictionaryTyped(dictionary')
<1>0. \A i : IsText(Field(line, i)) /\ (i \in DOMAIN line.args => Field(line, i) # <<>>)
  BY FieldIsText
<1>1. ASSUME NEW f, NEW v, f \notin {"compound", "caseFallback", "breaks"}
      PROVE  DictionaryTyped([dictionary EXCEPT ![f] = v])
  BY <1>1, OtherField
<1>2. CASE Conversion
  <2>1. \/ \E items : Item(items, [dictionary EXCEPT !.inputConversions = Appended(@, items)])
        \/ \E items : Item(items, [dictionary EXCEPT !.outputConversions = Appended(@, items)])
    BY <1>2, Zenon DEF Conversion
  <2>2. \A items : /\ DictionaryTyped([dictionary EXCEPT !.inputConversions = Appended(@, items)])
                   /\ DictionaryTyped([dictionary EXCEPT !.outputConversions = Appended(@, items)])
    BY <1>1
  <2>3. QED
    BY <2>1, <2>2, ItemKeeps
<1>3. CASE Replacement
  <2>1. \E items : Item(items, [dictionary EXCEPT !.replacements = Appended(@, items)])
    BY <1>3, Zenon DEF Replacement
  <2>2. \A items : DictionaryTyped([dictionary EXCEPT !.replacements = Appended(@, items)])
    BY <1>1
  <2>3. QED
    BY <2>1, <2>2, ItemKeeps
<1>4. CASE CharacterMap
  <2>1. \E items : Item(items, [dictionary EXCEPT !.maps = Appended(@, items)])
    BY <1>4, Zenon DEF CharacterMap
  <2>2. \A items : DictionaryTyped([dictionary EXCEPT !.maps = Appended(@, items)])
    BY <1>1
  <2>3. QED
    BY <2>1, <2>2, ItemKeeps
<1>5. CASE Break
  <2> DEFINE parsed == ParseBreakPattern(Field(line, 1))
             items == IF Belongs({1}) THEN parsed ELSE {}
             v == Appended(dictionary.breaks, items)
  <2>1. Single(parsed) /\ \A p \in parsed : BreakTyped(p)
    BY <1>0, BreakItems
  <2>2. items \subseteq parsed
    OBVIOUS
  <2>3. Item(items, [dictionary EXCEPT !.breaks = Appended(@, items)])
    BY <1>5, Zenon DEF Break
  <2>4. Item(items, [dictionary EXCEPT !.breaks = v])
    BY <2>3
  <2> HIDE DEF parsed, items
  <2>5. BreaksTyped(v)
    <3>1. BreaksTyped(dictionary.breaks)
      BY DEF DictionaryTyped
    <3>2. IsText(v) /\ Range(v) \subseteq Range(dictionary.breaks) \cup items
      BY <2>1, <2>2, <3>1, AppendedType DEF BreaksTyped, Single
    <3> HIDE DEF v
    <3>3. QED
      BY <2>1, <2>2, <3>1, <3>2 DEF BreaksTyped
  <2> HIDE DEF v
  <2>6. QED
    BY <2>4, <2>5, BreaksStored, ItemKeeps
<1>6. CASE Pattern
  <2> DEFINE replacement == Option(Len(line.args) = 3, Field(line, 3))
             parsed == ParseCompoundPattern(Field(line, 1), Field(line, 2), replacement, mode)
             items == IF Belongs({2, 3}) THEN parsed ELSE {}
  <2>1. ASSUME NEW t \in replacement
        PROVE  IsText(t) /\ t # <<>>
    <3>1. t = Field(line, 3) /\ Len(line.args) = 3
      BY DEF Option
    <3>2. 3 \in DOMAIN line.args
      BY <3>1, TextType DEF IsLine
    <3>3. QED
      BY <1>0, <3>1, <3>2
  <2>2. Item(items, [dictionary EXCEPT !.compound.patterns = Appended(@, items)])
    BY <1>6, Zenon DEF Pattern
  <2> HIDE DEF replacement
  <2>3. Single(parsed) /\ \A p \in parsed : PatternTyped(p)
    BY <1>0, <2>1, PatternItems
  <2>4. items \subseteq parsed
    OBVIOUS
  <2> HIDE DEF parsed, items
  <2>5. Single(items) /\ \A p \in items : PatternTyped(p)
    BY <2>3, <2>4 DEF Single
  <2>6. QED
    BY <2>2, <2>5, PatternsStored, ItemKeeps
<1>7. CASE Rule
  <2> DEFINE parsed == ParseCompoundRule(Field(line, 1), mode)
             rules == {r \in IF Belongs({1}) THEN parsed ELSE {} :
                         section.expansions + Len(r) <= MaxRuleExpansions}
  <2>1. Single(parsed) /\ \A rule \in parsed : RuleTyped(rule)
    BY <1>0, CompoundRuleType
  <2>2. rules \subseteq parsed
    OBVIOUS
  <2>3. \/ dictionary' = [dictionary EXCEPT !.compound.rules = Appended(@, rules)]
        \/ dictionary' = dictionary
    BY <1>7, Zenon DEF Rule
  <2> HIDE DEF parsed, rules
  <2>4. Single(rules) /\ \A rule \in rules : RuleTyped(rule)
    BY <2>1, <2>2 DEF Single
  <2>5. QED
    BY <2>3, <2>4, RulesStored
<1>8. CASE FlagAlias \/ MorphologyAlias
  BY <1>8 DEF FlagAlias, MorphologyAlias
<1>9. CASE AffixRule
  <2>1. \/ dictionary' = dictionary
        \/ \E rules : dictionary' = [dictionary EXCEPT !.rules = @ \cup rules]
    BY <1>9, Zenon DEF AffixRule
  <2>2. \A v : DictionaryTyped([dictionary EXCEPT !.rules = v])
    BY <1>1
  <2>3. QED
    BY <2>1, <2>2
<1>10. QED
  BY <1>2, <1>3, <1>4, <1>5, <1>6, <1>7, <1>8, <1>9 DEF InSection

(* The importer reads texts, and from the first line of a file on. *)
ImportInv ==
  /\ "aff" \in DOMAIN source /\ IsFile(source.aff)
  /\ phase \in {"bytes", "aff"} => at \in Nat \ {0}
  /\ DictionaryTyped(dictionary)

LEMMA PairedText ==
  ASSUME NEW x, NEW y, NEW z
  PROVE  IsText(<<x, y, z>>) /\ Range(<<x, y, z>>) = {x, y, z}
<1> DEFINE S == {x, y, z}
           t == <<x, y, z>>
<1>1. t \in Seq(S)
  OBVIOUS
<1>2. DOMAIN t = 1..3 /\ t[1] = x /\ t[2] = y /\ t[3] = z
  OBVIOUS
<1> HIDE DEF t
<1>3. Range(t) = S
  BY <1>2 DEF Range
<1> HIDE DEF S
<1>4. QED
  BY <1>1, <1>3, SeqIsText DEF S, t

LEMMA DefaultBreaksTyped == BreaksTyped(DefaultBreaks)
<1> DEFINE Hyphen(start, end) == [text |-> <<"-">>, atStart |-> start, atEnd |-> end]
<1>1. DefaultBreaks = << Hyphen(FALSE, FALSE), Hyphen(TRUE, FALSE), Hyphen(FALSE, TRUE) >>
  BY DEF DefaultBreaks
<1>2. \A start, end : BreakTyped(Hyphen(start, end))
  BY SingletonText DEF BreakTyped
<1> HIDE DEF Hyphen
<1>3. IsText(DefaultBreaks)
      /\ Range(DefaultBreaks) = {Hyphen(FALSE, FALSE), Hyphen(TRUE, FALSE), Hyphen(FALSE, TRUE)}
  BY <1>1, PairedText
<1>4. QED
  BY <1>2, <1>3 DEF BreaksTyped

LEMMA EmptyTyped == DictionaryTyped(EmptyDictionary)
<1>1. /\ DictionaryFields \subseteq DOMAIN EmptyDictionary
      /\ EmptyDictionary.caseFallback \in BOOLEAN /\ EmptyDictionary.compound = EmptyCompound
      /\ EmptyDictionary.breaks = DefaultBreaks
  BY DEF EmptyDictionary, DictionaryFields
<1>2. /\ {"minimum", "maximum", "rules", "patterns"} \subseteq DOMAIN EmptyCompound
      /\ EmptyCompound.minimum = 3 /\ EmptyCompound.maximum = {} /\ EmptyCompound.rules = <<>>
      /\ EmptyCompound.patterns = <<>>
  BY DEF EmptyCompound
<1>3. CompoundOptions(EmptyCompound)
  BY <1>2, EmptyText DEF CompoundOptions, PatternsTyped
<1>4. QED
  BY <1>1, <1>3, DefaultBreaksTyped DEF DictionaryTyped

LEMMA ReadBytesKeeps ==
  ASSUME ImportInv, ReadBytes
  PROVE  ImportInv'
<1>1. "aff" \in DOMAIN source' /\ source'.aff \in {<<>>, source.aff}
  BY DEF ReadBytes, ImportInv
<1>2. IsFile(<<>>)
  BY EmptyText DEF IsFile
<1>3. IsFile(source'.aff)
  BY <1>1, <1>2 DEF ImportInv
<1>4. phase = "bytes" /\ at' = at /\ dictionary' = dictionary
  BY DEF ReadBytes
<1>5. QED
  BY <1>1, <1>3, <1>4 DEF ImportInv

LEMMA ImportKeeps ==
  ASSUME ImportInv, ImportNext
  PROVE  ImportInv'
<1>1. CASE ReadBytes
  BY <1>1, ReadBytesKeeps
<1>2. ASSUME phase = "aff", at <= Len(source.aff)
      PROVE  IsLine(line)
  <2>1. at \in Nat \ {0} /\ IsText(source.aff)
    BY <1>2 DEF ImportInv, IsFile
  <2>2. at \in DOMAIN source.aff
    BY <1>2, <2>1, TextType
  <2>3. line \in Range(source.aff)
    BY <2>2 DEF line, Range
  <2>4. QED
    BY <2>3 DEF ImportInv, IsFile
<1>3. CASE SkipLine
  BY <1>3 DEF SkipLine, ImportInv
<1>4. CASE Directive
  <2>1. phase = "aff" /\ at' = at + 1 /\ phase' = phase /\ source' = source
    BY <1>4 DEF Directive, SpecialFlag, CompoundFlag, Marker, CompoundMarker, Characters,
       Keyboard, CompoundMinimum, CompoundWordMaximum, CompoundSyllables, SetEncoding, FlagMode,
       CaseLanguage, OpenSection, OpenGroup, UnknownDirective, TopLine
  <2>2. DictionaryTyped(dictionary')
    BY <1>4, DirectiveKeeps DEF ImportInv
  <2>3. QED
    BY <2>1, <2>2 DEF ImportInv
<1>5. CASE InSection
  <2>1. \E name : SectionLine(name)
    BY <1>5, Zenon DEF InSection, Conversion, Replacement, CharacterMap, Break, Pattern, Rule,
       FlagAlias, MorphologyAlias, AffixRule
  <2>2. /\ phase = "aff" /\ at <= Len(source.aff)
        /\ at' = at + 1 /\ phase' = phase /\ source' = source
    BY <2>1 DEF SectionLine
  <2>3. DictionaryTyped(dictionary')
    BY <1>2, <1>5, <2>2, SectionKeeps DEF ImportInv
  <2>4. QED
    BY <2>2, <2>3 DEF ImportInv
<1>6. CASE EndOfAff
  <2>1. /\ \E v : dictionary' = [dictionary EXCEPT !.rules = v]
        /\ phase' = "dic" /\ source' = source
    BY <1>6, Zenon DEF EndOfAff
  <2>2. DictionaryTyped(dictionary')
    BY <2>1, OtherField DEF ImportInv
  <2>3. QED
    BY <2>1, <2>2 DEF ImportInv
<1>7. CASE SkipEntry \/ CountLine \/ TooManyEntries \/ Finish
  BY <1>7 DEF SkipEntry, CountLine, TooManyEntries, Finish, DicLine, ImportInv
<1>8. CASE Entry
  <2>1. \/ dictionary' = dictionary
        \/ \E v : dictionary' = [dictionary EXCEPT !.lexemes = v]
    BY <1>8, Zenon DEF Entry
  <2>2. phase = "dic" /\ phase' = phase /\ source' = source
    BY <1>8 DEF Entry, DicLine
  <2>3. DictionaryTyped(dictionary')
    BY <2>1, OtherField DEF ImportInv
  <2>4. QED
    BY <2>2, <2>3 DEF ImportInv
<1>9. QED
  BY <1>1, <1>3, <1>4, <1>5, <1>6, <1>7, <1>8 DEF ImportNext

-----------------------------------------------------------------------------
(* The entries of an imported dictionary                                   *)

(* What the search needs of a dictionary: finitely many rules, each a      *)
(* prefix or a suffix, and spellings that are texts.                       *)
RuleSpelled(r) ==
  /\ {"kind", "strip", "add"} \subseteq DOMAIN r
  /\ r.kind \in Kind /\ IsText(r.strip) /\ IsText(r.add)

EntriesTyped(d) ==
  /\ IsFiniteSet(d.rules) /\ \A r \in d.rules : RuleSpelled(r)
  /\ \A l \in d.lexemes : IsText(l.stem)

LEMMA EntriesSpelled ==
  ASSUME NEW d, EntriesTyped(d)
  PROVE  Rules(d) /\ \E Letter : Spelled(d, Letter)
<1> DEFINE Letter == UNION ({Range(l.stem) : l \in d.lexemes}
                            \cup {Range(r.add) : r \in d.rules}
                            \cup {Range(r.strip) : r \in d.rules})
<1>1. \A t : IsText(t) /\ Range(t) \subseteq Letter => t \in Seq(Letter)
  <2> HIDE DEF Letter
  <2> TAKE t
  <2> HAVE IsText(t) /\ Range(t) \subseteq Letter
  <2>1. t \in Seq(Range(t))
    BY DEF IsText
  <2>2. QED
    BY <2>1, SeqMonotonic
<1>2. /\ \A l \in d.lexemes : Range(l.stem) \subseteq Letter
      /\ \A r \in d.rules : Range(r.add) \subseteq Letter /\ Range(r.strip) \subseteq Letter
  OBVIOUS
<1> HIDE DEF Letter
<1>3. Spelled(d, Letter)
  BY <1>1, <1>2 DEF EntriesTyped, RuleSpelled, Spelled
<1>4. Rules(d)
  BY DEF EntriesTyped, RuleSpelled, Rules
<1>5. QED
  BY <1>3, <1>4

SameEntries(d, e) == e.rules = d.rules /\ e.lexemes = d.lexemes

LEMMA SameTyped ==
  ASSUME NEW d, EntriesTyped(d), NEW e, SameEntries(d, e)
  PROVE  EntriesTyped(e)
  BY DEF EntriesTyped, SameEntries

LEMMA OtherEntries ==
  ASSUME NEW d, DictionaryTyped(d), NEW f, f \notin {"rules", "lexemes"}, NEW v
  PROVE  SameEntries(d, [d EXCEPT ![f] = v])
<1>1. {"rules", "lexemes"} \subseteq DOMAIN d
  BY DEF DictionaryTyped, DictionaryFields
<1>2. QED
  BY <1>1 DEF SameEntries

LEMMA StoreLeaves ==
  ASSUME NEW valid, NEW stored, NEW severity, Store(valid, stored, severity),
         SameEntries(dictionary, stored)
  PROVE  SameEntries(dictionary, dictionary')
  BY DEF Store, SameEntries

LEMMA ItemLeaves ==
  ASSUME NEW items, NEW stored, Item(items, stored), SameEntries(dictionary, stored)
  PROVE  SameEntries(dictionary, dictionary')
  BY DEF Item, SameEntries

LEMMA EntriesNotFields ==
  /\ \A x \in DOMAIN FlagFields : FlagFields[x] \notin {"rules", "lexemes"}
  /\ \A x \in DOMAIN MarkerFields : MarkerFields[x] \notin {"rules", "lexemes"}
  /\ \A x \in DOMAIN CharacterFields : CharacterFields[x] \notin {"rules", "lexemes"}
<1>1. \A x \in DOMAIN FlagFields : FlagFields[x] \notin {"rules", "lexemes"}
  BY DEF FlagFields
<1>2. \A x \in DOMAIN MarkerFields : MarkerFields[x] \notin {"rules", "lexemes"}
  BY DEF MarkerFields
<1>3. \A x \in DOMAIN CharacterFields : CharacterFields[x] \notin {"rules", "lexemes"}
  BY DEF CharacterFields
<1>4. QED
  BY <1>1, <1>2, <1>3

(* No directive of one line touches a rule or an entry. *)
LEMMA DirectiveLeaves ==
  ASSUME DictionaryTyped(dictionary), Directive
  PROVE  SameEntries(dictionary, dictionary')
<1>1. ASSUME NEW valid, NEW f, NEW v, NEW severity, f \notin {"rules", "lexemes"},
             Store(valid, [dictionary EXCEPT ![f] = v], severity)
      PROVE  SameEntries(dictionary, dictionary')
  BY <1>1, OtherEntries, StoreLeaves
<1>2. ASSUME NEW valid, NEW f, NEW v, NEW severity,
             Store(valid, [dictionary EXCEPT !.compound[f] = v], severity)
      PROVE  SameEntries(dictionary, dictionary')
  <2> DEFINE c == [dictionary.compound EXCEPT ![f] = v]
  <2>1. [dictionary EXCEPT !.compound[f] = v] = [dictionary EXCEPT !.compound = c]
    OBVIOUS
  <2> HIDE DEF c
  <2>2. SameEntries(dictionary, [dictionary EXCEPT !.compound[f] = v])
    BY <2>1, OtherEntries
  <2>3. QED
    BY <1>2, <2>2, StoreLeaves
<1>3. CASE SpecialFlag
  <2>1. \E valid, v : Store(valid, [dictionary EXCEPT ![FlagFields[line.name]] = v], "error")
    BY <1>3, Zenon DEF SpecialFlag
  <2>2. QED
    BY <1>1, <1>3, <2>1, EntriesNotFields DEF SpecialFlag
<1>4. CASE Marker
  <2>1. \E valid, v : Store(valid, [dictionary EXCEPT ![MarkerFields[line.name]] = v], "error")
    BY <1>4, Zenon DEF Marker
  <2>2. QED
    BY <1>1, <1>4, <2>1, EntriesNotFields DEF Marker
<1>5. CASE Characters
  <2>1. \E valid, v : Store(valid, [dictionary EXCEPT ![CharacterFields[line.name]] = v], "error")
    BY <1>5, Zenon DEF Characters
  <2>2. QED
    BY <1>1, <1>5, <2>1, EntriesNotFields DEF Characters
<1>6. CASE CompoundFlag \/ CompoundMarker
  <2>1. \E valid, f, v : Store(valid, [dictionary EXCEPT !.compound[f] = v], "error")
    BY <1>6, Zenon DEF CompoundFlag, CompoundMarker
  <2>2. QED
    BY <1>2, <2>1
<1>7. CASE Keyboard
  <2>1. \E valid, v : Store(valid, [dictionary EXCEPT !.keyboard = v], "warning")
    BY <1>7, Zenon DEF Keyboard
  <2>2. QED
    BY <1>1, <2>1
<1>8. CASE CompoundMinimum \/ CompoundWordMaximum \/ CompoundSyllables
  <2>1. \/ \E valid, v : Store(valid, [dictionary EXCEPT !.compound.minimum = v], "error")
        \/ \E valid, v : Store(valid, [dictionary EXCEPT !.compound.maximum = v], "error")
        \/ \E valid, v : Store(valid, [dictionary EXCEPT !.compound.syllables = v], "error")
    BY <1>8, Zenon DEF CompoundMinimum, CompoundWordMaximum, CompoundSyllables
  <2>2. QED
    BY <1>2, <2>1
<1>9. CASE SetEncoding
  <2>1. \E valid : Store(valid, dictionary, "error")
    BY <1>9, Zenon DEF SetEncoding
  <2>2. QED
    BY <2>1, StoreLeaves DEF SameEntries
<1>10. CASE FlagMode \/ CaseLanguage \/ OpenSection \/ OpenGroup \/ UnknownDirective
  <2>1. \/ dictionary' = dictionary
        \/ \E v : dictionary' = [dictionary EXCEPT !.mode = v]
        \/ \E v : dictionary' = [dictionary EXCEPT !.language = v]
        \/ \E v : dictionary' = [dictionary EXCEPT !.breaks = v]
    BY <1>10 DEF FlagMode, CaseLanguage, OpenSection, OpenGroup, UnknownDirective
  <2>2. \A v : /\ SameEntries(dictionary, [dictionary EXCEPT !.mode = v])
               /\ SameEntries(dictionary, [dictionary EXCEPT !.language = v])
               /\ SameEntries(dictionary, [dictionary EXCEPT !.breaks = v])
    BY OtherEntries
  <2>3. SameEntries(dictionary, dictionary)
    BY DEF SameEntries
  <2>4. QED
    BY <2>1, <2>2, <2>3
<1>11. QED
  BY <1>3, <1>4, <1>5, <1>6, <1>7, <1>8, <1>9, <1>10 DEF Directive

LEMMA MarkerIsText ==
  ASSUME NEW field, IsText(field)
  PROVE  IsText(EmptyMarker(field))
  BY EmptyText DEF EmptyMarker

LEMMA AffixRuleSpelled ==
  ASSUME NEW l, IsLine(l), NEW id, NEW r \in ParseAffixRule(l, id)
  PROVE  RuleSpelled(r)
<1>0. PICK c \in Continuation(Field(l, 3)) : \E condition :
        r = [id |-> id, kind |-> IF l.name = "PFX" THEN "prefix" ELSE "suffix",
               flag |-> CHOOSE f \in section.flag : TRUE, strip |-> EmptyMarker(Field(l, 2)),
               add |-> EmptyMarker(c.add), condition |-> condition,
               cross |-> section.cross, continuation |-> c.flags]
  BY DEF ParseAffixRule
<1>1. PICK condition :
        r = [id |-> id, kind |-> IF l.name = "PFX" THEN "prefix" ELSE "suffix",
               flag |-> CHOOSE f \in section.flag : TRUE, strip |-> EmptyMarker(Field(l, 2)),
               add |-> EmptyMarker(c.add), condition |-> condition,
               cross |-> section.cross, continuation |-> c.flags]
  BY <1>0
<1>2. IsText(c.add)
  <2>1. IsText(Field(l, 3)) /\ IsText(Before(Field(l, 3), "/"))
    BY FieldIsText, BeforeIsText
  <2>2. QED
    BY <2>1 DEF Continuation
<1>3. IsText(EmptyMarker(Field(l, 2))) /\ IsText(EmptyMarker(c.add))
  BY <1>2, FieldIsText, MarkerIsText
<1>4. QED
  BY <1>1, <1>3 DEF RuleSpelled, Kind

(* A line of an affix group adds one rule at most, other lines none. *)
LEMMA SectionEntries ==
  ASSUME DictionaryTyped(dictionary), EntriesTyped(dictionary), IsLine(line), InSection
  PROVE  EntriesTyped(dictionary')
<1>1. ASSUME SameEntries(dictionary, dictionary')
      PROVE  EntriesTyped(dictionary')
  BY <1>1, SameTyped
<1>2. CASE Conversion \/ Replacement \/ CharacterMap \/ Break
  <2>1. \/ \E items, v : Item(items, [dictionary EXCEPT !.inputConversions = v])
        \/ \E items, v : Item(items, [dictionary EXCEPT !.outputConversions = v])
        \/ \E items, v : Item(items, [dictionary EXCEPT !.replacements = v])
        \/ \E items, v : Item(items, [dictionary EXCEPT !.maps = v])
        \/ \E items, v : Item(items, [dictionary EXCEPT !.breaks = v])
    BY <1>2, Zenon DEF Conversion, Replacement, CharacterMap, Break
  <2>2. \A v : /\ SameEntries(dictionary, [dictionary EXCEPT !.inputConversions = v])
               /\ SameEntries(dictionary, [dictionary EXCEPT !.outputConversions = v])
               /\ SameEntries(dictionary, [dictionary EXCEPT !.replacements = v])
               /\ SameEntries(dictionary, [dictionary EXCEPT !.maps = v])
               /\ SameEntries(dictionary, [dictionary EXCEPT !.breaks = v])
    BY OtherEntries
  <2>3. QED
    BY <1>1, <2>1, <2>2, ItemLeaves
<1>3. ASSUME NEW f, NEW v
      PROVE  SameEntries(dictionary, [dictionary EXCEPT !.compound[f] = v])
  <2> DEFINE c == [dictionary.compound EXCEPT ![f] = v]
  <2>1. [dictionary EXCEPT !.compound[f] = v] = [dictionary EXCEPT !.compound = c]
    OBVIOUS
  <2> HIDE DEF c
  <2>2. QED
    BY <2>1, OtherEntries
<1>4. CASE Pattern
  <2>1. \E items, v : Item(items, [dictionary EXCEPT !.compound.patterns = v])
    BY <1>4, Zenon DEF Pattern
  <2>2. QED
    BY <1>1, <1>3, <2>1, ItemLeaves
<1>5. CASE Rule
  <2>1. \/ \E v : dictionary' = [dictionary EXCEPT !.compound.rules = v]
        \/ dictionary' = dictionary
    BY <1>5, Zenon DEF Rule
  <2>2. SameEntries(dictionary, dictionary)
    BY DEF SameEntries
  <2>3. QED
    BY <1>1, <1>3, <2>1, <2>2
<1>6. CASE FlagAlias \/ MorphologyAlias
  BY <1>6 DEF FlagAlias, MorphologyAlias
<1>7. CASE AffixRule
  <2>1. \/ dictionary' = dictionary
        \/ \E id : \E rule \in ParseAffixRule(line, id) :
             dictionary' = [dictionary EXCEPT !.rules = @ \cup {rule}]
    BY <1>7, Zenon DEF AffixRule
  <2>2. ASSUME NEW id, NEW rule \in ParseAffixRule(line, id),
               dictionary' = [dictionary EXCEPT !.rules = @ \cup {rule}]
        PROVE  EntriesTyped(dictionary')
    <3>1. dictionary'.rules = dictionary.rules \cup {rule}
          /\ dictionary'.lexemes = dictionary.lexemes
      BY <2>2 DEF DictionaryTyped, DictionaryFields
    <3>2. RuleSpelled(rule)
      BY AffixRuleSpelled
    <3>3. IsFiniteSet(dictionary.rules \cup {rule})
      BY FS_AddElement DEF EntriesTyped
    <3>4. QED
      BY <3>1, <3>2, <3>3 DEF EntriesTyped
  <2>3. QED
    BY <2>1, <2>2
<1>8. QED
  BY <1>2, <1>4, <1>5, <1>6, <1>7 DEF InSection

LEMMA KeptIsText ==
  ASSUME NEW w, IsText(w), NEW letters
  PROVE  IsText(Kept(w, letters))
<1> DEFINE places == {i \in DOMAIN w : w[i] \notin letters}
<1>1. places \in SUBSET Nat /\ IsFiniteSet(places)
  BY TextType, FS_Subset
<1> HIDE DEF places
<1>2. IsText(Picked(w, places))
  BY <1>1, PickedType
<1>3. QED
  BY <1>2 DEF Kept, places

LEMMA StemIsText ==
  ASSUME NEW field, IsText(field)
  PROVE  IsText(SplitEntry(field).stem)
<1> DEFINE escaped[i \in 0..Len(field)] ==
             i > 0 /\ i < Len(field) + 1 /\ field[i] = "\\" /\ ~escaped[i - 1]
           slashes == {i \in DOMAIN field : field[i] = "/" /\ ~escaped[i - 1]}
           Bare(s) == {i \in DOMAIN s : ~(/\ escaped[i] /\ i < Len(s)
                                         /\ s[i + 1] \in {"/", "\\"})}
           first == SubSeq(field, 1, Min(slashes) - 1)
<1>1. SplitEntry(field).stem = IF slashes = {} THEN Picked(field, Bare(field))
                               ELSE Picked(first, Bare(first))
  BY DEF SplitEntry
<1>2. slashes \in SUBSET Nat
  BY TextType
<1> HIDE DEF escaped
<1>3. ASSUME NEW s, IsText(s)
      PROVE  IsText(Picked(s, Bare(s)))
  <2>1. Bare(s) \in SUBSET Nat /\ IsFiniteSet(Bare(s))
    BY <1>3, TextType, FS_Subset
  <2> HIDE DEF Bare
  <2>2. QED
    BY <2>1, PickedType
<1> HIDE DEF Bare, slashes
<1>4. CASE slashes # {}
  <2>1. \E i \in slashes : \A j \in slashes : i <= j
    BY <1>2, <1>4, LeastNumber
  <2>2. Min(slashes) \in slashes
    BY <2>1 DEF Min
  <2>3. Min(slashes) \in Nat
    BY <1>2, <2>2
  <2>4. Min(slashes) - 1 \in Int
    BY <2>3
  <2>5. IsText(first)
    BY <2>4, PartIsText
  <2> HIDE DEF first
  <2>6. QED
    BY <1>1, <1>3, <1>4, <2>5
<1>5. QED
  BY <1>1, <1>3, <1>4

(* The importer reads texts from either file. *)
EntriesInv ==
  /\ "dic" \in DOMAIN source /\ IsFile(source.dic)
  /\ phase = "dic" => at \in Nat \ {0}
  /\ EntriesTyped(dictionary)

LEMMA ReadBytesEntries ==
  ASSUME EntriesInv, ReadBytes
  PROVE  EntriesInv'
<1>1. "dic" \in DOMAIN source' /\ source'.dic \in {<<>>, source.dic}
  BY DEF ReadBytes, EntriesInv
<1>2. IsFile(<<>>)
  BY EmptyText DEF IsFile
<1>3. IsFile(source'.dic)
  BY <1>1, <1>2 DEF EntriesInv
<1>4. phase' = "aff" /\ dictionary' = dictionary
  BY DEF ReadBytes
<1>5. QED
  BY <1>1, <1>3, <1>4 DEF EntriesInv

LEMMA EndOfAffEntries ==
  ASSUME DictionaryTyped(dictionary), EntriesInv, EndOfAff
  PROVE  EntriesInv'
<1> DEFINE rules == {WithoutIgnored(r) : r \in dictionary.rules}
           f == [r \in dictionary.rules |-> WithoutIgnored(r)]
<1>1. /\ source' = source /\ at' = 1
      /\ dictionary' = [dictionary EXCEPT !.rules = rules]
  BY Zenon DEF EndOfAff
<1>2. dictionary'.rules = rules /\ dictionary'.lexemes = dictionary.lexemes
  <2> HIDE DEF rules
  <2>1. QED
    BY <1>1 DEF DictionaryTyped, DictionaryFields
<1>3. IsFiniteSet(rules)
  <2>1. f \in Surjection(dictionary.rules, rules)
    BY DEF Surjection
  <2>2. QED
    BY <2>1, FS_Surjection DEF EntriesInv, EntriesTyped
<1>4. ASSUME NEW r \in dictionary.rules
      PROVE  RuleSpelled(WithoutIgnored(r))
  <2>1. RuleSpelled(r)
    BY DEF EntriesInv, EntriesTyped
  <2>2. /\ DOMAIN WithoutIgnored(r) = DOMAIN r
        /\ WithoutIgnored(r).kind = r.kind
        /\ WithoutIgnored(r).strip = Kept(r.strip, dictionary.ignored)
        /\ WithoutIgnored(r).add = Kept(r.add, dictionary.ignored)
    BY <2>1 DEF WithoutIgnored, RuleSpelled
  <2>3. IsText(Kept(r.strip, dictionary.ignored)) /\ IsText(Kept(r.add, dictionary.ignored))
    BY <2>1, KeptIsText DEF RuleSpelled
  <2>4. QED
    BY <2>1, <2>2, <2>3 DEF RuleSpelled
<1>5. EntriesTyped(dictionary')
  BY <1>2, <1>3, <1>4 DEF EntriesInv, EntriesTyped
<1>6. QED
  BY <1>1, <1>5 DEF EntriesInv

LEMMA EntryEntries ==
  ASSUME DictionaryTyped(dictionary), EntriesInv, Entry
  PROVE  EntriesInv'
<1> DEFINE stem == Kept(SplitEntry(entry.args[1]).stem, dictionary.ignored)
<1>1. /\ phase = "dic" /\ at <= Len(source.dic) /\ at' = at + 1 /\ source' = source
      /\ ~IsIgnoredEntry(entry)
      /\ \/ dictionary' = dictionary
         \/ \E flags : dictionary' = [dictionary EXCEPT
                         !.lexemes = @ \cup {[stem |-> stem, flags |-> f] : f \in flags}]
  BY Zenon DEF Entry, DicLine
<1>2. IsLine(entry)
  <2>1. at \in Nat \ {0} /\ IsText(source.dic)
    BY <1>1 DEF EntriesInv, IsFile
  <2>2. at \in DOMAIN source.dic
    BY <1>1, <2>1, TextType
  <2>3. entry \in Range(source.dic)
    BY <2>2 DEF entry, Range
  <2>4. QED
    BY <2>3 DEF EntriesInv, IsFile
<1>3. IsText(stem)
  <2>1. IsText(entry.args) /\ entry.args # <<>>
    BY <1>1, <1>2 DEF IsLine, IsIgnoredEntry
  <2>2. 1 \in DOMAIN entry.args
    <3>1. DOMAIN entry.args = 1..Len(entry.args) /\ Len(entry.args) \in Nat /\ Len(entry.args) # 0
      BY <2>1, TextType, EmptySeq DEF IsText
    <3>2. QED
      BY <3>1
  <2>3. IsText(entry.args[1])
    BY <1>2, <2>2 DEF IsLine, Range
  <2>4. QED
    BY <2>3, StemIsText, KeptIsText
<1> HIDE DEF stem
<1>4. EntriesTyped(dictionary')
  <2>1. ASSUME NEW flags, dictionary' = [dictionary EXCEPT
                 !.lexemes = @ \cup {[stem |-> stem, flags |-> f] : f \in flags}]
        PROVE  EntriesTyped(dictionary')
    <3>1. /\ dictionary'.rules = dictionary.rules
          /\ dictionary'.lexemes = dictionary.lexemes
                                     \cup {[stem |-> stem, flags |-> f] : f \in flags}
      BY <2>1 DEF DictionaryTyped, DictionaryFields
    <3>2. QED
      BY <1>3, <3>1 DEF EntriesInv, EntriesTyped
  <2>2. QED
    BY <1>1, <2>1 DEF EntriesInv
<1>5. QED
  BY <1>1, <1>4 DEF EntriesInv

LEMMA EmptyEntries == EntriesTyped(EmptyDictionary)
<1>1. EmptyDictionary.rules = {} /\ EmptyDictionary.lexemes = {}
  BY DEF EmptyDictionary
<1>2. IsFiniteSet({})
  BY FS_EmptySet
<1>3. QED
  BY <1>1, <1>2 DEF EntriesTyped

LEMMA ImportEntries ==
  ASSUME ImportInv, EntriesInv, ImportNext
  PROVE  EntriesInv'
<1>1. DictionaryTyped(dictionary)
  BY DEF ImportInv
<1>2. CASE ReadBytes
  BY <1>2, ReadBytesEntries
<1>3. CASE SkipLine
  BY <1>3 DEF SkipLine, EntriesInv
<1>4. CASE Directive
  <2>1. phase = "aff" /\ phase' = phase /\ source' = source
    BY <1>4 DEF Directive, SpecialFlag, CompoundFlag, Marker, CompoundMarker, Characters,
       Keyboard, CompoundMinimum, CompoundWordMaximum, CompoundSyllables, SetEncoding, FlagMode,
       CaseLanguage, OpenSection, OpenGroup, UnknownDirective, TopLine
  <2>2. EntriesTyped(dictionary')
    BY <1>1, <1>4, DirectiveLeaves, SameTyped DEF EntriesInv
  <2>3. QED
    BY <2>1, <2>2 DEF EntriesInv
<1>5. CASE InSection
  <2>1. \E name : SectionLine(name)
    BY <1>5, Zenon DEF InSection, Conversion, Replacement, CharacterMap, Break, Pattern, Rule,
       FlagAlias, MorphologyAlias, AffixRule
  <2>2. phase = "aff" /\ at <= Len(source.aff) /\ phase' = phase /\ source' = source
    BY <2>1 DEF SectionLine
  <2>3. IsLine(line)
    <3>1. at \in Nat \ {0} /\ IsText(source.aff)
      BY <2>2 DEF ImportInv, IsFile
    <3>2. at \in DOMAIN source.aff
      BY <2>2, <3>1, TextType
    <3>3. line \in Range(source.aff)
      BY <3>2 DEF line, Range
    <3>4. QED
      BY <3>3 DEF ImportInv, IsFile
  <2>4. EntriesTyped(dictionary')
    BY <1>1, <1>5, <2>3, SectionEntries DEF EntriesInv
  <2>5. QED
    BY <2>2, <2>4 DEF EntriesInv
<1>6. CASE EndOfAff
  BY <1>1, <1>6, EndOfAffEntries
<1>7. CASE SkipEntry \/ CountLine
  BY <1>7 DEF SkipEntry, CountLine, DicLine, EntriesInv
<1>8. CASE Entry
  BY <1>1, <1>8, EntryEntries
<1>9. CASE TooManyEntries
  <2>1. /\ phase = "dic" /\ phase' = phase /\ source' = source /\ dictionary' = dictionary
        /\ at' = Len(source.dic) + 1
    BY <1>9 DEF TooManyEntries
  <2>2. Len(source.dic) \in Nat
    BY TextType DEF EntriesInv, IsFile
  <2>3. QED
    BY <2>1, <2>2 DEF EntriesInv
<1>10. CASE Finish
  BY <1>10 DEF Finish, EntriesInv
<1>11. QED
  BY <1>2, <1>3, <1>4, <1>5, <1>6, <1>7, <1>8, <1>9, <1>10 DEF ImportNext

-----------------------------------------------------------------------------
(* What the importer stores                                                *)

(* What the importer stores into: fields of the dictionary and of its      *)
(* compounds, and tables that items are appended to.                       *)
Tables == {"replacements", "maps", "inputConversions", "outputConversions"}

StoredTyped(d) ==
  /\ DOMAIN EmptyDictionary \subseteq DOMAIN d
  /\ DOMAIN EmptyCompound \subseteq DOMAIN d.compound
  /\ \A f \in Tables : IsText(d[f])

(* A rule is numbered by those before it.                                  *)
Numbered(d) ==
  /\ IsFiniteSet(d.rules)
  /\ \A r \in d.rules : r.id \in Nat /\ r.id < Cardinality(d.rules)

StoredInv ==
  /\ StoredTyped(dictionary)
  /\ IsText(aliases) /\ IsText(morphologies)
  /\ phase \in {"bytes", "aff"} => Numbered(dictionary)

LEMMA StoredFields ==
  /\ Tables \subseteq DOMAIN EmptyDictionary
  /\ {"compound", "breaks", "keyboard", "language", "mode", "rules", "lexemes"}
       \subseteq DOMAIN EmptyDictionary
  /\ {"minimum", "maximum", "syllables", "rules", "patterns"} \subseteq DOMAIN EmptyCompound
  /\ \A x \in DOMAIN FlagFields : FlagFields[x] \in DOMAIN EmptyDictionary
  /\ \A x \in DOMAIN MarkerFields : MarkerFields[x] \in DOMAIN EmptyDictionary
  /\ \A x \in DOMAIN CharacterFields : CharacterFields[x] \in DOMAIN EmptyDictionary
  /\ \A x \in DOMAIN CompoundFlagFields : CompoundFlagFields[x] \in DOMAIN EmptyCompound
  /\ \A x \in DOMAIN CompoundMarkerFields : CompoundMarkerFields[x] \in DOMAIN EmptyCompound
<1>1. Tables \subseteq DOMAIN EmptyDictionary
  BY DEF Tables, EmptyDictionary
<1>2. {"compound", "breaks", "keyboard", "language", "mode", "rules", "lexemes"}
        \subseteq DOMAIN EmptyDictionary
  BY DEF EmptyDictionary
<1>3. {"minimum", "maximum", "syllables", "rules", "patterns"} \subseteq DOMAIN EmptyCompound
  BY DEF EmptyCompound
<1>4. \A x \in DOMAIN FlagFields : FlagFields[x] \in DOMAIN EmptyDictionary
  BY DEF FlagFields, EmptyDictionary
<1>5. \A x \in DOMAIN MarkerFields : MarkerFields[x] \in DOMAIN EmptyDictionary
  BY DEF MarkerFields, EmptyDictionary
<1>6. \A x \in DOMAIN CharacterFields : CharacterFields[x] \in DOMAIN EmptyDictionary
  BY DEF CharacterFields, EmptyDictionary
<1>7. \A x \in DOMAIN CompoundFlagFields : CompoundFlagFields[x] \in DOMAIN EmptyCompound
  BY DEF CompoundFlagFields, EmptyCompound
<1>8. \A x \in DOMAIN CompoundMarkerFields : CompoundMarkerFields[x] \in DOMAIN EmptyCompound
  BY DEF CompoundMarkerFields, EmptyCompound
<1>9. QED
  BY <1>1, <1>2, <1>3, <1>4, <1>5, <1>6, <1>7, <1>8

LEMMA NotTables ==
  /\ \A x \in DOMAIN FlagFields : FlagFields[x] \notin Tables \cup {"compound", "rules"}
  /\ \A x \in DOMAIN MarkerFields : MarkerFields[x] \notin Tables \cup {"compound", "rules"}
  /\ \A x \in DOMAIN CharacterFields : CharacterFields[x] \notin Tables \cup {"compound", "rules"}
<1>1. \A x \in DOMAIN FlagFields : FlagFields[x] \notin Tables \cup {"compound", "rules"}
  BY DEF FlagFields, Tables
<1>2. \A x \in DOMAIN MarkerFields : MarkerFields[x] \notin Tables \cup {"compound", "rules"}
  BY DEF MarkerFields, Tables
<1>3. \A x \in DOMAIN CharacterFields : CharacterFields[x] \notin Tables \cup {"compound", "rules"}
  BY DEF CharacterFields, Tables
<1>4. QED
  BY <1>1, <1>2, <1>3

LEMMA StoredField ==
  ASSUME NEW d, StoredTyped(d), NEW f, f # "compound", NEW v, f \in Tables => IsText(v)
  PROVE  StoredTyped([d EXCEPT ![f] = v])
<1> DEFINE e == [d EXCEPT ![f] = v]
<1>1. DOMAIN e = DOMAIN d /\ e.compound = d.compound /\ \A g \in DOMAIN d : g # f => e[g] = d[g]
  BY StoredFields DEF StoredTyped
<1>2. f \in DOMAIN d => e[f] = v
  OBVIOUS
<1> HIDE DEF e
<1>3. ASSUME NEW g \in Tables
      PROVE  IsText(e[g])
  <2>1. g \in DOMAIN d /\ IsText(d[g])
    BY StoredFields DEF StoredTyped
  <2>2. QED
    BY <1>1, <1>2, <2>1
<1>4. StoredTyped(e)
  BY <1>1, <1>3 DEF StoredTyped
<1>5. QED
  BY <1>4 DEF e

LEMMA StoredCompoundField ==
  ASSUME NEW d, StoredTyped(d), NEW f, NEW v
  PROVE  StoredTyped([d EXCEPT !.compound[f] = v])
<1> DEFINE e == [d EXCEPT !.compound[f] = v]
<1>1. DOMAIN e = DOMAIN d /\ DOMAIN e.compound = DOMAIN d.compound
      /\ \A g \in DOMAIN d : g # "compound" => e[g] = d[g]
  BY StoredFields DEF StoredTyped
<1> HIDE DEF e
<1>2. \A g \in Tables : g \in DOMAIN d /\ g # "compound"
  BY StoredFields DEF StoredTyped, Tables
<1>3. StoredTyped(e)
  BY <1>1, <1>2 DEF StoredTyped
<1>4. QED
  BY <1>3 DEF e

(* What a directive leaves: one field stored, or nothing. *)
StoresField(d, e) == \E f, v : f \notin Tables \cup {"compound", "rules"} /\ e = [d EXCEPT ![f] = v]
StoresCompoundField(d, e) == \E f, v : e = [d EXCEPT !.compound[f] = v]

LEMMA DirectiveStores ==
  ASSUME Directive
  PROVE  \/ dictionary' = dictionary
         \/ StoresField(dictionary, dictionary')
         \/ StoresCompoundField(dictionary, dictionary')
<1>1. ASSUME NEW valid, NEW f, NEW v, NEW severity, f \notin Tables \cup {"compound", "rules"},
             Store(valid, [dictionary EXCEPT ![f] = v], severity)
      PROVE  dictionary' = dictionary \/ StoresField(dictionary, dictionary')
  BY <1>1 DEF Store, StoresField
<1>2. ASSUME NEW valid, NEW f, NEW v, NEW severity,
             Store(valid, [dictionary EXCEPT !.compound[f] = v], severity)
      PROVE  dictionary' = dictionary \/ StoresCompoundField(dictionary, dictionary')
  BY <1>2, Zenon DEF Store, StoresCompoundField
<1>3. CASE SpecialFlag
  <2>1. \E valid, v : Store(valid, [dictionary EXCEPT ![FlagFields[line.name]] = v], "error")
    BY <1>3, Zenon DEF SpecialFlag
  <2>2. QED
    BY <1>1, <1>3, <2>1, NotTables DEF SpecialFlag
<1>4. CASE Marker
  <2>1. \E valid, v : Store(valid, [dictionary EXCEPT ![MarkerFields[line.name]] = v], "error")
    BY <1>4, Zenon DEF Marker
  <2>2. QED
    BY <1>1, <1>4, <2>1, NotTables DEF Marker
<1>5. CASE Characters
  <2>1. \E valid, v : Store(valid, [dictionary EXCEPT ![CharacterFields[line.name]] = v], "error")
    BY <1>5, Zenon DEF Characters
  <2>2. QED
    BY <1>1, <1>5, <2>1, NotTables DEF Characters
<1>6. CASE CompoundFlag \/ CompoundMarker
  <2>1. \E valid, f, v : Store(valid, [dictionary EXCEPT !.compound[f] = v], "error")
    BY <1>6, Zenon DEF CompoundFlag, CompoundMarker
  <2>2. QED
    BY <1>2, <2>1
<1>7. CASE Keyboard
  <2>1. \E valid, v : Store(valid, [dictionary EXCEPT !.keyboard = v], "warning")
    BY <1>7, Zenon DEF Keyboard
  <2>2. "keyboard" \notin Tables \cup {"compound", "rules"}
    BY DEF Tables
  <2>3. QED
    BY <1>1, <2>1, <2>2
<1>8. CASE CompoundMinimum \/ CompoundWordMaximum \/ CompoundSyllables
  <2>1. \/ \E valid, v : Store(valid, [dictionary EXCEPT !.compound.minimum = v], "error")
        \/ \E valid, v : Store(valid, [dictionary EXCEPT !.compound.maximum = v], "error")
        \/ \E valid, v : Store(valid, [dictionary EXCEPT !.compound.syllables = v], "error")
    BY <1>8, Zenon DEF CompoundMinimum, CompoundWordMaximum, CompoundSyllables
  <2>2. QED
    BY <1>2, <2>1
<1>9. CASE SetEncoding
  BY <1>9 DEF SetEncoding, Store
<1>10. CASE FlagMode \/ CaseLanguage \/ OpenSection \/ OpenGroup \/ UnknownDirective
  <2>1. \/ dictionary' = dictionary
        \/ \E v : dictionary' = [dictionary EXCEPT !.mode = v]
        \/ \E v : dictionary' = [dictionary EXCEPT !.language = v]
        \/ \E v : dictionary' = [dictionary EXCEPT !.breaks = v]
    BY <1>10 DEF FlagMode, CaseLanguage, OpenSection, OpenGroup, UnknownDirective
  <2>2. {"mode", "language", "breaks"} \cap (Tables \cup {"compound", "rules"}) = {}
    BY DEF Tables
  <2>3. QED
    BY <2>1, <2>2 DEF StoresField
<1>11. QED
  BY <1>3, <1>4, <1>5, <1>6, <1>7, <1>8, <1>9, <1>10 DEF Directive

LEMMA DirectiveStored ==
  ASSUME DictionaryTyped(dictionary), StoredInv, Directive
  PROVE  StoredInv'
<1>1. phase' = phase /\ aliases' = aliases /\ morphologies' = morphologies
  BY DEF Directive, SpecialFlag, CompoundFlag, Marker, CompoundMarker, Characters,
     Keyboard, CompoundMinimum, CompoundWordMaximum, CompoundSyllables, SetEncoding, FlagMode,
     CaseLanguage, OpenSection, OpenGroup, UnknownDirective, TopLine
<1>2. StoredTyped(dictionary')
  BY DirectiveStores, StoredField, StoredCompoundField
     DEF StoresField, StoresCompoundField, StoredInv
<1>3. dictionary'.rules = dictionary.rules
  BY DirectiveLeaves DEF SameEntries
<1>4. QED
  BY <1>1, <1>2, <1>3 DEF StoredInv, Numbered

LEMMA ConversionSingle ==
  ASSUME NEW from, NEW to
  PROVE  Single(ParseConversion(from, to))
<1>1. \E test, value : ParseConversion(from, to) = Option(test, value)
  BY Zenon DEF ParseConversion
<1>2. QED
  BY <1>1, OptionSingle

LEMMA ReplacementSingle ==
  ASSUME NEW from, NEW to
  PROVE  Single(ParseReplacementRule(from, to))
  BY OptionSingle DEF ParseReplacementRule

(* What a section stores is appended to its table. *)
LEMMA TableStored ==
  ASSUME NEW d, StoredTyped(d), NEW f \in Tables, NEW items, Single(items)
  PROVE  StoredTyped([d EXCEPT ![f] = Appended(@, items)])
<1> DEFINE v == Appended(d[f], items)
<1>1. IsText(v)
  BY AppendedType DEF StoredTyped
<1>2. f # "compound"
  BY DEF Tables
<1> HIDE DEF v
<1>3. StoredTyped([d EXCEPT ![f] = v])
  BY <1>1, <1>2, StoredField
<1>4. QED
  BY <1>3 DEF v

LEMMA AppendIsText ==
  ASSUME NEW t, IsText(t), NEW x
  PROVE  IsText(Append(t, x)) /\ Append(t, x) # t
<1> DEFINE S == Range(t) \cup {x}
<1>1. t \in Seq(S)
  BY SeqMonotonic DEF IsText
<1> HIDE DEF S
<1>2. x \in S
  BY DEF S
<1>3. Append(t, x) \in Seq(S) /\ Len(Append(t, x)) = Len(t) + 1
  BY <1>1, <1>2, AppendProperties
<1>4. Len(t) \in Nat
  BY TextType
<1>5. Append(t, x) # t
  BY <1>3, <1>4
<1>6. IsText(Append(t, x))
  BY <1>3, SeqIsText
<1>7. QED
  BY <1>5, <1>6

LEMMA AppendedMore ==
  ASSUME NEW list, IsText(list), NEW items, Single(items), items # {}
  PROVE  Appended(list, items) # list
<1> DEFINE S == Range(list) \cup items
           more == SetToSeq(items)
<1>1. IsFiniteSet(items) /\ Cardinality(items) \in Nat /\ Cardinality(items) # 0
  BY SingleFinite, FS_CardinalityType, FS_EmptySet
<1>2. more \in Seq(items) /\ Len(more) = Cardinality(items)
  BY <1>1, SetToSeqType
<1> HIDE DEF more
<1>3. list \in Seq(S) /\ more \in Seq(S)
  <2>1. list \in Seq(Range(list))
    BY DEF IsText
  <2>2. QED
    BY <1>2, <2>1, SeqMonotonic
<1>4. Len(list \o more) = Len(list) + Len(more)
  <2> HIDE DEF S
  <2>1. QED
    BY <1>3, ConcatProperties
<1>5. Len(list) \in Nat
  BY TextType
<1>6. list \o more # list
  BY <1>1, <1>2, <1>4, <1>5
<1>7. QED
  BY <1>6 DEF Appended, more

LEMMA ItemStored ==
  ASSUME NEW items, NEW stored, Item(items, stored), StoredTyped(dictionary), StoredTyped(stored)
  PROVE  StoredTyped(dictionary')
  BY DEF Item

LEMMA SectionStored ==
  ASSUME StoredTyped(dictionary), InSection
  PROVE  StoredTyped(dictionary')
<1>1. CASE Conversion
  <2> DEFINE parsed == ParseConversion(Field(line, 1), Field(line, 2))
             items == IF Belongs({2}) THEN parsed ELSE {}
  <2>1. Single(items)
    BY ConversionSingle DEF Single
  <2>2. \/ Item(items, [dictionary EXCEPT !.inputConversions = Appended(@, items)])
        \/ Item(items, [dictionary EXCEPT !.outputConversions = Appended(@, items)])
    BY <1>1, Zenon DEF Conversion
  <2> HIDE DEF items
  <2>3. /\ StoredTyped([dictionary EXCEPT !.inputConversions = Appended(@, items)])
        /\ StoredTyped([dictionary EXCEPT !.outputConversions = Appended(@, items)])
    BY <2>1, TableStored DEF Tables
  <2>4. QED
    BY <2>2, <2>3, ItemStored
<1>2. CASE Replacement
  <2> DEFINE parsed == ParseReplacementRule(Field(line, 1), Field(line, 2))
             items == IF Belongs({2}) THEN parsed ELSE {}
  <2>1. Single(items)
    BY ReplacementSingle DEF Single
  <2>2. Item(items, [dictionary EXCEPT !.replacements = Appended(@, items)])
    BY <1>2, Zenon DEF Replacement
  <2> HIDE DEF items
  <2>3. StoredTyped([dictionary EXCEPT !.replacements = Appended(@, items)])
    BY <2>1, TableStored DEF Tables
  <2>4. QED
    BY <2>2, <2>3, ItemStored
<1>3. CASE CharacterMap
  <2> DEFINE items == {f \in {Field(line, 1)} : Belongs({1}) /\ Len(f) >= 2}
  <2>1. Single(items)
    BY DEF Single
  <2>2. Item(items, [dictionary EXCEPT !.maps = Appended(@, items)])
    BY <1>3, Zenon DEF CharacterMap
  <2> HIDE DEF items
  <2>3. StoredTyped([dictionary EXCEPT !.maps = Appended(@, items)])
    BY <2>1, TableStored DEF Tables
  <2>4. QED
    BY <2>2, <2>3, ItemStored
<1>4. CASE Break
  <2>1. \E items, v : Item(items, [dictionary EXCEPT !.breaks = v])
    BY <1>4, Zenon DEF Break
  <2>2. \A v : StoredTyped([dictionary EXCEPT !.breaks = v])
    BY StoredField DEF Tables
  <2>3. QED
    BY <2>1, <2>2, ItemStored
<1>5. CASE Pattern
  <2>1. \E items, v : Item(items, [dictionary EXCEPT !.compound.patterns = v])
    BY <1>5, Zenon DEF Pattern
  <2>2. QED
    BY <2>1, StoredCompoundField, ItemStored
<1>6. CASE Rule
  <2>1. \/ \E v : dictionary' = [dictionary EXCEPT !.compound.rules = v]
        \/ dictionary' = dictionary
    BY <1>6, Zenon DEF Rule
  <2>2. QED
    BY <2>1, StoredCompoundField
<1>7. CASE FlagAlias \/ MorphologyAlias
  BY <1>7 DEF FlagAlias, MorphologyAlias
<1>8. CASE AffixRule
  <2>1. \/ dictionary' = dictionary
        \/ \E v : dictionary' = [dictionary EXCEPT !.rules = v]
    BY <1>8, Zenon DEF AffixRule
  <2>2. \A v : StoredTyped([dictionary EXCEPT !.rules = v])
    BY StoredField DEF Tables
  <2>3. QED
    BY <2>1, <2>2
<1>9. QED
  BY <1>1, <1>2, <1>3, <1>4, <1>5, <1>6, <1>7, <1>8 DEF InSection

(* A rule that is read is a new one, numbered after the others. *)
LEMMA NewRule ==
  ASSUME DictionaryTyped(dictionary), Numbered(dictionary),
         NEW rule \in ParseAffixRule(line, Cardinality(dictionary.rules))
  PROVE  /\ rule \notin dictionary.rules
         /\ Numbered([dictionary EXCEPT !.rules = @ \cup {rule}])
<1> DEFINE n == Cardinality(dictionary.rules)
<1>1. rule.id = n
  BY DEF ParseAffixRule
<1>2. n \in Nat
  BY FS_CardinalityType DEF Numbered
<1>3. rule \notin dictionary.rules
  BY <1>1, <1>2 DEF Numbered
<1>4. IsFiniteSet(dictionary.rules \cup {rule})
      /\ Cardinality(dictionary.rules \cup {rule}) = n + 1
  BY <1>3, FS_AddElement DEF Numbered
<1> DEFINE e == [dictionary EXCEPT !.rules = @ \cup {rule}]
<1>5. e.rules = dictionary.rules \cup {rule}
  BY DEF DictionaryTyped, DictionaryFields
<1>6. \A r \in dictionary.rules : r.id \in Nat /\ r.id < n
  BY DEF Numbered
<1> HIDE DEF n, e
<1>7. \A r \in e.rules : r.id \in Nat /\ r.id < n + 1
  BY <1>1, <1>2, <1>5, <1>6
<1>8. Numbered(e)
  BY <1>4, <1>5, <1>7 DEF Numbered
<1>9. rule \notin dictionary.rules /\ Numbered(e)
  BY <1>3, <1>8
<1>10. QED
  BY <1>9 DEF e

LEMMA SectionNumbered ==
  ASSUME DictionaryTyped(dictionary), Numbered(dictionary), InSection
  PROVE  Numbered(dictionary')
<1>1. CASE AffixRule
  <2>1. \/ dictionary' = dictionary
        \/ \E rule \in ParseAffixRule(line, Cardinality(dictionary.rules)) :
             dictionary' = [dictionary EXCEPT !.rules = @ \cup {rule}]
    BY <1>1, Zenon DEF AffixRule
  <2>2. QED
    BY <2>1, NewRule
<1>2. CASE ~AffixRule
  <2>1. dictionary'.rules = dictionary.rules
    <3>1. \/ dictionary' = dictionary
          \/ \E v : dictionary' = [dictionary EXCEPT !.inputConversions = v]
          \/ \E v : dictionary' = [dictionary EXCEPT !.outputConversions = v]
          \/ \E v : dictionary' = [dictionary EXCEPT !.replacements = v]
          \/ \E v : dictionary' = [dictionary EXCEPT !.maps = v]
          \/ \E v : dictionary' = [dictionary EXCEPT !.breaks = v]
          \/ \E v : dictionary' = [dictionary EXCEPT !.compound = v]
      <4>1. CASE Conversion \/ Replacement \/ CharacterMap \/ Break
        BY <4>1, Zenon DEF Conversion, Replacement, CharacterMap, Break, Item
      <4>2. CASE Pattern
        <5>1. \E items, v : Item(items, [dictionary EXCEPT !.compound.patterns = v])
          BY <4>2, Zenon DEF Pattern
        <5>2. \A v : [dictionary EXCEPT !.compound.patterns = v] =
                       [dictionary EXCEPT !.compound = [dictionary.compound EXCEPT !.patterns = v]]
          OBVIOUS
        <5>3. QED
          BY <5>1, <5>2 DEF Item
      <4>3. CASE Rule
        <5>1. \/ \E v : dictionary' = [dictionary EXCEPT !.compound.rules = v]
              \/ dictionary' = dictionary
          BY <4>3, Zenon DEF Rule
        <5>2. \A v : [dictionary EXCEPT !.compound.rules = v] =
                       [dictionary EXCEPT !.compound = [dictionary.compound EXCEPT !.rules = v]]
          OBVIOUS
        <5>3. QED
          BY <5>1, <5>2
      <4>4. CASE FlagAlias \/ MorphologyAlias
        BY <4>4 DEF FlagAlias, MorphologyAlias
      <4>5. QED
        BY <1>2, <4>1, <4>2, <4>3, <4>4 DEF InSection
    <3>2. "rules" \in DOMAIN dictionary
      BY DEF DictionaryTyped, DictionaryFields
    <3>3. QED
      BY <3>1, <3>2
  <2>2. QED
    BY <2>1 DEF Numbered
<1>3. QED
  BY <1>1, <1>2

LEMMA ImportStored ==
  ASSUME ImportInv, StoredInv, ImportNext
  PROVE  StoredInv'
<1>1. DictionaryTyped(dictionary)
  BY DEF ImportInv
<1>2. CASE ReadBytes
  BY <1>2 DEF ReadBytes, StoredInv
<1>3. CASE SkipLine
  BY <1>3 DEF SkipLine, StoredInv
<1>4. CASE Directive
  BY <1>1, <1>4, DirectiveStored
<1>5. CASE InSection
  <2>1. \E name : SectionLine(name)
    BY <1>5, Zenon DEF InSection, Conversion, Replacement, CharacterMap, Break, Pattern, Rule,
       FlagAlias, MorphologyAlias, AffixRule
  <2>2. phase = "aff" /\ phase' = phase
    BY <2>1 DEF SectionLine
  <2>3. IsText(aliases') /\ IsText(morphologies')
    <3>1. \/ aliases' = aliases
          \/ \E x : aliases' = Append(aliases, x)
      BY <1>5, Zenon DEF InSection, Conversion, Replacement, CharacterMap, Break, Pattern, Rule,
         FlagAlias, MorphologyAlias, AffixRule, Item
    <3>2. \/ morphologies' = morphologies
          \/ \E x : morphologies' = Append(morphologies, x)
      BY <1>5, Zenon DEF InSection, Conversion, Replacement, CharacterMap, Break, Pattern, Rule,
         FlagAlias, MorphologyAlias, AffixRule, Item
    <3>3. QED
      BY <3>1, <3>2, AppendIsText DEF StoredInv
  <2>4. StoredTyped(dictionary') /\ Numbered(dictionary')
    BY <1>1, <1>5, <2>2, SectionStored, SectionNumbered DEF StoredInv
  <2>5. QED
    BY <2>3, <2>4 DEF StoredInv
<1>6. CASE EndOfAff
  <2>1. /\ \E v : dictionary' = [dictionary EXCEPT !.rules = v]
        /\ phase' = "dic" /\ aliases' = aliases /\ morphologies' = morphologies
    BY <1>6, Zenon DEF EndOfAff
  <2>2. StoredTyped(dictionary')
    BY <2>1, StoredField DEF Tables, StoredInv
  <2>3. QED
    BY <2>1, <2>2 DEF StoredInv
<1>7. CASE SkipEntry \/ CountLine \/ TooManyEntries
  BY <1>7 DEF SkipEntry, CountLine, TooManyEntries, DicLine, StoredInv
<1>8. CASE Finish
  BY <1>8 DEF Finish, StoredInv
<1>9. CASE Entry
  <2>1. \/ dictionary' = dictionary
        \/ \E v : dictionary' = [dictionary EXCEPT !.lexemes = v]
    BY <1>9, Zenon DEF Entry
  <2>2. phase = "dic" /\ phase' = phase /\ aliases' = aliases /\ morphologies' = morphologies
    BY <1>9 DEF Entry, DicLine
  <2>3. StoredTyped(dictionary')
    BY <2>1, StoredField DEF Tables, StoredInv
  <2>4. QED
    BY <2>2, <2>3 DEF StoredInv
<1>10. QED
  BY <1>2, <1>3, <1>4, <1>5, <1>6, <1>7, <1>8, <1>9 DEF ImportNext

LEMMA StoredStarts ==
  ASSUME Init
  PROVE  StoredInv
<1>1. dictionary = EmptyDictionary /\ aliases = <<>> /\ morphologies = <<>>
  BY DEF Init, ImportInit
<1>2. /\ EmptyDictionary.compound = EmptyCompound /\ EmptyDictionary.rules = {}
      /\ \A f \in Tables : EmptyDictionary[f] = <<>>
  BY DEF EmptyDictionary, Tables
<1>3. StoredTyped(EmptyDictionary)
  BY <1>2, EmptyText DEF StoredTyped
<1>4. IsFiniteSet({})
  BY FS_EmptySet
<1>5. Numbered(EmptyDictionary)
  BY <1>2, <1>4 DEF Numbered
<1>6. QED
  BY <1>1, <1>3, <1>5, EmptyText DEF StoredInv

-----------------------------------------------------------------------------
(* What is stored has a shape and a size                                   *)

(* Finitely many texts, each of some length. *)
Measured(S) == IsFiniteSet(S) /\ \A t \in S : Len(t) \in Nat

LEMMA RangeFinite ==
  ASSUME NEW t, IsText(t)
  PROVE  IsFiniteSet(Range(t))
<1> DEFINE f == [i \in DOMAIN t |-> t[i]]
<1>1. f \in Surjection(DOMAIN t, Range(t))
  BY DEF Surjection, Range
<1> HIDE DEF f
<1>2. IsFiniteSet(DOMAIN t)
  BY TextType
<1>3. QED
  BY <1>1, <1>2, FS_Surjection

(* The flags of a field, each a text. *)
LEMMA FlagsMeasured ==
  ASSUME NEW field, IsText(field), NEW m, NEW s \in FlagSequence(field, m)
  PROVE  IsText(s) /\ \A f \in Range(s) : Len(f) \in Nat
<1> DEFINE n == Len(field)
<1>0. n \in Nat /\ n \div 2 \in Nat /\ (n + 1) \div 2 \in Nat
  BY TextType
<1>1. CASE m = "numeric"
  <2> DEFINE t == [i \in 1..(n + 1) \div 2 |-> <<"num", field[2 * i - 1]>>]
  <2>1. s = t
    <3>1. s \in NumericFlags(field)
      BY <1>1 DEF FlagSequence
    <3>2. \E test : NumericFlags(field) = Option(test, t)
      BY Zenon DEF NumericFlags
    <3> HIDE DEF t
    <3>3. QED
      BY <3>1, <3>2, OptionSingle
  <2>2. \A i \in DOMAIN t : Len(t[i]) \in Nat
    OBVIOUS
  <2>3. IsText(t)
    BY <1>0, TextMade
  <2> HIDE DEF t
  <2>4. QED
    BY <2>1, <2>2, <2>3 DEF Range
<1>2. CASE m = "long"
  <2> DEFINE t == [i \in 1..n \div 2 |-> <<field[2 * i - 1], field[2 * i]>>]
  <2>1. s = t
    <3>1. s \in LongFlags(field)
      BY <1>2 DEF FlagSequence
    <3>2. \E test : LongFlags(field) = Option(test, t)
      BY Zenon DEF LongFlags
    <3> HIDE DEF t
    <3>3. QED
      BY <3>1, <3>2, OptionSingle
  <2>2. \A i \in DOMAIN t : Len(t[i]) \in Nat
    OBVIOUS
  <2>3. IsText(t)
    BY <1>0, TextMade
  <2> HIDE DEF t
  <2>4. QED
    BY <2>1, <2>2, <2>3 DEF Range
<1>3. CASE m \notin {"numeric", "long"}
  <2> DEFINE Selects(i) == i \in DOMAIN field /\ field[i] \in VariationSelector
             starts == {i \in DOMAIN field : ~Selects(i)}
             from == LeftToRight(starts)
             E(k) == SubSeq(field, from[k], from[k] + (IF Selects(from[k] + 1) THEN 1 ELSE 0))
             tokens == [k \in DOMAIN from |-> E(k)]
  <2>1. s \in UnicodeTokens(field)
    BY <1>3 DEF FlagSequence
  <2>2. IsText(s)
    BY <2>1, TokensType
  <2>3. s = tokens
    BY <2>1, OptionSingle DEF UnicodeTokens
  <2>4. starts \in SUBSET Nat /\ IsFiniteSet(starts)
    <3>1. starts \subseteq DOMAIN field
      OBVIOUS
    <3>2. QED
      BY <3>1, TextType, FS_Subset
  <2> HIDE DEF starts
  <2>5. \A k \in DOMAIN from : from[k] \in Nat
    BY <2>4, LeftToRightType
  <2> HIDE DEF Selects, from
  <2>6. ASSUME NEW k \in DOMAIN from
        PROVE  Len(E(k)) \in Nat
    <3>1. from[k] \in Int /\ from[k] + (IF Selects(from[k] + 1) THEN 1 ELSE 0) \in Int
      BY <2>5
    <3>2. IsText(E(k))
      BY <3>1, PartIsText
    <3> HIDE DEF E
    <3>3. QED
      BY <3>2, TextType
  <2> HIDE DEF E
  <2>7. \A k \in DOMAIN tokens : Len(tokens[k]) \in Nat
    BY <2>6
  <2> HIDE DEF tokens
  <2>8. QED
    BY <2>2, <2>3, <2>7 DEF Range
<1>4. QED
  BY <1>1, <1>2, <1>3

LEMMA FlagMeasured ==
  ASSUME NEW field, IsText(field), NEW m
  PROVE  Single(DecodeFlag(field, m)) /\ Measured(DecodeFlag(field, m))
<1>1. Single(DecodeFlag(field, m))
  BY FlagSequenceSingle DEF DecodeFlag, Single
<1>2. ASSUME NEW f \in DecodeFlag(field, m)
      PROVE  Len(f) \in Nat
  <2>1. PICK s \in FlagSequence(field, m) : Len(s) = 1 /\ f = s[1]
    BY DEF DecodeFlag
  <2>2. IsText(s) /\ \A g \in Range(s) : Len(g) \in Nat
    BY FlagsMeasured
  <2>3. 1 \in DOMAIN s
    BY <2>1, <2>2, TextType
  <2>4. QED
    BY <2>1, <2>2, <2>3 DEF Range
<1>3. QED
  BY <1>1, <1>2, SingleFinite DEF Measured

(* The flags of an entry or an alias: a finite set of sets of flags. *)
FlagSetsMeasured(F) == IsFiniteSet(F) /\ \A flags \in F : Measured(flags)

LEMMA SequencesMeasured ==
  ASSUME NEW field, IsText(field), NEW m
  PROVE  FlagSetsMeasured({Range(s) : s \in {x \in FlagSequence(field, m) :
                                                Len(x) <= MaxFlagsPerEntry}})
<1> DEFINE S == {x \in FlagSequence(field, m) : Len(x) <= MaxFlagsPerEntry}
           F == {Range(s) : s \in S}
<1>1. Single(S) /\ \A s \in S : IsText(s) /\ \A f \in Range(s) : Len(f) \in Nat
  BY FlagSequenceSingle, FlagsMeasured DEF Single
<1> HIDE DEF S
<1>2. Single(F) /\ \A flags \in F : Measured(flags)
  BY <1>1, RangeFinite DEF Single, Measured
<1> HIDE DEF F
<1>3. FlagSetsMeasured(F)
  BY <1>2, SingleFinite DEF FlagSetsMeasured
<1>4. QED
  BY <1>3 DEF F, S

AliasesMeasured(list) == \A n \in DOMAIN list : FlagSetsMeasured(list[n])

LEMMA EntryFlagsMeasured ==
  ASSUME NEW field, IsText(field), NEW m, NEW list, AliasesMeasured(list)
  PROVE  FlagSetsMeasured(EntryFlags(field, m, list))
<1>1. CASE list # <<>> /\ AllDigits(field)
  <2> DEFINE N == Number(field) \cap DOMAIN list
  <2>1. EntryFlags(field, m, list) = UNION {list[n] : n \in N}
    BY <1>1 DEF EntryFlags
  <2>2. Single(N)
    BY NumberType DEF Single
  <2>3. \A n \in N : FlagSetsMeasured(list[n])
    BY DEF AliasesMeasured
  <2> HIDE DEF N
  <2>4. CASE N = {}
    <3>1. EntryFlags(field, m, list) = {}
      BY <2>1, <2>4
    <3>2. QED
      BY <3>1, FS_EmptySet DEF FlagSetsMeasured
  <2>5. CASE N # {}
    <3>1. PICK n \in N : N = {n}
      BY <2>2, <2>5 DEF Single
    <3>2. EntryFlags(field, m, list) = list[n]
      BY <2>1, <3>1
    <3>3. QED
      BY <2>3, <3>2
  <2>6. QED
    BY <2>4, <2>5
<1>2. CASE ~(list # <<>> /\ AllDigits(field))
  BY <1>2, SequencesMeasured, Zenon DEF EntryFlags
<1>3. QED
  BY <1>1, <1>2

(* The atoms of a condition, read from each of its last places. *)
Prefixed(first, rest) == {<<a>> \o s : a \in first, s \in rest}
Ends(field, i) == {j \in i + 1..Len(field) : field[j] = "]"}

AtomsFrom(field, f, i) ==
  IF i > Len(field) THEN {<<>>}
  ELSE IF field[i] = "["
  THEN IF Ends(field, i) = {} THEN {}
       ELSE Prefixed(ConditionAtom(SubSeq(field, i, Min(Ends(field, i)))),
                     f[Min(Ends(field, i)) + 1])
  ELSE IF field[i] \in {"]", "(", ")", "|", "*", "?", "\\"} THEN {}
  ELSE Prefixed(ConditionAtom(<<field[i]>>), f[i + 1])

IsAtoms(field, first, f) ==
  f = [i \in first..(Len(field) + 1) |-> AtomsFrom(field, f, i)]

LEMMA EndsBehind ==
  ASSUME NEW field, IsText(field), NEW i \in Nat, Ends(field, i) # {}
  PROVE  Min(Ends(field, i)) \in Nat /\ Min(Ends(field, i)) > i
         /\ Min(Ends(field, i)) <= Len(field)
<1> DEFINE E == Ends(field, i)
<1>1. E \in SUBSET Nat /\ \A j \in E : j > i /\ j <= Len(field)
  BY TextType DEF Ends
<1> HIDE DEF E
<1>2. \E j \in E : \A k \in E : j <= k
  BY <1>1, LeastNumber DEF E
<1>3. Min(E) \in E
  BY <1>2 DEF Min
<1>4. QED
  BY <1>1, <1>3 DEF E

LEMMA AtomsExist ==
  ASSUME NEW field, IsText(field)
  PROVE  \E f : IsAtoms(field, 1, f)
<1> DEFINE L == Len(field)
           S == {n \in Nat : n <= L => \E f : IsAtoms(field, L + 1 - n, f)}
<1>0. L \in Nat
  BY TextType
<1>1. 0 \in S
  <2> DEFINE f == [i \in (L + 1)..(L + 1) |-> {<<>>}]
  <2>1. \A i \in (L + 1)..(L + 1) : AtomsFrom(field, f, i) = {<<>>}
    BY <1>0 DEF AtomsFrom
  <2>2. f = [i \in (L + 1)..(L + 1) |-> AtomsFrom(field, f, i)]
    BY <2>1
  <2> HIDE DEF f
  <2>3. IsAtoms(field, L + 1, f) /\ L + 1 = L + 1 - 0
    BY <1>0, <2>2 DEF IsAtoms
  <2>4. \E h : IsAtoms(field, L + 1 - 0, h)
    BY <2>3
  <2>5. QED
    BY <2>4
<1>2. ASSUME NEW n \in Nat, n \in S
      PROVE  n + 1 \in S
  <2> SUFFICES ASSUME n + 1 <= L
               PROVE  \E f : IsAtoms(field, L + 1 - (n + 1), f)
    OBVIOUS
  <2> DEFINE m == L + 1 - (n + 1)
  <2>1. PICK f : IsAtoms(field, m + 1, f)
    BY <1>0, <1>2
  <2>2. m \in 1..L
    BY <1>0
  <2> HIDE DEF m
  <2> DEFINE g == [i \in m..(L + 1) |-> IF i = m THEN AtomsFrom(field, f, m) ELSE f[i]]
  <2>3. \A i \in (m + 1)..(L + 1) : g[i] = f[i]
    BY <1>0, <2>2
  <2>4. g[m] = AtomsFrom(field, f, m) /\ g = [i \in m..(L + 1) |-> g[i]]
    BY <1>0, <2>2
  <2> HIDE DEF g
  <2>5. ASSUME NEW i \in m..(L + 1)
        PROVE  AtomsFrom(field, g, i) = AtomsFrom(field, f, i)
    <3>1. CASE i > L
      BY <3>1 DEF AtomsFrom
    <3>2. CASE ~(i > L)
      <4>1. i + 1 \in (m + 1)..(L + 1) /\ i \in Nat
        BY <1>0, <2>2, <3>2
      <4>2. Ends(field, i) # {} => Min(Ends(field, i)) + 1 \in (m + 1)..(L + 1)
        BY <1>0, <2>2, <4>1, EndsBehind
      <4>3. /\ g[i + 1] = f[i + 1]
            /\ Ends(field, i) # {} => g[Min(Ends(field, i)) + 1] = f[Min(Ends(field, i)) + 1]
        BY <2>3, <4>1, <4>2
      <4>4. CASE Ends(field, i) = {}
        BY <4>3, <4>4 DEF AtomsFrom
      <4>5. CASE Ends(field, i) # {}
        <5>1. g[Min(Ends(field, i)) + 1] = f[Min(Ends(field, i)) + 1]
          BY <4>3, <4>5
        <5>2. QED
          BY <4>3, <5>1 DEF AtomsFrom
      <4>6. QED
        BY <4>4, <4>5
    <3>3. QED
      BY <3>1, <3>2
  <2>6. ASSUME NEW i \in m..(L + 1)
        PROVE  g[i] = AtomsFrom(field, g, i)
    <3>1. CASE i = m
      BY <2>4, <2>5, <3>1
    <3>2. CASE i # m
      <4>1. i \in (m + 1)..(L + 1)
        BY <1>0, <2>2, <3>2
      <4>2. f[i] = AtomsFrom(field, f, i)
        BY <2>1, <4>1 DEF IsAtoms
      <4>3. QED
        BY <2>3, <2>5, <4>1, <4>2
    <3>3. QED
      BY <3>1, <3>2
  <2>7. IsAtoms(field, m, g)
    BY <2>4, <2>6 DEF IsAtoms
  <2>8. QED
    BY <2>7 DEF m
<1> HIDE DEF S
<1>3. \A n \in Nat : n \in S
  BY <1>1, <1>2, AllNumbers
<1>4. QED
  <2>1. L \in S /\ L + 1 - L = 1
    BY <1>0, <1>3
  <2>2. QED
    BY <1>0, <2>1 DEF S

AtomTyped(atom) ==
  /\ atom = [members |-> atom.members, negated |-> atom.negated]
  /\ IsFiniteSet(atom.members) /\ atom.negated \in BOOLEAN

AtomsMeasured(s) == IsText(s) /\ \A atom \in Range(s) : AtomTyped(atom)

LEMMA MadeAtom ==
  ASSUME NEW S, IsFiniteSet(S), NEW negated \in BOOLEAN
  PROVE  AtomTyped([members |-> S, negated |-> negated])
<1> DEFINE atom == [members |-> S, negated |-> negated]
<1>1. atom.members = S /\ atom.negated = negated
  OBVIOUS
<1>2. atom = [members |-> atom.members, negated |-> atom.negated]
  BY <1>1
<1> HIDE DEF atom
<1>3. AtomTyped(atom)
  BY <1>1, <1>2, Zenon DEF AtomTyped
<1>4. QED
  BY <1>3 DEF atom

LEMMA AtomFinite ==
  ASSUME NEW field, IsText(field), NEW atom \in ConditionAtom(field)
  PROVE  AtomTyped(atom)
<1> DEFINE negated == Len(field) > 1 /\ field[2] = "^"
           members == SubSeq(field, IF negated THEN 3 ELSE 2, Len(field) - 1)
<1>1. IsText(members)
  <2>1. (IF negated THEN 3 ELSE 2) \in Int /\ Len(field) - 1 \in Int
    BY TextType
  <2> HIDE DEF negated
  <2>2. QED
    BY <2>1, PartIsText
<1>2. IsFiniteSet(Range(members))
  BY <1>1, RangeFinite
<1>3. \/ atom = AnyLetter
      \/ atom = Literal(field[1])
      \/ atom = [members |-> Range(members), negated |-> negated]
  <2>1. CASE field = <<".">> \/ Len(field) = 1
    BY <2>1 DEF ConditionAtom
  <2>2. CASE ~(field = <<".">> \/ Len(field) = 1)
    <3>1. ConditionAtom(field) =
            Option(/\ Len(field) > 1 /\ Head(field) = "[" /\ Last(field) = "]"
                   /\ members # <<>>,
                   [members |-> Range(members), negated |-> negated])
      BY <2>2 DEF ConditionAtom
    <3> HIDE DEF members, negated
    <3>2. atom = [members |-> Range(members), negated |-> negated]
      BY <3>1, OptionSingle
    <3>3. QED
      BY <3>2
  <2>3. QED
    BY <2>1, <2>2
<1>4. negated \in BOOLEAN /\ TRUE \in BOOLEAN /\ FALSE \in BOOLEAN
  BY Zenon
<1> HIDE DEF members, negated
<1>5. IsFiniteSet({}) /\ IsFiniteSet({field[1]})
  BY FS_EmptySet, FS_Singleton
<1>6. AtomTyped(AnyLetter) /\ AtomTyped(Literal(field[1]))
      /\ AtomTyped([members |-> Range(members), negated |-> negated])
  BY <1>2, <1>4, <1>5, MadeAtom, Zenon DEF AnyLetter, Literal
<1>7. QED
  BY <1>3, <1>6, Zenon

LEMMA PrefixedMeasured ==
  ASSUME NEW atom, AtomTyped(atom), NEW s, AtomsMeasured(s)
  PROVE  AtomsMeasured(<<atom>> \o s)
<1> DEFINE S == Range(s) \cup {atom}
<1>1. <<atom>> \in Seq(S) /\ s \in Seq(S)
  BY SeqMonotonic DEF AtomsMeasured, IsText
<1>2. \A a \in S : AtomTyped(a)
  BY DEF AtomsMeasured
<1> HIDE DEF S
<1>3. <<atom>> \o s \in Seq(S)
  BY <1>1, ConcatProperties
<1>4. QED
  BY <1>2, <1>3, SeqIsText DEF AtomsMeasured

LEMMA AllPrefixedMeasured ==
  ASSUME NEW first, \A a \in first : AtomTyped(a),
         NEW rest, \A t \in rest : AtomsMeasured(t)
  PROVE  \A s \in Prefixed(first, rest) : AtomsMeasured(s)
<1> DEFINE Joined(a, t) == <<a>> \o t
<1>1. Prefixed(first, rest) = {Joined(a, t) : a \in first, t \in rest}
  BY DEF Prefixed
<1>2. ASSUME NEW a \in first, NEW t \in rest
      PROVE  AtomsMeasured(Joined(a, t))
  <2>1. AtomTyped(a) /\ AtomsMeasured(t)
    OBVIOUS
  <2>2. AtomsMeasured(<<a>> \o t)
    BY <2>1, PrefixedMeasured, Zenon
  <2>3. QED
    BY <2>2
<1> HIDE DEF Joined
<1>3. QED
  BY <1>1, <1>2

LEMMA AllAtomsMeasured ==
  ASSUME NEW field, IsText(field), NEW f, IsAtoms(field, 1, f)
  PROVE  \A s \in f[1] : AtomsMeasured(s)
<1> DEFINE L == Len(field)
           S == {n \in Nat : \A i \in 1..(L + 1) : i + n >= L + 1 => \A s \in f[i] : AtomsMeasured(s)}
<1>0. L \in Nat
  BY TextType
<1>1. \A i \in 1..(L + 1) : f[i] = AtomsFrom(field, f, i)
  BY DEF IsAtoms
<1>2. 0 \in S
  <2>1. ASSUME NEW i \in 1..(L + 1), i + 0 >= L + 1
        PROVE  \A s \in f[i] : AtomsMeasured(s)
    <3>1. i > L
      BY <1>0, <2>1
    <3>2. f[i] = {<<>>}
      BY <1>1, <3>1 DEF AtomsFrom
    <3>3. QED
      BY <3>2, EmptyText DEF AtomsMeasured
  <2>2. QED
    BY <2>1
<1>3. ASSUME NEW n \in Nat, n \in S
      PROVE  n + 1 \in S
  <2>1. ASSUME NEW i \in 1..(L + 1), i + (n + 1) >= L + 1, NEW s \in f[i]
        PROVE  AtomsMeasured(s)
    <3>0. s \in AtomsFrom(field, f, i) /\ i \in Nat
      BY <1>1, <2>1
    <3>1. \A j \in 1..(L + 1) : j > i => \A t \in f[j] : AtomsMeasured(t)
      BY <1>0, <1>3, <2>1
    <3>2. CASE i > L
      <4>1. s = <<>>
        BY <3>0, <3>2 DEF AtomsFrom
      <4>2. QED
        BY <4>1, EmptyText DEF AtomsMeasured
    <3>3. CASE ~(i > L) /\ field[i] = "["
      <4> DEFINE last == Min(Ends(field, i))
                 part == SubSeq(field, i, last)
      <4>1. Ends(field, i) # {} /\ s \in Prefixed(ConditionAtom(part), f[last + 1])
        <5>1. AtomsFrom(field, f, i) =
                IF Ends(field, i) = {} THEN {} ELSE Prefixed(ConditionAtom(part), f[last + 1])
          BY <3>3, Zenon DEF AtomsFrom
        <5> HIDE DEF part, last
        <5>2. QED
          BY <3>0, <5>1
      <4>2. last \in Nat /\ last > i /\ last <= L
        BY <3>0, <4>1, EndsBehind
      <4> HIDE DEF last
      <4>3. IsText(part)
        BY <3>0, <4>2, PartIsText
      <4> HIDE DEF part
      <4>4. \A t \in f[last + 1] : AtomsMeasured(t)
        <5>1. last + 1 \in 1..(L + 1) /\ last + 1 > i
          BY <1>0, <3>0, <4>2
        <5>2. QED
          BY <3>1, <5>1
      <4>5. \A a \in ConditionAtom(part) : AtomTyped(a)
        BY <4>3, AtomFinite
      <4>6. QED
        BY <4>1, <4>4, <4>5, AllPrefixedMeasured
    <3>4. CASE ~(i > L) /\ field[i] # "["
      <4>1. s \in Prefixed(ConditionAtom(<<field[i]>>), f[i + 1])
        <5>1. \/ AtomsFrom(field, f, i) = {}
              \/ AtomsFrom(field, f, i) = Prefixed(ConditionAtom(<<field[i]>>), f[i + 1])
          BY <3>4, Zenon DEF AtomsFrom
        <5>2. QED
          BY <3>0, <5>1
      <4>2. \A t \in f[i + 1] : AtomsMeasured(t)
        BY <1>0, <3>0, <3>1, <3>4
      <4>3. IsText(<<field[i]>>)
        BY SingletonText
      <4>4. \A a \in ConditionAtom(<<field[i]>>) : AtomTyped(a)
        BY <4>3, AtomFinite
      <4>5. QED
        BY <4>1, <4>2, <4>4, AllPrefixedMeasured
    <3>5. QED
      BY <3>2, <3>3, <3>4
  <2>2. QED
    BY <2>1
<1> HIDE DEF S
<1>4. L \in S
  BY <1>0, <1>2, <1>3, AllNumbers
<1>5. 1 \in 1..(L + 1) /\ 1 + L >= L + 1
  BY <1>0
<1>6. QED
  BY <1>4, <1>5 DEF S

LEMMA ConditionAtomsMeasured ==
  ASSUME NEW field, IsText(field), NEW s \in ConditionAtoms(field)
  PROVE  AtomsMeasured(s)
<1> DEFINE f == CHOOSE f : IsAtoms(field, 1, f)
<1>1. IsAtoms(field, 1, f)
  BY AtomsExist, Zenon
<1>2. s \in f[1]
  <2>1. ConditionAtoms(field) = IF Len(field) > MaxConditionAtoms THEN {} ELSE f[1]
    BY DEF ConditionAtoms, IsAtoms, AtomsFrom, Ends, Prefixed
  <2> HIDE DEF f
  <2>2. QED
    BY <2>1
<1> HIDE DEF f
<1>3. QED
  BY <1>1, <1>2, AllAtomsMeasured

LEMMA AfterIsText ==
  ASSUME NEW field, IsText(field), NEW c
  PROVE  IsText(After(field, c))
<1> DEFINE I == {i \in 1..Len(field) : field[i] = c}
           place == IF I # {} THEN Min(I) ELSE 0
<1>1. After(field, c) = SubSeq(field, place + 1, Len(field))
  BY DEF After, SelectInSeq
<1>2. I \in SUBSET Nat /\ Len(field) \in Int
  BY TextType
<1> HIDE DEF I
<1>3. place \in Int
  <2>1. CASE I # {}
    <3>1. \E i \in I : \A j \in I : i <= j
      BY <1>2, <2>1, LeastNumber
    <3>2. Min(I) \in I
      BY <3>1 DEF Min
    <3>3. place = Min(I)
      BY <2>1
    <3>4. Min(I) \in Nat
      BY <1>2, <3>2
    <3>5. QED
      BY <3>3, <3>4
  <2>2. QED
    BY <2>1
<1> HIDE DEF place
<1>4. QED
  BY <1>1, <1>2, <1>3, PartIsText

ConditionMeasured(c) ==
  /\ c = [atoms |-> c.atoms, notBefore |-> c.notBefore, anchored |-> c.anchored]
  /\ AtomsMeasured(c.atoms)
  /\ Single(c.notBefore) /\ \A atom \in c.notBefore : AtomTyped(atom)

LEMMA OtherMark ==
  ASSUME NEW atom, NEW S, NEW n, atom = [members |-> S, negated |-> n], NEW v
  PROVE  [atom EXCEPT !.negated = v] = [members |-> S, negated |-> v]
OBVIOUS

LEMMA TurnedAtom ==
  ASSUME NEW atom, AtomTyped(atom)
  PROVE  AtomTyped([atom EXCEPT !.negated = FALSE])
<1>1. /\ atom = [members |-> atom.members, negated |-> atom.negated]
      /\ IsFiniteSet(atom.members)
  BY Zenon DEF AtomTyped
<1>2. [atom EXCEPT !.negated = FALSE] = [members |-> atom.members, negated |-> FALSE]
  BY <1>1, OtherMark, Zenon
<1>3. AtomTyped([members |-> atom.members, negated |-> FALSE])
  <2>1. FALSE \in BOOLEAN
    OBVIOUS
  <2>2. QED
    BY <1>1, <2>1, MadeAtom, Zenon
<1>4. QED
  BY <1>2, <1>3, Zenon

LEMMA LookbehindMeasured ==
  ASSUME NEW field, IsText(field), NEW b \in NegativeLookbehind(field)
  PROVE  /\ IsText(b.rest) /\ Single(b.notBefore)
         /\ \A atom \in b.notBefore : AtomTyped(atom)
<1> DEFINE behind == <<"(", "?", "<", "!">>
           alternative == <<"(", "^", "|">>
           Inner(opening) == Before(SubSeq(field, Len(opening) + 1, Len(field)), ")")
<1>1. IsText(Inner(behind)) /\ IsText(Inner(alternative)) /\ IsText(After(field, ")"))
  <2>1. Len(field) \in Int /\ Len(behind) + 1 \in Int /\ Len(alternative) + 1 \in Int
    BY TextType
  <2> HIDE DEF behind, alternative
  <2>2. QED
    BY <2>1, PartIsText, BeforeIsText, AfterIsText
<1>2. CASE IsPrefix(behind, field)
  <2>1. PICK a \in ConditionAtom(Inner(behind)) :
          b = [notBefore |-> {a}, rest |-> After(field, ")")]
    <3>1. NegativeLookbehind(field) =
            {[notBefore |-> {a}, rest |-> After(field, ")")] :
                a \in {x \in ConditionAtom(Inner(behind)) : Has(field, ")")}}
      BY <1>2, Zenon DEF NegativeLookbehind
    <3> HIDE DEF Inner
    <3>2. QED
      BY <3>1
  <2>2. AtomTyped(a) /\ Single({a})
    BY <1>1, AtomFinite DEF Single
  <2>3. QED
    BY <1>1, <2>1, <2>2
<1>3. CASE ~IsPrefix(behind, field) /\ IsPrefix(alternative, field)
  <2>1. PICK a \in ConditionAtom(Inner(alternative)) :
          b = [notBefore |-> {[a EXCEPT !.negated = FALSE]}, rest |-> After(field, ")")]
    <3>1. NegativeLookbehind(field) =
            {[notBefore |-> {[a EXCEPT !.negated = FALSE]}, rest |-> After(field, ")")] :
                a \in {x \in ConditionAtom(Inner(alternative)) :
                         x.negated /\ x # AnyLetter /\ Has(field, ")")}}
      BY <1>3, Zenon DEF NegativeLookbehind
    <3> HIDE DEF Inner
    <3>2. QED
      BY <3>1
  <2>2. AtomTyped(a)
    BY <1>1, AtomFinite
  <2> DEFINE other == [a EXCEPT !.negated = FALSE]
  <2>3. AtomTyped(other)
    BY <2>2, TurnedAtom, Zenon
  <2> HIDE DEF other
  <2>4. Single({other})
    BY DEF Single
  <2>5. b = [notBefore |-> {other}, rest |-> After(field, ")")]
    BY <2>1 DEF other
  <2>6. QED
    BY <1>1, <2>2, <2>3, <2>4, <2>5
<1>4. CASE ~IsPrefix(behind, field) /\ ~IsPrefix(alternative, field)
  <2>1. b = [notBefore |-> {}, rest |-> field]
    BY <1>4 DEF NegativeLookbehind
  <2>2. QED
    BY <2>1 DEF Single
<1>5. QED
  BY <1>2, <1>3, <1>4

LEMMA AnchorMeasured ==
  ASSUME NEW field, IsText(field), NEW s \in StartAnchor(field)
  PROVE  IsText(s.rest)
<1> DEFINE head == Before(field, ")")
           inner == SubSeq(head, 3, Len(head))
<1>1. IsText(inner)
  <2>1. IsText(head)
    BY BeforeIsText
  <2> HIDE DEF head
  <2>2. QED
    BY <2>1, TextType, PartIsText
<1>2. s.rest = inner \/ s.rest = field
  <2>1. StartAnchor(field) =
          IF IsPrefix(<<"(", "^">>, field)
          THEN {[anchored |-> TRUE, rest |-> f] :
                  f \in {x \in {inner} : /\ Has(field, ")") /\ After(field, ")") = <<>>
                                        /\ x # <<>>}}
          ELSE {[anchored |-> FALSE, rest |-> field]}
    BY Zenon DEF StartAnchor
  <2> HIDE DEF inner
  <2>2. QED
    BY <2>1
<1>3. QED
  BY <1>1, <1>2

LEMMA ParsedConditionMeasured ==
  ASSUME NEW field, IsText(field), NEW c \in ParseCondition(field)
  PROVE  ConditionMeasured(c)
<1>1. CASE field = <<"0">>
  BY <1>1, EmptyText DEF ParseCondition, NoCondition, ConditionMeasured, AtomsMeasured, Single
<1>2. CASE field # <<"0">>
  <2> DEFINE Made(a, b, s) == [atoms |-> a, notBefore |-> b.notBefore, anchored |-> s.anchored]
  <2>1. PICK b \in NegativeLookbehind(field) :
          c \in UNION {{Made(a, b, s) : a \in ConditionAtoms(s.rest)} : s \in StartAnchor(b.rest)}
    <3>1. ParseCondition(field) =
            UNION {UNION {{Made(a, b, s) : a \in ConditionAtoms(s.rest)} :
                          s \in StartAnchor(b.rest)} :
                   b \in NegativeLookbehind(field)}
      BY <1>2, Zenon DEF ParseCondition
    <3> HIDE DEF Made
    <3>2. QED
      BY <3>1
  <2> HIDE DEF Made
  <2>2. PICK s \in StartAnchor(b.rest) : c \in {Made(a, b, s) : a \in ConditionAtoms(s.rest)}
    BY <2>1
  <2>3. PICK a \in ConditionAtoms(s.rest) : c = Made(a, b, s)
    BY <2>2
  <2>4. IsText(b.rest) /\ Single(b.notBefore)
        /\ \A atom \in b.notBefore : AtomTyped(atom)
    BY LookbehindMeasured
  <2>5. IsText(s.rest)
    BY <2>4, AnchorMeasured
  <2>6. AtomsMeasured(a)
    BY <2>5, ConditionAtomsMeasured
  <2>7. QED
    BY <2>3, <2>4, <2>6 DEF ConditionMeasured, Made
<1>3. QED
  BY <1>1, <1>2

LEMMA QuantifiedFlags ==
  ASSUME NEW tokens, IsText(tokens), NEW rule \in QuantifiedRule(tokens), NEW s \in Range(rule)
  PROVE  s \in Seq(Range(tokens))
<1> DEFINE places == {i \in DOMAIN tokens : ~IsMark(tokens[i])}
           flags == LeftToRight(places)
           Mark(i) == IF i < Len(tokens) /\ IsMark(tokens[i + 1])
                      THEN Head(tokens[i + 1]) ELSE ""
           Copies(choice) == [k \in DOMAIN flags |-> [n \in 1..choice[k] |-> tokens[flags[k]]]]
           Spelled0(choice) == FlattenSeq(Copies(choice))
           valid == \A i \in DOMAIN tokens :
                      IsMark(tokens[i]) => i > 1 /\ ~IsMark(tokens[i - 1])
           repeats == [k \in DOMAIN flags |-> Repeats(Mark(flags[k]))]
           Rule0(cs) == [n \in 1..Cardinality(cs) |-> Spelled0(SetToSeq(cs)[n])]
<1>1. QuantifiedRule(tokens) =
        IF ~valid THEN {} ELSE {Rule0(cs) : cs \in RepeatChoices(repeats)}
  BY Zenon DEF QuantifiedRule
<1> HIDE DEF valid, repeats, Rule0
<1>a. PICK cs \in RepeatChoices(repeats) : rule = Rule0(cs)
  BY <1>1
<1>2. places \subseteq DOMAIN tokens /\ places \in SUBSET Nat /\ IsFiniteSet(places)
  <2>1. places \subseteq DOMAIN tokens
    OBVIOUS
  <2>2. QED
    BY <2>1, TextType, FS_Subset
<1> HIDE DEF places
<1>3. /\ DOMAIN flags = 1..Cardinality(places) /\ Cardinality(places) \in Nat
      /\ \A k \in DOMAIN flags : flags[k] \in DOMAIN tokens
  <2>1. Cardinality(places) \in Nat
    BY <1>2, FS_CardinalityType
  <2>2. /\ DOMAIN flags = 1..Cardinality(places)
        /\ \A k \in 1..Cardinality(places) : flags[k] \in places
    BY <1>2, LeftToRightType
  <2>3. QED
    BY <1>2, <2>1, <2>2
<1> HIDE DEF flags, Mark
<1>4. /\ DOMAIN repeats = 1..Cardinality(places)
      /\ repeats = [k \in DOMAIN repeats |-> repeats[k]]
      /\ \A k \in 1..Cardinality(places) : repeats[k] \in SUBSET Nat /\ IsFiniteSet(repeats[k])
  BY <1>3, RepeatsFinite DEF repeats
<1> HIDE DEF Copies, Spelled0
<1>5. RepeatsTyped(repeats) /\ Len(repeats) = Cardinality(places)
  BY <1>3, <1>4, TextMade DEF RepeatsTyped
<1>6. IsFiniteSet(cs) /\ \A choice \in cs : choice \in Seq(Nat) /\ Len(choice) = Len(repeats)
  BY <1>5, RepeatChoicesFinite
<1>7. PICK n \in 1..Cardinality(cs) : s = Spelled0(SetToSeq(cs)[n])
  BY <1>a DEF Range, Rule0
<1> DEFINE choice == SetToSeq(cs)[n]
<1>8. choice \in Seq(Nat) /\ Len(choice) = Cardinality(places)
  <2>1. SetToSeq(cs) \in Seq(cs) /\ Len(SetToSeq(cs)) = Cardinality(cs)
    BY <1>6, SetToSeqType
  <2>2. choice \in cs
    BY <2>1, ElementOfSeq
  <2>3. QED
    BY <1>5, <1>6, <2>2
<1> HIDE DEF choice
<1>9. ASSUME NEW k \in 1..Cardinality(places)
      PROVE  Copies(choice)[k] \in Seq(Range(tokens))
  <2>1. choice[k] \in Nat
    BY <1>8, ElementOfSeq
  <2>2. tokens[flags[k]] \in Range(tokens)
    BY <1>3 DEF Range
  <2>3. [i \in 1..choice[k] |-> tokens[flags[k]]] \in Seq(Range(tokens))
    BY <2>1, <2>2
  <2>4. QED
    BY <1>3, <2>3 DEF Copies
<1>10. DOMAIN Copies(choice) = 1..Cardinality(places)
       /\ Copies(choice) = [k \in DOMAIN Copies(choice) |-> Copies(choice)[k]]
  BY <1>3 DEF Copies
<1>11. FlattenSeq(Copies(choice)) \in Seq(Range(tokens))
  BY <1>3, <1>9, <1>10, FlattenIsSeq
<1>12. QED
  BY <1>7, <1>11 DEF Spelled0, choice

(* What the fields of a dictionary hold, so that each has a size.          *)
FlagNames == {"circumfix", "forbidden", "keepCase", "needAffix", "onlyInCompound", "noSuggest"}
CompoundFlagNames == {"flag", "begin", "middle", "end", "permit", "forbid", "forceUppercase"}
ModeNames == {"unicode", "long", "numeric"}

Optional(option) == Single(option) /\ Measured(option)

LexemesSized(lexemes) ==
  /\ IsFiniteSet(lexemes)
  /\ \A l \in lexemes : /\ l = [stem |-> l.stem, flags |-> l.flags]
                       /\ Len(l.stem) \in Nat /\ Measured(l.flags)

RuleShaped(r) ==
  /\ r = [id |-> r.id, kind |-> r.kind, flag |-> r.flag, strip |-> r.strip, add |-> r.add,
          condition |-> r.condition, cross |-> r.cross, continuation |-> r.continuation]
  /\ r.kind \in Kind

RuleSized(r) ==
  /\ RuleShaped(r)
  /\ Len(r.flag) \in Nat /\ Measured(r.continuation) /\ ConditionMeasured(r.condition)

ConversionSized(c) ==
  /\ c = [from |-> c.from, to |-> c.to, atStart |-> c.atStart, atEnd |-> c.atEnd]
  /\ IsText(c.from) /\ c.from # <<>> /\ IsText(c.to)

BreakSized(p) ==
  /\ p = [text |-> p.text, atStart |-> p.atStart, atEnd |-> p.atEnd]
  /\ ~(p.atStart /\ p.atEnd)

(* Neither part of a pattern is empty, which is what bounds its size.      *)
PartFilled(text, flag) == Optional(flag) /\ (flag = {} => Len(text) # 0)
PatternSized(p) ==
  /\ p = [ending |-> p.ending, endingFlag |-> p.endingFlag, beginning |-> p.beginning,
          beginningFlag |-> p.beginningFlag, replacement |-> p.replacement]
  /\ PartFilled(p.ending, p.endingFlag) /\ PartFilled(p.beginning, p.beginningFlag)
  /\ Optional(p.replacement)

FlagListsSized(rule) ==
  \A s \in Range(rule) : IsText(s) /\ \A f \in Range(s) : Len(f) \in Nat

SyllablesSized(option) ==
  /\ Single(option)
  /\ \A limit \in option : /\ limit = [maximum |-> limit.maximum, vowels |-> limit.vowels]
                          /\ IsFiniteSet(limit.vowels)

CompoundFieldSized(f, v) ==
  /\ f \in CompoundFlagNames => Optional(v)
  /\ f = "maximum" => Single(v) /\ 0 \notin v
  /\ f = "syllables" => SyllablesSized(v)
  /\ f = "rules" => \A rule \in Range(v) : FlagListsSized(rule)
  /\ f = "patterns" => \A p \in Range(v) : PatternSized(p)

CompoundSized(c) ==
  /\ c = [f \in DOMAIN EmptyCompound |-> c[f]]
  /\ \A f \in DOMAIN EmptyCompound : CompoundFieldSized(f, c[f])

FieldSized(f, v) ==
  /\ f \in FlagNames \cup {"keyboard"} => Optional(v)
  /\ f \in {"wordCharacters", "ignored"} => IsFiniteSet(v)
  /\ f = "lexemes" => LexemesSized(v)
  /\ f = "rules" => \A r \in v : RuleSized(r)
  /\ f = "breaks" => \A p \in Range(v) : BreakSized(p)
  /\ f = "maps" => \A m \in Range(v) : Len(m) \in Nat
  /\ f \in {"inputConversions", "outputConversions"} =>
       \A c \in Range(v) : ConversionSized(c)
  /\ f = "replacements" =>
       \A c \in Range(v) : ConversionSized(c) /\ c.to # <<>>
  /\ f = "compound" => CompoundSized(v)
  /\ f = "language" => v \in Languages
  /\ f = "mode" => v \in ModeNames

Sized(d) ==
  /\ d = [f \in DOMAIN EmptyDictionary |-> d[f]]
  /\ \A f \in DOMAIN EmptyDictionary : FieldSized(f, d[f])

SizedInv ==
  /\ Sized(dictionary) /\ AliasesMeasured(aliases)
  /\ "name" \in DOMAIN section
  /\ section.name \in {"PFX", "SFX"} => "flag" \in DOMAIN section /\ section.flag # {}

LEMMA SizedField ==
  ASSUME NEW d, StoredTyped(d), Sized(d), NEW f, NEW v, FieldSized(f, v)
  PROVE  Sized([d EXCEPT ![f] = v])
<1> DEFINE e == [d EXCEPT ![f] = v]
<1>1. \A g \in DOMAIN EmptyDictionary : e[g] = IF g = f THEN v ELSE d[g]
  BY DEF StoredTyped
<1>2. e = [g \in DOMAIN EmptyDictionary |-> e[g]]
  BY DEF Sized
<1> HIDE DEF e
<1>3. \A g \in DOMAIN EmptyDictionary : FieldSized(g, e[g])
  BY <1>1 DEF Sized
<1>4. Sized(e)
  BY <1>2, <1>3 DEF Sized
<1>5. QED
  BY <1>4 DEF e

LEMMA SizedCompoundField ==
  ASSUME NEW d, StoredTyped(d), Sized(d), NEW f, NEW v, CompoundFieldSized(f, v)
  PROVE  Sized([d EXCEPT !.compound[f] = v])
<1> DEFINE c == [d.compound EXCEPT ![f] = v]
<1>1. [d EXCEPT !.compound[f] = v] = [d EXCEPT !.compound = c]
  OBVIOUS
<1>2. \A g \in DOMAIN EmptyCompound : c[g] = IF g = f THEN v ELSE d.compound[g]
  BY DEF StoredTyped
<1>3. CompoundSized(d.compound)
  <2>1. FieldSized("compound", d["compound"])
    BY StoredFields DEF Sized
  <2>2. QED
    BY <2>1 DEF FieldSized
<1>4. CompoundSized(c)
  <2>1. c = [g \in DOMAIN EmptyCompound |-> c[g]]
    BY <1>3 DEF CompoundSized
  <2> HIDE DEF c
  <2>2. \A g \in DOMAIN EmptyCompound : CompoundFieldSized(g, c[g])
    BY <1>2, <1>3 DEF CompoundSized
  <2>3. QED
    BY <2>1, <2>2 DEF CompoundSized
<1> HIDE DEF c
<1>5. FieldSized("compound", c)
  BY <1>4 DEF FieldSized, FlagNames
<1>6. QED
  BY <1>1, <1>5, SizedField

LEMMA ConversionItems ==
  ASSUME NEW field, IsText(field), NEW to, IsText(to)
  PROVE  \A c \in ParseConversion(field, to) : ConversionSized(c)
<1> DEFINE starts == field # <<>> /\ Head(field) = "_"
           tail == IF starts THEN Tail(field) ELSE field
           ends == tail # <<>> /\ Last(tail) = "_"
           text == IF ends THEN Front(tail) ELSE tail
           value == [from |-> text, to |-> EmptyMarker(to), atStart |-> starts, atEnd |-> ends]
<1>1. ParseConversion(field, to) = Option(text # <<>>, value)
  BY Zenon DEF ParseConversion
<1>2. starts => field # <<>>
  BY Zenon
<1> HIDE DEF starts, ends
<1>3. IsText(tail)
  BY <1>2, TailIsText
<1>4. /\ value.from = text /\ value.to = EmptyMarker(to)
      /\ value = [from |-> value.from, to |-> value.to, atStart |-> value.atStart,
                   atEnd |-> value.atEnd]
  OBVIOUS
<1> HIDE DEF value
<1>5. \A c \in ParseConversion(field, to) : c = value /\ text # <<>>
  BY <1>1 DEF Option
<1> HIDE DEF tail
<1>6. IsText(Front(tail))
  <2>1. Len(tail) - 1 \in Int
    BY <1>3, TextType
  <2>2. QED
    BY <2>1, PartIsText DEF Front
<1>7. text = Front(tail) \/ text = tail
  OBVIOUS
<1> HIDE DEF text
<1>8. IsText(text) /\ IsText(EmptyMarker(to))
  BY <1>3, <1>6, <1>7, MarkerIsText
<1>9. text # <<>> => ConversionSized(value)
  BY <1>4, <1>8 DEF ConversionSized
<1>10. QED
  BY <1>5, <1>9

LEMMA ReplacementItems ==
  ASSUME NEW from, IsText(from), NEW to, IsText(to), NEW c \in ParseReplacementRule(from, to)
  PROVE  ConversionSized(c) /\ c.to # <<>>
<1> DEFINE a == Anchored(from)
<1>1. c = [from |-> a.text, to |-> to, atStart |-> a.atStart, atEnd |-> a.atEnd]
      /\ a.text # <<>> /\ to # <<>>
  BY DEF ParseReplacementRule, Option
<1>2. IsText(a.text)
  BY AnchoredType
<1> HIDE DEF a
<1>3. QED
  BY <1>1, <1>2 DEF ConversionSized

LEMMA PartsFilled ==
  ASSUME NEW field, IsText(field), field # <<>>, NEW m, NEW x \in ParsePatternPart(field, m)
  PROVE  PartFilled(x.text, x.flag)
<1>1. CASE ~Has(field, "/")
  <2>1. x = [text |-> field, flag |-> {}]
    BY <1>1 DEF ParsePatternPart
  <2>2. Len(field) # 0
    BY EmptySeq DEF IsText
  <2>3. QED
    BY <2>1, <2>2, FS_EmptySet DEF PartFilled, Optional, Single, Measured
<1>2. CASE Has(field, "/")
  <2> DEFINE flags == DecodeFlag(After(field, "/"), m)
  <2>1. ParsePatternPart(field, m) = {[text |-> Before(field, "/"), flag |-> {f}] : f \in flags}
    BY <1>2 DEF ParsePatternPart
  <2>2. Measured(flags)
    BY AfterIsText, FlagMeasured
  <2> HIDE DEF flags
  <2>3. PICK f \in flags : x.flag = {f}
    BY <2>1
  <2>4. Measured({f}) /\ Single({f})
    BY <2>2, FS_Singleton DEF Measured, Single
  <2>5. QED
    BY <2>3, <2>4 DEF PartFilled, Optional
<1>3. QED
  BY <1>1, <1>2

LEMMA PatternItemsSized ==
  ASSUME NEW ending, IsText(ending), ending # <<>>,
         NEW beginning, IsText(beginning), beginning # <<>>,
         NEW replacement, Optional(replacement), NEW m,
         NEW p \in ParseCompoundPattern(ending, beginning, replacement, m)
  PROVE  PatternSized(p)
<1> DEFINE A == ParsePatternPart(ending, m)
           B == ParsePatternPart(beginning, m)
           P == {parts \in A \X B : \E i \in 1..2 : parts[i] # [text |-> <<>>, flag |-> {}]}
           Of(q) == [ending |-> q[1].text, endingFlag |-> q[1].flag,
                     beginning |-> q[2].text, beginningFlag |-> q[2].flag,
                     replacement |-> replacement]
<1>1. ParseCompoundPattern(ending, beginning, replacement, m) = {Of(q) : q \in P}
  BY DEF ParseCompoundPattern
<1>2. \A q \in P : q[1] \in A /\ q[2] \in B
  OBVIOUS
<1>3. /\ \A x \in A : PartFilled(x.text, x.flag)
      /\ \A x \in B : PartFilled(x.text, x.flag)
  BY PartsFilled
<1> HIDE DEF A, B, P
<1>4. \A q \in P : PatternSized(Of(q))
  BY <1>2, <1>3 DEF PatternSized
<1> HIDE DEF Of
<1>5. QED
  BY <1>1, <1>4

LEMMA ParenthesizedFlags ==
  ASSUME NEW field, IsText(field), NEW m, NEW rule \in ParenthesizedRule(field, m)
  PROVE  FlagListsSized(rule)
<1> DEFINE places == {i \in DOMAIN field : field[i] = "("}
           opens == LeftToRight(places)
           End(k) == IF k < Len(opens) THEN opens[k + 1] - 1 ELSE Len(field)
           Inner(k) == SubSeq(field, opens[k] + 1, End(k) - 1)
           Flag(k) == IF Range(Inner(k)) \cap (Quantifier \cup {"(", ")"}) # {} THEN {}
                      ELSE DecodeFlag(Inner(k), m)
           t == [k \in DOMAIN opens |-> CHOOSE f \in Flag(k) : TRUE]
           filled == \A k \in DOMAIN opens : Flag(k) # {}
<1>1. ParenthesizedRule(field, m) =
        Option(/\ opens # <<>> /\ opens[1] = 1
               /\ \A k \in DOMAIN opens : field[End(k)] = ")" /\ Flag(k) # {}, <<t>>)
  BY DEF ParenthesizedRule
<1>2. rule = <<t>> /\ filled
  BY <1>1 DEF Option
<1>3. places \subseteq DOMAIN field
  OBVIOUS
<1> HIDE DEF places
<1>4. places \in SUBSET Nat /\ IsFiniteSet(places) /\ Cardinality(places) \in Nat
  BY <1>3, TextType, FS_Subset, FS_CardinalityType
<1>5. /\ DOMAIN opens = 1..Cardinality(places) /\ Len(opens) = Cardinality(places)
      /\ \A k \in 1..Cardinality(places) : opens[k] \in Nat
  BY <1>4, LeftToRightType
<1> HIDE DEF opens
<1>6. ASSUME NEW k \in DOMAIN opens
      PROVE  Len(t[k]) \in Nat
  <2>1. Len(field) \in Nat
    BY TextType
  <2>2. End(k) \in Int
    <3>1. CASE k < Len(opens)
      <4>1. k + 1 \in 1..Cardinality(places)
        BY <1>4, <1>5, <3>1
      <4>2. opens[k + 1] \in Nat
        BY <1>5, <4>1
      <4>3. QED
        BY <3>1, <4>2
    <3>2. QED
      BY <2>1, <3>1
  <2>3. opens[k] \in Nat
    BY <1>5
  <2> HIDE DEF End
  <2>4. IsText(Inner(k))
    BY <2>2, <2>3, PartIsText
  <2> HIDE DEF Inner
  <2>5. Flag(k) \subseteq DecodeFlag(Inner(k), m) /\ Flag(k) # {}
    BY <1>2
  <2>6. t[k] \in Flag(k)
    BY <2>5
  <2> HIDE DEF Flag
  <2>7. t[k] \in DecodeFlag(Inner(k), m)
    BY <2>5, <2>6
  <2>8. QED
    BY <2>4, <2>7, FlagMeasured DEF Measured
<1>7. IsText(t)
  <2>1. DOMAIN t = 1..Cardinality(places) /\ t = [k \in DOMAIN t |-> t[k]]
    BY <1>5
  <2> HIDE DEF t
  <2>2. QED
    BY <1>4, <2>1, TextMade
<1>8. DOMAIN t = DOMAIN opens
  OBVIOUS
<1> HIDE DEF t
<1>9. Range(rule) = {t}
  BY <1>2 DEF Range
<1>10. QED
  BY <1>6, <1>7, <1>8, <1>9 DEF FlagListsSized, Range

LEMMA CompoundRuleFlags ==
  ASSUME NEW field, IsText(field), NEW m, NEW rule \in ParseCompoundRule(field, m)
  PROVE  FlagListsSized(rule)
<1> DEFINE rules == IF Range(field) \cap {"(", ")"} # {} THEN ParenthesizedRule(field, m)
                    ELSE IF m # "unicode" THEN {<<s>> : s \in FlagSequence(field, m)}
                    ELSE UNION {QuantifiedRule(t) : t \in UnicodeTokens(field)}
           Long(r) == {i \in DOMAIN r : Len(r[i]) \in 2..MaxRuleComponents}
           Bounded(r) == Picked(r, Long(r))
<1>1. ParseCompoundRule(field, m) = {Bounded(r) : r \in {r \in rules : Bounded(r) # <<>>}}
  BY DEF ParseCompoundRule
<1>2. ASSUME NEW r \in rules
      PROVE  IsText(r) /\ FlagListsSized(r)
  <2>1. CASE Range(field) \cap {"(", ")"} # {}
    BY <2>1, ParenthesizedRuleType, ParenthesizedFlags
  <2>2. CASE Range(field) \cap {"(", ")"} = {} /\ m # "unicode"
    <3>1. rules = {<<s>> : s \in FlagSequence(field, m)}
      BY <2>2
    <3> HIDE DEF rules
    <3>2. PICK s \in FlagSequence(field, m) : r = <<s>>
      BY <3>1
    <3>3. IsText(r) /\ Range(r) = {s}
      BY <3>2, SingletonText DEF Range
    <3>4. QED
      BY <3>3, FlagsMeasured DEF FlagListsSized
  <2>3. CASE Range(field) \cap {"(", ")"} = {} /\ m = "unicode"
    <3>1. rules = UNION {QuantifiedRule(t) : t \in UnicodeTokens(field)}
      BY <2>3
    <3> HIDE DEF rules
    <3>2. PICK t \in UnicodeTokens(field) : r \in QuantifiedRule(t)
      BY <3>1
    <3>3. t \in FlagSequence(field, "unicode")
      BY DEF FlagSequence
    <3>4. IsText(t) /\ \A f \in Range(t) : Len(f) \in Nat
      BY <3>3, FlagsMeasured
    <3>5. IsText(r)
      BY <3>2, <3>4, QuantifiedRuleType
    <3>6. \A s \in Range(r) : IsText(s) /\ Range(s) \subseteq Range(t)
      BY <3>2, <3>4, QuantifiedFlags, SeqIsText
    <3>7. QED
      BY <3>4, <3>5, <3>6 DEF FlagListsSized
  <2>4. QED
    BY <2>1, <2>2, <2>3
<1> HIDE DEF rules
<1>3. ASSUME NEW r \in rules
      PROVE  FlagListsSized(Bounded(r))
  <2>1. Long(r) \subseteq DOMAIN r
    OBVIOUS
  <2> HIDE DEF Long
  <2>2. Long(r) \in SUBSET Nat /\ IsFiniteSet(Long(r))
    BY <1>2, <2>1, TextType, FS_Subset
  <2>3. \A x \in Range(Bounded(r)) : \E i \in Long(r) : x = r[i]
    BY <2>2, PickedType
  <2>4. Range(Bounded(r)) \subseteq Range(r)
    BY <2>1, <2>3 DEF Range
  <2>5. QED
    BY <1>2, <2>4 DEF FlagListsSized
<1> HIDE DEF Bounded
<1>4. QED
  BY <1>1, <1>3

LEMMA AffixRuleSized ==
  ASSUME AliasesMeasured(aliases), NEW l, IsLine(l), section.flag # {}, NEW id,
         NEW r \in ParseAffixRule(l, id)
  PROVE  RuleSized(r)
<1> DEFINE Of(c, condition) ==
             [id |-> id, kind |-> IF l.name = "PFX" THEN "prefix" ELSE "suffix",
              flag |-> CHOOSE f \in section.flag : TRUE, strip |-> EmptyMarker(Field(l, 2)),
              add |-> EmptyMarker(c.add), condition |-> condition,
              cross |-> section.cross, continuation |-> c.flags]
           tested == IF Len(l.args) > 3 THEN Field(l, 4) ELSE <<".">>
<1>1. /\ DecodeFlag(Field(l, 1), mode) = section.flag
      /\ r \in {Of(c, condition) : c \in Continuation(Field(l, 3)),
                                   condition \in ParseCondition(tested)}
  BY DEF ParseAffixRule
<1>2. \A c, x : /\ RuleShaped(Of(c, x))
                /\ Of(c, x).flag = CHOOSE f \in section.flag : TRUE
                /\ Of(c, x).condition = x /\ Of(c, x).continuation = c.flags
  BY DEF RuleShaped, Kind
<1> HIDE DEF Of, tested
<1>3. PICK c \in Continuation(Field(l, 3)) :
        \E condition \in ParseCondition(tested) : r = Of(c, condition)
  BY <1>1
<1>4. PICK condition \in ParseCondition(tested) : r = Of(c, condition)
  BY <1>3
<1>5. ConditionMeasured(condition)
  <2>1. IsText(tested)
    BY FieldIsText, SingletonText DEF tested
  <2>2. QED
    BY <2>1, ParsedConditionMeasured
<1>6. Len(r.flag) \in Nat
  <2>1. IsText(Field(l, 1))
    BY FieldIsText
  <2>2. (CHOOSE f \in section.flag : TRUE) \in section.flag
    OBVIOUS
  <2>3. QED
    BY <1>1, <1>2, <1>4, <2>1, <2>2, FlagMeasured DEF Measured
<1>7. Measured(c.flags)
  <2> DEFINE field == Field(l, 3)
  <2>1. CASE ~Has(field, "/")
    <3>1. c.flags = {}
      BY <2>1 DEF Continuation
    <3>2. QED
      BY <3>1, FS_EmptySet DEF Measured
  <2>2. CASE Has(field, "/")
    <3>1. c.flags \in EntryFlags(After(field, "/"), mode, aliases)
      BY <2>2 DEF Continuation
    <3>2. IsText(After(field, "/"))
      BY FieldIsText, AfterIsText
    <3>3. QED
      BY <3>1, <3>2, EntryFlagsMeasured DEF FlagSetsMeasured
  <2>3. QED
    BY <2>1, <2>2
<1>8. QED
  BY <1>2, <1>4, <1>5, <1>6, <1>7 DEF RuleSized

LEMMA AliasesAppended ==
  ASSUME NEW list, IsText(list), AliasesMeasured(list), NEW F, FlagSetsMeasured(F)
  PROVE  AliasesMeasured(Append(list, F))
<1> DEFINE S == Range(list) \cup {F}
           longer == Append(list, F)
<1>1. list \in Seq(S) /\ F \in S
  BY SeqMonotonic DEF IsText
<1> HIDE DEF S
<1>2. /\ longer \in Seq(S) /\ Len(longer) = Len(list) + 1
      /\ \A i \in 1..Len(list) : longer[i] = list[i]
      /\ longer[Len(list) + 1] = F
  BY <1>1, AppendProperties
<1> HIDE DEF longer
<1>3. Len(list) \in Nat /\ DOMAIN list = 1..Len(list)
  BY TextType
<1>4. DOMAIN longer = 1..(Len(list) + 1)
  BY <1>2, <1>3, LenProperties
<1>5. ASSUME NEW n \in DOMAIN longer
      PROVE  FlagSetsMeasured(longer[n])
  <2>1. CASE n = Len(list) + 1
    BY <1>2, <2>1
  <2>2. CASE n # Len(list) + 1
    <3>1. n \in 1..Len(list)
      BY <1>3, <1>4, <2>2
    <3>2. QED
      BY <1>2, <1>3, <3>1 DEF AliasesMeasured
  <2>3. QED
    BY <2>1, <2>2
<1>6. AliasesMeasured(longer)
  BY <1>5 DEF AliasesMeasured
<1>7. QED
  BY <1>6 DEF longer

(* Fields that hold one value, of a size of its own. *)
Plain == {"checkSharps", "fullStrip", "complexPrefixes"}
PlainOfCompounds ==
  {"minimum", "checkDuplicate", "checkReplacement", "checkCase", "checkTriple",
   "simplifiedTriple"}

LEMMA PlainSized ==
  /\ \A f \in Plain : \A v : FieldSized(f, v)
  /\ \A f \in PlainOfCompounds : \A v : CompoundFieldSized(f, v)
<1>1. \A f \in Plain : \A v : FieldSized(f, v)
  BY DEF Plain, FieldSized, FlagNames
<1>2. \A f \in PlainOfCompounds : \A v : CompoundFieldSized(f, v)
  BY DEF PlainOfCompounds, CompoundFieldSized, CompoundFlagNames
<1>3. QED
  BY <1>1, <1>2

LEMMA FieldKinds ==
  /\ \A x \in DOMAIN FlagFields : FlagFields[x] \in FlagNames
  /\ \A x \in DOMAIN MarkerFields : MarkerFields[x] \in Plain
  /\ \A x \in DOMAIN CharacterFields : CharacterFields[x] \in {"wordCharacters", "ignored"}
  /\ \A x \in DOMAIN CompoundFlagFields : CompoundFlagFields[x] \in CompoundFlagNames
  /\ \A x \in DOMAIN CompoundMarkerFields : CompoundMarkerFields[x] \in PlainOfCompounds
<1>1. \A x \in DOMAIN FlagFields : FlagFields[x] \in FlagNames
  BY DEF FlagFields, FlagNames
<1>2. \A x \in DOMAIN MarkerFields : MarkerFields[x] \in Plain
  BY DEF MarkerFields, Plain
<1>3. \A x \in DOMAIN CharacterFields : CharacterFields[x] \in {"wordCharacters", "ignored"}
  BY DEF CharacterFields
<1>4. \A x \in DOMAIN CompoundFlagFields : CompoundFlagFields[x] \in CompoundFlagNames
  BY DEF CompoundFlagFields, CompoundFlagNames
<1>5. \A x \in DOMAIN CompoundMarkerFields : CompoundMarkerFields[x] \in PlainOfCompounds
  BY DEF CompoundMarkerFields, PlainOfCompounds
<1>6. QED
  BY <1>1, <1>2, <1>3, <1>4, <1>5

LEMMA OneField ==
  ASSUME NEW f, NEW v
  PROVE  /\ f \in FlagNames /\ Optional(v) => FieldSized(f, v)
         /\ f \in {"wordCharacters", "ignored"} /\ IsFiniteSet(v) => FieldSized(f, v)
         /\ f = "keyboard" /\ Optional(v) => FieldSized(f, v)
         /\ f \in CompoundFlagNames /\ Optional(v) => CompoundFieldSized(f, v)
<1>1. f \in FlagNames /\ Optional(v) => FieldSized(f, v)
  BY DEF FieldSized, FlagNames
<1>2. f \in {"wordCharacters", "ignored"} /\ IsFiniteSet(v) => FieldSized(f, v)
  BY DEF FieldSized, FlagNames
<1>3. f = "keyboard" /\ Optional(v) => FieldSized(f, v)
  BY DEF FieldSized, FlagNames
<1>4. f \in CompoundFlagNames /\ Optional(v) => CompoundFieldSized(f, v)
  BY DEF CompoundFieldSized, CompoundFlagNames
<1>5. QED
  BY <1>1, <1>2, <1>3, <1>4

LEMMA DirectiveSized ==
  ASSUME StoredTyped(dictionary), Sized(dictionary), IsLine(line), Directive
  PROVE  Sized(dictionary')
<1>0. \A i : IsText(Field(line, i))
  BY FieldIsText
<1>1. ASSUME NEW valid, NEW f, NEW v, NEW severity, FieldSized(f, v),
             Store(valid, [dictionary EXCEPT ![f] = v], severity)
      PROVE  Sized(dictionary')
  BY <1>1, SizedField DEF Store
<1>2. ASSUME NEW valid, NEW f, NEW v, NEW severity, CompoundFieldSized(f, v),
             Store(valid, [dictionary EXCEPT !.compound[f] = v], severity)
      PROVE  Sized(dictionary')
  BY <1>2, SizedCompoundField DEF Store
<1>3. CASE SpecialFlag
  <2> DEFINE f == FlagFields[line.name]
             v == DecodeFlag(Field(line, 1), mode)
  <2>1. \E valid : Store(valid, [dictionary EXCEPT ![f] = v], "error")
    BY <1>3, Zenon DEF SpecialFlag
  <2>2. f \in FlagNames
    BY <1>3, FieldKinds DEF SpecialFlag
  <2>3. Optional(v)
    BY <1>0, FlagMeasured DEF Optional
  <2> HIDE DEF f, v
  <2>4. QED
    BY <1>1, <2>1, <2>2, <2>3, OneField
<1>4. CASE CompoundFlag
  <2> DEFINE f == CompoundFlagFields[line.name]
             v == DecodeFlag(Field(line, 1), mode)
  <2>1. \E valid : Store(valid, [dictionary EXCEPT !.compound[f] = v], "error")
    BY <1>4, Zenon DEF CompoundFlag
  <2>2. f \in CompoundFlagNames
    BY <1>4, FieldKinds DEF CompoundFlag
  <2>3. Optional(v)
    BY <1>0, FlagMeasured DEF Optional
  <2> HIDE DEF f, v
  <2>4. QED
    BY <1>2, <2>1, <2>2, <2>3, OneField
<1>5. CASE Marker
  <2>1. \E valid, v : Store(valid, [dictionary EXCEPT ![MarkerFields[line.name]] = v], "error")
    BY <1>5, Zenon DEF Marker
  <2>2. MarkerFields[line.name] \in Plain
    BY <1>5, FieldKinds DEF Marker
  <2>3. QED
    BY <1>1, <2>1, <2>2, PlainSized
<1>6. CASE CompoundMarker
  <2> DEFINE f == CompoundMarkerFields[line.name]
  <2>1. \E valid, v : Store(valid, [dictionary EXCEPT !.compound[f] = v], "error")
    BY <1>6, Zenon DEF CompoundMarker
  <2>2. f \in PlainOfCompounds
    BY <1>6, FieldKinds DEF CompoundMarker
  <2> HIDE DEF f
  <2>3. QED
    BY <1>2, <2>1, <2>2, PlainSized
<1>7. CASE Characters
  <2> DEFINE f == CharacterFields[line.name]
             v == Range(Field(line, 1))
  <2>1. \E valid : Store(valid, [dictionary EXCEPT ![f] = v], "error")
    BY <1>7, Zenon DEF Characters
  <2>2. f \in {"wordCharacters", "ignored"}
    BY <1>7, FieldKinds DEF Characters
  <2>3. IsFiniteSet(v)
    BY <1>0, RangeFinite
  <2> HIDE DEF f, v
  <2>4. QED
    BY <1>1, <2>1, <2>2, <2>3, OneField
<1>8. CASE Keyboard
  <2> DEFINE v == {Field(line, 1)}
  <2>1. \E valid : Store(valid, [dictionary EXCEPT !.keyboard = v], "warning")
    BY <1>8, Zenon DEF Keyboard
  <2>2. Optional(v)
    BY <1>0, TextType, FS_Singleton DEF Optional, Single, Measured
  <2> HIDE DEF v
  <2>3. FieldSized("keyboard", v)
    BY <2>2, OneField
  <2>4. QED
    BY <1>1, <2>1, <2>3
<1>9. CASE CompoundMinimum
  <2>1. \E valid, v : Store(valid, [dictionary EXCEPT !.compound.minimum = v], "error")
    BY <1>9, Zenon DEF CompoundMinimum
  <2>2. "minimum" \in PlainOfCompounds
    BY DEF PlainOfCompounds
  <2>3. QED
    BY <1>2, <2>1, <2>2, PlainSized
<1>a. CASE CompoundWordMaximum
  <2> DEFINE n == Number(Field(line, 1))
             e == [dictionary EXCEPT !.compound.maximum = n]
  <2>1. \E valid : Store(valid /\ n \subseteq 1..MaxCompoundScalars, e, "error")
    <3> DEFINE least == /\ \/ Len(line.args) = 1
                           \/ Len(line.args) = 2 /\ DecodeFlag(Field(line, 2), mode) # {}
                       /\ n # {} /\ n \subseteq 1..MaxCompoundScalars
                       /\ dictionary.compound.maximum = {}
    <3>1. Store(least, e, "error")
      BY <1>a, Zenon DEF CompoundWordMaximum
    <3>2. Store(least /\ n \subseteq 1..MaxCompoundScalars, e, "error")
      BY <3>1 DEF Store
    <3>3. QED
      BY <3>2
  <2>2. PICK valid : Store(valid /\ n \subseteq 1..MaxCompoundScalars, e, "error")
    BY <2>1
  <2>3. CASE n \subseteq 1..MaxCompoundScalars
    <3>1. Single(n) /\ 0 \notin n
      BY <2>3, NumberType
    <3> HIDE DEF n
    <3>2. CompoundFieldSized("maximum", n)
      BY <3>1 DEF CompoundFieldSized, CompoundFlagNames
    <3>3. QED
      BY <1>2, <2>2, <3>2
  <2>4. CASE ~(n \subseteq 1..MaxCompoundScalars)
    <3>1. dictionary' = dictionary
      BY <2>2, <2>4, Zenon DEF Store
    <3>2. QED
      BY <3>1
  <2>5. QED
    BY <2>3, <2>4
<1>10. CASE CompoundSyllables
  <2> DEFINE v == {[maximum |-> n, vowels |-> Range(Field(line, 2))] :
                     n \in Number(Field(line, 1))}
  <2>1. \E valid : Store(valid, [dictionary EXCEPT !.compound.syllables = v], "error")
    BY <1>10, Zenon DEF CompoundSyllables
  <2>2. Single(v)
    BY NumberType DEF Single
  <2>3. \A limit \in v : /\ limit = [maximum |-> limit.maximum, vowels |-> limit.vowels]
                         /\ IsFiniteSet(limit.vowels)
    BY <1>0, RangeFinite
  <2> HIDE DEF v
  <2>4. CompoundFieldSized("syllables", v)
    BY <2>2, <2>3 DEF CompoundFieldSized, CompoundFlagNames, SyllablesSized
  <2>5. QED
    BY <1>2, <2>1, <2>4
<1>11. CASE SetEncoding
  BY <1>11 DEF SetEncoding, Store
<1>12. CASE FlagMode \/ CaseLanguage \/ OpenGroup \/ UnknownDirective
  <2>1. \/ dictionary' = dictionary
        \/ \E v \in ModeNames : dictionary' = [dictionary EXCEPT !.mode = v]
        \/ \E v \in Languages : dictionary' = [dictionary EXCEPT !.language = v]
    <3>1. CASE FlagMode
      <4>1. \/ dictionary' = dictionary
            \/ \E v \in ModeNamed(line.args) : dictionary' = [dictionary EXCEPT !.mode = v]
        BY <3>1 DEF FlagMode
      <4>2. ModeNamed(line.args) \subseteq ModeNames
        BY DEF ModeNamed, Modes, ModeNames
      <4>3. QED
        BY <4>1, <4>2
    <3>2. CASE CaseLanguage \/ OpenGroup \/ UnknownDirective
      BY <3>2 DEF CaseLanguage, OpenGroup, UnknownDirective, Languages
    <3>3. QED
      BY <1>12, <3>1, <3>2
  <2>2. \A v \in ModeNames : FieldSized("mode", v)
    BY DEF FieldSized, FlagNames
  <2>3. \A v \in Languages : FieldSized("language", v)
    BY DEF FieldSized, FlagNames
  <2>4. QED
    BY <2>1, <2>2, <2>3, SizedField
<1>13. CASE OpenSection
  <2>1. dictionary' = dictionary \/ dictionary' = [dictionary EXCEPT !.breaks = <<>>]
    BY <1>13 DEF OpenSection
  <2>2. FieldSized("breaks", <<>>)
    BY EmptyText DEF FieldSized, FlagNames
  <2>3. QED
    BY <2>1, <2>2, SizedField
<1>14. QED
  BY <1>3, <1>4, <1>5, <1>6, <1>7, <1>8, <1>9, <1>a, <1>10, <1>11, <1>12, <1>13 DEF Directive

(* A list to which items of its own kind are appended. *)
LEMMA AppendedItems ==
  ASSUME NEW list, IsText(list), NEW items, Single(items)
  PROVE  \A x \in Range(Appended(list, items)) : x \in Range(list) \/ x \in items
  BY AppendedType

LEMMA ItemSized ==
  ASSUME NEW items, NEW stored, Item(items, stored), Sized(dictionary), Sized(stored)
  PROVE  Sized(dictionary')
  BY DEF Item

LEMMA ConversionSectionSized ==
  ASSUME StoredTyped(dictionary), Sized(dictionary), IsLine(line), Conversion
  PROVE  Sized(dictionary')
<1> DEFINE parsed == ParseConversion(Field(line, 1), Field(line, 2))
           items == IF Belongs({2}) THEN parsed ELSE {}
<1>1. Single(items)
  BY ConversionSingle DEF Single
<1>2. \A c \in items : ConversionSized(c)
  BY FieldIsText, ConversionItems
<1>3. \/ Item(items, [dictionary EXCEPT !.inputConversions = Appended(@, items)])
      \/ Item(items, [dictionary EXCEPT !.outputConversions = Appended(@, items)])
  BY Zenon DEF Conversion
<1> HIDE DEF items
<1>4. ASSUME NEW f \in {"inputConversions", "outputConversions"}
      PROVE  Sized([dictionary EXCEPT ![f] = Appended(@, items)])
  <2> DEFINE v == Appended(dictionary[f], items)
  <2>1. IsText(dictionary[f]) /\ FieldSized(f, dictionary[f])
    <3>1. f \in Tables
      BY DEF Tables
    <3>2. QED
      BY <3>1, StoredFields DEF StoredTyped, Sized
  <2>2. \A c \in Range(v) : ConversionSized(c)
    <3>1. \A c \in Range(dictionary[f]) : ConversionSized(c)
      BY <2>1 DEF FieldSized
    <3> HIDE DEF v
    <3>2. QED
      BY <1>1, <1>2, <2>1, <3>1, AppendedItems DEF v
  <2> HIDE DEF v
  <2>3. FieldSized(f, v)
    BY <2>2 DEF FieldSized, FlagNames
  <2>4. Sized([dictionary EXCEPT ![f] = v])
    BY <2>3, SizedField
  <2>5. QED
    BY <2>4 DEF v
<1>5. QED
  BY <1>3, <1>4, ItemSized

LEMMA ReplacementSectionSized ==
  ASSUME StoredTyped(dictionary), Sized(dictionary), IsLine(line), Replacement
  PROVE  Sized(dictionary')
<1> DEFINE parsed == ParseReplacementRule(Field(line, 1), Field(line, 2))
           items == IF Belongs({2}) THEN parsed ELSE {}
           v == Appended(dictionary.replacements, items)
           Fit(c) == ConversionSized(c) /\ c.to # <<>>
<1>1. Single(items)
  BY ReplacementSingle DEF Single
<1>2. \A c \in items : Fit(c)
  BY FieldIsText, ReplacementItems
<1>3. Item(items, [dictionary EXCEPT !.replacements = Appended(@, items)])
  BY Zenon DEF Replacement
<1>4. Item(items, [dictionary EXCEPT !.replacements = v])
  BY <1>3
<1> HIDE DEF items
<1>5. IsText(dictionary.replacements) /\ FieldSized("replacements", dictionary.replacements)
  BY StoredFields DEF StoredTyped, Sized, Tables
<1>6. \A c \in Range(dictionary.replacements) : Fit(c)
  BY <1>5 DEF FieldSized
<1> HIDE DEF Fit, v
<1>7. \A c \in Range(v) : Fit(c)
  BY <1>1, <1>2, <1>5, <1>6, AppendedItems DEF v
<1>8. FieldSized("replacements", v)
  BY <1>7 DEF FieldSized, FlagNames, Fit
<1>9. QED
  BY <1>4, <1>8, SizedField, ItemSized

LEMMA MapSectionSized ==
  ASSUME StoredTyped(dictionary), Sized(dictionary), IsLine(line), CharacterMap
  PROVE  Sized(dictionary')
<1> DEFINE items == {f \in {Field(line, 1)} : Belongs({1}) /\ Len(f) >= 2}
           v == Appended(dictionary.maps, items)
<1>1. Single(items)
  BY DEF Single
<1>2. \A m \in items : Len(m) \in Nat
  BY FieldIsText, TextType
<1>3. Item(items, [dictionary EXCEPT !.maps = v])
  BY Zenon DEF CharacterMap
<1> HIDE DEF items
<1>4. IsText(dictionary.maps) /\ FieldSized("maps", dictionary.maps)
  BY StoredFields DEF StoredTyped, Sized, Tables
<1>5. \A m \in Range(dictionary.maps) : Len(m) \in Nat
  BY <1>4 DEF FieldSized
<1> HIDE DEF v
<1>6. \A m \in Range(v) : Len(m) \in Nat
  BY <1>1, <1>2, <1>4, <1>5, AppendedItems DEF v
<1>7. FieldSized("maps", v)
  BY <1>6 DEF FieldSized, FlagNames
<1>8. QED
  BY <1>3, <1>7, SizedField, ItemSized

LEMMA BreakSectionSized ==
  ASSUME DictionaryTyped(dictionary), StoredTyped(dictionary), Sized(dictionary), IsLine(line), Break
  PROVE  Sized(dictionary')
<1> DEFINE parsed == ParseBreakPattern(Field(line, 1))
           items == IF Belongs({1}) THEN parsed ELSE {}
           v == Appended(dictionary.breaks, items)
<1>1. Single(items)
  BY FieldIsText, BreakItems DEF Single
<1>2. \A p \in items : BreakSized(p)
  <2>1. \A p \in parsed : p = Anchored(Field(line, 1)) /\ ~(p.atStart /\ p.atEnd)
    BY DEF ParseBreakPattern, Option
  <2>2. \E text, atStart, atEnd :
          Anchored(Field(line, 1)) = [text |-> text, atStart |-> atStart, atEnd |-> atEnd]
    BY Zenon DEF Anchored
  <2>3. QED
    BY <2>1, <2>2 DEF BreakSized
<1>3. Item(items, [dictionary EXCEPT !.breaks = Appended(@, items)])
  BY Zenon DEF Break
<1>4. Item(items, [dictionary EXCEPT !.breaks = v])
  BY <1>3
<1> HIDE DEF items
<1>5. IsText(dictionary.breaks) /\ FieldSized("breaks", dictionary.breaks)
  BY StoredFields DEF Sized, DictionaryTyped, BreaksTyped
<1>6. \A p \in Range(dictionary.breaks) : BreakSized(p)
  BY <1>5 DEF FieldSized
<1> HIDE DEF v
<1>7. \A p \in Range(v) : BreakSized(p)
  BY <1>1, <1>2, <1>5, <1>6, AppendedItems DEF v
<1>8. FieldSized("breaks", v)
  BY <1>7 DEF FieldSized, FlagNames
<1>9. QED
  BY <1>4, <1>8, SizedField, ItemSized

LEMMA PatternSectionSized ==
  ASSUME DictionaryTyped(dictionary), StoredTyped(dictionary), Sized(dictionary),
         IsLine(line), Pattern
  PROVE  Sized(dictionary')
<1> DEFINE replacement == Option(Len(line.args) = 3, Field(line, 3))
           parsed == ParseCompoundPattern(Field(line, 1), Field(line, 2), replacement, mode)
           items == IF Belongs({2, 3}) THEN parsed ELSE {}
           v == Appended(dictionary.compound.patterns, items)
<1>0. \A i : IsText(Field(line, i)) /\ (i \in DOMAIN line.args => Field(line, i) # <<>>)
  BY FieldIsText
<1>1. Item(items, [dictionary EXCEPT !.compound.patterns = Appended(@, items)])
  BY Zenon DEF Pattern
<1>2. Item(items, [dictionary EXCEPT !.compound.patterns = v])
  BY <1>1
<1>3. Optional(replacement) /\ \A t \in replacement : IsText(t) /\ t # <<>>
  <2>1. replacement \subseteq {Field(line, 3)}
    BY DEF Option
  <2>2. Single(replacement) /\ IsFiniteSet(replacement)
    BY <2>1, FS_Singleton, FS_Subset DEF Single
  <2>3. \A t \in replacement : IsText(t)
    BY <1>0, <2>1
  <2>4. Len(line.args) = 3 => 3 \in DOMAIN line.args
    BY TextType DEF IsLine
  <2>5. \A t \in replacement : t # <<>>
    BY <1>0, <2>4 DEF Option
  <2> HIDE DEF replacement
  <2>6. QED
    BY <2>2, <2>3, <2>5, TextType DEF Optional, Measured
<1> HIDE DEF replacement
<1>4. Single(items)
  BY <1>0, <1>3, PatternItems DEF Single
<1>5. \A p \in items : PatternSized(p)
  <2>1. CASE Belongs({2, 3})
    <3>1. IsText(line.args) /\ Len(line.args) \in {2, 3}
      BY <2>1 DEF Belongs, IsLine
    <3>2. 1 \in DOMAIN line.args /\ 2 \in DOMAIN line.args
      BY <3>1, TextType
    <3>3. QED
      BY <1>0, <1>3, <3>2, PatternItemsSized
  <2>2. QED
    BY <2>1
<1> HIDE DEF items
<1>6. IsText(dictionary.compound.patterns)
      /\ CompoundFieldSized("patterns", dictionary.compound.patterns)
  BY StoredFields DEF Sized, FieldSized, CompoundSized, DictionaryTyped, CompoundOptions, PatternsTyped
<1>7. \A p \in Range(dictionary.compound.patterns) : PatternSized(p)
  BY <1>6 DEF CompoundFieldSized
<1> HIDE DEF v
<1>8. \A p \in Range(v) : PatternSized(p)
  BY <1>4, <1>5, <1>6, <1>7, AppendedItems DEF v
<1>9. CompoundFieldSized("patterns", v)
  BY <1>8 DEF CompoundFieldSized, CompoundFlagNames
<1>10. QED
  BY <1>2, <1>9, SizedCompoundField, ItemSized

LEMMA RuleSectionSized ==
  ASSUME DictionaryTyped(dictionary), StoredTyped(dictionary), Sized(dictionary),
         IsLine(line), Rule
  PROVE  Sized(dictionary')
<1> DEFINE parsed == ParseCompoundRule(Field(line, 1), mode)
           rules == {r \in IF Belongs({1}) THEN parsed ELSE {} :
                       section.expansions + Len(r) <= MaxRuleExpansions}
           v == Appended(dictionary.compound.rules, rules)
<1>1. \/ dictionary' = [dictionary EXCEPT !.compound.rules = Appended(@, rules)]
      \/ dictionary' = dictionary
  BY Zenon DEF Rule
<1>2. \/ dictionary' = [dictionary EXCEPT !.compound.rules = v]
      \/ dictionary' = dictionary
  BY <1>1
<1>3. rules \subseteq parsed
  OBVIOUS
<1>4. Single(parsed) /\ \A rule \in parsed : FlagListsSized(rule)
  BY FieldIsText, CompoundRuleType, CompoundRuleFlags
<1> HIDE DEF parsed, rules
<1>5. Single(rules)
  BY <1>3, <1>4 DEF Single
<1>6. IsText(dictionary.compound.rules)
      /\ CompoundFieldSized("rules", dictionary.compound.rules)
  BY StoredFields DEF Sized, FieldSized, CompoundSized, DictionaryTyped, CompoundOptions
<1>7. \A rule \in Range(dictionary.compound.rules) : FlagListsSized(rule)
  BY <1>6 DEF CompoundFieldSized
<1> HIDE DEF v
<1>8. \A rule \in Range(v) : FlagListsSized(rule)
  BY <1>3, <1>4, <1>5, <1>6, <1>7, AppendedItems DEF v
<1>9. CompoundFieldSized("rules", v)
  BY <1>8 DEF CompoundFieldSized, CompoundFlagNames
<1>10. QED
  BY <1>2, <1>9, SizedCompoundField

LEMMA AliasSectionMeasured ==
  ASSUME IsText(aliases), AliasesMeasured(aliases), IsLine(line), FlagAlias
  PROVE  AliasesMeasured(aliases')
<1> DEFINE read == {Range(s) : s \in {x \in FlagSequence(Field(line, 1), mode) :
                                         Len(x) <= MaxFlagsPerEntry}}
           flags == IF Belongs({0}) THEN {{}} ELSE IF Belongs({1}) THEN read ELSE {}
<1>1. aliases' = Append(aliases, flags)
  BY Zenon DEF FlagAlias
<1>2. FlagSetsMeasured(read)
  BY FieldIsText, SequencesMeasured
<1> HIDE DEF read
<1>3. FlagSetsMeasured({}) /\ FlagSetsMeasured({{}})
  BY FS_EmptySet, FS_Singleton DEF FlagSetsMeasured, Measured
<1>4. FlagSetsMeasured(flags)
  BY <1>2, <1>3
<1> HIDE DEF flags
<1>5. QED
  BY <1>1, <1>4, AliasesAppended

LEMMA AffixSectionSized ==
  ASSUME DictionaryTyped(dictionary), StoredTyped(dictionary), SizedInv, IsLine(line), AffixRule
  PROVE  Sized(dictionary')
<1>1. section.flag # {}
  BY DEF AffixRule, SectionLine, SizedInv
<1>2. \/ dictionary' = dictionary
      \/ \E rule \in ParseAffixRule(line, Cardinality(dictionary.rules)) :
           dictionary' = [dictionary EXCEPT !.rules = @ \cup {rule}]
  BY Zenon DEF AffixRule
<1>3. ASSUME NEW rule \in ParseAffixRule(line, Cardinality(dictionary.rules))
      PROVE  Sized([dictionary EXCEPT !.rules = @ \cup {rule}])
  <2> DEFINE v == dictionary.rules \cup {rule}
  <2>1. RuleSized(rule)
    BY <1>1, AffixRuleSized DEF SizedInv
  <2>2. FieldSized("rules", dictionary.rules)
    BY StoredFields DEF SizedInv, Sized
  <2>3. \A r \in v : RuleSized(r)
    BY <2>1, <2>2 DEF FieldSized
  <2> HIDE DEF v
  <2>4. FieldSized("rules", v)
    BY <2>3 DEF FieldSized, FlagNames
  <2>5. Sized([dictionary EXCEPT !.rules = v])
    BY <2>4, SizedField DEF SizedInv
  <2>6. QED
    BY <2>5 DEF v
<1>4. QED
  BY <1>2, <1>3 DEF SizedInv

LEMMA UnreadSize ==
  ASSUME SizedInv, dictionary' = dictionary, aliases' = aliases, section' \in {section, NoSection}
  PROVE  SizedInv'
<1>1. section' = section \/ section' = NoSection
  OBVIOUS
<1>2. "name" \in DOMAIN NoSection /\ NoSection.name \notin {"PFX", "SFX"}
  BY DEF NoSection
<1>3. QED
  BY <1>1, <1>2 DEF SizedInv

LEMMA DirectiveSizedInv ==
  ASSUME StoredTyped(dictionary), SizedInv, IsLine(line), Directive
  PROVE  SizedInv'
<1>1. Sized(dictionary')
  BY DirectiveSized DEF SizedInv
<1>2. aliases' = aliases
  BY DEF Directive, SpecialFlag, CompoundFlag, Marker, CompoundMarker, Characters,
     Keyboard, CompoundMinimum, CompoundWordMaximum, CompoundSyllables, SetEncoding, FlagMode,
     CaseLanguage, OpenSection, OpenGroup, UnknownDirective, TopLine
<1>3. /\ "name" \in DOMAIN NoSection /\ NoSection.name \notin {"PFX", "SFX"}
  BY DEF NoSection
<1>4. CASE OpenGroup
  <2>1. \/ section' \in {section, NoSection}
        \/ \E left, cross : section' = [name |-> line.name, left |-> left, header |-> at,
                                        flag |-> DecodeFlag(Field(line, 1), mode),
                                        cross |-> cross]
             /\ DecodeFlag(Field(line, 1), mode) # {}
    BY <1>4 DEF OpenGroup
  <2>2. QED
    BY <1>1, <1>2, <1>3, <2>1 DEF SizedInv
<1>5. CASE OpenSection
  <2>1. line.name \in DOMAIN Counted
    BY <1>5 DEF OpenSection
  <2>2. line.name \notin {"PFX", "SFX"}
    BY <2>1 DEF Counted
  <2>3. \/ section' \in {section, NoSection}
        \/ \E left : section' = [name |-> line.name, left |-> left, header |-> at,
                                 expansions |-> 0]
    BY <1>5, Zenon DEF OpenSection, Open
  <2>4. QED
    BY <1>1, <1>2, <1>3, <2>2, <2>3 DEF SizedInv
<1>6. CASE ~OpenGroup /\ ~OpenSection
  <2>1. section' = section
    BY <1>6 DEF Directive, SpecialFlag, CompoundFlag, Marker, CompoundMarker, Characters,
       Keyboard, CompoundMinimum, CompoundWordMaximum, CompoundSyllables, SetEncoding, FlagMode,
       CaseLanguage, UnknownDirective, Simple
  <2>2. QED
    BY <1>1, <1>2, <2>1 DEF SizedInv
<1>7. QED
  BY <1>4, <1>5, <1>6

LEMMA SectionSizedInv ==
  ASSUME DictionaryTyped(dictionary), StoredInv, SizedInv, IsLine(line), InSection
  PROVE  SizedInv'
<1>1. Sized(dictionary')
  <2>1. StoredTyped(dictionary) /\ Sized(dictionary)
    BY DEF StoredInv, SizedInv
  <2>2. CASE FlagAlias \/ MorphologyAlias
    BY <2>1, <2>2 DEF FlagAlias, MorphologyAlias
  <2>3. CASE Conversion \/ Replacement \/ CharacterMap \/ Break
    BY <2>1, <2>3, ConversionSectionSized, ReplacementSectionSized, MapSectionSized,
       BreakSectionSized
  <2>4. CASE Pattern \/ Rule \/ AffixRule
    BY <2>1, <2>4, PatternSectionSized, RuleSectionSized, AffixSectionSized
  <2>5. QED
    BY <2>2, <2>3, <2>4 DEF InSection
<1>2. AliasesMeasured(aliases')
  <2>1. CASE FlagAlias
    BY <2>1, AliasSectionMeasured DEF StoredInv, SizedInv
  <2>2. CASE ~FlagAlias
    <3>1. aliases' = aliases
      BY <2>2, Zenon DEF InSection, Conversion, Replacement, CharacterMap, Break, Pattern, Rule,
         MorphologyAlias, AffixRule, Item
    <3>2. QED
      BY <3>1 DEF SizedInv
  <2>3. QED
    BY <2>1, <2>2
<1>3. \/ section' = NoSection
      \/ \E left : section' = [section EXCEPT !.left = left]
      \/ \E left, more : section' = [section EXCEPT !.left = left, !.expansions = more]
  BY Zenon DEF InSection, Conversion, Replacement, CharacterMap, Break, Pattern, Rule,
     FlagAlias, MorphologyAlias, AffixRule, Item, CloseOne
<1>4. "name" \in DOMAIN NoSection /\ NoSection.name \notin {"PFX", "SFX"}
  BY DEF NoSection
<1>5. ASSUME section' # NoSection
      PROVE  /\ DOMAIN section' = DOMAIN section /\ section'.name = section.name
             /\ "flag" \in DOMAIN section => section'.flag = section.flag
  <2>1. "name" \in DOMAIN section
    BY DEF SizedInv
  <2>2. CASE \E left : section' = [section EXCEPT !.left = left]
    BY <2>1, <2>2
  <2>3. CASE \E left, more : section' = [section EXCEPT !.left = left, !.expansions = more]
    BY <2>1, <2>3
  <2>4. QED
    BY <1>3, <1>5, <2>2, <2>3, Zenon
<1>6. QED
  BY <1>1, <1>2, <1>4, <1>5 DEF SizedInv

LEMMA EndOfAffSized ==
  ASSUME StoredTyped(dictionary), EntriesTyped(dictionary), SizedInv, EndOfAff
  PROVE  SizedInv'
<1> DEFINE rules == {WithoutIgnored(r) : r \in dictionary.rules}
<1>1. /\ dictionary' = [dictionary EXCEPT !.rules = rules]
      /\ aliases' = aliases /\ section' = NoSection
  BY Zenon DEF EndOfAff
<1>2. ASSUME NEW r \in dictionary.rules
      PROVE  RuleSized(WithoutIgnored(r))
  <2>1. RuleSized(r)
    BY StoredFields DEF SizedInv, Sized, FieldSized
  <2>2. RuleShaped(r)
    BY <2>1 DEF RuleSized
  <2>3. /\ RuleShaped(WithoutIgnored(r))
        /\ WithoutIgnored(r).flag = r.flag /\ WithoutIgnored(r).condition = r.condition
        /\ WithoutIgnored(r).continuation = r.continuation
    <3> DEFINE Of(strip, add) == [r EXCEPT !.strip = strip, !.add = add]
    <3>1. \E strip, add : WithoutIgnored(r) = Of(strip, add)
      BY Zenon DEF WithoutIgnored
    <3>2. PICK strip, add : WithoutIgnored(r) = Of(strip, add)
      BY <3>1
    <3>3. Of(strip, add) = [id |-> r.id, kind |-> r.kind, flag |-> r.flag, strip |-> strip,
                            add |-> add, condition |-> r.condition, cross |-> r.cross,
                            continuation |-> r.continuation]
      <4>1. PICK a, b, c, e, f, g, h, i :
              r = [id |-> a, kind |-> b, flag |-> c, strip |-> e, add |-> f,
                   condition |-> g, cross |-> h, continuation |-> i]
        BY <2>2 DEF RuleShaped
      <4>2. /\ r.id = a /\ r.kind = b /\ r.flag = c /\ r.condition = g /\ r.cross = h
            /\ r.continuation = i
        BY <4>1
      <4>3. Of(strip, add) = [id |-> a, kind |-> b, flag |-> c, strip |-> strip, add |-> add,
                              condition |-> g, cross |-> h, continuation |-> i]
        <5> DEFINE D == {"id", "kind", "flag", "strip", "add", "condition", "cross",
                         "continuation"}
                   made == [id |-> a, kind |-> b, flag |-> c, strip |-> strip, add |-> add,
                            condition |-> g, cross |-> h, continuation |-> i]
                   old == [id |-> a, kind |-> b, flag |-> c, strip |-> e, add |-> f,
                           condition |-> g, cross |-> h, continuation |-> i]
        <5>1. made = [x \in D |-> made[x]] /\ DOMAIN old = D
          OBVIOUS
        <5>2. \A x \in D : made[x] = IF x = "strip" THEN strip ELSE IF x = "add" THEN add ELSE old[x]
          OBVIOUS
        <5>3. r = old
          BY <4>1
        <5> HIDE DEF made, old
        <5>4. Of(strip, add) =
                [x \in D |-> IF x = "strip" THEN strip ELSE IF x = "add" THEN add ELSE old[x]]
          BY <5>1, <5>3
        <5>5. Of(strip, add) = made
          BY <5>1, <5>2, <5>4
        <5>6. QED
          BY <5>5 DEF made
      <4> HIDE DEF Of
      <4>4. QED
        BY <4>2, <4>3
    <3> HIDE DEF Of
    <3>4. r.kind \in Kind
      BY <2>2 DEF RuleShaped
    <3>5. QED
      BY <3>2, <3>3, <3>4 DEF RuleShaped
  <2>4. QED
    BY <2>1, <2>3 DEF RuleSized
<1>3. \A r \in rules : RuleSized(r)
  BY <1>2
<1> HIDE DEF rules
<1>4. FieldSized("rules", rules)
  BY <1>3 DEF FieldSized, FlagNames
<1>5. Sized(dictionary')
  BY <1>1, <1>4, SizedField DEF SizedInv
<1>6. "name" \in DOMAIN NoSection /\ NoSection.name \notin {"PFX", "SFX"}
  BY DEF NoSection
<1>7. QED
  BY <1>1, <1>5, <1>6 DEF SizedInv

(* What stands behind the slash of an entry. *)
LEMMA EntryFlagTexts ==
  ASSUME NEW field, IsText(field)
  PROVE  LET flags == SplitEntry(field).flags
         IN Single(flags) /\ \A f \in flags : IsText(f)
<1>1. \/ SplitEntry(field).flags = {}
      \/ \E i : SplitEntry(field).flags = {SubSeq(field, i + 1, Len(field))} /\ i \in Int
  <2> DEFINE escaped[i \in 0..Len(field)] ==
               i > 0 /\ i < Len(field) + 1 /\ field[i] = "\\" /\ ~escaped[i - 1]
             slashes == {i \in DOMAIN field : field[i] = "/" /\ ~escaped[i - 1]}
  <2>1. SplitEntry(field).flags = IF slashes = {} THEN {}
                                  ELSE {SubSeq(field, Min(slashes) + 1, Len(field))}
    BY DEF SplitEntry
  <2>2. slashes \in SUBSET Nat
    BY TextType
  <2> HIDE DEF escaped, slashes
  <2>3. CASE slashes # {}
    <3>1. \E i \in slashes : \A j \in slashes : i <= j
      BY <2>2, <2>3, LeastNumber
    <3>2. Min(slashes) \in slashes
      BY <3>1 DEF Min
    <3>3. Min(slashes) \in Nat
      BY <2>2, <3>2
    <3>4. QED
      BY <2>1, <2>3, <3>3
  <2>4. QED
    BY <2>1, <2>3
<1>2. \A i \in Int : IsText(SubSeq(field, i + 1, Len(field)))
  BY PartIsText, TextType
<1>3. QED
  BY <1>1, <1>2 DEF Single

LEMMA EntryFlagsSized ==
  ASSUME AliasesMeasured(aliases), NEW field, IsText(field), NEW morphology
  PROVE  FlagSetsMeasured(FlagsOfEntry(SplitEntry(field), morphology))
<1> DEFINE split == SplitEntry(field)
           F == FlagsOfEntry(split, morphology)
<1>1. Single(split.flags) /\ \A f \in split.flags : IsText(f)
  BY EntryFlagTexts
<1> HIDE DEF split
<1>2. FlagSetsMeasured({}) /\ FlagSetsMeasured({{}})
  BY FS_EmptySet, FS_Singleton DEF FlagSetsMeasured, Measured
<1>3. ASSUME split.flags = {}
      PROVE  FlagSetsMeasured(F)
  BY <1>2, <1>3 DEF FlagsOfEntry
<1>4. ASSUME split.flags = {<<>>}
      PROVE  FlagSetsMeasured(F)
  <2>1. F = {} \/ F = {{}}
    BY <1>4 DEF FlagsOfEntry, Option
  <2>2. QED
    BY <1>2, <2>1
<1>5. ASSUME split.flags # {}, split.flags # {<<>>}
      PROVE  FlagSetsMeasured(F)
  <2>1. PICK f \in split.flags : split.flags = {f}
    BY <1>1, <1>5 DEF Single
  <2>2. F = EntryFlags(f, mode, aliases)
    BY <1>5, <2>1 DEF FlagsOfEntry
  <2>3. QED
    BY <1>1, <2>2, EntryFlagsMeasured
<1>6. FlagSetsMeasured(F)
  BY <1>3, <1>4, <1>5
<1>7. QED
  BY <1>6 DEF split

LEMMA EntrySized ==
  ASSUME StoredTyped(dictionary), EntriesInv, SizedInv, Entry
  PROVE  SizedInv'
<1> DEFINE field == entry.args[1]
           stem == Kept(SplitEntry(field).stem, dictionary.ignored)
           flags == IF stem = <<>> THEN {} ELSE FlagsOfEntry(SplitEntry(field), Tail(entry.args))
           more == {[stem |-> stem, flags |-> f] : f \in flags}
<1>1. /\ phase = "dic" /\ at <= Len(source.dic) /\ aliases' = aliases /\ section' = section
      /\ ~IsIgnoredEntry(entry)
      /\ \/ dictionary' = dictionary
         \/ dictionary' = [dictionary EXCEPT !.lexemes = @ \cup more]
  BY Zenon DEF Entry, DicLine
<1>2. IsText(field)
  <2>1. at \in Nat \ {0} /\ IsText(source.dic)
    BY <1>1 DEF EntriesInv, IsFile
  <2>2. at \in DOMAIN source.dic
    BY <1>1, <2>1, TextType
  <2>3. IsLine(entry)
    BY <2>2 DEF entry, Range, EntriesInv, IsFile
  <2>4. IsText(entry.args) /\ entry.args # <<>>
    BY <1>1, <2>3 DEF IsLine, IsIgnoredEntry
  <2>5. 1 \in DOMAIN entry.args
    <3>1. DOMAIN entry.args = 1..Len(entry.args) /\ Len(entry.args) \in Nat /\ Len(entry.args) # 0
      BY <2>4, TextType, EmptySeq DEF IsText
    <3>2. QED
      BY <3>1
  <2>6. QED
    BY <2>3, <2>5 DEF IsLine, Range
<1>3. Len(stem) \in Nat
  BY <1>2, StemIsText, KeptIsText, TextType
<1>4. FlagSetsMeasured(flags)
  <2>1. FlagSetsMeasured({})
    BY FS_EmptySet DEF FlagSetsMeasured
  <2>2. FlagSetsMeasured(FlagsOfEntry(SplitEntry(field), Tail(entry.args)))
    BY <1>2, EntryFlagsSized DEF SizedInv
  <2>3. QED
    BY <2>1, <2>2
<1> HIDE DEF stem, flags
<1>5. LexemesSized(more)
  <2>1. IsFiniteSet(more)
    <3> DEFINE f == [x \in flags |-> [stem |-> stem, flags |-> x]]
    <3>1. f \in Surjection(flags, more)
      BY DEF Surjection
    <3> HIDE DEF f
    <3>2. QED
      BY <1>4, <3>1, FS_Surjection DEF FlagSetsMeasured
  <2>2. \A l \in more : /\ l = [stem |-> l.stem, flags |-> l.flags]
                        /\ Len(l.stem) \in Nat /\ Measured(l.flags)
    BY <1>3, <1>4 DEF FlagSetsMeasured
  <2>3. QED
    BY <2>1, <2>2 DEF LexemesSized
<1> HIDE DEF more
<1>6. LexemesSized(dictionary.lexemes)
  BY StoredFields DEF SizedInv, Sized, FieldSized
<1> DEFINE v == dictionary.lexemes \cup more
<1>7. LexemesSized(v)
  BY <1>5, <1>6, FS_Union DEF LexemesSized
<1>8. dictionary' \in {dictionary, [dictionary EXCEPT !.lexemes = v]}
  BY <1>1
<1> HIDE DEF v
<1>9. FieldSized("lexemes", v)
  BY <1>7 DEF FieldSized, FlagNames
<1>10. Sized(dictionary')
  BY <1>8, <1>9, SizedField DEF SizedInv
<1>11. QED
  BY <1>1, <1>10 DEF SizedInv

LEMMA ImportSized ==
  ASSUME ImportInv, EntriesInv, StoredInv, SizedInv, ImportNext
  PROVE  SizedInv'
<1>1. DictionaryTyped(dictionary) /\ StoredTyped(dictionary) /\ EntriesTyped(dictionary)
  BY DEF ImportInv, StoredInv, EntriesInv
<1>2. CASE ReadBytes \/ SkipLine \/ SkipEntry \/ CountLine \/ TooManyEntries \/ Finish
  <2>1. dictionary' = dictionary /\ aliases' = aliases /\ section' = section
    BY <1>2 DEF ReadBytes, SkipLine, SkipEntry, CountLine, TooManyEntries, Finish, DicLine
  <2>2. QED
    BY <2>1, UnreadSize
<1>3. CASE Directive \/ InSection
  <2>1. phase = "aff" /\ at <= Len(source.aff)
    <3>1. CASE Directive
      BY <3>1 DEF Directive, SpecialFlag, CompoundFlag, Marker, CompoundMarker, Characters,
         Keyboard, CompoundMinimum, CompoundWordMaximum, CompoundSyllables, SetEncoding, FlagMode,
         CaseLanguage, OpenSection, OpenGroup, UnknownDirective, TopLine
    <3>2. CASE InSection
      <4>1. \E name : SectionLine(name)
        BY <3>2, Zenon DEF InSection, Conversion, Replacement, CharacterMap, Break, Pattern, Rule,
           FlagAlias, MorphologyAlias, AffixRule
      <4>2. QED
        BY <4>1 DEF SectionLine
    <3>3. QED
      BY <1>3, <3>1, <3>2
  <2>2. IsLine(line)
    <3>1. at \in Nat \ {0} /\ IsText(source.aff)
      BY <2>1 DEF ImportInv, IsFile
    <3>2. at \in DOMAIN source.aff
      BY <2>1, <3>1, TextType
    <3>3. line \in Range(source.aff)
      BY <3>2 DEF line, Range
    <3>4. QED
      BY <3>3 DEF ImportInv, IsFile
  <2>3. QED
    BY <1>1, <1>3, <2>2, DirectiveSizedInv, SectionSizedInv
<1>4. CASE EndOfAff
  BY <1>1, <1>4, EndOfAffSized
<1>5. CASE Entry
  BY <1>1, <1>5, EntrySized
<1>6. QED
  BY <1>2, <1>3, <1>4, <1>5 DEF ImportNext

LEMMA EmptySized == Sized(EmptyDictionary)
<1>1. CompoundSized(EmptyCompound)
  <2>1. ASSUME NEW f \in DOMAIN EmptyCompound
        PROVE  CompoundFieldSized(f, EmptyCompound[f])
    <3>1. CASE f \in CompoundFlagNames \cup {"syllables", "maximum"}
      <4>1. EmptyCompound[f] = {}
        BY <3>1 DEF EmptyCompound, CompoundFlagNames
      <4>2. f \notin {"rules", "patterns"}
        BY <3>1 DEF CompoundFlagNames
      <4>3. QED
        BY <4>1, <4>2, FS_EmptySet DEF CompoundFieldSized, Optional, Single, Measured,
           SyllablesSized
    <3>2. CASE f \in {"rules", "patterns"}
      <4>1. EmptyCompound[f] = <<>>
        BY <3>2 DEF EmptyCompound
      <4>2. f \notin CompoundFlagNames \cup {"syllables", "maximum"}
        BY <3>2 DEF CompoundFlagNames
      <4>3. QED
        BY <4>1, <4>2, EmptyText DEF CompoundFieldSized
    <3>3. CASE f \notin CompoundFlagNames \cup {"syllables", "maximum", "rules", "patterns"}
      BY <3>3 DEF CompoundFieldSized
    <3>4. QED
      BY <3>1, <3>2, <3>3
  <2>2. EmptyCompound = [f \in DOMAIN EmptyCompound |-> EmptyCompound[f]]
    BY DEF EmptyCompound
  <2>3. QED
    BY <2>1, <2>2 DEF CompoundSized
<1> DEFINE sets == FlagNames \cup {"keyboard", "wordCharacters", "ignored", "lexemes", "rules"}
           lists == {"maps", "inputConversions", "outputConversions", "replacements"}
<1>2. ASSUME NEW f \in DOMAIN EmptyDictionary
      PROVE  FieldSized(f, EmptyDictionary[f])
  <2>1. CASE f \in sets
    <3>1. EmptyDictionary[f] = {}
      BY <2>1 DEF EmptyDictionary, FlagNames
    <3>2. f \notin lists \cup {"breaks", "compound", "language", "mode"}
      BY <2>1 DEF FlagNames
    <3> HIDE DEF sets
    <3>3. QED
      BY <3>1, <3>2, FS_EmptySet DEF FieldSized, Optional, Single, Measured, LexemesSized
  <2>2. CASE f \in lists
    <3>1. EmptyDictionary[f] = <<>>
      BY <2>2 DEF EmptyDictionary
    <3>2. f \notin sets \cup {"breaks", "compound", "language", "mode"}
      BY <2>2 DEF FlagNames
    <3>3. QED
      BY <3>1, <3>2, EmptyText DEF FieldSized
  <2>3. CASE f = "compound"
    <3>1. EmptyDictionary[f] = EmptyCompound
      BY <2>3 DEF EmptyDictionary
    <3>2. QED
      BY <1>1, <2>3, <3>1 DEF FieldSized, FlagNames
  <2>4. CASE f = "breaks"
    <3>1. EmptyDictionary[f] = DefaultBreaks
      BY <2>4 DEF EmptyDictionary
    <3>2. \A p \in Range(DefaultBreaks) : BreakSized(p)
      BY DEF DefaultBreaks, Range, BreakSized
    <3>3. QED
      BY <2>4, <3>1, <3>2 DEF FieldSized, FlagNames
  <2>5. CASE f = "language"
    <3>1. EmptyDictionary[f] \in Languages
      BY <2>5 DEF EmptyDictionary, Languages
    <3>2. QED
      BY <2>5, <3>1 DEF FieldSized, FlagNames
  <2>6. CASE f = "mode"
    <3>1. EmptyDictionary[f] \in ModeNames
      BY <2>6 DEF EmptyDictionary, ModeNames
    <3>2. QED
      BY <2>6, <3>1 DEF FieldSized, FlagNames
  <2>7. CASE f \notin sets \cup lists \cup {"compound", "breaks", "language", "mode"}
    BY <2>7 DEF FieldSized
  <2>8. QED
    BY <2>1, <2>2, <2>3, <2>4, <2>5, <2>6, <2>7
<1>3. EmptyDictionary = [f \in DOMAIN EmptyDictionary |-> EmptyDictionary[f]]
  BY DEF EmptyDictionary
<1>4. QED
  BY <1>2, <1>3 DEF Sized

LEMMA SizedStarts ==
  ASSUME Init
  PROVE  SizedInv
<1>1. dictionary = EmptyDictionary /\ aliases = <<>> /\ section = NoSection
  BY DEF Init, ImportInit
<1>2. AliasesMeasured(<<>>)
  BY DEF AliasesMeasured
<1>3. "name" \in DOMAIN NoSection /\ NoSection.name \notin {"PFX", "SFX"}
  BY DEF NoSection
<1>4. QED
  BY <1>1, <1>2, <1>3, EmptySized DEF SizedInv

(* What the importer makes of the sources, whatever they say.              *)
SourcesInv == ImportInv /\ EntriesInv /\ StoredInv /\ SizedInv

LEMMA SourcesStart ==
  ASSUME Init
  PROVE  SourcesInv
<1>1. /\ {"aff", "dic"} \subseteq DOMAIN source /\ IsFile(source.aff) /\ IsFile(source.dic)
      /\ at = 1 /\ phase = "bytes" /\ dictionary = EmptyDictionary
  BY CasesAreTexts DEF Init, ImportInit
<1>2. ImportInv /\ EntriesInv
  BY <1>1, EmptyTyped, EmptyEntries DEF ImportInv, EntriesInv
<1>3. QED
  BY <1>2, StoredStarts, SizedStarts DEF SourcesInv

LEMMA SourcesStep ==
  ASSUME SourcesInv, [Next]_vars
  PROVE  SourcesInv'
<1>1. CASE Import
  BY <1>1, ImportKeeps, ImportEntries, ImportStored, ImportSized DEF Import, SourcesInv
<1>2. CASE UNCHANGED importVars
  <2>1. ImportInv' /\ EntriesInv'
    BY <1>2 DEF importVars, SourcesInv, ImportInv, EntriesInv
  <2>2. StoredInv' /\ SizedInv'
    BY <1>2 DEF importVars, SourcesInv, StoredInv, StoredTyped, Numbered, SizedInv
  <2>3. QED
    BY <2>1, <2>2 DEF SourcesInv
<1>3. Import \/ UNCHANGED importVars
  BY Zenon DEF Next, vars, Compile, Disturb, Load, LookUp, Search, Return, Refused, Reloaded
<1>4. QED
  BY <1>1, <1>2, <1>3

LEMMA SourcesInvariant == Spec => []SourcesInv
<1>1. Init => SourcesInv
  BY SourcesStart
<1>2. SourcesInv /\ [Next]_vars => SourcesInv'
  BY SourcesStep
<1>3. QED
  BY <1>1, <1>2, PTL DEF Spec

-----------------------------------------------------------------------------
(* What is written is read back                                            *)

LEMMA TextWhole ==
  ASSUME NEW t, IsText(t)
  PROVE  t = [i \in DOMAIN t |-> t[i]]
<1> DEFINE S == Range(t)
<1>1. t \in Seq(S)
  BY DEF IsText
<1> HIDE DEF S
<1>2. QED
  BY <1>1

LEMMA OptionRead ==
  ASSUME NEW option, Single(option)
  PROVE  ReadOption(WriteOption(option)) = option
<1>1. CASE option = {}
  BY <1>1 DEF ReadOption, WriteOption, Option
<1>2. CASE option # {}
  <2>1. PICK x : option = {x}
    BY <1>2 DEF Single
  <2>2. (CHOOSE y \in option : TRUE) = x
    BY <2>1
  <2>3. WriteOption(option) = << 1, x >>
    BY <1>2, <2>2 DEF WriteOption
  <2>4. QED
    BY <2>1, <2>3 DEF ReadOption, Option
<1>3. QED
  BY <1>1, <1>2

LEMMA MaximumRead ==
  ASSUME NEW option, Single(option), 0 \notin option
  PROVE  ReadMaximum(WriteMaximum(option)) = option
<1>1. CASE option = {}
  BY <1>1 DEF ReadMaximum, WriteMaximum, Option
<1>2. CASE option # {}
  <2>1. PICK x : option = {x}
    BY <1>2 DEF Single
  <2>2. WriteMaximum(option) = x
    BY <2>1 DEF WriteMaximum
  <2>3. QED
    BY <2>1, <2>2 DEF ReadMaximum, Option
<1>3. QED
  BY <1>1, <1>2

LEMMA NamesRead ==
  /\ \A m \in ModeNames : ReadFlagMode(WriteFlagMode(m)) = m
  /\ \A l \in Languages : ReadCaseLanguage(WriteCaseLanguage(l)) = l
  /\ \A kind \in Kind : ReadKind(WriteKind(kind)) = kind
<1>1. \A m \in ModeNames : ReadFlagMode(WriteFlagMode(m)) = m
  BY DEF ModeNames, WriteFlagMode, ReadFlagMode
<1>2. \A l \in Languages : ReadCaseLanguage(WriteCaseLanguage(l)) = l
  BY DEF Languages, WriteCaseLanguage, ReadCaseLanguage
<1>3. \A kind \in Kind : ReadKind(WriteKind(kind)) = kind
  BY DEF Kind, WriteKind, ReadKind
<1>4. QED
  BY <1>1, <1>2, <1>3

LEMMA AtomRead ==
  ASSUME NEW atom, AtomTyped(atom)
  PROVE  ReadAtom(WriteAtom(atom)) = atom
<1>1. atom = [members |-> atom.members, negated |-> atom.negated] /\ atom.negated \in BOOLEAN
  BY DEF AtomTyped
<1>2. CASE atom = AnyLetter
  BY <1>2 DEF WriteAtom, ReadAtom
<1>3. CASE atom # AnyLetter /\ ~atom.negated /\ Cardinality(atom.members) = 1
  <2>1. PICK c : atom.members = {c}
    BY <1>3, FS_CardinalityType, FS_Singleton DEF AtomTyped
  <2>2. WriteAtom(atom) = << 1, c >>
    BY <1>3, <2>1 DEF WriteAtom
  <2>3. atom = Literal(c)
    BY <1>1, <1>3, <2>1 DEF Literal
  <2>4. QED
    BY <2>2, <2>3 DEF ReadAtom
<1>4. CASE atom # AnyLetter /\ ~(~atom.negated /\ Cardinality(atom.members) = 1)
  <2>1. WriteAtom(atom) = << 2, atom.negated, atom.members >>
    BY <1>4 DEF WriteAtom
  <2>2. ReadAtom(<< 2, atom.negated, atom.members >>) =
          [negated |-> atom.negated, members |-> atom.members]
    BY DEF ReadAtom
  <2>3. QED
    BY <1>1, <2>1, <2>2
<1>5. QED
  BY <1>2, <1>3, <1>4

LEMMA ConditionRead ==
  ASSUME NEW c, ConditionMeasured(c)
  PROVE  ReadCondition(WriteCondition(c)) = c
<1> DEFINE written == Each(c.atoms, WriteAtom)
           before == {WriteAtom(a) : a \in c.notBefore}
           option == WriteOption(before)
<1>1. /\ c = [atoms |-> c.atoms, notBefore |-> c.notBefore, anchored |-> c.anchored]
      /\ IsText(c.atoms) /\ \A atom \in Range(c.atoms) : AtomTyped(atom)
      /\ Single(c.notBefore) /\ \A atom \in c.notBefore : AtomTyped(atom)
  BY DEF ConditionMeasured, AtomsMeasured
<1>2. Each(written, ReadAtom) = c.atoms
  <2>1. \A i \in DOMAIN c.atoms : ReadAtom(WriteAtom(c.atoms[i])) = c.atoms[i]
    BY <1>1, AtomRead DEF Range
  <2>2. c.atoms = [i \in DOMAIN c.atoms |-> c.atoms[i]]
    BY <1>1, TextWhole
  <2>3. Each(written, ReadAtom) = [i \in DOMAIN c.atoms |-> ReadAtom(WriteAtom(c.atoms[i]))]
    BY DEF Each
  <2>4. QED
    BY <2>1, <2>2, <2>3
<1>3. {ReadAtom(a) : a \in ReadOption(option)} = c.notBefore
  <2>1. Single(before)
    BY <1>1 DEF Single
  <2> HIDE DEF before
  <2>2. ReadOption(option) = before
    BY <2>1, OptionRead
  <2> HIDE DEF option
  <2>3. {ReadAtom(a) : a \in before} = {ReadAtom(WriteAtom(a)) : a \in c.notBefore}
    BY DEF before
  <2>4. {ReadAtom(WriteAtom(a)) : a \in c.notBefore} = c.notBefore
    BY <1>1, AtomRead
  <2>5. QED
    BY <2>2, <2>3, <2>4
<1>4. WriteCondition(c) = << c.anchored, option, written >>
  BY DEF WriteCondition
<1> HIDE DEF written, before, option
<1>5. ReadCondition(<< c.anchored, option, written >>) =
        [anchored |-> c.anchored, notBefore |-> {ReadAtom(a) : a \in ReadOption(option)},
         atoms |-> Each(written, ReadAtom)]
  BY DEF ReadCondition
<1>6. QED
  BY <1>1, <1>2, <1>3, <1>4, <1>5

LEMMA RuleRead ==
  ASSUME NEW r, RuleSized(r)
  PROVE  ReadRule(WriteRule(r)) = r
<1> DEFINE condition == WriteCondition(r.condition)
           kind == WriteKind(r.kind)
<1>1. ReadCondition(condition) = r.condition /\ ReadKind(kind) = r.kind
  BY ConditionRead, NamesRead DEF RuleSized, RuleShaped
<1>2. r = [id |-> r.id, kind |-> r.kind, flag |-> r.flag, strip |-> r.strip, add |-> r.add,
           condition |-> r.condition, cross |-> r.cross, continuation |-> r.continuation]
  BY DEF RuleSized, RuleShaped
<1>3. WriteRule(r) = << r.id, kind, r.flag, r.strip, r.add, condition, r.cross, r.continuation >>
  BY DEF WriteRule
<1> HIDE DEF condition, kind
<1>4. ReadRule(<< r.id, kind, r.flag, r.strip, r.add, condition, r.cross, r.continuation >>) =
        [id |-> r.id, kind |-> ReadKind(kind), flag |-> r.flag, strip |-> r.strip,
         add |-> r.add, condition |-> ReadCondition(condition), cross |-> r.cross,
         continuation |-> r.continuation]
  BY DEF ReadRule
<1>5. QED
  BY <1>1, <1>2, <1>3, <1>4, Zenon

LEMMA RulesRead ==
  ASSUME NEW d, \A r \in d.rules : RuleSized(r)
  PROVE  /\ {ReadRule(w) : w \in WriteRules(d, "prefix") \cup WriteRules(d, "suffix")} = d.rules
         /\ \A kind \in Kind : OfKind(WriteRules(d, kind), kind)
<1>1. \A r \in d.rules : ReadRule(WriteRule(r)) = r /\ r.kind \in Kind
  BY RuleRead DEF RuleSized, RuleShaped
<1>2. WriteRules(d, "prefix") \cup WriteRules(d, "suffix") = {WriteRule(r) : r \in d.rules}
  BY <1>1 DEF WriteRules, Kind
<1>3. {ReadRule(w) : w \in {WriteRule(r) : r \in d.rules}} = d.rules
  BY <1>1
<1>4. ASSUME NEW kind \in Kind, NEW w \in WriteRules(d, kind)
      PROVE  ReadKind(w[2]) = kind
  <2>1. PICK r \in d.rules : r.kind = kind /\ w = WriteRule(r)
    BY <1>4 DEF WriteRules
  <2>2. w[2] = WriteKind(kind)
    BY <2>1 DEF WriteRule
  <2>3. QED
    BY <2>2, NamesRead
<1>5. QED
  BY <1>2, <1>3, <1>4 DEF OfKind

LEMMA LexemesRead ==
  ASSUME NEW lexemes, LexemesSized(lexemes)
  PROVE  {ReadLexeme(w) : w \in {WriteLexeme(l) : l \in lexemes}} = lexemes
<1>1. \A l \in lexemes : ReadLexeme(WriteLexeme(l)) = l
  BY DEF LexemesSized, ReadLexeme, WriteLexeme
<1>2. QED
  BY <1>1

LEMMA ConversionsRead ==
  ASSUME NEW list, IsText(list), \A c \in Range(list) : ConversionSized(c)
  PROVE  Each(Each(list, WriteConversion), ReadConversion) = list
<1>1. ASSUME NEW c \in Range(list)
      PROVE  ReadConversion(WriteConversion(c)) = c
  <2>1. c = [from |-> c.from, to |-> c.to, atStart |-> c.atStart, atEnd |-> c.atEnd]
    BY DEF ConversionSized
  <2>2. ReadConversion(<< c.from, c.to, c.atStart, c.atEnd >>) =
          [from |-> c.from, to |-> c.to, atStart |-> c.atStart, atEnd |-> c.atEnd]
    BY DEF ReadConversion
  <2>3. QED
    BY <2>1, <2>2, Zenon DEF WriteConversion
<1>2. \A i \in DOMAIN list : ReadConversion(WriteConversion(list[i])) = list[i]
  BY <1>1 DEF Range
<1>3. list = [i \in DOMAIN list |-> list[i]]
  BY TextWhole
<1>4. Each(Each(list, WriteConversion), ReadConversion) =
        [i \in DOMAIN list |-> ReadConversion(WriteConversion(list[i]))]
  BY DEF Each
<1>5. QED
  BY <1>2, <1>3, <1>4

LEMMA BreaksRead ==
  ASSUME NEW list, IsText(list), \A p \in Range(list) : BreakSized(p)
  PROVE  Each(Each(list, WriteBreak), ReadBreak) = list
<1>1. ASSUME NEW p \in Range(list)
      PROVE  ReadBreak(WriteBreak(p)) = p
  <2>1. p = [text |-> p.text, atStart |-> p.atStart, atEnd |-> p.atEnd]
    BY DEF BreakSized
  <2>2. ReadBreak(<< p.text, p.atStart, p.atEnd >>) =
          [text |-> p.text, atStart |-> p.atStart, atEnd |-> p.atEnd]
    BY DEF ReadBreak
  <2>3. QED
    BY <2>1, <2>2, Zenon DEF WriteBreak
<1>2. \A i \in DOMAIN list : ReadBreak(WriteBreak(list[i])) = list[i]
  BY <1>1 DEF Range
<1>3. list = [i \in DOMAIN list |-> list[i]]
  BY TextWhole
<1>4. Each(Each(list, WriteBreak), ReadBreak) =
        [i \in DOMAIN list |-> ReadBreak(WriteBreak(list[i]))]
  BY DEF Each
<1>5. QED
  BY <1>2, <1>3, <1>4

LEMMA PatternsRead ==
  ASSUME NEW list, IsText(list), \A p \in Range(list) : PatternSized(p)
  PROVE  Each(Each(list, WritePattern), ReadPattern) = list
<1>1. ASSUME NEW p \in Range(list)
      PROVE  ReadPattern(WritePattern(p)) = p
  <2> DEFINE a == WriteOption(p.endingFlag)
             b == WriteOption(p.beginningFlag)
             c == WriteOption(p.replacement)
  <2>1. /\ p = [ending |-> p.ending, endingFlag |-> p.endingFlag, beginning |-> p.beginning,
                beginningFlag |-> p.beginningFlag, replacement |-> p.replacement]
        /\ Single(p.endingFlag) /\ Single(p.beginningFlag) /\ Single(p.replacement)
    BY DEF PatternSized, PartFilled, Optional
  <2>2. /\ ReadOption(a) = p.endingFlag /\ ReadOption(b) = p.beginningFlag
        /\ ReadOption(c) = p.replacement
    BY <2>1, OptionRead
  <2>3. WritePattern(p) = << p.ending, a, p.beginning, b, c >>
    BY DEF WritePattern
  <2> HIDE DEF a, b, c
  <2>4. ReadPattern(<< p.ending, a, p.beginning, b, c >>) =
          [ending |-> p.ending, endingFlag |-> ReadOption(a), beginning |-> p.beginning,
           beginningFlag |-> ReadOption(b), replacement |-> ReadOption(c)]
    BY DEF ReadPattern
  <2>5. QED
    BY <2>1, <2>2, <2>3, <2>4, Zenon
<1>2. \A i \in DOMAIN list : ReadPattern(WritePattern(list[i])) = list[i]
  BY <1>1 DEF Range
<1>3. list = [i \in DOMAIN list |-> list[i]]
  BY TextWhole
<1>4. Each(Each(list, WritePattern), ReadPattern) =
        [i \in DOMAIN list |-> ReadPattern(WritePattern(list[i]))]
  BY DEF Each
<1>5. QED
  BY <1>2, <1>3, <1>4

LEMMA SyllablesRead ==
  ASSUME NEW option, SyllablesSized(option)
  PROVE  ReadSyllables(WriteSyllables(option)) = option
<1> DEFINE pairs == {<< limit.maximum, limit.vowels >> : limit \in option}
<1>1. Single(pairs)
  BY DEF SyllablesSized, Single
<1>2. {[maximum |-> l[1], vowels |-> l[2]] : l \in pairs} = option
  <2>1. {[maximum |-> l[1], vowels |-> l[2]] : l \in pairs} =
          {[maximum |-> limit.maximum, vowels |-> limit.vowels] : limit \in option}
    <3> DEFINE Made(l) == [maximum |-> l[1], vowels |-> l[2]]
               Pair(limit) == << limit.maximum, limit.vowels >>
    <3>1. \A limit \in option :
            Made(Pair(limit)) = [maximum |-> limit.maximum, vowels |-> limit.vowels]
      OBVIOUS
    <3> HIDE DEF Made, Pair
    <3>2. {Made(l) : l \in {Pair(limit) : limit \in option}} =
            {[maximum |-> limit.maximum, vowels |-> limit.vowels] : limit \in option}
      BY <3>1
    <3>3. QED
      BY <3>2 DEF Made, Pair
  <2>2. \A limit \in option : [maximum |-> limit.maximum, vowels |-> limit.vowels] = limit
    BY DEF SyllablesSized
  <2>3. QED
    BY <2>1, <2>2
<1>3. WriteSyllables(option) = WriteOption(pairs)
  BY DEF WriteSyllables
<1> HIDE DEF pairs
<1>4. ReadOption(WriteSyllables(option)) = pairs
  BY <1>1, <1>3, OptionRead
<1>5. QED
  BY <1>2, <1>4 DEF ReadSyllables

LEMMA CompoundRead ==
  ASSUME NEW c, CompoundSized(c), IsText(c.patterns)
  PROVE  ReadCompound(WriteCompound(c)) = c
<1> DEFINE w == WriteCompound(c)
           r == ReadCompound(w)
<1>1. ASSUME NEW f \in CompoundFlagNames
      PROVE  ReadOption(WriteOption(c[f])) = c[f]
  <2>1. f \in DOMAIN EmptyCompound
    BY DEF CompoundFlagNames, EmptyCompound
  <2>2. Single(c[f])
    BY <2>1 DEF CompoundSized, CompoundFieldSized, Optional
  <2>3. QED
    BY <2>2, OptionRead
<1>2. ReadMaximum(WriteMaximum(c.maximum)) = c.maximum
  <2>1. CompoundFieldSized("maximum", c["maximum"])
    BY StoredFields DEF CompoundSized
  <2>2. QED
    BY <2>1, MaximumRead DEF CompoundFieldSized
<1>3. ReadSyllables(WriteSyllables(c.syllables)) = c.syllables
  <2>1. CompoundFieldSized("syllables", c["syllables"])
    BY StoredFields DEF CompoundSized
  <2>2. QED
    BY <2>1, SyllablesRead DEF CompoundFieldSized
<1>4. Each(Each(c.patterns, WritePattern), ReadPattern) = c.patterns
  <2>1. CompoundFieldSized("patterns", c["patterns"])
    BY StoredFields DEF CompoundSized
  <2>2. QED
    BY <2>1, PatternsRead DEF CompoundFieldSized
<1>5. /\ w[1] = WriteOption(c.flag) /\ w[2] = WriteOption(c.begin)
      /\ w[3] = WriteOption(c.middle) /\ w[4] = WriteOption(c.end)
      /\ w[5] = WriteOption(c.permit) /\ w[6] = WriteOption(c.forbid)
      /\ w[7] = WriteOption(c.forceUppercase)
  BY DEF WriteCompound
<1>6. /\ w[8] = c.minimum /\ w[9] = WriteMaximum(c.maximum) /\ w[10] = c.checkDuplicate
      /\ w[11] = c.checkReplacement /\ w[12] = c.checkCase /\ w[13] = c.checkTriple
      /\ w[14] = c.simplifiedTriple /\ w[15] = c.rules
      /\ w[16] = Each(c.patterns, WritePattern) /\ w[17] = WriteSyllables(c.syllables)
  BY DEF WriteCompound
<1> HIDE DEF w
<1>7. /\ r.flag = ReadOption(w[1]) /\ r.begin = ReadOption(w[2]) /\ r.middle = ReadOption(w[3])
      /\ r.end = ReadOption(w[4]) /\ r.permit = ReadOption(w[5]) /\ r.forbid = ReadOption(w[6])
      /\ r.forceUppercase = ReadOption(w[7]) /\ r.minimum = w[8]
      /\ r.maximum = ReadMaximum(w[9]) /\ r.checkDuplicate = w[10]
      /\ r.checkReplacement = w[11] /\ r.checkCase = w[12] /\ r.checkTriple = w[13]
      /\ r.simplifiedTriple = w[14] /\ r.rules = w[15]
      /\ r.patterns = Each(w[16], ReadPattern) /\ r.syllables = ReadSyllables(w[17])
  BY DEF ReadCompound
<1>8. r = [f \in DOMAIN EmptyCompound |-> r[f]]
  BY DEF ReadCompound, EmptyCompound
<1> HIDE DEF r
<1>9. ASSUME NEW f \in DOMAIN EmptyCompound
      PROVE  r[f] = c[f]
  <2>1. CASE f \in CompoundFlagNames
    <3>1. /\ r.flag = c.flag /\ r.begin = c.begin /\ r.middle = c.middle /\ r.end = c.end
          /\ r.permit = c.permit /\ r.forbid = c.forbid
          /\ r.forceUppercase = c.forceUppercase
      BY <1>1, <1>5, <1>7 DEF CompoundFlagNames
    <3>2. QED
      BY <2>1, <3>1 DEF CompoundFlagNames
  <2>2. CASE f \notin CompoundFlagNames
    <3>1. /\ r.minimum = c.minimum /\ r.maximum = c.maximum
          /\ r.checkDuplicate = c.checkDuplicate /\ r.checkReplacement = c.checkReplacement
          /\ r.checkCase = c.checkCase /\ r.checkTriple = c.checkTriple
          /\ r.simplifiedTriple = c.simplifiedTriple /\ r.rules = c.rules
          /\ r.patterns = c.patterns /\ r.syllables = c.syllables
      BY <1>2, <1>3, <1>4, <1>6, <1>7
    <3>2. f \in {"minimum", "maximum", "checkDuplicate", "checkReplacement", "checkCase",
                 "checkTriple", "simplifiedTriple", "rules", "patterns", "syllables"}
      BY <2>2 DEF EmptyCompound, CompoundFlagNames
    <3>3. QED
      BY <3>1, <3>2
  <2>3. QED
    BY <2>1, <2>2
<1>10. c = [f \in DOMAIN EmptyCompound |-> c[f]]
  BY DEF CompoundSized
<1>11. r = c
  BY <1>8, <1>9, <1>10
<1>12. QED
  BY <1>11 DEF r, w

(* The reader makes of what was written the dictionary it was written of.  *)
LEMMA DictionaryRead ==
  ASSUME NEW d, DictionaryTyped(d), StoredTyped(d), Sized(d)
  PROVE  ReadDictionary(WriteDictionary(d)) = d
<1> DEFINE w == WriteDictionary(d)
           r == ReadDictionary(w)
<1>0. \A f \in DOMAIN EmptyDictionary : FieldSized(f, d[f])
  BY DEF Sized
<1>1. ASSUME NEW f \in FlagNames \cup {"keyboard"}
      PROVE  ReadOption(WriteOption(d[f])) = d[f]
  <2>1. f \in DOMAIN EmptyDictionary
    BY DEF FlagNames, EmptyDictionary
  <2>2. Single(d[f])
    BY <1>0, <2>1 DEF FieldSized, Optional
  <2>3. QED
    BY <2>2, OptionRead
<1>2. /\ ReadFlagMode(WriteFlagMode(d.mode)) = d.mode
      /\ ReadCaseLanguage(WriteCaseLanguage(d.language)) = d.language
  <2>1. FieldSized("mode", d["mode"]) /\ FieldSized("language", d["language"])
    BY <1>0, StoredFields
  <2>2. QED
    BY <2>1, NamesRead DEF FieldSized
<1>3. {ReadLexeme(l) : l \in {WriteLexeme(l) : l \in d.lexemes}} = d.lexemes
  <2>1. FieldSized("lexemes", d["lexemes"])
    BY <1>0, StoredFields
  <2>2. QED
    BY <2>1, LexemesRead DEF FieldSized
<1>4. {ReadRule(x) : x \in WriteRules(d, "prefix") \cup WriteRules(d, "suffix")} = d.rules
  <2>1. FieldSized("rules", d["rules"])
    BY <1>0, StoredFields
  <2>2. QED
    BY <2>1, RulesRead DEF FieldSized
<1>5. ReadCompound(WriteCompound(d.compound)) = d.compound
  <2>1. FieldSized("compound", d["compound"])
    BY <1>0, StoredFields
  <2>2. IsText(d.compound.patterns)
    BY DEF DictionaryTyped, CompoundOptions, PatternsTyped
  <2>3. QED
    BY <2>1, <2>2, CompoundRead DEF FieldSized
<1>6. Each(Each(d.breaks, WriteBreak), ReadBreak) = d.breaks
  <2>1. FieldSized("breaks", d["breaks"])
    BY <1>0, StoredFields
  <2>2. QED
    BY <2>1, BreaksRead DEF FieldSized, DictionaryTyped, BreaksTyped
<1>7. ASSUME NEW f \in {"inputConversions", "outputConversions", "replacements"}
      PROVE  Each(Each(d[f], WriteConversion), ReadConversion) = d[f]
  <2>1. f \in Tables /\ f \in DOMAIN EmptyDictionary
    BY StoredFields DEF Tables
  <2>2. IsText(d[f]) /\ \A c \in Range(d[f]) : ConversionSized(c)
    BY <1>0, <2>1 DEF StoredTyped, FieldSized
  <2>3. QED
    BY <2>2, ConversionsRead
<1>8. /\ w[1] = WriteFlagMode(d.mode) /\ w[2] = d.caseFallback
      /\ w[3] = WriteCaseLanguage(d.language) /\ w[4] = {WriteLexeme(l) : l \in d.lexemes}
      /\ w[5] = WriteRules(d, "prefix") /\ w[6] = WriteRules(d, "suffix")
      /\ w[7] = WriteSpecialFlags(d) /\ w[8] = WriteOption(d.keyboard) /\ w[9] = d.maps
  BY DEF WriteDictionary
<1>9. /\ w[10] = WriteCompound(d.compound) /\ w[11] = Each(d.breaks, WriteBreak)
      /\ w[12] = d.wordCharacters /\ w[13] = Each(d.replacements, WriteConversion)
      /\ w[14] = d.ignored /\ w[15] = Each(d.inputConversions, WriteConversion)
      /\ w[16] = Each(d.outputConversions, WriteConversion) /\ w[17] = d.fullStrip
      /\ w[18] = d.complexPrefixes
  BY DEF WriteDictionary
<1>10. /\ w[7][1] = WriteOption(d.circumfix) /\ w[7][2] = WriteOption(d.forbidden)
       /\ w[7][3] = WriteOption(d.keepCase) /\ w[7][4] = WriteOption(d.needAffix)
       /\ w[7][5] = WriteOption(d.onlyInCompound) /\ w[7][6] = WriteOption(d.noSuggest)
       /\ w[7][7] = d.checkSharps
  BY <1>8 DEF WriteSpecialFlags
<1> HIDE DEF w
<1>11. /\ r.mode = ReadFlagMode(w[1]) /\ r.caseFallback = w[2]
       /\ r.language = ReadCaseLanguage(w[3]) /\ r.lexemes = {ReadLexeme(l) : l \in w[4]}
       /\ r.rules = {ReadRule(x) : x \in w[5] \cup w[6]} /\ r.circumfix = ReadOption(w[7][1])
       /\ r.forbidden = ReadOption(w[7][2]) /\ r.keepCase = ReadOption(w[7][3])
       /\ r.needAffix = ReadOption(w[7][4]) /\ r.onlyInCompound = ReadOption(w[7][5])
       /\ r.noSuggest = ReadOption(w[7][6]) /\ r.checkSharps = w[7][7]
       /\ r.keyboard = ReadOption(w[8]) /\ r.maps = w[9]
  BY DEF ReadDictionary
<1>12. /\ r.compound = ReadCompound(w[10]) /\ r.breaks = Each(w[11], ReadBreak)
       /\ r.wordCharacters = w[12] /\ r.replacements = Each(w[13], ReadConversion)
       /\ r.ignored = w[14] /\ r.inputConversions = Each(w[15], ReadConversion)
       /\ r.outputConversions = Each(w[16], ReadConversion) /\ r.fullStrip = w[17]
       /\ r.complexPrefixes = w[18]
  BY DEF ReadDictionary
<1>13. r = [f \in DOMAIN EmptyDictionary |-> r[f]]
  <2>1. DOMAIN r = DOMAIN EmptyDictionary
    BY DEF ReadDictionary, EmptyDictionary
  <2>2. r = [f \in DOMAIN r |-> r[f]]
    BY DEF ReadDictionary
  <2> HIDE DEF r
  <2>3. QED
    BY <2>1, <2>2
<1> HIDE DEF r
<1>14. /\ r.mode = d.mode /\ r.caseFallback = d.caseFallback /\ r.language = d.language
       /\ r.lexemes = d.lexemes /\ r.rules = d.rules
  BY <1>2, <1>3, <1>4, <1>8, <1>11
<1>15. /\ r.circumfix = d.circumfix /\ r.forbidden = d.forbidden /\ r.keepCase = d.keepCase
       /\ r.needAffix = d.needAffix /\ r.onlyInCompound = d.onlyInCompound
       /\ r.noSuggest = d.noSuggest /\ r.checkSharps = d.checkSharps
  BY <1>1, <1>10, <1>11 DEF FlagNames
<1>16. /\ r.keyboard = d.keyboard /\ r.maps = d.maps /\ r.compound = d.compound
       /\ r.breaks = d.breaks /\ r.wordCharacters = d.wordCharacters
  BY <1>1, <1>5, <1>6, <1>8, <1>9, <1>11, <1>12
<1>17. /\ r.replacements = d.replacements /\ r.ignored = d.ignored
       /\ r.inputConversions = d.inputConversions
       /\ r.outputConversions = d.outputConversions /\ r.fullStrip = d.fullStrip
       /\ r.complexPrefixes = d.complexPrefixes
  BY <1>7, <1>9, <1>12
<1>18. \A f \in DOMAIN EmptyDictionary : r[f] = d[f]
  BY <1>14, <1>15, <1>16, <1>17 DEF EmptyDictionary
<1>19. d = [f \in DOMAIN EmptyDictionary |-> d[f]]
  BY DEF Sized
<1>20. r = d
  BY <1>13, <1>18, <1>19
<1>21. QED
  BY <1>20 DEF r, w

-----------------------------------------------------------------------------
(* From the sources to the answers                                         *)

(* A cache holds what was written of the dictionary, which no line is read *)
(* into any more.                                                          *)
Written(a) == a \in CompileRuntimeCache(dictionary, "aff", "dic")

CacheInv ==
  /\ disturbance \in Disturbances \cup {"none"}
  /\ artifact = {} => disturbance = "none"
  /\ artifact # {} =>
       /\ phase = "imported"
       /\ \E a : /\ Written(a)
                 /\ artifact = {IF disturbance = "none" THEN a ELSE Disturbed(a, disturbance)}
       /\ ready => loaded = UNION {LoadRuntimeCache(a, "aff", "dic") : a \in artifact}

HunspellInv ==
  /\ ImportInv /\ CacheInv
  /\ DictionaryTyped(hunspell)
  /\ IsText(word) /\ \A w \in words : IsText(w)

LEMMA HunspellStarts ==
  ASSUME Init
  PROVE  HunspellInv
<1>1. "aff" \in DOMAIN source /\ IsFile(source.aff) /\ \A w \in words : IsText(w)
  BY CasesAreTexts DEF Init
<1>2. at = 1 /\ dictionary = EmptyDictionary /\ hunspell = EmptyDictionary /\ word = <<>>
  BY DEF Init, ImportInit, SearchInit
<1>3. CacheInv
  BY DEF Init, CacheInv
<1>4. QED
  BY <1>1, <1>2, <1>3, EmptyTyped, EmptyText DEF HunspellInv, ImportInv

(* Nothing is read once the import has ended. *)
LEMMA ImportEnds ==
  ASSUME ImportNext
  PROVE  phase # "imported"
<1>1. CASE Directive
  BY <1>1 DEF Directive, SpecialFlag, CompoundFlag, Marker, CompoundMarker, Characters,
     Keyboard, CompoundMinimum, CompoundWordMaximum, CompoundSyllables, SetEncoding, FlagMode,
     CaseLanguage, OpenSection, OpenGroup, UnknownDirective, TopLine
<1>2. CASE InSection
  <2>1. \E name : SectionLine(name)
    BY <1>2, Zenon DEF InSection, Conversion, Replacement, CharacterMap, Break, Pattern, Rule,
       FlagAlias, MorphologyAlias, AffixRule
  <2>2. QED
    BY <2>1 DEF SectionLine
<1>3. QED
  BY <1>1, <1>2 DEF ImportNext, ReadBytes, SkipLine, EndOfAff, SkipEntry, CountLine, Entry,
     TooManyEntries, Finish, DicLine

(* A cache as it is written. *)
HasHeader(a, d) ==
  /\ a.magic = "FLXHUN" /\ a.format = CacheFormat /\ a.semantics = CacheSemantics
  /\ a.aff = "aff" /\ a.dic = "dic" /\ a.content = WriteDictionary(d) /\ a.trailing = 0
  /\ DOMAIN a = {"magic", "format", "semantics", "aff", "dic", "content", "trailing",
                 "length", "checksum"}
  /\ a = Sealed(a)

LEMMA CompiledHeader ==
  ASSUME NEW d, NEW a \in CompileRuntimeCache(d, "aff", "dic")
  PROVE  HasHeader(a, d) /\ CompileRuntimeCache(d, "aff", "dic") = {a}
<1>1. \E length : a = Sealed([magic |-> "FLXHUN", format |-> CacheFormat,
                   semantics |-> CacheSemantics, aff |-> "aff", dic |-> "dic",
                   content |-> WriteDictionary(d), trailing |-> 0, length |-> length,
                   checksum |-> <<>>])
  BY Zenon DEF CompileRuntimeCache
<1>2. PICK length : a = Sealed([magic |-> "FLXHUN", format |-> CacheFormat,
                   semantics |-> CacheSemantics, aff |-> "aff", dic |-> "dic",
                   content |-> WriteDictionary(d), trailing |-> 0, length |-> length,
                   checksum |-> <<>>])
  BY <1>1
<1> DEFINE h == [magic |-> "FLXHUN", format |-> CacheFormat,
                   semantics |-> CacheSemantics, aff |-> "aff", dic |-> "dic",
                   content |-> WriteDictionary(d), trailing |-> 0, length |-> length,
                   checksum |-> <<>>]
<1>3. a = [h EXCEPT !.checksum = h]
  BY <1>2 DEF Sealed
<1>4. /\ a.magic = "FLXHUN" /\ a.format = CacheFormat /\ a.semantics = CacheSemantics
      /\ a.aff = "aff" /\ a.dic = "dic" /\ a.content = WriteDictionary(d) /\ a.trailing = 0
      /\ DOMAIN a = {"magic", "format", "semantics", "aff", "dic", "content", "trailing",
                     "length", "checksum"}
  BY <1>3
<1>5. [a EXCEPT !.checksum = <<>>] = h
  <2>1. DOMAIN a = DOMAIN h /\ h.checksum = <<>> /\ "checksum" \in DOMAIN h
    BY <1>3
  <2>2. \A x \in DOMAIN h : x # "checksum" => a[x] = h[x]
    BY <1>3
  <2>3. h = [x \in DOMAIN h |-> h[x]]
    OBVIOUS
  <2> HIDE DEF h
  <2>4. [a EXCEPT !.checksum = <<>>] = [x \in DOMAIN h |-> IF x = "checksum" THEN <<>> ELSE a[x]]
    BY <2>1
  <2>5. QED
    BY <2>1, <2>2, <2>3, <2>4
<1>6. a = Sealed(a)
  BY <1>3, <1>5 DEF Sealed
<1>7. CompileRuntimeCache(d, "aff", "dic") = {a}
  <2>1. \A b, c \in CompileRuntimeCache(d, "aff", "dic") : b = c
    BY Zenon DEF CompileRuntimeCache
  <2>2. QED
    BY <2>1
<1>8. QED
  BY <1>4, <1>6, <1>7 DEF HasHeader

LEMMA DisturbedContent ==
  ASSUME NEW d, NEW a, HasHeader(a, d), NEW how \in Disturbances, how # "damaged"
  PROVE  Disturbed(a, how).content = WriteDictionary(d)
<1>0. /\ {"content", "aff", "dic", "format", "semantics", "magic", "length", "trailing",
           "checksum"} \subseteq DOMAIN a
      /\ a.content = WriteDictionary(d)
  BY DEF HasHeader
<1>1. \/ how = "otherAff" \/ how = "otherDic" \/ how = "format" \/ how = "semantics"
      \/ how = "magic" \/ how = "cut" \/ how = "longer"
  BY DEF Disturbances
<1>2. \A b : "content" \in DOMAIN b => Sealed(b).content = b.content
  BY DEF Sealed
<1>3. CASE how = "otherAff"
  BY <1>0, <1>2, <1>3 DEF Disturbed
<1>4. CASE how = "otherDic"
  BY <1>0, <1>2, <1>4 DEF Disturbed
<1>5. CASE how = "format"
  BY <1>0, <1>2, <1>5 DEF Disturbed
<1>6. CASE how = "semantics"
  BY <1>0, <1>2, <1>6 DEF Disturbed
<1>7. CASE how = "magic"
  BY <1>0, <1>2, <1>7 DEF Disturbed
<1>8. CASE how = "cut"
  BY <1>0, <1>8 DEF Disturbed
<1>9. CASE how = "longer"
  BY <1>0, <1>2, <1>9 DEF Disturbed
<1>10. QED
  BY <1>1, <1>3, <1>4, <1>5, <1>6, <1>7, <1>8, <1>9

(* What a cache that loads says of itself. *)
Loadable(a, aff, dic) ==
  /\ Intact(a) /\ a.magic = "FLXHUN" /\ a.format = CacheFormat /\ a.semantics = CacheSemantics
  /\ a.aff = aff /\ a.dic = dic /\ a.trailing = 0

LEMMA LoadsContent ==
  ASSUME NEW a, NEW aff, NEW dic, NEW x \in LoadRuntimeCache(a, aff, dic)
  PROVE  x = ReadDictionary(a.content) /\ Loadable(a, aff, dic)
<1> DEFINE current == [format |-> CacheFormat, semantics |-> CacheSemantics,
                       aff |-> aff, dic |-> dic]
<1>1. x = ReadDictionary(a.content) /\ Metadata(a) = {current} /\ a.trailing = 0
  BY DEF LoadRuntimeCache, Option
<1>2. /\ Intact(a) /\ a.magic = "FLXHUN"
      /\ Metadata(a) = {[format |-> a.format, semantics |-> a.semantics,
                         aff |-> a.aff, dic |-> a.dic]}
  BY <1>1 DEF Metadata, Option
<1>3. current = [format |-> a.format, semantics |-> a.semantics, aff |-> a.aff, dic |-> a.dic]
  BY <1>1, <1>2
<1>4. QED
  BY <1>1, <1>2, <1>3 DEF Loadable

LEMMA LoadsAlone ==
  ASSUME NEW a
  PROVE  LoadRuntimeArtifact(a) = LoadRuntimeCache(a, a.aff, a.dic)
<1> DEFINE m == [format |-> a.format, semantics |-> a.semantics, aff |-> a.aff, dic |-> a.dic]
<1>1. Metadata(a) = {} \/ Metadata(a) = {m}
  BY DEF Metadata, Option
<1>2. CASE Metadata(a) = {m}
  BY <1>2 DEF LoadRuntimeArtifact
<1>3. CASE Metadata(a) = {}
  <2>1. LoadRuntimeCache(a, a.aff, a.dic) = {}
    BY <1>3 DEF LoadRuntimeCache, Option
  <2>2. QED
    BY <1>3, <2>1 DEF LoadRuntimeArtifact
<1>4. QED
  BY <1>1, <1>2, <1>3

LEMMA SealedFields ==
  ASSUME NEW b, NEW f, f # "checksum"
  PROVE  f \in DOMAIN b => Sealed(b)[f] = b[f]
  BY DEF Sealed

(* A disturbed cache does not load; it may on its own if its bytes and its *)
(* version are sound.                                                      *)
LEMMA DisturbedLoads ==
  ASSUME NEW d, d.caseFallback \in BOOLEAN, NEW a, HasHeader(a, d), NEW how \in Disturbances
  PROVE  /\ ~Loadable(Disturbed(a, how), "aff", "dic")
         /\ how \notin {"otherAff", "otherDic"} =>
              \A aff, dic : ~Loadable(Disturbed(a, how), aff, dic)
<1> DEFINE b == Disturbed(a, how)
<1>0. /\ {"content", "aff", "dic", "format", "semantics", "magic", "length", "trailing",
           "checksum"} \subseteq DOMAIN a
      /\ a.content = WriteDictionary(d) /\ a.trailing = 0 /\ a.format = CacheFormat
      /\ a.semantics = CacheSemantics /\ CacheFormat \in Nat /\ CacheSemantics \in Nat
  BY VersionsAreNumbers DEF HasHeader
<1>1. CASE how = "otherAff"
  <2>1. b = Sealed([a EXCEPT !.aff = "otherAff"])
    BY <1>1 DEF Disturbed
  <2>2. b.aff = "otherAff"
    BY <1>0, <2>1, SealedFields
  <2>3. QED
    BY <1>1, <2>2 DEF Loadable
<1>2. CASE how = "otherDic"
  <2>1. b = Sealed([a EXCEPT !.dic = "otherDic"])
    BY <1>2 DEF Disturbed
  <2>2. b.dic = "otherDic"
    BY <1>0, <2>1, SealedFields
  <2>3. QED
    BY <1>2, <2>2 DEF Loadable
<1>3. CASE how = "format"
  <2>1. b = Sealed([a EXCEPT !.format = @ + 1])
    BY <1>3 DEF Disturbed
  <2>2. b.format = CacheFormat + 1
    BY <1>0, <2>1, SealedFields
  <2>3. QED
    BY <1>0, <2>2 DEF Loadable
<1>4. CASE how = "semantics"
  <2>1. b = Sealed([a EXCEPT !.semantics = @ - 1])
    BY <1>4 DEF Disturbed
  <2>2. b.semantics = CacheSemantics - 1
    BY <1>0, <2>1, SealedFields
  <2>3. QED
    BY <1>0, <2>2 DEF Loadable
<1>5. CASE how = "magic"
  <2>1. b = Sealed([a EXCEPT !.magic = "other"])
    BY <1>5 DEF Disturbed
  <2>2. b.magic = "other"
    BY <1>0, <2>1, SealedFields
  <2>3. QED
    BY <2>2 DEF Loadable
<1>6. CASE how = "cut"
  <2>1. b.length = HeaderBytes
    BY <1>0, <1>6 DEF Disturbed
  <2>2. ~(HeaderBytes >= HeaderBytes + ChecksumBytes)
    BY DEF HeaderBytes, ChecksumBytes
  <2> HIDE DEF b
  <2>3. ~Intact(b)
    BY <2>1, <2>2 DEF Intact
  <2>4. QED
    BY <2>3 DEF Loadable, b
<1>7. CASE how = "longer"
  <2> DEFINE c == [a EXCEPT !.trailing = 1, !.length = @ + 1]
  <2>1. b = Sealed(c)
    BY <1>7 DEF Disturbed
  <2>2. b.trailing = 1
    <3>1. "trailing" \in DOMAIN c /\ c["trailing"] = 1
      BY <1>0
    <3> HIDE DEF b, c
    <3>2. b["trailing"] = c["trailing"]
      BY <2>1, <3>1, SealedFields
    <3>3. QED
      BY <3>1, <3>2
  <2>3. QED
    BY <2>2 DEF Loadable
<1>8. CASE how = "damaged"
  <2> DEFINE w == WriteDictionary(d)
  <2>1. w[2] = d.caseFallback /\ 2 \in DOMAIN w
    BY DEF WriteDictionary
  <2> HIDE DEF w
  <2>2. b = [a EXCEPT !.content[2] = ~@]
    BY <1>8 DEF Disturbed
  <2>3. b.checksum = a.checksum /\ b.content = [w EXCEPT ![2] = ~@]
    BY <1>0, <2>2 DEF w
  <2>4. b.content # w
    BY <2>1, <2>3
  <2>5. a.checksum.content = w
    BY <1>0 DEF HasHeader, Sealed, w
  <2>6. Sealed(b).checksum.content = b.content
    BY <1>0, <2>2 DEF Sealed
  <2> HIDE DEF b
  <2>7. ~Intact(b)
    BY <2>3, <2>4, <2>5, <2>6 DEF Intact
  <2>8. QED
    BY <2>7 DEF Loadable, b
<1>9. QED
  BY <1>1, <1>2, <1>3, <1>4, <1>5, <1>6, <1>7, <1>8 DEF Disturbances

LEMMA ImportStep ==
  ASSUME HunspellInv, Import
  PROVE  HunspellInv'
<1>1. ImportInv'
  BY ImportKeeps DEF HunspellInv, Import
<1>2. artifact = {} /\ artifact' = artifact /\ disturbance' = disturbance
  BY ImportEnds DEF HunspellInv, CacheInv, Import, cacheVars
<1>3. CacheInv'
  BY <1>2 DEF HunspellInv, CacheInv
<1>4. hunspell' = hunspell /\ word' = word /\ words' = words
  BY DEF Import, searchVars
<1>5. QED
  BY <1>1, <1>3, <1>4 DEF HunspellInv

LEMMA CompileStep ==
  ASSUME HunspellInv, Compile
  PROVE  HunspellInv'
<1>1. /\ phase = "imported" /\ artifact = {} /\ ~ready /\ ready' = (artifact' = {})
      /\ artifact' = CompileRuntimeCache(dictionary, "aff", "dic")
      /\ hunspell' = IF artifact' = {} THEN dictionary ELSE hunspell
      /\ disturbance' = disturbance /\ loaded' = loaded /\ word' = word /\ words' = words
      /\ source' = source /\ phase' = phase /\ at' = at /\ dictionary' = dictionary
  BY DEF Compile, importVars
<1>2. ImportInv' /\ DictionaryTyped(hunspell')
  BY <1>1 DEF HunspellInv, ImportInv
<1>3. disturbance = "none"
  BY <1>1 DEF HunspellInv, CacheInv
<1>4. CacheInv'
  <2>1. CASE artifact' = {}
    BY <1>1, <1>3, <2>1 DEF CacheInv
  <2>2. CASE artifact' # {}
    <3>1. PICK a : artifact' = {a} /\ Written(a)
      BY <1>1, <2>2, CompiledHeader DEF Written
    <3>2. Written(a)'
      BY <1>1, <3>1 DEF Written
    <3>3. QED
      BY <1>1, <1>3, <2>2, <3>1, <3>2 DEF CacheInv
  <2>3. QED
    BY <2>1, <2>2
<1>5. QED
  BY <1>1, <1>2, <1>4 DEF HunspellInv

LEMMA DisturbStep ==
  ASSUME HunspellInv, Disturb
  PROVE  HunspellInv'
<1>1. /\ artifact # {} /\ disturbance = "none" /\ ~ready /\ disturbance' \in Disturbances
      /\ artifact' = {Disturbed(a, disturbance') : a \in artifact} /\ ready' = ready
      /\ hunspell' = hunspell /\ word' = word /\ words' = words /\ UNCHANGED importVars
  BY DEF Disturb, searchVars
<1>2. ImportInv'
  BY <1>1 DEF HunspellInv, ImportInv, importVars
<1>3. PICK a : Written(a) /\ artifact = {a}
  BY <1>1 DEF HunspellInv, CacheInv
<1>4. Written(a)' /\ phase' = "imported"
  BY <1>1, <1>3 DEF HunspellInv, CacheInv, Written, importVars
<1>5. disturbance' # "none"
  BY <1>1 DEF Disturbances
<1>6. artifact' = {Disturbed(a, disturbance')}
  BY <1>1, <1>3
<1>7. CacheInv'
  BY <1>1, <1>4, <1>5, <1>6 DEF CacheInv
<1>8. QED
  BY <1>1, <1>2, <1>7 DEF HunspellInv

(* Only a cache as it was written loads, and it gives the dictionary.      *)
LEMMA LoadedIsCompiled ==
  ASSUME HunspellInv, SourcesInv, NEW x \in UNION {LoadRuntimeCache(a, "aff", "dic") : a \in artifact}
  PROVE  disturbance = "none" /\ x = dictionary
<1>1. PICK a : /\ Written(a)
               /\ artifact = {IF disturbance = "none" THEN a ELSE Disturbed(a, disturbance)}
  BY DEF HunspellInv, CacheInv
<1>2. HasHeader(a, dictionary)
  BY <1>1, CompiledHeader DEF Written
<1>3. /\ DictionaryTyped(dictionary) /\ StoredTyped(dictionary) /\ Sized(dictionary)
      /\ dictionary.caseFallback \in BOOLEAN
  BY DEF SourcesInv, ImportInv, StoredInv, SizedInv, DictionaryTyped
<1>4. disturbance = "none"
  <2> SUFFICES ASSUME disturbance # "none"
               PROVE  FALSE
    OBVIOUS
  <2>1. disturbance \in Disturbances
    BY DEF HunspellInv, CacheInv
  <2>2. artifact = {Disturbed(a, disturbance)}
    BY <1>1
  <2>3. ~Loadable(Disturbed(a, disturbance), "aff", "dic")
    BY <1>2, <1>3, <2>1, DisturbedLoads
  <2>4. QED
    BY <2>2, <2>3, LoadsContent
<1>5. artifact = {a}
  BY <1>1, <1>4
<1>6. x = ReadDictionary(a.content)
  BY <1>5, LoadsContent
<1>7. QED
  BY <1>2, <1>3, <1>4, <1>6, DictionaryRead DEF HasHeader

LEMMA LoadStep ==
  ASSUME HunspellInv, SourcesInv, Load
  PROVE  HunspellInv'
<1>1. /\ artifact # {} /\ ~ready /\ ready'
      /\ loaded' = UNION {LoadRuntimeCache(a, "aff", "dic") : a \in artifact}
      /\ hunspell' = IF loaded' = {} THEN dictionary ELSE CHOOSE d \in loaded' : TRUE
      /\ artifact' = artifact /\ disturbance' = disturbance
      /\ word' = word /\ words' = words /\ UNCHANGED importVars
  BY DEF Load
<1>2. ImportInv'
  BY <1>1 DEF HunspellInv, ImportInv, importVars
<1>3. PICK a : /\ Written(a)
               /\ artifact = {IF disturbance = "none" THEN a ELSE Disturbed(a, disturbance)}
  BY <1>1 DEF HunspellInv, CacheInv
<1>4. Written(a)' /\ phase' = "imported"
  BY <1>1, <1>3 DEF HunspellInv, CacheInv, Written, importVars
<1>5. CacheInv'
  BY <1>1, <1>3, <1>4 DEF HunspellInv, CacheInv
<1>6. hunspell' = dictionary
  BY <1>1, LoadedIsCompiled
<1>7. DictionaryTyped(hunspell')
  BY <1>6 DEF HunspellInv, ImportInv
<1>8. QED
  BY <1>1, <1>2, <1>5, <1>7 DEF HunspellInv

LEMMA HunspellStep ==
  ASSUME HunspellInv, SourcesInv, [Next]_vars
  PROVE  HunspellInv'
<1>1. CASE Import
  BY <1>1, ImportStep
<1>2. CASE Compile
  BY <1>2, CompileStep
<1>3. CASE Disturb
  BY <1>3, DisturbStep
<1>4. CASE Load
  BY <1>4, LoadStep
<1>5. ASSUME UNCHANGED << importVars, words, cacheVars >>, hunspell' = hunspell, IsText(word')
      PROVE  HunspellInv'
  BY <1>5 DEF HunspellInv, ImportInv, CacheInv, Written, importVars, cacheVars
<1>6. CASE LookUp
  <2>1. /\ UNCHANGED << importVars, words, cacheVars >> /\ hunspell' = hunspell
        /\ \E w \in words : word' = w
    BY <1>6 DEF LookUp, Ask
  <2>2. IsText(word')
    BY <2>1 DEF HunspellInv
  <2>3. QED
    BY <1>5, <2>1, <2>2
<1>7. CASE Search
  <2>1. hunspell' = hunspell /\ word' = word /\ UNCHANGED << importVars, words, cacheVars >>
    BY <1>7 DEF Search, SearchStep, TakeRulesOff, AllRulesOff, NextEntry, NoEntryLeft, Derive,
       EntryDone, Question
  <2>2. QED
    BY <1>5, <2>1 DEF HunspellInv
<1>8. CASE Return
  <2>1. hunspell' = hunspell /\ word' = <<>> /\ UNCHANGED << importVars, words, cacheVars >>
    BY <1>8 DEF Return, Forget
  <2>2. QED
    BY <1>5, <2>1, EmptyText
<1>9. CASE Refused \/ Reloaded \/ UNCHANGED vars
  <2>1. UNCHANGED vars
    BY <1>9 DEF Refused, Reloaded
  <2>2. UNCHANGED << importVars, words, cacheVars >> /\ hunspell' = hunspell /\ word' = word
    BY <2>1 DEF vars, searchVars
  <2>3. QED
    BY <1>5, <2>2 DEF HunspellInv
<1>10. QED
  BY <1>1, <1>2, <1>3, <1>4, <1>6, <1>7, <1>8, <1>9 DEF Next

(* The dictionary asked is what the importer made of the sources, be it    *)
(* loaded from a cache, and the spelling asked of it a text.               *)
THEOREM HunspellInvariant == Spec => []HunspellInv
<1>1. Init => HunspellInv
  BY HunspellStarts
<1>2. HunspellInv /\ SourcesInv /\ [Next]_vars => HunspellInv'
  BY HunspellStep
<1>3. QED
  BY <1>1, <1>2, SourcesInvariant, PTL DEF Spec

(* Whatever the sources and the spelling: extending a frontier of          *)
(* boundaries component by component finds a compound exactly when the     *)
(* spelling can be cut into two or more parts that are legal together.     *)
(* (matches_generic_compound, matches_fixed_compound_pattern,              *)
(* matches_positioned_compound)                                            *)
THEOREM CompoundExactCorrect == Spec => []CompoundExact
<1>1. ASSUME HunspellInv
      PROVE  CompoundExact
  <2>1. Len(word) \in Nat /\ CompoundTyped(hunspell)
    BY <1>1, TextType, TypedCompounds DEF HunspellInv
  <2>2. QED
    BY <2>1, CompoundsByCuts DEF CompoundExact
<1>2. QED
  BY <1>1, HunspellInvariant, PTL

(* A cache gives the dictionary it was compiled from or nothing, and       *)
(* nothing at all once its version or its bytes have changed, whatever the *)
(* dictionary and whatever became of the cache.  (compile_runtime_cache,   *)
(* load_runtime_cache, load_runtime_artifact)                              *)
THEOREM CacheHonestCorrect == Spec => []CacheHonest
<1>1. ASSUME HunspellInv, SourcesInv
      PROVE  CacheHonest
  <2> SUFFICES ASSUME Asked
               PROVE  /\ Standalone \subseteq (IF Whole THEN {dictionary} ELSE {})
                      /\ loaded = IF disturbance = "none" THEN Standalone ELSE {}
    BY DEF CacheHonest
  <2>1. PICK a : /\ Written(a)
                 /\ artifact = {IF disturbance = "none" THEN a ELSE Disturbed(a, disturbance)}
    BY <1>1 DEF HunspellInv, CacheInv, Asked
  <2>2. /\ HasHeader(a, dictionary) /\ dictionary.caseFallback \in BOOLEAN
        /\ ReadDictionary(WriteDictionary(dictionary)) = dictionary
    BY <1>1, <2>1, CompiledHeader, DictionaryRead
       DEF Written, SourcesInv, ImportInv, StoredInv, SizedInv, DictionaryTyped
  <2>3. loaded = UNION {LoadRuntimeCache(b, "aff", "dic") : b \in artifact}
    BY <1>1 DEF HunspellInv, CacheInv, Asked
  <2>4. CASE disturbance = "none"
    <3>1. Standalone = LoadRuntimeCache(a, "aff", "dic") /\ loaded = Standalone
      <4>1. artifact = {a} /\ a.aff = "aff" /\ a.dic = "dic"
        BY <2>1, <2>2, <2>4 DEF HasHeader
      <4>2. LoadRuntimeArtifact(a) = LoadRuntimeCache(a, "aff", "dic")
        BY <4>1, LoadsAlone
      <4>3. QED
        BY <2>3, <4>1, <4>2 DEF Standalone
    <3>2. Standalone \subseteq {dictionary}
      BY <2>2, <3>1, LoadsContent DEF HasHeader
    <3>3. QED
      BY <2>4, <3>1, <3>2 DEF Whole
  <2>5. CASE disturbance # "none"
    <3> DEFINE b == Disturbed(a, disturbance)
    <3>1. disturbance \in Disturbances /\ artifact = {b}
      BY <1>1, <2>1, <2>5 DEF HunspellInv, CacheInv
    <3>2. /\ ~Loadable(b, "aff", "dic")
          /\ ~Whole => ~Loadable(b, b.aff, b.dic)
      BY <2>2, <2>5, <3>1, DisturbedLoads DEF Whole
    <3>3. Whole => b.content = WriteDictionary(dictionary)
      BY <2>2, <2>5, <3>1, DisturbedContent DEF Whole
    <3> HIDE DEF b
    <3>4. loaded = {}
      BY <2>3, <3>1, <3>2, LoadsContent
    <3>5. Standalone = LoadRuntimeCache(b, b.aff, b.dic)
      BY <3>1, LoadsAlone DEF Standalone
    <3>6. Standalone \subseteq (IF Whole THEN {dictionary} ELSE {})
      BY <2>2, <3>2, <3>3, <3>5, LoadsContent
    <3>7. QED
      BY <2>5, <3>4, <3>6
  <2>6. QED
    BY <2>4, <2>5
<1>2. QED
  BY <1>1, HunspellInvariant, SourcesInvariant, PTL

(* Whatever the sources and the spelling: what the dictionary offers the   *)
(* suggester as a form of a stem it recognises itself.                     *)
(* (visit_related_suggestion_forms, contains)                              *)
THEOREM RelatedAreWordsCorrect == Spec => []RelatedAreWords
<1>1. ASSUME NEW form \in RelatedForms(hunspell, word)
      PROVE  ContainsNormalized(hunspell, form, TRUE)
  <2>1. PICK l \in LexemesFor(hunspell, word) :
          /\ ~Forbidden(hunspell, l.flags)
          /\ \E s \in Chains(hunspell, l) : s.form = form /\ AcceptedState(hunspell, s)
    BY DEF RelatedForms
  <2>2. l \in hunspell.lexemes /\ Usable(hunspell, l, TRUE)
    BY <2>1 DEF LexemesFor, Usable
  <2>3. DerivedWord(hunspell, form, TRUE)
    BY <2>1, <2>2 DEF DerivedWord
  <2>4. MatchesWithoutBreak(hunspell, form, TRUE)
    BY <2>3 DEF MatchesWithoutBreak
  <2>5. {form} \in {{form}} \cup BreakParts(hunspell, form)
    OBVIOUS
  <2>6. QED
    BY <2>4, <2>5 DEF ContainsNormalized
<1>2. RelatedAreWords
  BY <1>1 DEF RelatedAreWords
<1>3. QED
  BY <1>2, PTL

-----------------------------------------------------------------------------
(* Where a text occurs                                                     *)

Occurs(w, t, i) == SubSeq(w, i, i + Len(t) - 1) = t

OccurrencesFrom(w, t, f, i) ==
  IF i + Len(t) > Len(w) + 1 THEN {}
  ELSE IF Occurs(w, t, i) THEN {i} \cup f[i + Len(t)]
  ELSE f[i + 1]

(* The occurrences at or behind each of the last places.                   *)
IsOccurring(w, t, first, f) ==
  f = [i \in first..(Len(w) + 1) |-> OccurrencesFrom(w, t, f, i)]

LEMMA OccurringExists ==
  ASSUME NEW w, IsText(w), NEW t, IsText(t), Len(t) # 0
  PROVE  \A n \in Nat : n <= Len(w) => \E f : IsOccurring(w, t, Len(w) + 1 - n, f)
<1> DEFINE L == Len(w)
           S == {n \in Nat : n <= L => \E f : IsOccurring(w, t, L + 1 - n, f)}
<1>0. L \in Nat /\ Len(t) \in Nat
  BY TextType
<1>1. 0 \in S
  <2> DEFINE f == [i \in (L + 1)..(L + 1) |-> {}]
  <2>1. \A i \in (L + 1)..(L + 1) : OccurrencesFrom(w, t, f, i) = {}
    BY <1>0 DEF OccurrencesFrom
  <2>2. f = [i \in (L + 1)..(L + 1) |-> OccurrencesFrom(w, t, f, i)]
    BY <2>1
  <2> HIDE DEF f
  <2>3. IsOccurring(w, t, L + 1, f) /\ L + 1 = L + 1 - 0
    BY <1>0, <2>2 DEF IsOccurring
  <2>4. \E h : IsOccurring(w, t, L + 1 - 0, h)
    BY <2>3
  <2>5. QED
    BY <2>4
<1>2. ASSUME NEW n \in Nat, n \in S
      PROVE  n + 1 \in S
  <2> SUFFICES ASSUME n + 1 <= L
               PROVE  \E f : IsOccurring(w, t, L + 1 - (n + 1), f)
    OBVIOUS
  <2> DEFINE m == L + 1 - (n + 1)
  <2>1. PICK f : IsOccurring(w, t, m + 1, f)
    BY <1>0, <1>2
  <2>2. m \in 1..L
    BY <1>0
  <2> HIDE DEF m
  <2> DEFINE g == [i \in m..(L + 1) |-> IF i = m THEN OccurrencesFrom(w, t, f, m) ELSE f[i]]
  <2>3. \A i \in (m + 1)..(L + 1) : g[i] = f[i]
    BY <1>0, <2>2
  <2>4. g[m] = OccurrencesFrom(w, t, f, m) /\ g = [i \in m..(L + 1) |-> g[i]]
    BY <1>0, <2>2
  <2> HIDE DEF g
  <2>5. ASSUME NEW i \in m..(L + 1)
        PROVE  OccurrencesFrom(w, t, g, i) = OccurrencesFrom(w, t, f, i)
    <3>1. CASE i + Len(t) > L + 1
      BY <3>1 DEF OccurrencesFrom
    <3>2. CASE ~(i + Len(t) > L + 1)
      <4>1. i + Len(t) \in (m + 1)..(L + 1) /\ i + 1 \in (m + 1)..(L + 1)
        BY <1>0, <2>2, <3>2
      <4>2. g[i + Len(t)] = f[i + Len(t)] /\ g[i + 1] = f[i + 1]
        BY <2>3, <4>1
      <4>3. QED
        BY <4>2 DEF OccurrencesFrom
    <3>3. QED
      BY <3>1, <3>2
  <2>6. ASSUME NEW i \in m..(L + 1)
        PROVE  g[i] = OccurrencesFrom(w, t, g, i)
    <3>1. CASE i = m
      BY <2>4, <2>5, <3>1
    <3>2. CASE i # m
      <4>1. i \in (m + 1)..(L + 1)
        BY <1>0, <2>2, <3>2
      <4>2. f[i] = OccurrencesFrom(w, t, f, i)
        BY <2>1, <4>1 DEF IsOccurring
      <4>3. QED
        BY <2>3, <2>5, <4>1, <4>2
    <3>3. QED
      BY <3>1, <3>2
  <2>7. IsOccurring(w, t, m, g)
    BY <2>4, <2>6 DEF IsOccurring
  <2>8. QED
    BY <2>7 DEF m
<1> HIDE DEF S
<1>3. \A n \in Nat : n \in S
  BY <1>1, <1>2, AllNumbers
<1>4. QED
  BY <1>3 DEF S

LEMMA OccurrencesInside ==
  ASSUME NEW w, IsText(w), NEW t, IsText(t), Len(t) # 0
  PROVE  Occurrences(w, t) \subseteq 1..Len(w)
<1> DEFINE L == Len(w)
           f == CHOOSE g : IsOccurring(w, t, 1, g)
<1>0. L \in Nat /\ Len(t) \in Nat
  BY TextType
<1>1. Occurrences(w, t) = f[1]
  BY DEF Occurrences, IsOccurring, OccurrencesFrom, Occurs
<1>2. \E g : IsOccurring(w, t, 1, g)
  <2>1. \E g : IsOccurring(w, t, L + 1 - L, g)
    BY <1>0, OccurringExists
  <2>2. L + 1 - L = 1
    BY <1>0
  <2>3. QED
    BY <2>1, <2>2
<1>3. IsOccurring(w, t, 1, f)
  BY <1>2
<1> HIDE DEF f
<1> DEFINE S == {n \in Nat : \A m \in 0..n : m <= L => f[L + 1 - m] \subseteq 1..L}
<1>4. ASSUME NEW i \in 1..(L + 1), \A j \in (i + 1)..(L + 1) : f[j] \subseteq 1..L
      PROVE  f[i] \subseteq 1..L
  <2>1. f[i] = OccurrencesFrom(w, t, f, i)
    BY <1>3 DEF IsOccurring
  <2>2. CASE i + Len(t) > L + 1
    BY <2>1, <2>2 DEF OccurrencesFrom
  <2>3. CASE ~(i + Len(t) > L + 1)
    <3>1. i + Len(t) \in (i + 1)..(L + 1) /\ i + 1 \in (i + 1)..(L + 1) /\ i \in 1..L
      BY <1>0, <2>3
    <3>2. f[i + Len(t)] \subseteq 1..L /\ f[i + 1] \subseteq 1..L
      BY <1>4, <3>1
    <3>3. QED
      BY <2>1, <3>1, <3>2 DEF OccurrencesFrom
  <2>4. QED
    BY <2>2, <2>3
<1>5. 0 \in S
  <2>1. f[L + 1] \subseteq 1..L
    BY <1>0, <1>4
  <2>2. \A m \in 0..0 : L + 1 - m = L + 1
    BY <1>0
  <2>3. QED
    BY <2>1, <2>2
<1>6. ASSUME NEW n \in Nat, n \in S
      PROVE  n + 1 \in S
  <2>1. ASSUME n + 1 <= L
        PROVE  f[L + 1 - (n + 1)] \subseteq 1..L
    <3>1. ASSUME NEW j \in ((L + 1 - (n + 1)) + 1)..(L + 1)
          PROVE  f[j] \subseteq 1..L
      <4>1. L + 1 - j \in 0..n /\ L + 1 - j <= L /\ L + 1 - (L + 1 - j) = j
        BY <1>0, <2>1
      <4>2. QED
        BY <1>6, <4>1
    <3>2. L + 1 - (n + 1) \in 1..(L + 1)
      BY <1>0, <2>1
    <3>3. QED
      BY <1>4, <3>1, <3>2
  <2>2. \A m \in 0..(n + 1) : m \in 0..n \/ m = n + 1
    OBVIOUS
  <2>3. QED
    BY <1>6, <2>1, <2>2
<1> HIDE DEF S
<1>7. L \in S
  BY <1>0, <1>5, <1>6, AllNumbers
<1>8. CASE L = 0
  <2>1. f[1] = OccurrencesFrom(w, t, f, 1) /\ 1 + Len(t) > L + 1
    BY <1>0, <1>3, <1>8 DEF IsOccurring
  <2>2. QED
    BY <1>1, <2>1 DEF OccurrencesFrom
<1>9. CASE L # 0
  <2>1. L \in 0..L /\ L + 1 - L = 1
    BY <1>0
  <2>2. f[L + 1 - L] \subseteq 1..L
    BY <1>7, <2>1 DEF S
  <2>3. QED
    BY <1>1, <2>1, <2>2
<1>10. QED
  BY <1>8, <1>9

(* What a word is taken apart into, or is put together as, are texts.      *)
LEMMA ReplacedIsText ==
  ASSUME NEW w, IsText(w), NEW t, IsText(t), Len(t) # 0, NEW by, IsText(by),
         NEW i \in Occurrences(w, t)
  PROVE  IsText(Replaced(w, i, t, by))
<1>1. i \in Int /\ i - 1 \in Int /\ i + Len(t) \in Int /\ Len(w) \in Int
  <2>1. Occurrences(w, t) \subseteq 1..Len(w) /\ Len(w) \in Nat /\ Len(t) \in Nat
    BY OccurrencesInside, TextType
  <2>2. QED
    BY <2>1
<1>2. IsText(SubSeq(w, 1, i - 1)) /\ IsText(SubSeq(w, i + Len(t), Len(w)))
  BY <1>1, PartIsText
<1>3. IsText(SubSeq(w, 1, i - 1) \o by)
  BY <1>2, JoinIsText
<1>4. QED
  BY <1>2, <1>3, JoinIsText DEF Replaced

LEMMA NoEmptyText ==
  ASSUME NEW t, IsText(t), t # <<>>
  PROVE  Len(t) # 0
  BY EmptySeq DEF IsText

LEMMA TriplesAreTexts ==
  ASSUME NEW d, NEW w, IsText(w), NEW v \in SimplifiedTriples(d, w)
  PROVE  IsText(v)
<1>1. PICK i \in 2..Len(w) : v = InsertAt(w, i, w[i])
  BY DEF SimplifiedTriples
<1>2. i \in Int /\ i - 1 \in Int /\ Len(w) \in Int
  BY TextType
<1>3. IsText(SubSeq(w, 1, i - 1)) /\ IsText(SubSeq(w, i, Len(w))) /\ IsText(<<w[i]>>)
  BY <1>2, PartIsText, SingletonText
<1>4. IsText(SubSeq(w, 1, i - 1) \o <<w[i]>>)
  BY <1>3, JoinIsText
<1>5. QED
  BY <1>1, <1>3, <1>4, JoinIsText DEF InsertAt

LEMMA UndonePatternsAreTexts ==
  ASSUME NEW d, DictionaryTyped(d), NEW w, IsText(w), NEW v \in PatternReplacements(d, w)
  PROVE  IsText(v)
<1> DEFINE Found(p, by) ==
             {i \in Occurrences(w, by) :
                Cardinality({j \in Occurrences(w, by) : j <= i}) <= MaxReplacementVariants}
           Undone(p, by) == {Replaced(w, i, by, p.ending \o p.beginning) : i \in Found(p, by)}
<1>1. v \in UNION {UNION {Undone(p, by) : by \in p.replacement} : p \in Range(d.compound.patterns)}
  BY DEF PatternReplacements
<1>2. \A p, by : \A u \in Undone(p, by) : \E i \in Occurrences(w, by) :
        u = Replaced(w, i, by, p.ending \o p.beginning)
  OBVIOUS
<1> HIDE DEF Undone
<1>3. PICK p \in Range(d.compound.patterns) : \E by \in p.replacement : v \in Undone(p, by)
  BY <1>1
<1>4. PatternTyped(p)
  BY DEF DictionaryTyped, CompoundOptions, PatternsTyped
<1>5. PICK by \in p.replacement : \E i \in Occurrences(w, by) :
        v = Replaced(w, i, by, p.ending \o p.beginning)
  BY <1>3, <1>2
<1>6. IsText(by) /\ Len(by) # 0 /\ IsText(p.ending \o p.beginning)
  BY <1>4, NoEmptyText, JoinIsText DEF PatternTyped
<1>7. QED
  BY <1>5, <1>6, ReplacedIsText

LEMMA WithoutIsText ==
  ASSUME NEW w, IsText(w), NEW edge, IsText(edge), NEW kind, NEW rest \in Without(w, edge, kind)
  PROVE  IsText(rest)
<1>1. Len(edge) + 1 \in Int /\ Len(w) \in Int /\ Len(w) - Len(edge) \in Int
  BY TextType
<1>2. rest = SubSeq(w, Len(edge) + 1, Len(w)) \/ rest = SubSeq(w, 1, Len(w) - Len(edge))
  BY Zenon DEF Without
<1>3. IsText(SubSeq(w, Len(edge) + 1, Len(w))) /\ IsText(SubSeq(w, 1, Len(w) - Len(edge)))
  BY <1>1, PartIsText
<1>4. QED
  BY <1>2, <1>3

LEMMA BreakPartsAreTexts ==
  ASSUME NEW d, DictionaryTyped(d), NEW w, IsText(w), NEW parts \in BreakParts(d, w),
         NEW part \in parts
  PROVE  IsText(part)
<1>1. PICK p \in Range(d.breaks) :
        \/ part \in Without(w, p.text, "prefix") \/ part \in Without(w, p.text, "suffix")
        \/ \E i \in Occurrences(w, p.text) :
             part \in {SubSeq(w, 1, i - 1), SubSeq(w, i + Len(p.text), Len(w))}
  BY DEF BreakParts
<1>2. IsText(p.text) /\ Len(p.text) # 0
  BY NoEmptyText DEF DictionaryTyped, BreaksTyped, BreakTyped
<1>3. ASSUME NEW i \in Occurrences(w, p.text),
             part \in {SubSeq(w, 1, i - 1), SubSeq(w, i + Len(p.text), Len(w))}
      PROVE  IsText(part)
  <2>1. Occurrences(w, p.text) \subseteq 1..Len(w) /\ Len(w) \in Nat /\ Len(p.text) \in Nat
    BY <1>2, OccurrencesInside, TextType
  <2>2. i - 1 \in Int /\ i + Len(p.text) \in Int /\ Len(w) \in Int
    BY <2>1
  <2>3. IsText(SubSeq(w, 1, i - 1)) /\ IsText(SubSeq(w, i + Len(p.text), Len(w)))
    BY <2>2, PartIsText
  <2>4. QED
    BY <1>3, <2>3
<1>4. QED
  BY <1>1, <1>2, <1>3, WithoutIsText

-----------------------------------------------------------------------------
(* A dictionary with fewer entries                                         *)

(* e differs from d in nothing but entries that d may not use.             *)
SameRules(d, e) ==
  /\ e.rules = d.rules /\ e.circumfix = d.circumfix /\ e.fullStrip = d.fullStrip
  /\ e.complexPrefixes = d.complexPrefixes

SameFlags(d, e) ==
  /\ e.forbidden = d.forbidden /\ e.keepCase = d.keepCase /\ e.needAffix = d.needAffix
  /\ e.onlyInCompound = d.onlyInCompound /\ e.checkSharps = d.checkSharps

SameTables(d, e) ==
  e.compound = d.compound /\ e.breaks = d.breaks /\ e.replacements = d.replacements

Narrower(d, e, k) ==
  /\ SameRules(d, e) /\ SameFlags(d, e) /\ SameTables(d, e)
  /\ e.lexemes \subseteq d.lexemes
  /\ \A l \in d.lexemes : Usable(d, l, k) => l \in e.lexemes

LEMMA NarrowerEntries ==
  ASSUME NEW d, NEW e, NEW k, Narrower(d, e, k)
  PROVE  /\ \A l : Usable(e, l, k) <=> Usable(d, l, k)
         /\ \A l : AcceptsStem(e, l, k) <=> AcceptsStem(d, l, k)
         /\ \A w : LexemesFor(e, w) \subseteq LexemesFor(d, w)
         /\ \A w : \A l \in LexemesFor(d, w) : Usable(d, l, k) => l \in LexemesFor(e, w)
<1>1. \A l : Usable(e, l, k) <=> Usable(d, l, k)
  BY DEF Narrower, SameFlags, Usable, Forbidden
<1>2. \A l : AcceptsStem(e, l, k) <=> AcceptsStem(d, l, k)
  BY <1>1 DEF Narrower, SameFlags, AcceptsStem, RequiresAffix, OnlyInCompound
<1>3. QED
  BY <1>1, <1>2 DEF Narrower, LexemesFor

LEMMA NarrowerPairs ==
  ASSUME NEW d, NEW e, NEW k, Narrower(d, e, k), NEW w
  PROVE  SingleAffixPairs(e, w, k) = SingleAffixPairs(d, w, k)
<1>1. \A l, r : AcceptedSingleAffix(e, l, r) <=> AcceptedSingleAffix(d, l, r)
  BY DEF Narrower, SameRules, SameFlags, AcceptedSingleAffix, Forbidden, RequiresAffix,
         OnlyInCompound
<1>2. CandidateRules(e.rules, w) = CandidateRules(d.rules, w) /\ e.fullStrip = d.fullStrip
  BY DEF Narrower, SameRules
<1>3. \A p \in CandidateRules(d.rules, w) \X d.lexemes :
        Usable(d, p[2], k) => p \in CandidateRules(d.rules, w) \X e.lexemes
  BY DEF Narrower
<1>4. CandidateRules(d.rules, w) \X e.lexemes \subseteq CandidateRules(d.rules, w) \X d.lexemes
  BY DEF Narrower
<1>5. \A l : Usable(e, l, k) <=> Usable(d, l, k)
  BY NarrowerEntries
<1>6. QED
  BY <1>1, <1>2, <1>3, <1>4, <1>5, Zenon DEF SingleAffixPairs

LEMMA NarrowerNoncompound ==
  ASSUME NEW d, NEW e, NEW k, Narrower(d, e, k), NEW w
  PROVE  MatchesNoncompoundWord(e, w, k) <=> MatchesNoncompoundWord(d, w, k)
<1>1. (\E l \in LexemesFor(e, w) : AcceptsStem(e, l, k)) <=>
        (\E l \in LexemesFor(d, w) : AcceptsStem(d, l, k))
  <2>1. \A l : AcceptsStem(d, l, k) => Usable(d, l, k)
    BY DEF AcceptsStem
  <2>2. QED
    BY <2>1, NarrowerEntries
<1>2. QED
  BY <1>1, NarrowerPairs DEF MatchesNoncompoundWord

LEMMA NarrowerComponent ==
  ASSUME NEW d, NEW e, NEW k, Narrower(d, e, k), NEW w, NEW flag, NEW final,
         MatchesComponent(d, w, flag, final, k)
  PROVE  MatchesComponent(e, w, flag, final, k)
<1>1. PICK l \in LexemesFor(d, w) :
        Usable(d, l, k) /\ (final \/ ~CompoundForbidden(d, l.flags)) /\ flag \in l.flags
  BY DEF MatchesComponent
<1>2. l \in LexemesFor(e, w) /\ Usable(e, l, k)
  BY <1>1, NarrowerEntries
<1>3. CompoundForbidden(e, l.flags) <=> CompoundForbidden(d, l.flags)
  BY DEF Narrower, SameTables, CompoundForbidden
<1>4. QED
  BY <1>1, <1>2, <1>3 DEF MatchesComponent

LEMMA NarrowerPositioned ==
  ASSUME NEW d, NEW e, NEW k, Narrower(d, e, k), NEW w, NEW flag, NEW position,
         MatchesPositionedComponent(d, w, flag, position, k)
  PROVE  MatchesPositionedComponent(e, w, flag, position, k)
<1>1. e.compound = d.compound /\ e.rules = d.rules /\ e.circumfix = d.circumfix
      /\ e.fullStrip = d.fullStrip
  BY DEF Narrower, SameRules, SameTables
<1>2. /\ \A l : Positioned(e, l, flag) <=> Positioned(d, l, flag)
      /\ \A flags : CompoundForbidden(e, flags) <=> CompoundForbidden(d, flags)
      /\ \A r : CompoundRuleAllowed(e, r, position) <=> CompoundRuleAllowed(d, r, position)
  BY <1>1 DEF Positioned, CompoundForbidden, CompoundRuleAllowed
<1>3. \A s : AcceptedCompoundState(e, s) <=> AcceptedCompoundState(d, s)
  BY <1>2 DEF AcceptedCompoundState, Narrower, SameFlags, Forbidden, RequiresAffix
<1>4. CASE \E l \in LexemesFor(d, w) :
             /\ Usable(d, l, k)
             /\ position = "end" \/ ~CompoundForbidden(d, l.flags)
             /\ Positioned(d, l, flag)
  <2>1. \E l \in LexemesFor(e, w) :
          /\ Usable(e, l, k)
          /\ position = "end" \/ ~CompoundForbidden(e, l.flags)
          /\ Positioned(e, l, flag)
    BY <1>2, <1>4, NarrowerEntries
  <2>2. QED
    BY <2>1 DEF MatchesPositionedComponent
<1>5. CASE MatchesOneAffixComponent(d, w, flag, position, k)
  <2>1. PICK r \in CandidateRules(d.rules, w) :
          /\ CompoundRuleAllowed(d, r, position)
          /\ \E stem \in ReverseApply(r, w, d.fullStrip) :
               \E l \in LexemesFor(d, stem) :
                 /\ Usable(d, l, k)
                 /\ r.flag \in l.flags
                 /\ Positioned(d, l, flag)
                 /\ AcceptedCompoundState(d, Extend(NewForm(l), r, w, d.circumfix))
    BY <1>5 DEF MatchesOneAffixComponent
  <2>2. PICK stem \in ReverseApply(r, w, d.fullStrip) :
               \E l \in LexemesFor(d, stem) :
                 /\ Usable(d, l, k)
                 /\ r.flag \in l.flags
                 /\ Positioned(d, l, flag)
                 /\ AcceptedCompoundState(d, Extend(NewForm(l), r, w, d.circumfix))
    BY <2>1
  <2>3. PICK l \in LexemesFor(d, stem) :
                 /\ Usable(d, l, k)
                 /\ r.flag \in l.flags
                 /\ Positioned(d, l, flag)
                 /\ AcceptedCompoundState(d, Extend(NewForm(l), r, w, d.circumfix))
    BY <2>2
  <2>4. l \in LexemesFor(e, stem) /\ Usable(e, l, k)
    BY <2>3, NarrowerEntries
  <2>5. AcceptedCompoundState(e, Extend(NewForm(l), r, w, e.circumfix))
    BY <1>1, <1>3, <2>3
  <2>6. MatchesOneAffixComponent(e, w, flag, position, k)
    BY <1>1, <1>2, <2>1, <2>2, <2>3, <2>4, <2>5 DEF MatchesOneAffixComponent
  <2>7. QED
    BY <2>6 DEF MatchesPositionedComponent
<1>6. QED
  BY <1>4, <1>5 DEF MatchesPositionedComponent

LEMMA NarrowerPattern ==
  ASSUME NEW d, NEW e, NEW k, Narrower(d, e, k), NEW w, NEW start, NEW right,
         PatternForbids(e, w, start, right)
  PROVE  PatternForbids(d, w, start, right)
<1> DEFINE Applies(x, p) ==
             /\ p.replacement = {}
             /\ p.ending # <<"0">>
             /\ IsSuffix(p.ending, SubSeq(w, 1, start)) /\ IsPrefix(p.beginning, right)
             /\ p.endingFlag # {} =>
                  \E l \in LexemesFor(x, SubSeq(w, 1, start)) : Carries(l.flags, p.endingFlag)
             /\ p.beginningFlag # {} =>
                  \E l \in LexemesFor(x, right) : Carries(l.flags, p.beginningFlag)
<1>1. \A p : Applies(e, p) => Applies(d, p)
  <2>1. \A v : LexemesFor(e, v) \subseteq LexemesFor(d, v)
    BY NarrowerEntries
  <2>2. QED
    BY <2>1
<1>2. \E p \in Range(e.compound.patterns) : Applies(e, p)
  BY DEF PatternForbids
<1> HIDE DEF Applies
<1>3. \E p \in Range(d.compound.patterns) : Applies(d, p)
  BY <1>1, <1>2 DEF Narrower, SameTables
<1>4. QED
  BY <1>3 DEF PatternForbids, Applies

LEMMA NarrowerBoundary ==
  ASSUME NEW d, NEW e, NEW k, Narrower(d, e, k), NEW w, NEW start, NEW end, NEW triples,
         Allowed(d, w, start, end, triples)
  PROVE  Allowed(e, w, start, end, triples)
<1> DEFINE part == SubSeq(w, start + 1, end)
           Capital(x) == \E l \in LexemesFor(x, part) : Carries(l.flags, x.compound.forceUppercase)
<1>1. e.compound = d.compound
  BY DEF Narrower, SameTables
<1>2. Capital(e) => Capital(d)
  BY <1>1, NarrowerEntries
<1>3. PatternForbids(e, w, start, part) => PatternForbids(d, w, start, part)
  BY NarrowerPattern
<1>4. BoundaryAllowed(d, w, start, end, triples) => BoundaryAllowed(e, w, start, end, triples)
  BY <1>1, <1>2, <1>3 DEF BoundaryAllowed
<1>5. QED
  BY <1>1, <1>4 DEF Allowed

LEMMA NarrowerEdges ==
  ASSUME NEW d, NEW e, NEW k, Narrower(d, e, k), NEW w, NEW triples
  PROVE  /\ \A flag : GenericEdges(d, w, flag, k, triples) \subseteq
                        GenericEdges(e, w, flag, k, triples)
         /\ \A pattern : PatternEdges(d, w, pattern, k, triples) \subseteq
                           PatternEdges(e, w, pattern, k, triples)
         /\ \A N : PositionedEdges(d, w, k, triples, N) \subseteq
                     PositionedEdges(e, w, k, triples, N)
<1>1. \A start, end : Allowed(d, w, start, end, triples) => Allowed(e, w, start, end, triples)
  BY NarrowerBoundary
<1>2. \A v, flag, final : MatchesComponent(d, v, flag, final, k) =>
                            MatchesComponent(e, v, flag, final, k)
  BY NarrowerComponent
<1>3. \A v, flag, position : MatchesPositionedComponent(d, v, flag, position, k) =>
                               MatchesPositionedComponent(e, v, flag, position, k)
  BY NarrowerPositioned
<1>4. e.compound = d.compound
  BY DEF Narrower, SameTables
<1>5. ASSUME NEW flag
      PROVE  GenericEdges(d, w, flag, k, triples) \subseteq GenericEdges(e, w, flag, k, triples)
  BY <1>1, <1>2 DEF GenericEdges
<1>6. ASSUME NEW pattern
      PROVE  PatternEdges(d, w, pattern, k, triples) \subseteq
               PatternEdges(e, w, pattern, k, triples)
  BY <1>1, <1>2 DEF PatternEdges
<1>7. ASSUME NEW N
      PROVE  PositionedEdges(d, w, k, triples, N) \subseteq PositionedEdges(e, w, k, triples, N)
  BY <1>1, <1>3, <1>4 DEF PositionedEdges
<1>8. QED
  BY <1>5, <1>6, <1>7

(* More edges reach more boundaries.                                       *)
Includes(many, few) == few \subseteq many

LEMMA FrontierGrows ==
  ASSUME NEW few, NEW many, Includes(many, few), NEW L \in Nat, NEW N \in Nat,
         NEW f, IsFrontier(few, L, N, f), NEW g, IsFrontier(many, L, N, g)
  PROVE  \A n \in 0..N : f[n] \subseteq g[n]
<1> DEFINE S == {n \in Nat : n <= N => f[n] \subseteq g[n]}
<1>1. 0 \in S
  BY DEF IsFrontier
<1>2. ASSUME NEW n \in Nat, n \in S
      PROVE  n + 1 \in S
  <2> SUFFICES ASSUME n + 1 <= N
               PROVE  f[n + 1] \subseteq g[n + 1]
    OBVIOUS
  <2>1. n + 1 \in 1..N /\ (n + 1) - 1 = n /\ f[n] \subseteq g[n]
    BY <1>2
  <2>2. f[n + 1] = Extended(few, L, n + 1, f[n]) /\ g[n + 1] = Extended(many, L, n + 1, g[n])
    BY <2>1 DEF IsFrontier
  <2>3. QED
    BY <2>1, <2>2 DEF Extended, Includes
<1> HIDE DEF S
<1>3. \A n \in Nat : n \in S
  BY <1>1, <1>2, AllNumbers
<1>4. QED
  BY <1>3 DEF S

LEMMA NarrowerCounts ==
  ASSUME NEW d, NEW e, NEW k, Narrower(d, e, k), NEW w
  PROVE  /\ e.compound = d.compound
         /\ \A n : CountAllowed(e, w, n) <=> CountAllowed(d, w, n)
         /\ \A n : CannotContinue(e, n) <=> CannotContinue(d, n)
         /\ RulePatterns(e) = RulePatterns(d) /\ (HasCompounds(e) <=> HasCompounds(d))
<1>1. e.compound = d.compound
  BY DEF Narrower, SameTables
<1>2. \A n : CountAllowed(e, w, n) <=> CountAllowed(d, w, n)
  BY <1>1, Zenon DEF CountAllowed
<1>3. \A n : CannotContinue(e, n) <=> CannotContinue(d, n)
  BY <1>1 DEF CannotContinue
<1>4. RulePatterns(e) = RulePatterns(d) /\ (HasCompounds(e) <=> HasCompounds(d))
  BY <1>1 DEF RulePatterns, HasCompounds
<1>5. QED
  BY <1>1, <1>2, <1>3, <1>4

LEMMA NarrowerGeneric ==
  ASSUME NEW d, NEW e, NEW k, Narrower(d, e, k), NEW w, Len(w) \in Nat, NEW flag, NEW triples,
         MatchesGeneric(d, w, flag, k, triples)
  PROVE  MatchesGeneric(e, w, flag, k, triples)
<1> DEFINE L == Len(w)
           f == GenericReach(d, w, flag, k, triples)
           g == GenericReach(e, w, flag, k, triples)
<1>1. PICK n \in 2..L : /\ \A m \in 1..n - 1 : ~CannotContinue(d, m)
                        /\ CountAllowed(d, w, n)
                        /\ L \in f[n]
  BY DEF MatchesGeneric
<1>2. /\ IsFrontier(GenericEdges(d, w, flag, k, triples), L, L, f)
      /\ IsFrontier(GenericEdges(e, w, flag, k, triples), L, L, g)
  BY GenericIsFrontier
<1>3. Includes(GenericEdges(e, w, flag, k, triples), GenericEdges(d, w, flag, k, triples))
  BY NarrowerEdges DEF Includes
<1> HIDE DEF f, g
<1>4. \A m \in 0..L : f[m] \subseteq g[m]
  BY <1>2, <1>3, FrontierGrows
<1>5. L \in g[n]
  BY <1>1, <1>4
<1>6. CountAllowed(e, w, n) /\ \A m \in 1..n - 1 : ~CannotContinue(e, m)
  BY <1>1, NarrowerCounts
<1>7. QED
  BY <1>1, <1>5, <1>6 DEF MatchesGeneric, g

LEMMA NarrowerFixedPattern ==
  ASSUME NEW d, NEW e, NEW k, Narrower(d, e, k), NEW w, Len(w) \in Nat,
         NEW pattern, Len(pattern) \in Nat, NEW triples,
         MatchesFixedPattern(d, w, pattern, k, triples)
  PROVE  MatchesFixedPattern(e, w, pattern, k, triples)
<1> DEFINE L == Len(w)
           N == Len(pattern)
           f == PatternReach(d, w, pattern, k, triples)
           g == PatternReach(e, w, pattern, k, triples)
<1>1. N >= 2 /\ CountAllowed(d, w, N) /\ L \in f[N]
  BY DEF MatchesFixedPattern
<1>2. /\ IsFrontier(PatternEdges(d, w, pattern, k, triples), L, N, f)
      /\ IsFrontier(PatternEdges(e, w, pattern, k, triples), L, N, g)
  BY PatternIsFrontier
<1>3. Includes(PatternEdges(e, w, pattern, k, triples), PatternEdges(d, w, pattern, k, triples))
  BY NarrowerEdges DEF Includes
<1> HIDE DEF f, g
<1>4. \A m \in 0..N : f[m] \subseteq g[m]
  BY <1>2, <1>3, FrontierGrows
<1>5. L \in g[N]
  BY <1>1, <1>4
<1>6. CountAllowed(e, w, N)
  BY <1>1, NarrowerCounts
<1>7. QED
  BY <1>1, <1>5, <1>6 DEF MatchesFixedPattern, g

LEMMA PositionedDef ==
  ASSUME NEW d, NEW w, NEW k, NEW triples
  PROVE  MatchesPositioned(d, w, k, triples) <=>
           /\ d.compound.begin # {} /\ d.compound.end # {}
           /\ \E n \in 2..Len(w) :
                /\ \A m \in 2..n - 1 : ~CannotContinue(d, m)
                /\ CountAllowed(d, w, n)
                /\ Len(w) \in LastPositioned(d, w, k, triples, n)
  BY DEF MatchesPositioned, LastPositioned

LEMMA NarrowerMatchesPositioned ==
  ASSUME NEW d, NEW e, NEW k, Narrower(d, e, k), NEW w, Len(w) \in Nat, NEW triples,
         MatchesPositioned(d, w, k, triples)
  PROVE  MatchesPositioned(e, w, k, triples)
<1> DEFINE L == Len(w)
<1>0. d.compound.begin # {} /\ d.compound.end # {}
  BY PositionedDef
<1>1. PICK n \in 2..L : /\ \A m \in 2..n - 1 : ~CannotContinue(d, m)
                        /\ CountAllowed(d, w, n)
                        /\ L \in LastPositioned(d, w, k, triples, n)
  BY PositionedDef
<1>2. PICK f : /\ IsFrontier(PositionedEdges(d, w, k, triples, n), L, n, f)
               /\ f[n] = LastPositioned(d, w, k, triples, n)
  BY PositionedIsFrontier
<1>3. PICK g : /\ IsFrontier(PositionedEdges(e, w, k, triples, n), L, n, g)
               /\ g[n] = LastPositioned(e, w, k, triples, n)
  BY PositionedIsFrontier
<1>4. Includes(PositionedEdges(e, w, k, triples, n), PositionedEdges(d, w, k, triples, n))
  BY NarrowerEdges DEF Includes
<1>5. n \in Nat /\ n \in 0..n
  OBVIOUS
<1>6. \A m \in 0..n : f[m] \subseteq g[m]
  BY <1>2, <1>3, <1>4, <1>5, FrontierGrows
<1>7. L \in LastPositioned(e, w, k, triples, n)
  BY <1>1, <1>2, <1>3, <1>5, <1>6
<1>8. CountAllowed(e, w, n) /\ \A m \in 2..n - 1 : ~CannotContinue(e, m)
  BY <1>1, NarrowerCounts
<1>9. e.compound.begin # {} /\ e.compound.end # {}
  BY <1>0, NarrowerCounts
<1>10. QED
  BY <1>1, <1>7, <1>8, <1>9, PositionedDef

LEMMA NarrowerTriples ==
  ASSUME NEW d, DictionaryTyped(d), NEW e, NEW k, Narrower(d, e, k),
         NEW w, Len(w) \in Nat, NEW triples, MatchesWithTriples(d, w, k, triples)
  PROVE  MatchesWithTriples(e, w, k, triples)
<1>1. e.compound = d.compound /\ RulePatterns(e) = RulePatterns(d)
  BY NarrowerCounts
<1>2. CASE \E flag \in d.compound.flag : MatchesGeneric(d, w, flag, k, triples)
  BY <1>1, <1>2, NarrowerGeneric DEF MatchesWithTriples
<1>3. CASE \E pattern \in RulePatterns(d) : MatchesFixedPattern(d, w, pattern, k, triples)
  <2>1. \A pattern \in RulePatterns(d) : Len(pattern) \in Nat
    BY TypedCompounds DEF CompoundTyped
  <2>2. QED
    BY <1>1, <1>3, <2>1, NarrowerFixedPattern DEF MatchesWithTriples
<1>4. CASE MatchesPositioned(d, w, k, triples)
  BY <1>4, NarrowerMatchesPositioned DEF MatchesWithTriples
<1>5. QED
  BY <1>2, <1>3, <1>4 DEF MatchesWithTriples

LEMMA NarrowerReplacement ==
  ASSUME NEW d, NEW e, NEW k, Narrower(d, e, k), NEW w
  PROVE  MatchesNoncompoundReplacement(e, w, k) <=> MatchesNoncompoundReplacement(d, w, k)
<1>1. e.replacements = d.replacements
  BY DEF Narrower, SameTables
<1>2. \A v : MatchesNoncompoundWord(e, v, k) <=> MatchesNoncompoundWord(d, v, k)
  BY NarrowerNoncompound
<1>3. QED
  BY <1>1, <1>2, Zenon DEF MatchesNoncompoundReplacement

Variants(d, w) ==
  ({<< w, FALSE >>} \cup (SimplifiedTriples(d, w) \X {TRUE}))
  \cup (PatternReplacements(d, w) \X {FALSE})

LEMMA NarrowerCompound ==
  ASSUME NEW d, DictionaryTyped(d), NEW e, NEW k, Narrower(d, e, k),
         NEW w, IsText(w), MatchesSimpleCompound(d, w, k)
  PROVE  MatchesSimpleCompound(e, w, k)
<1>1. /\ HasCompounds(d)
      /\ ~(d.compound.checkReplacement /\ MatchesNoncompoundReplacement(d, w, k))
      /\ Len(w) <= MaxCompoundScalars
      /\ \E v \in Variants(d, w) : MatchesWithTriples(d, v[1], k, v[2])
  BY DEF MatchesSimpleCompound, Variants
<1>2. e.compound = d.compound /\ HasCompounds(e)
  BY <1>1, NarrowerCounts
<1>3. Variants(e, w) = Variants(d, w)
  <2>1. SimplifiedTriples(e, w) = SimplifiedTriples(d, w)
    BY <1>2, Zenon DEF SimplifiedTriples
  <2>2. PatternReplacements(e, w) = PatternReplacements(d, w)
    BY <1>2, Zenon DEF PatternReplacements
  <2>3. QED
    BY <2>1, <2>2 DEF Variants
<1>4. PICK v \in Variants(d, w) : MatchesWithTriples(d, v[1], k, v[2])
  BY <1>1
<1>5. IsText(v[1])
  <2>1. CASE v = << w, FALSE >>
    BY <2>1
  <2>2. CASE v \in SimplifiedTriples(d, w) \X {TRUE}
    <3>1. v[1] \in SimplifiedTriples(d, w)
      BY <2>2
    <3>2. QED
      BY <3>1, TriplesAreTexts
  <2>3. CASE v \in PatternReplacements(d, w) \X {FALSE}
    <3>1. v[1] \in PatternReplacements(d, w)
      BY <2>3
    <3>2. QED
      BY <3>1, UndonePatternsAreTexts
  <2>4. QED
    BY <2>1, <2>2, <2>3, Zenon DEF Variants
<1>6. Len(v[1]) \in Nat
  BY <1>5, TextType
<1>7. MatchesWithTriples(e, v[1], k, v[2])
  BY <1>4, <1>6, NarrowerTriples
<1>8. ~(e.compound.checkReplacement /\ MatchesNoncompoundReplacement(e, w, k))
  BY <1>1, <1>2, NarrowerReplacement
<1>9. \E u \in Variants(e, w) : MatchesWithTriples(e, u[1], k, u[2])
  BY <1>3, <1>7
<1>10. QED
  BY <1>1, <1>2, <1>8, <1>9 DEF MatchesSimpleCompound, Variants

LEMMA NarrowerChains ==
  ASSUME NEW d, NEW e, NEW k, Narrower(d, e, k), NEW l
  PROVE  Chains(e, l) = Chains(d, l)
<1> DEFINE M == MaxAffixChain
           S == {n \in Nat : n <= M => Levels(e, l)[n] = Levels(d, l)[n]}
<1>0. M \in Nat
  BY SearchBounds
<1>1. \A s : Successors(e, s) = Successors(d, s)
  <2>1. /\ e.rules = d.rules /\ e.circumfix = d.circumfix /\ e.fullStrip = d.fullStrip
        /\ e.complexPrefixes = d.complexPrefixes
    BY DEF Narrower, SameRules
  <2> DEFINE Made(s, rules, circumfix, fullStrip, complexPrefixes) ==
               UNION {{Extend(s, r, form, circumfix) : form \in Apply(r, s.form, fullStrip)} :
                      r \in {x \in rules : /\ x.flag \in FlagsFor(s, x.kind)
                                          /\ CanApply(s, x, complexPrefixes)}}
  <2>2. \A x, s : Successors(x, s) =
                     Made(s, x.rules, x.circumfix, x.fullStrip, x.complexPrefixes)
    BY DEF Successors
  <2> HIDE DEF Made
  <2>3. QED
    BY <2>1, <2>2
<1>2. 0 \in S
  <2>1. 0 \in 0..M
    BY <1>0
  <2>2. Levels(d, l)[0] = {NewForm(l)} /\ Levels(e, l)[0] = {NewForm(l)}
    BY <2>1, LevelsDef
  <2>3. QED
    BY <2>2
<1>3. ASSUME NEW n \in Nat, n \in S
      PROVE  n + 1 \in S
  <2> SUFFICES ASSUME n + 1 <= M
               PROVE  Levels(e, l)[n + 1] = Levels(d, l)[n + 1]
    OBVIOUS
  <2>1. Levels(e, l)[n] = Levels(d, l)[n]
    BY <1>0, <1>3
  <2>2. Levels(d, l)[n + 1] = UNION {Successors(d, s) : s \in Levels(d, l)[n]}
        /\ Levels(e, l)[n + 1] = UNION {Successors(e, s) : s \in Levels(e, l)[n]}
    BY LevelsNext
  <2> HIDE DEF Levels
  <2>3. QED
    BY <1>1, <2>1, <2>2
<1> HIDE DEF S
<1>4. \A n \in Nat : n \in S
  BY <1>2, <1>3, AllNumbers
<1>5. \A n \in 1..M : Levels(e, l)[n] = Levels(d, l)[n]
  BY <1>0, <1>4 DEF S
<1>6. QED
  BY <1>5 DEF Chains

LEMMA NarrowerDerived ==
  ASSUME NEW d, NEW e, NEW k, Narrower(d, e, k), NEW w, DerivedWord(d, w, k)
  PROVE  DerivedWord(e, w, k)
<1>1. PICK l \in d.lexemes :
        Usable(d, l, k) /\ \E s \in Chains(d, l) : s.form = w /\ AcceptedState(d, s)
  BY DEF DerivedWord
<1>2. l \in e.lexemes /\ Usable(e, l, k)
  BY <1>1, NarrowerEntries DEF Narrower
<1>3. \A s : AcceptedState(e, s) <=> AcceptedState(d, s)
  BY DEF Narrower, SameFlags, AcceptedState, Forbidden, RequiresAffix, OnlyInCompound
<1>4. \E s \in Chains(e, l) : s.form = w /\ AcceptedState(e, s)
  BY <1>1, <1>3, NarrowerChains
<1>5. QED
  BY <1>2, <1>4 DEF DerivedWord

LEMMA NarrowerSharp ==
  ASSUME NEW d, NEW e, Narrower(d, e, TRUE)
  PROVE  SharpForms(d) \subseteq SharpForms(e)
<1> DEFINE Sharp(x) == {l \in x.lexemes :
        /\ x.checkSharps
        /\ Carries(l.flags, x.keepCase)
        /\ "sharp" \in Range(l.stem)
        /\ ~Forbidden(x, l.flags)
        /\ ~RequiresAffix(x, l.flags)
        /\ ~OnlyInCompound(x, l.flags)}
<1>1. Sharp(d) \subseteq Sharp(e)
  <2>1. \A l \in d.lexemes : ~Forbidden(d, l.flags) => l \in e.lexemes
    BY DEF Narrower, Usable
  <2>2. \A l : /\ Forbidden(e, l.flags) <=> Forbidden(d, l.flags)
               /\ RequiresAffix(e, l.flags) <=> RequiresAffix(d, l.flags)
               /\ OnlyInCompound(e, l.flags) <=> OnlyInCompound(d, l.flags)
               /\ Carries(l.flags, e.keepCase) <=> Carries(l.flags, d.keepCase)
    BY DEF Narrower, SameFlags, Forbidden, RequiresAffix, OnlyInCompound
  <2>3. e.checkSharps = d.checkSharps
    BY DEF Narrower, SameFlags
  <2>4. QED
    BY <2>1, <2>2, <2>3
<1>2. \A x : SharpForms(x) = {InitialCase(l.stem, "default") : l \in Sharp(x)}
                             \cup {Uppercase(l.stem, "default") : l \in Sharp(x)}
  BY DEF SharpForms
<1> HIDE DEF Sharp
<1>3. QED
  BY <1>1, <1>2

LEMMA NarrowerWithoutBreak ==
  ASSUME NEW d, DictionaryTyped(d), NEW e, NEW k \in BOOLEAN, Narrower(d, e, k),
         NEW w, IsText(w), MatchesWithoutBreak(d, w, k)
  PROVE  MatchesWithoutBreak(e, w, k)
<1>1. CASE \E l \in LexemesFor(d, w) : AcceptsStem(d, l, k)
  <2>1. \E l \in LexemesFor(e, w) : AcceptsStem(e, l, k)
    BY <1>1, NarrowerEntries DEF AcceptsStem
  <2>2. QED
    BY <2>1 DEF MatchesWithoutBreak
<1>2. CASE MatchesSingleAffixWord(d, w, k)
  BY <1>2, NarrowerPairs DEF MatchesWithoutBreak, MatchesSingleAffixWord
<1>3. CASE DerivedWord(d, w, k)
  BY <1>3, NarrowerDerived DEF MatchesWithoutBreak
<1>4. CASE MatchesSimpleCompound(d, w, k)
  BY <1>4, NarrowerCompound DEF MatchesWithoutBreak
<1>5. CASE k /\ w \in SharpForms(d)
  <2>1. k = TRUE
    BY <1>5
  <2>2. w \in SharpForms(e)
    BY <1>5, <2>1, NarrowerSharp
  <2>3. QED
    BY <1>5, <2>2 DEF MatchesWithoutBreak
<1>6. QED
  BY <1>1, <1>2, <1>3, <1>4, <1>5 DEF MatchesWithoutBreak

LEMMA NarrowerContains ==
  ASSUME NEW d, DictionaryTyped(d), NEW e, NEW k \in BOOLEAN, Narrower(d, e, k),
         NEW w, IsText(w), ContainsNormalized(d, w, k)
  PROVE  ContainsNormalized(e, w, k)
<1>1. PICK parts \in {{w}} \cup BreakParts(d, w) :
        \A part \in parts : MatchesWithoutBreak(d, part, k)
  BY DEF ContainsNormalized
<1>2. ASSUME NEW part \in parts
      PROVE  MatchesWithoutBreak(e, part, k)
  <2>1. IsText(part)
    BY <1>1, BreakPartsAreTexts
  <2>2. QED
    BY <1>1, <2>1, NarrowerWithoutBreak
<1>3. BreakParts(e, w) = BreakParts(d, w)
  BY Zenon DEF Narrower, SameTables, BreakParts
<1>4. QED
  BY <1>1, <1>2, <1>3 DEF ContainsNormalized

(* Taking away entries that may not be used makes a narrower dictionary.   *)
LEMMA ExcludedNarrows ==
  ASSUME NEW d, DictionaryTyped(d), NEW k \in BOOLEAN,
         NEW excluded \in {d.forbidden} \cup (IF k THEN {} ELSE {d.keepCase})
  PROVE  Narrower(d, [d EXCEPT !.lexemes = {l \in @ : ~Carries(l.flags, excluded)}], k)
<1> DEFINE rest == {l \in d.lexemes : ~Carries(l.flags, excluded)}
           e == [d EXCEPT !.lexemes = rest]
<1>1. e = [d EXCEPT !.lexemes = {l \in @ : ~Carries(l.flags, excluded)}]
  OBVIOUS
<1>2. \A f \in DOMAIN d : f # "lexemes" => e[f] = d[f]
  OBVIOUS
<1>3. e["lexemes"] = rest
  BY DEF DictionaryTyped, DictionaryFields
<1> HIDE DEF e
<1>4. SameRules(d, e) /\ SameFlags(d, e) /\ SameTables(d, e)
  <2>1. \A f \in DictionaryFields : f # "lexemes" => e[f] = d[f]
    BY <1>2 DEF DictionaryTyped
  <2>2. e["rules"] = d["rules"] /\ e["circumfix"] = d["circumfix"]
        /\ e["fullStrip"] = d["fullStrip"] /\ e["complexPrefixes"] = d["complexPrefixes"]
    BY <2>1 DEF DictionaryFields
  <2>3. e["forbidden"] = d["forbidden"] /\ e["keepCase"] = d["keepCase"]
        /\ e["needAffix"] = d["needAffix"] /\ e["onlyInCompound"] = d["onlyInCompound"]
        /\ e["checkSharps"] = d["checkSharps"]
    BY <2>1 DEF DictionaryFields
  <2>4. e["compound"] = d["compound"] /\ e["breaks"] = d["breaks"]
        /\ e["replacements"] = d["replacements"]
    BY <2>1 DEF DictionaryFields
  <2>5. QED
    BY <2>2, <2>3, <2>4 DEF SameRules, SameFlags, SameTables
<1>5. ASSUME NEW l \in d.lexemes, Usable(d, l, k)
      PROVE  ~Carries(l.flags, excluded)
  <2>1. CASE excluded = d.forbidden
    BY <1>5, <2>1 DEF Usable, Forbidden
  <2>2. CASE ~k /\ excluded = d.keepCase
    BY <1>5, <2>2 DEF Usable
  <2>3. QED
    BY <2>1, <2>2
<1>6. Narrower(d, e, k)
  BY <1>3, <1>4, <1>5 DEF Narrower
<1>7. QED
  BY <1>1, <1>6

(* Whatever the sources and the spelling: an entry marked FORBIDDENWORD    *)
(* never makes a word accepted, by whatever stem, affix, compound, BREAK or*)
(* sharp-s path; an entry marked KEEPCASE never does for a folded spelling.*)
(* (is_forbidden and is_keep_case, asked on every path)                    *)
THEOREM ExcludedAddNothingCorrect == Spec => []ExcludedAddNothing
<1>1. ASSUME HunspellInv
      PROVE  ExcludedAddNothing
  <2> SUFFICES ASSUME NEW k \in BOOLEAN,
                      NEW excluded \in {hunspell.forbidden}
                                       \cup (IF k THEN {} ELSE {hunspell.keepCase}),
                      ContainsNormalized(hunspell, word, k)
               PROVE  ContainsNormalized(
                        [hunspell EXCEPT !.lexemes = {l \in @ : ~Carries(l.flags, excluded)}],
                        word, k)
    BY DEF ExcludedAddNothing
  <2>1. DictionaryTyped(hunspell) /\ IsText(word)
    BY <1>1 DEF HunspellInv
  <2>2. QED
    BY <2>1, ExcludedNarrows, NarrowerContains
<1>2. QED
  BY <1>1, HunspellInvariant, PTL

-----------------------------------------------------------------------------
(* The searches in an imported dictionary                                  *)

(* The dictionary asked is an imported one, and the search in it misses    *)
(* nothing; before there is one the search rests.                          *)
SearchedInv ==
  /\ EntriesInv
  /\ \E d : EntriesTyped(d) /\ ExactInv(d)
  /\ ~ready => stage = "idle" /\ candidates = {}

LEMMA SearchedStarts ==
  ASSUME Init
  PROVE  SearchedInv
<1>1. "dic" \in DOMAIN source /\ IsFile(source.dic)
  BY CasesAreTexts DEF Init
<1>2. phase = "bytes" /\ dictionary = EmptyDictionary /\ SearchInit(EmptyDictionary)
  BY DEF Init, ImportInit
<1>3. EntriesInv
  BY <1>1, <1>2, EmptyEntries DEF EntriesInv
<1>4. ExactInv(EmptyDictionary)
  BY <1>2, StartsExact
<1>5. stage = "idle" /\ candidates = {}
  BY <1>2 DEF SearchInit
<1>6. QED
  BY <1>3, <1>4, <1>5, EmptyEntries DEF SearchedInv

(* A search that rests may be given another dictionary. *)
LEMMA RestsExact ==
  ASSUME NEW d, ExactInv(d), stage = "idle", candidates = {}, NEW e, hunspell' = e,
         UNCHANGED << stage, candidates, states, derivations >>
  PROVE  ExactInv(e)'
<1>1. SearchInv(d)
  BY DEF ExactInv
<1>2. /\ derivations' \in 0..MaxDerivations
      /\ states' = {} /\ IsFiniteSet(states') /\ Cardinality(states') <= derivations' + 1
  BY <1>1 DEF SearchInv
<1>3. SearchInv(e)'
  BY <1>2 DEF SearchInv
<1>4. QED
  BY <1>3 DEF ExactInv, StatesDerived, WayBack, WayForth, DerivedExact

(* A cache gives the dictionary it was compiled from or is dropped for it. *)
LEMMA LoadGives ==
  ASSUME HunspellInv, SourcesInv, Load
  PROVE  hunspell' = dictionary
<1>1. /\ loaded' = UNION {LoadRuntimeCache(a, "aff", "dic") : a \in artifact}
      /\ hunspell' = IF loaded' = {} THEN dictionary ELSE CHOOSE d \in loaded' : TRUE
  BY DEF Load
<1>2. QED
  BY <1>1, LoadedIsCompiled

(* What becomes of the dictionary asked, step by step. *)
LEMMA SearchedStep ==
  ASSUME HunspellInv, SourcesInv, SearchedInv, [Next]_vars
  PROVE  SearchedInv'
<1>0. PICK d : EntriesTyped(d) /\ ExactInv(d)
  BY DEF SearchedInv
<1>1. CASE Import
  <2>1. EntriesInv'
    BY <1>1, ImportEntries DEF Import, HunspellInv, SearchedInv
  <2>2. UNCHANGED searchVars /\ ready' = ready
    BY <1>1 DEF Import, cacheVars
  <2>3. [SearchNext]_searchVars
    BY <2>2
  <2>4. PICK Letter : Rules(d) /\ Spelled(d, Letter)
    BY <1>0, EntriesSpelled
  <2>5. ExactInv(d)'
    BY <1>0, <2>3, <2>4, SearchStaysExact
  <2>6. (~ready => stage = "idle" /\ candidates = {})'
    BY <2>2 DEF searchVars, SearchedInv
  <2>7. QED
    BY <1>0, <2>1, <2>5, <2>6 DEF SearchedInv
<1>2. CASE Compile \/ Load
  <2>1. /\ UNCHANGED << source, phase, at, dictionary >>
        /\ UNCHANGED << stage, candidates, states, derivations >>
        /\ ~ready
    BY <1>2 DEF Compile, Load, importVars
  <2>2. hunspell' \in {hunspell, dictionary}
    BY <1>2, LoadGives DEF Compile
  <2>3. hunspell = d
    BY <1>0 DEF ExactInv, SearchInv
  <2>4. EntriesTyped(dictionary)
    BY DEF SearchedInv, EntriesInv
  <2>5. PICK e : e = hunspell' /\ EntriesTyped(e)
    BY <1>0, <2>2, <2>3, <2>4
  <2>6. stage = "idle" /\ candidates = {}
    BY <2>1 DEF SearchedInv
  <2>7. ExactInv(e)'
    BY <1>0, <2>1, <2>5, <2>6, RestsExact
  <2>8. EntriesInv'
    BY <2>1 DEF SearchedInv, EntriesInv
  <2>9. QED
    BY <2>1, <2>5, <2>6, <2>7, <2>8 DEF SearchedInv
<1>3. CASE LookUp \/ Search \/ Return
  <2>1. UNCHANGED << importVars, cacheVars >>
    BY <1>3 DEF LookUp, Search, Return
  <2>2. SearchNext
    BY <1>3 DEF LookUp, Search, Return, SearchNext
  <2>3. ready' = ready /\ EntriesInv'
    BY <2>1 DEF importVars, cacheVars, SearchedInv, EntriesInv
  <2>4. PICK Letter : Rules(d) /\ Spelled(d, Letter)
    BY <1>0, EntriesSpelled
  <2>5. ExactInv(d)'
    BY <1>0, <2>2, <2>4, SearchStaysExact
  <2>6. ready
    <3>1. CASE LookUp
      BY <3>1 DEF LookUp
    <3>2. CASE Search \/ Return
      <4>1. stage # "idle"
        BY <3>2 DEF Search, SearchStep, TakeRulesOff, AllRulesOff, NextEntry, NoEntryLeft,
           Derive, EntryDone, Return, Forget
      <4>2. QED
        BY <4>1 DEF SearchedInv
    <3>3. QED
      BY <1>3, <3>1, <3>2
  <2>7. QED
    BY <1>0, <2>3, <2>5, <2>6 DEF SearchedInv
<1>4. CASE Disturb \/ Refused \/ Reloaded \/ UNCHANGED vars
  <2>1. UNCHANGED << importVars, searchVars, ready >>
    BY <1>4 DEF Disturb, Refused, Reloaded, vars, cacheVars
  <2>2. [SearchNext]_searchVars
    BY <2>1
  <2>3. PICK Letter : Rules(d) /\ Spelled(d, Letter)
    BY <1>0, EntriesSpelled
  <2>4. ExactInv(d)'
    BY <1>0, <2>2, <2>3, SearchStaysExact
  <2>5. EntriesInv' /\ (~ready => stage = "idle" /\ candidates = {})'
    BY <2>1 DEF importVars, searchVars, SearchedInv, EntriesInv
  <2>6. QED
    BY <1>0, <2>4, <2>5 DEF SearchedInv
<1>5. QED
  BY <1>1, <1>2, <1>3, <1>4 DEF Next

LEMMA SearchedInvariant == Spec => []SearchedInv
<1>1. Init => SearchedInv
  BY SearchedStarts
<1>2. HunspellInv /\ SourcesInv /\ SearchedInv /\ [Next]_vars => SearchedInv'
  BY SearchedStep
<1>3. QED
  BY <1>1, <1>2, HunspellInvariant, SourcesInvariant, PTL DEF Spec

(* In every dictionary the importer makes, compiled or not, the search for *)
(* a derived word keeps to its budget: MAX_AFFIX_CHAIN never cuts a        *)
(* derivation off, and no more states are kept than were counted.          *)
(* (matches_derived_word, can_apply, expand_matching_rules)                *)
THEOREM ImportedSearchBounded == Spec => []SearchBounded
<1>1. ASSUME NEW d, SearchInv(d)
      PROVE  SearchBounded
  <2>1. ASSUME NEW s, CountsUsed(d, s)
        PROVE  Depth(s) <= 4
    BY <2>1 DEF CountsUsed, Depth
  <2>2. QED
    BY <1>1, <2>1, SearchBounds DEF SearchInv, SearchBounded
<1>2. SearchedInv => SearchBounded
  BY <1>1 DEF SearchedInv, ExactInv
<1>3. QED
  BY <1>2, SearchedInvariant, PTL

(* In every dictionary the importer makes, compiled or not, the search     *)
(* finds a word only if some entry derives it and, unless a budget was used*)
(* up, whenever one does.  (parse_aff, parse_dic, load_runtime_cache,      *)
(* derived_candidate_indices, matches_derived_word)                        *)
THEOREM ImportedDerivedExact == Spec => []DerivedExact
<1>1. SearchedInv => DerivedExact
  BY DEF SearchedInv, ExactInv
<1>2. QED
  BY <1>1, SearchedInvariant, PTL

-----------------------------------------------------------------------------
(* No line is lost                                                         *)

LEMMA Reported ==
  ASSUME NEW severity, Report(severity)
  PROVE  Noted(severity)
  BY DEF Report, Noted

LEMMA ChangeAtTop ==
  ASSUME section = NoSection, dictionary' # dictionary \/ declared' # declared
  PROVE  Accounted
  BY DEF Accounted, TakenIn

(* A line whose value is stored, or reported. *)
LEMMA StorePasses ==
  ASSUME NEW valid, NEW stored, Store(valid, stored, "error"), section = NoSection,
         valid => stored # dictionary
  PROVE  Accounted
<1>1. CASE valid
  BY <1>1, ChangeAtTop DEF Store
<1>2. CASE ~valid
  BY <1>2, Reported DEF Store, Accounted
<1>3. QED
  BY <1>1, <1>2

LEMMA FieldChanges ==
  ASSUME NEW d, NEW f \in DOMAIN d, NEW v, v # d[f]
  PROVE  [d EXCEPT ![f] = v] # d
<1>1. [d EXCEPT ![f] = v][f] = v
  OBVIOUS
<1>2. QED
  BY <1>1

LEMMA CompoundFieldChanges ==
  ASSUME NEW d, StoredTyped(d), NEW f \in DOMAIN EmptyCompound, NEW v, v # d.compound[f]
  PROVE  [d EXCEPT !.compound[f] = v] # d
<1>1. "compound" \in DOMAIN d /\ f \in DOMAIN d.compound
  BY StoredFields DEF StoredTyped
<1>2. [d EXCEPT !.compound[f] = v].compound[f] = v
  BY <1>1
<1>3. QED
  BY <1>2

LEMMA DirectivePasses ==
  ASSUME StoredInv, IsLine(line), Directive
  PROVE  Accounted
<1>0. DOMAIN EmptyDictionary \subseteq DOMAIN dictionary /\ StoredTyped(dictionary)
  BY DEF StoredInv, StoredTyped
<1>1. section = NoSection
  BY DEF Directive, SpecialFlag, CompoundFlag, Marker, CompoundMarker, Characters,
     Keyboard, CompoundMinimum, CompoundWordMaximum, CompoundSyllables, SetEncoding, FlagMode,
     CaseLanguage, OpenSection, OpenGroup, UnknownDirective, TopLine
<1>2. /\ DOMAIN line.args = 1..Len(line.args) /\ Len(line.args) \in Nat
      /\ \A n \in DOMAIN line.args : Field(line, n) = line.args[n] /\ Field(line, n) # <<>>
                                     /\ IsText(Field(line, n))
  BY TextType, FieldIsText DEF IsLine, Field
<1>3. CASE SpecialFlag
  <2> DEFINE f == FlagFields[line.name]
             flag == DecodeFlag(Field(line, 1), mode)
             stored == [dictionary EXCEPT ![f] = flag]
             valid == Len(line.args) = 1 /\ dictionary[f] = {} /\ flag # {}
  <2>1. Store(valid, stored, "error")
    BY <1>3 DEF SpecialFlag
  <2>2. valid => stored # dictionary
    <3>1. f \in DOMAIN dictionary
      BY <1>0, <1>3, StoredFields DEF SpecialFlag
    <3>2. QED
      BY <3>1, FieldChanges
  <2>3. QED
    BY <1>1, <2>1, <2>2, StorePasses
<1>4. CASE CompoundFlag
  <2> DEFINE f == CompoundFlagFields[line.name]
             flag == DecodeFlag(Field(line, 1), mode)
             stored == [dictionary EXCEPT !.compound[f] = flag]
             valid == Len(line.args) = 1 /\ dictionary.compound[f] = {} /\ flag # {}
  <2>1. Store(valid, stored, "error")
    BY <1>4 DEF CompoundFlag
  <2>2. valid => stored # dictionary
    <3>1. f \in DOMAIN EmptyCompound
      BY <1>4, StoredFields DEF CompoundFlag
    <3>2. QED
      BY <1>0, <3>1, CompoundFieldChanges
  <2>3. QED
    BY <1>1, <2>1, <2>2, StorePasses
<1>5. CASE Marker
  <2> DEFINE f == MarkerFields[line.name]
             stored == [dictionary EXCEPT ![f] = TRUE]
             valid == line.args = <<>> /\ ~dictionary[f]
  <2>1. Store(valid, stored, "error")
    BY <1>5 DEF Marker
  <2>2. valid => stored # dictionary
    <3>1. f \in DOMAIN dictionary
      BY <1>0, <1>5, StoredFields DEF Marker
    <3>2. QED
      BY <3>1, FieldChanges
  <2>3. QED
    BY <1>1, <2>1, <2>2, StorePasses
<1>6. CASE CompoundMarker
  <2> DEFINE f == CompoundMarkerFields[line.name]
             stored == [dictionary EXCEPT !.compound[f] = TRUE]
             valid == line.args = <<>> /\ ~dictionary.compound[f]
  <2>1. Store(valid, stored, "error")
    BY <1>6 DEF CompoundMarker
  <2>2. valid => stored # dictionary
    <3>1. f \in DOMAIN EmptyCompound
      BY <1>6, StoredFields DEF CompoundMarker
    <3>2. QED
      BY <1>0, <3>1, CompoundFieldChanges
  <2>3. QED
    BY <1>1, <2>1, <2>2, StorePasses
<1>7. CASE Characters
  <2> DEFINE f == CharacterFields[line.name]
             letters == Range(Field(line, 1))
             stored == [dictionary EXCEPT ![f] = letters]
             valid == Len(line.args) = 1 /\ dictionary[f] = {}
  <2>1. Store(valid, stored, "error")
    BY <1>7 DEF Characters
  <2>2. valid => stored # dictionary
    <3>1. f \in DOMAIN dictionary
      BY <1>0, <1>7, StoredFields DEF Characters
    <3>2. ASSUME valid
          PROVE  letters # {}
      <4>1. 1 \in DOMAIN line.args
        BY <1>2, <3>2
      <4>2. IsText(Field(line, 1)) /\ Field(line, 1) # <<>>
        BY <1>2, <4>1
      <4>3. Len(Field(line, 1)) \in Nat /\ Len(Field(line, 1)) # 0
            /\ DOMAIN Field(line, 1) = 1..Len(Field(line, 1))
        BY <4>2, TextType, EmptySeq DEF IsText
      <4>4. 1 \in DOMAIN Field(line, 1)
        BY <4>3
      <4>5. QED
        BY <4>4 DEF Range
    <3>3. QED
      BY <3>1, <3>2, FieldChanges
  <2>3. QED
    BY <1>1, <2>1, <2>2, StorePasses
<1>8. CASE Keyboard
  <2>1. line.name = "KEY"
        /\ Store(Len(line.args) = 1 /\ dictionary.keyboard = {},
                 [dictionary EXCEPT !.keyboard = {Field(line, 1)}], "warning")
    BY <1>8 DEF Keyboard
  <2>2. CASE Len(line.args) = 1 /\ dictionary.keyboard = {}
    <3>1. "keyboard" \in DOMAIN dictionary
      BY <1>0, StoredFields
    <3>2. dictionary' # dictionary
      BY <2>1, <2>2, <3>1, FieldChanges DEF Store
    <3>3. QED
      BY <1>1, <3>2, ChangeAtTop
  <2>3. CASE ~(Len(line.args) = 1 /\ dictionary.keyboard = {})
    <3>1. Noted("warning")
      BY <2>1, <2>3, Reported DEF Store
    <3>2. OnlyWarned
      BY <2>1 DEF BearsOnRecognition, OnlyWarned
    <3>3. QED
      BY <3>1, <3>2 DEF Accounted
  <2>4. QED
    BY <2>2, <2>3
<1>9. CASE CompoundMinimum
  <2> DEFINE valid == Len(line.args) = 1 /\ Number(Field(line, 1)) # {}
  <2>1. line.name = "COMPOUNDMIN" /\ \E stored : Store(valid, stored, "error")
    BY <1>9, Zenon DEF CompoundMinimum
  <2>2. CASE valid
    BY <1>1, <2>1, <2>2 DEF Accounted, SaysNothing
  <2>3. CASE ~valid
    <3>1. Noted("error")
      BY <2>1, <2>3, Reported DEF Store
    <3>2. QED
      BY <3>1 DEF Accounted
  <2>4. QED
    BY <2>2, <2>3
<1>10. CASE CompoundWordMaximum
  <2> DEFINE n == Number(Field(line, 1))
             stored == [dictionary EXCEPT !.compound.maximum = n]
             valid == /\ \/ Len(line.args) = 1
                         \/ Len(line.args) = 2 /\ DecodeFlag(Field(line, 2), mode) # {}
                      /\ n # {} /\ n \subseteq 1..MaxCompoundScalars
                      /\ dictionary.compound.maximum = {}
  <2>1. Store(valid, stored, "error")
    BY <1>10 DEF CompoundWordMaximum
  <2>2. valid => stored # dictionary
    BY <1>0, StoredFields, CompoundFieldChanges
  <2>3. QED
    BY <1>1, <2>1, <2>2, StorePasses
<1>11. CASE CompoundSyllables
  <2> DEFINE limits == {[maximum |-> n, vowels |-> Range(Field(line, 2))] :
                          n \in Number(Field(line, 1))}
             stored == [dictionary EXCEPT !.compound.syllables = limits]
             valid == /\ Len(line.args) = 2 /\ limits # {}
                      /\ dictionary.compound.syllables = {}
  <2>1. Store(valid, stored, "error")
    BY <1>11 DEF CompoundSyllables
  <2>2. valid => stored # dictionary
    <3> HIDE DEF limits
    <3>1. QED
      BY <1>0, StoredFields, CompoundFieldChanges
  <2>3. QED
    BY <1>1, <2>1, <2>2, StorePasses
<1>12. CASE SetEncoding
  <2> DEFINE valid == line.args \in {<<f>> : f \in DOMAIN EncodingOf}
  <2>1. line.name = "SET" /\ Store(valid, dictionary, "error")
    BY <1>12 DEF SetEncoding
  <2>2. CASE valid
    <3>1. PICK f \in DOMAIN EncodingOf : line.args = <<f>>
      BY <2>2
    <3>2. 1 \in DOMAIN line.args /\ line.args[1] = f
      BY <3>1
    <3>3. Field(line, 1) \in DOMAIN EncodingOf
      BY <1>2, <3>2
    <3>4. QED
      BY <1>1, <2>1, <3>3 DEF Accounted, SaysNothing
  <2>3. CASE ~valid
    <3>1. Noted("error")
      BY <2>1, <2>3, Reported DEF Store
    <3>2. QED
      BY <3>1 DEF Accounted
  <2>4. QED
    BY <2>2, <2>3
<1>13. CASE FlagMode
  <2>1. \/ "FLAG" \notin declared /\ declared' = declared \cup {"FLAG"}
        \/ Report("error")
    BY <1>13 DEF FlagMode
  <2>2. QED
    BY <1>1, <2>1, ChangeAtTop, Reported DEF Accounted
<1>14. CASE CaseLanguage
  <2>1. \/ "LANG" \notin declared /\ declared' = declared \cup {"LANG"}
        \/ Report("error")
    BY <1>14 DEF CaseLanguage
  <2>2. QED
    BY <1>1, <2>1, ChangeAtTop, Reported DEF Accounted
<1>15. CASE OpenSection
  <2> DEFINE count == IF Len(line.args) = 1 THEN Number(Field(line, 1)) ELSE {}
  <2>1. /\ line.name \in DOMAIN Counted
        /\ \/ count # {} /\ \E n \in count : Open(line.name, n)
           \/ Report(Counted[line.name].severity)
    BY <1>15 DEF OpenSection
  <2>2. CASE count # {} /\ \E n \in count : Open(line.name, n)
    <3>1. Len(line.args) = 1 /\ count = Number(Field(line, 1))
      BY <2>2
    <3>2. 1 \in DOMAIN line.args /\ count = Number(line.args[1])
      BY <1>2, <3>1
    <3>3. PICK n \in count : Open(line.name, n)
      BY <2>2
    <3> HIDE DEF count
    <3>4. count = {n}
      BY <3>2, <3>3, NumberType DEF Single
    <3>5. CASE n = 0
      BY <1>1, <2>1, <3>2, <3>4, <3>5 DEF Accounted, SaysNothing
    <3>6. CASE n # 0
      <4>1. section' = [name |-> line.name, left |-> n, header |-> at, expansions |-> 0]
        BY <3>3, <3>6 DEF Open
      <4>2. section'.left = n
        BY <4>1
      <4>3. section' # NoSection
        BY <3>6, <4>2 DEF NoSection
      <4>4. QED
        BY <1>1, <4>3 DEF Accounted, TakenIn
    <3>7. QED
      BY <3>5, <3>6
  <2>3. CASE Report(Counted[line.name].severity)
    <3>1. Counted[line.name].severity = "error"
          \/ (Counted[line.name].severity = "warning" /\ line.name \in {"REP", "MAP", "AM"})
      BY <2>1 DEF Counted
    <3>2. line.name \in {"REP", "MAP", "AM"} => OnlyWarned
      BY DEF BearsOnRecognition, OnlyWarned
    <3>3. QED
      BY <2>3, <3>1, <3>2, Reported DEF Accounted
  <2>4. QED
    BY <2>1, <2>2, <2>3
<1>16. CASE OpenGroup
  <2> DEFINE count == Number(Field(line, 3))
  <2>1. /\ line.name \in {"PFX", "SFX"}
        /\ \/ /\ Len(line.args) = 3 /\ count # {}
              /\ \/ count = {0}
                 \/ section'.left = Max(count)
           \/ Report("error")
    BY <1>16 DEF OpenGroup
  <2>2. CASE Len(line.args) = 3 /\ count = {0}
    <3>1. 3 \in DOMAIN line.args /\ count = Number(line.args[3])
      BY <1>2, <2>2
    <3>2. QED
      BY <1>1, <2>1, <2>2, <3>1 DEF Accounted, SaysNothing
  <2>3. CASE count # {} /\ count # {0} /\ section'.left = Max(count)
    <3>1. PICK v \in Nat : count = {v}
      BY <2>3, NumberType DEF Single
    <3> HIDE DEF count
    <3>2. Max({v}) = v
      BY <3>1 DEF Max
    <3>3. v # 0
      BY <2>3, <3>1
    <3>4. section' # NoSection
      BY <2>3, <3>1, <3>2, <3>3 DEF NoSection
    <3>5. QED
      BY <1>1, <3>4 DEF Accounted, TakenIn
  <2>4. CASE Report("error")
    BY <2>4, Reported DEF Accounted
  <2>5. QED
    BY <2>1, <2>2, <2>3, <2>4
<1>17. CASE UnknownDirective
  <2>1. \/ Report("error")
        \/ line.name \in SuggestionOnly /\ Report("warning")
    BY <1>17 DEF UnknownDirective
  <2>2. line.name \in SuggestionOnly => OnlyWarned
    BY DEF BearsOnRecognition, OnlyWarned
  <2>3. QED
    BY <2>1, <2>2, Reported DEF Accounted
<1>18. QED
  BY <1>3, <1>4, <1>5, <1>6, <1>7, <1>8, <1>9, <1>10, <1>11, <1>12, <1>13, <1>14, <1>15, <1>16,
     <1>17 DEF Directive

LEMMA ItemPasses ==
  ASSUME NEW items, NEW stored, Item(items, stored), section.name \in DOMAIN Counted,
         items # {} => line.name = section.name /\ stored # dictionary
  PROVE  Accounted
<1>1. CASE items # {}
  <2>1. line.name = section.name /\ dictionary' # dictionary
    BY <1>1 DEF Item
  <2>2. QED
    BY <2>1 DEF Accounted, TakenIn
<1>2. CASE items = {}
  <2>1. Report(Counted[section.name].severity)
    BY <1>2 DEF Item
  <2>2. Counted[section.name].severity = "error"
        \/ (Counted[section.name].severity = "warning" /\ section.name \in {"REP", "MAP", "AM"})
    BY DEF Counted
  <2>3. QED
    BY <2>1, <2>2, Reported DEF Accounted, OnlyWarned
<1>3. QED
  BY <1>1, <1>2

LEMMA TableChanges ==
  ASSUME NEW d, StoredTyped(d), NEW f \in Tables, NEW items, Single(items), items # {}
  PROVE  [d EXCEPT ![f] = Appended(@, items)] # d
<1>1. f \in DOMAIN d /\ IsText(d[f])
  BY StoredFields DEF StoredTyped
<1>2. Appended(d[f], items) # d[f]
  BY <1>1, AppendedMore
<1>3. [d EXCEPT ![f] = Appended(@, items)] = [d EXCEPT ![f] = Appended(d[f], items)]
  BY <1>1
<1>4. QED
  BY <1>1, <1>2, <1>3, FieldChanges

(* A line inside a section is its own and adds to it, or is reported. *)
LEMMA SectionPasses ==
  ASSUME DictionaryTyped(dictionary), StoredInv, IsLine(line), InSection
  PROVE  Accounted
<1>0. StoredTyped(dictionary)
  BY DEF StoredInv
<1>1. {"AF", "AM", "ICONV", "OCONV", "REP", "MAP", "BREAK", "CHECKCOMPOUNDPATTERN", "COMPOUNDRULE"}
        \subseteq DOMAIN Counted
  BY DEF Counted
<1>2. \A i : IsText(Field(line, i))
  BY FieldIsText
<1>3. CASE Conversion
  <2> DEFINE parsed == ParseConversion(Field(line, 1), Field(line, 2))
             items == IF Belongs({2}) THEN parsed ELSE {}
  <2>1. Single(items) /\ (items # {} => line.name = section.name)
    BY ConversionSingle DEF Single, Belongs
  <2>2. \/ section.name = "ICONV"
           /\ Item(items, [dictionary EXCEPT !.inputConversions = Appended(@, items)])
        \/ section.name = "OCONV"
           /\ Item(items, [dictionary EXCEPT !.outputConversions = Appended(@, items)])
    BY <1>3, Zenon DEF Conversion, SectionLine
  <2> HIDE DEF items
  <2>3. items # {} =>
          /\ [dictionary EXCEPT !.inputConversions = Appended(@, items)] # dictionary
          /\ [dictionary EXCEPT !.outputConversions = Appended(@, items)] # dictionary
    BY <1>0, <2>1, TableChanges DEF Tables
  <2>4. QED
    BY <1>1, <2>1, <2>2, <2>3, ItemPasses
<1>4. CASE Replacement
  <2> DEFINE parsed == ParseReplacementRule(Field(line, 1), Field(line, 2))
             items == IF Belongs({2}) THEN parsed ELSE {}
  <2>1. Single(items) /\ (items # {} => line.name = section.name)
    BY ReplacementSingle DEF Single, Belongs
  <2>2. section.name = "REP"
        /\ Item(items, [dictionary EXCEPT !.replacements = Appended(@, items)])
    BY <1>4, Zenon DEF Replacement, SectionLine
  <2> HIDE DEF items
  <2>3. items # {} => [dictionary EXCEPT !.replacements = Appended(@, items)] # dictionary
    BY <1>0, <2>1, TableChanges DEF Tables
  <2>4. QED
    BY <1>1, <2>1, <2>2, <2>3, ItemPasses
<1>5. CASE CharacterMap
  <2> DEFINE items == {f \in {Field(line, 1)} : Belongs({1}) /\ Len(f) >= 2}
  <2>1. Single(items) /\ (items # {} => line.name = section.name)
    BY DEF Single, Belongs
  <2>2. section.name = "MAP" /\ Item(items, [dictionary EXCEPT !.maps = Appended(@, items)])
    BY <1>5, Zenon DEF CharacterMap, SectionLine
  <2> HIDE DEF items
  <2>3. items # {} => [dictionary EXCEPT !.maps = Appended(@, items)] # dictionary
    BY <1>0, <2>1, TableChanges DEF Tables
  <2>4. QED
    BY <1>1, <2>1, <2>2, <2>3, ItemPasses
<1>6. CASE Break
  <2> DEFINE parsed == ParseBreakPattern(Field(line, 1))
             items == IF Belongs({1}) THEN parsed ELSE {}
             v == Appended(dictionary.breaks, items)
  <2>1. Single(items) /\ (items # {} => line.name = section.name)
    BY <1>2, BreakItems DEF Single, Belongs
  <2>2. section.name = "BREAK" /\ Item(items, [dictionary EXCEPT !.breaks = v])
    BY <1>6, Zenon DEF Break, SectionLine
  <2> HIDE DEF items
  <2>3. items # {} => v # dictionary.breaks
    BY <2>1, AppendedMore DEF DictionaryTyped, BreaksTyped
  <2>4. items # {} => [dictionary EXCEPT !.breaks = v] # dictionary
    <3>1. "breaks" \in DOMAIN dictionary
      BY <1>0, StoredFields DEF StoredTyped
    <3> HIDE DEF v
    <3>2. QED
      BY <2>3, <3>1, FieldChanges
  <2> HIDE DEF v
  <2>5. QED
    BY <1>1, <2>1, <2>2, <2>4, ItemPasses
<1>7. CASE Pattern
  <2> DEFINE replacement == Option(Len(line.args) = 3, Field(line, 3))
             parsed == ParseCompoundPattern(Field(line, 1), Field(line, 2), replacement, mode)
             items == IF Belongs({2, 3}) THEN parsed ELSE {}
             v == Appended(dictionary.compound.patterns, items)
  <2>1. Single(items) /\ (items # {} => line.name = section.name)
    <3>1. ASSUME NEW t \in replacement
          PROVE  IsText(t) /\ t # <<>>
      <4>1. t = Field(line, 3) /\ Len(line.args) = 3
        BY DEF Option
      <4>2. 3 \in DOMAIN line.args
        BY <4>1, TextType DEF IsLine
      <4>3. QED
        BY <1>2, <4>1, <4>2, FieldIsText
    <3> HIDE DEF replacement
    <3>2. Single(parsed)
      BY <1>2, <3>1, PatternItems
    <3> HIDE DEF parsed
    <3>3. QED
      BY <3>2 DEF Single, Belongs
  <2>2. section.name = "CHECKCOMPOUNDPATTERN"
        /\ Item(items, [dictionary EXCEPT !.compound.patterns = v])
    BY <1>7, Zenon DEF Pattern, SectionLine
  <2> HIDE DEF items
  <2>3. items # {} => v # dictionary.compound.patterns
    BY <2>1, AppendedMore DEF DictionaryTyped, CompoundOptions, PatternsTyped
  <2> HIDE DEF v
  <2>4. items # {} => [dictionary EXCEPT !.compound.patterns = v] # dictionary
    BY <1>0, <2>3, StoredFields, CompoundFieldChanges
  <2>5. QED
    BY <1>1, <2>1, <2>2, <2>4, ItemPasses
<1>8. CASE Rule
  <2> DEFINE parsed == ParseCompoundRule(Field(line, 1), mode)
             rules == {r \in IF Belongs({1}) THEN parsed ELSE {} :
                         section.expansions + Len(r) <= MaxRuleExpansions}
             v == Appended(dictionary.compound.rules, rules)
  <2>1. Single(rules) /\ (rules # {} => line.name = section.name)
    BY <1>2, CompoundRuleType DEF Single, Belongs
  <2>2. \/ rules # {} /\ dictionary' = [dictionary EXCEPT !.compound.rules = v]
        \/ Report("error")
    BY <1>8, Zenon DEF Rule
  <2> HIDE DEF rules
  <2>3. rules # {} => v # dictionary.compound.rules
    BY <2>1, AppendedMore DEF DictionaryTyped, CompoundOptions
  <2> HIDE DEF v
  <2>4. rules # {} => [dictionary EXCEPT !.compound.rules = v] # dictionary
    BY <1>0, <2>3, StoredFields, CompoundFieldChanges
  <2>5. CASE rules # {} /\ dictionary' = [dictionary EXCEPT !.compound.rules = v]
    BY <2>1, <2>4, <2>5 DEF Accounted, TakenIn
  <2>6. CASE Report("error")
    BY <2>6, Reported DEF Accounted
  <2>7. QED
    BY <2>2, <2>5, <2>6
<1>9. CASE FlagAlias
  <2>1. section.name = "AF"
        /\ \E flags : /\ aliases' = Append(aliases, flags)
                      /\ (flags # {} /\ line.name = section.name) \/ Report("error")
    BY <1>9 DEF FlagAlias, SectionLine, Belongs
  <2>2. aliases' # aliases
    BY <2>1, AppendIsText DEF StoredInv
  <2>3. QED
    BY <2>1, <2>2, Reported DEF Accounted, TakenIn
<1>10. CASE MorphologyAlias
  <2>1. section.name = "AM"
        /\ \E valid : /\ morphologies' = Append(morphologies, valid)
                      /\ line.name = "AM" \/ Report("warning")
    BY <1>10 DEF MorphologyAlias, SectionLine
  <2>2. morphologies' # morphologies
    BY <2>1, AppendIsText DEF StoredInv
  <2>3. OnlyWarned
    BY <2>1 DEF OnlyWarned
  <2>4. CASE line.name = "AM"
    BY <2>1, <2>2, <2>4 DEF Accounted, TakenIn
  <2>5. CASE Report("warning")
    BY <2>3, <2>5, Reported DEF Accounted
  <2>6. QED
    BY <2>1, <2>4, <2>5
<1>11. CASE AffixRule
  <2>1. \/ Report("error")
        \/ /\ phase = "aff"
           /\ \E rule \in ParseAffixRule(line, Cardinality(dictionary.rules)) :
                dictionary' = [dictionary EXCEPT !.rules = @ \cup {rule}]
    BY <1>11, Zenon DEF AffixRule, SectionLine
  <2>2. ASSUME phase = "aff",
               NEW rule \in ParseAffixRule(line, Cardinality(dictionary.rules)),
               dictionary' = [dictionary EXCEPT !.rules = @ \cup {rule}]
        PROVE  Accounted
    <3>1. rule \notin dictionary.rules
      BY <2>2, NewRule DEF StoredInv
    <3>2. "rules" \in DOMAIN dictionary
      BY <1>0, StoredFields DEF StoredTyped
    <3>3. dictionary' # dictionary
      BY <2>2, <3>1, <3>2
    <3>4. line.name = section.name
      BY DEF ParseAffixRule
    <3>5. QED
      BY <3>3, <3>4 DEF Accounted, TakenIn
  <2>3. QED
    BY <2>1, <2>2, Reported DEF Accounted
<1>12. QED
  BY <1>3, <1>4, <1>5, <1>6, <1>7, <1>8, <1>9, <1>10, <1>11 DEF InSection

LEMMA LinePasses ==
  ASSUME HunspellInv, StoredInv, ReadsContent, [Next]_vars
  PROVE  Accounted
<1>1. /\ phase = "aff" /\ at <= Len(source.aff) /\ ~IsIgnored(line) /\ at' = at + 1
      /\ at \in Nat \ {0} /\ DictionaryTyped(dictionary)
  BY DEF ReadsContent, HunspellInv, ImportInv
<1>2. IsLine(line)
  <2>1. IsText(source.aff) /\ \A l \in Range(source.aff) : IsLine(l)
    BY DEF HunspellInv, ImportInv, IsFile
  <2>2. at \in DOMAIN source.aff
    BY <1>1, <2>1, TextType
  <2>3. QED
    BY <2>1, <2>2 DEF line, Range
<1>3. at' # at
  BY <1>1
<1>4. Import
  BY <1>3, Zenon DEF Next, vars, importVars, Import, Compile, Disturb, Load, LookUp, Search,
     Return, Refused, Reloaded
<1>5. CASE Directive
  BY <1>2, <1>5, DirectivePasses
<1>6. CASE InSection
  BY <1>1, <1>2, <1>6, SectionPasses
<1>7. CASE SkipLine
  <2>1. Report("error")
    BY <1>1, <1>7 DEF SkipLine
  <2>2. QED
    BY <2>1, Reported DEF Accounted
<1>8. CASE ReadBytes \/ EndOfAff \/ SkipEntry \/ CountLine \/ Entry \/ TooManyEntries \/ Finish
  <2>1. Len(source.aff) \in Nat
    BY TextType DEF HunspellInv, ImportInv, IsFile
  <2>2. QED
    BY <1>1, <1>8, <2>1 DEF ReadBytes, EndOfAff, SkipEntry, CountLine, Entry, TooManyEntries,
       Finish, DicLine
<1>9. QED
  BY <1>4, <1>5, <1>6, <1>7, <1>8 DEF Import, ImportNext

(* No line of an .aff file is passed over in silence, and one that bears   *)
(* on recognition is an error when it is not taken in, unless it is a REP  *)
(* line, which CHECKCOMPOUNDREP may need, or an open REP, MAP or AM table  *)
(* took it for one of its own: of every line parse_aff reads, whatever the *)
(* file and whatever was read before.                                      *)
THEOREM LostLinesAreErrorsCorrect == Spec => LostLinesAreErrors
<1>1. HunspellInv /\ StoredInv /\ [Next]_vars => (ReadsContent => Accounted)
  BY LinePasses
<1>2. SourcesInv => StoredInv
  BY DEF SourcesInv
<1>3. QED
  BY <1>1, <1>2, HunspellInvariant, SourcesInvariant, PTL DEF Spec, LostLinesAreErrors

-----------------------------------------------------------------------------
(* Sums                                                                    *)

(* A sum of numbers counts units: as many of an x as f gives.              *)
Units(f, s) == UNION {{x} \X (1..f[x]) : x \in s}

Counting(f) == IsFiniteSet(DOMAIN f) /\ \A x \in DOMAIN f : f[x] \in Nat

LEMMA CountedUp ==
  ASSUME NEW n \in Nat
  PROVE  IsFiniteSet(1..n) /\ Cardinality(1..n) = n
<1>1. IsFiniteSet(1..n) /\ Cardinality(1..n) = IF 1 > n THEN 0 ELSE n - 1 + 1
  BY FS_Interval
<1>2. QED
  BY <1>1

LEMMA UnitsFinite ==
  ASSUME NEW f, Counting(f), NEW s \in SUBSET DOMAIN f
  PROVE  IsFiniteSet(Units(f, s)) /\ Cardinality(Units(f, s)) \in Nat
<1> DEFINE parts == {{x} \X (1..f[x]) : x \in s}
           g == [x \in s |-> {x} \X (1..f[x])]
<1>1. IsFiniteSet(s)
  BY FS_Subset DEF Counting
<1>2. g \in Surjection(s, parts)
  BY DEF Surjection
<1> HIDE DEF g
<1>3. IsFiniteSet(parts)
  BY <1>1, <1>2, FS_Surjection
<1>4. \A t \in parts : IsFiniteSet(t)
  <2>1. ASSUME NEW x \in s
        PROVE  IsFiniteSet({x} \X (1..f[x]))
    <3>1. f[x] \in Nat
      BY DEF Counting
    <3>2. IsFiniteSet(1..f[x])
      BY <3>1, CountedUp
    <3>3. IsFiniteSet({x})
      BY FS_Singleton
    <3>4. QED
      BY <3>2, <3>3, FS_Product
  <2>2. QED
    BY <2>1
<1>5. Units(f, s) = UNION parts
  BY DEF Units
<1> HIDE DEF parts
<1>6. QED
  BY <1>3, <1>4, <1>5, FS_UNION, FS_CardinalityType

LEMMA UnitsNext ==
  ASSUME NEW f, Counting(f), NEW s \in SUBSET DOMAIN f, NEW x \in s
  PROVE  Cardinality(Units(f, s)) = f[x] + Cardinality(Units(f, s \ {x}))
<1> DEFINE rest == Units(f, s \ {x})
           own == {x} \X (1..f[x])
<1>1. Units(f, s) = own \cup rest
  BY DEF Units
<1>2. own \cap rest = {}
  BY DEF Units
<1>3. f[x] \in Nat /\ IsFiniteSet({x}) /\ Cardinality({x}) = 1
      /\ IsFiniteSet(1..f[x]) /\ Cardinality(1..f[x]) = f[x]
  <2>1. f[x] \in Nat
    BY DEF Counting
  <2>2. IsFiniteSet(1..f[x]) /\ Cardinality(1..f[x]) = f[x]
    BY <2>1, CountedUp
  <2>3. IsFiniteSet({x}) /\ Cardinality({x}) = 1
    BY FS_Singleton
  <2>4. QED
    BY <2>1, <2>2, <2>3
<1>4. IsFiniteSet(own) /\ Cardinality(own) = f[x]
  <2>1. IsFiniteSet(own) /\ Cardinality(own) = Cardinality({x}) * Cardinality(1..f[x])
    BY <1>3, FS_Product
  <2> HIDE DEF own
  <2>2. QED
    BY <1>3, <2>1
<1>5. IsFiniteSet(rest) /\ Cardinality(rest) \in Nat
  <2>1. s \ {x} \in SUBSET DOMAIN f
    OBVIOUS
  <2>2. QED
    BY <2>1, UnitsFinite
<1> HIDE DEF own, rest
<1>6. Cardinality(own \cup rest) = Cardinality(own) + Cardinality(rest) - Cardinality(own \cap rest)
  BY <1>4, <1>5, FS_Union
<1>7. Cardinality(own \cap rest) = 0
  BY <1>2, FS_EmptySet
<1>8. Cardinality(own \cup rest) = f[x] + Cardinality(rest)
  BY <1>3, <1>4, <1>5, <1>6, <1>7
<1>9. QED
  BY <1>1, <1>8 DEF rest

LEMMA NoUnits ==
  ASSUME NEW f
  PROVE  Cardinality(Units(f, {})) = 0
<1>1. Units(f, {}) = {}
  BY DEF Units
<1>2. QED
  BY <1>1, FS_EmptySet

(* The sum as the fold over sets adds it up. *)
SummedUp(f, iter) ==
  iter = [s \in SUBSET DOMAIN f |->
            IF s = {} THEN 0
            ELSE f[CHOOSE x \in s : TRUE] + iter[s \ {CHOOSE x \in s : TRUE}]]

LEMMA SumDef ==
  ASSUME NEW f
  PROVE  SumFunction(f) = (CHOOSE iter : SummedUp(f, iter))[DOMAIN f]
  BY Zenon DEF SumFunction, SumFunctionOnSet, FoldFunctionOnSet, MapThenFoldSet, SummedUp

LEMMA SummedUpExists ==
  ASSUME NEW f, Counting(f)
  PROVE  \E iter : SummedUp(f, iter)
<1> DEFINE g == [s \in SUBSET DOMAIN f |-> Cardinality(Units(f, s))]
           Sum(h, s) == IF s = {} THEN 0
                        ELSE f[CHOOSE x \in s : TRUE] + h[s \ {CHOOSE x \in s : TRUE}]
<1>1. ASSUME NEW s \in SUBSET DOMAIN f
      PROVE  g[s] = Sum(g, s)
  <2>1. CASE s = {}
    BY <2>1, NoUnits
  <2>2. CASE s # {}
    <3>1. PICK x \in s : x = CHOOSE y \in s : TRUE
      BY <2>2
    <3>2. s \ {x} \in SUBSET DOMAIN f
      OBVIOUS
    <3>3. g[s] = f[x] + g[s \ {x}]
      BY <3>2, UnitsNext
    <3> HIDE DEF g
    <3>4. QED
      BY <2>2, <3>1, <3>3, Zenon
  <2>3. QED
    BY <2>1, <2>2
<1> DEFINE h == [s \in SUBSET DOMAIN f |-> Sum(g, s)]
<1>2. g = h
  <2>1. \A s \in SUBSET DOMAIN f : g[s] = h[s]
    BY <1>1, Zenon
  <2>2. g = [s \in SUBSET DOMAIN f |-> g[s]] /\ h = [s \in SUBSET DOMAIN f |-> h[s]]
    OBVIOUS
  <2> HIDE DEF g, h
  <2>3. QED
    BY <2>1, <2>2
<1> HIDE DEF g
<1>3. SummedUp(f, g)
  BY <1>2, Zenon DEF SummedUp
<1>4. QED
  BY <1>3

LEMMA SumCounts ==
  ASSUME NEW f, Counting(f)
  PROVE  SumFunction(f) = Cardinality(Units(f, DOMAIN f))
<1>1. PICK iter : SummedUp(f, iter) /\ SumFunction(f) = iter[DOMAIN f]
  <2>1. SummedUp(f, CHOOSE iter : SummedUp(f, iter))
    BY SummedUpExists, Zenon
  <2>2. QED
    BY <2>1, SumDef, Zenon
<1> DEFINE S == {n \in Nat : \A s \in SUBSET DOMAIN f :
                   Cardinality(s) = n => iter[s] = Cardinality(Units(f, s))}
<1>2. \A s \in SUBSET DOMAIN f : IsFiniteSet(s) /\ Cardinality(s) \in Nat
  BY FS_Subset, FS_CardinalityType DEF Counting
<1>3. \A s \in SUBSET DOMAIN f :
        iter[s] = IF s = {} THEN 0
                  ELSE f[CHOOSE x \in s : TRUE] + iter[s \ {CHOOSE x \in s : TRUE}]
  BY <1>1, Zenon DEF SummedUp
<1>4. 0 \in S
  <2>1. ASSUME NEW s \in SUBSET DOMAIN f, Cardinality(s) = 0
        PROVE  iter[s] = Cardinality(Units(f, s))
    <3>1. s = {}
      BY <1>2, <2>1, FS_EmptySet
    <3>2. iter[s] = 0
      BY <1>3, <3>1, Zenon
    <3>3. QED
      BY <3>1, <3>2, NoUnits
  <2>2. QED
    BY <2>1
<1>5. ASSUME NEW n \in Nat, n \in S
      PROVE  n + 1 \in S
  <2>1. ASSUME NEW s \in SUBSET DOMAIN f, Cardinality(s) = n + 1
        PROVE  iter[s] = Cardinality(Units(f, s))
    <3>1. s # {}
      BY <2>1, FS_EmptySet
    <3>2. PICK x \in s : x = CHOOSE y \in s : TRUE
      BY <3>1
    <3>3. s \ {x} \in SUBSET DOMAIN f
      OBVIOUS
    <3>4. Cardinality(s \ {x}) = n
      <4>1. Cardinality(s \ {x}) = Cardinality(s) - 1
        BY <1>2, FS_RemoveElement
      <4>2. QED
        BY <2>1, <4>1
    <3>5. iter[s \ {x}] = Cardinality(Units(f, s \ {x}))
      BY <1>5, <3>3, <3>4
    <3>6. iter[s] = f[x] + iter[s \ {x}]
      BY <1>3, <3>1, <3>2, Zenon
    <3>7. QED
      BY <3>5, <3>6, UnitsNext
  <2>2. QED
    BY <2>1
<1> HIDE DEF S
<1>6. \A n \in Nat : n \in S
  BY <1>4, <1>5, AllNumbers
<1>7. DOMAIN f \in SUBSET DOMAIN f /\ Cardinality(DOMAIN f) \in Nat
  BY <1>2
<1>8. Cardinality(DOMAIN f) \in S
  BY <1>6, <1>7
<1>9. QED
  BY <1>1, <1>7, <1>8 DEF S

(* A sum is a number, at least k for each of its terms. *)
LEMMA SumAtLeast ==
  ASSUME NEW f, Counting(f), NEW k \in Nat, \A x \in DOMAIN f : f[x] >= k
  PROVE  SumFunction(f) \in Nat /\ SumFunction(f) >= k * Cardinality(DOMAIN f)
<1> DEFINE S == {n \in Nat : \A s \in SUBSET DOMAIN f :
                   Cardinality(s) = n => Cardinality(Units(f, s)) >= k * n}
<1>1. \A s \in SUBSET DOMAIN f : IsFiniteSet(s) /\ Cardinality(s) \in Nat
  BY FS_Subset, FS_CardinalityType DEF Counting
<1>2. 0 \in S
  <2>1. ASSUME NEW s \in SUBSET DOMAIN f, Cardinality(s) = 0
        PROVE  Cardinality(Units(f, s)) >= k * 0
    <3>1. s = {}
      BY <1>1, <2>1, FS_EmptySet
    <3>2. QED
      BY <3>1, NoUnits
  <2>2. QED
    BY <2>1
<1>3. ASSUME NEW n \in Nat, n \in S
      PROVE  n + 1 \in S
  <2>1. ASSUME NEW s \in SUBSET DOMAIN f, Cardinality(s) = n + 1
        PROVE  Cardinality(Units(f, s)) >= k * (n + 1)
    <3>1. PICK x \in s : TRUE
      BY <2>1, FS_EmptySet
    <3>2. s \ {x} \in SUBSET DOMAIN f
      OBVIOUS
    <3>3. Cardinality(s \ {x}) = n
      <4>1. Cardinality(s \ {x}) = Cardinality(s) - 1
        BY <1>1, FS_RemoveElement
      <4>2. QED
        BY <2>1, <4>1
    <3>4. Cardinality(Units(f, s \ {x})) >= k * n
      BY <1>3, <3>2, <3>3
    <3>5. Cardinality(Units(f, s)) = f[x] + Cardinality(Units(f, s \ {x}))
      BY UnitsNext
    <3>6. f[x] \in Nat /\ f[x] >= k /\ Cardinality(Units(f, s \ {x})) \in Nat
      BY <3>2, UnitsFinite DEF Counting
    <3>7. k * (n + 1) = k * n + k /\ k * n \in Nat
      OBVIOUS
    <3>8. QED
      BY <3>4, <3>5, <3>6, <3>7
  <2>2. QED
    BY <2>1
<1> HIDE DEF S
<1>4. \A n \in Nat : n \in S
  BY <1>2, <1>3, AllNumbers
<1>5. DOMAIN f \in SUBSET DOMAIN f /\ Cardinality(DOMAIN f) \in Nat
  BY <1>1
<1>6. Cardinality(DOMAIN f) \in S
  BY <1>4, <1>5
<1>7. Cardinality(Units(f, DOMAIN f)) >= k * Cardinality(DOMAIN f)
  BY <1>5, <1>6 DEF S
<1>8. Cardinality(Units(f, DOMAIN f)) \in Nat
  BY <1>5, UnitsFinite
<1>9. QED
  BY <1>7, <1>8, SumCounts

(* A sum of numbers is a number. *)
LEMMA SumType ==
  ASSUME NEW f, Counting(f)
  PROVE  SumFunction(f) \in Nat
  BY SumCounts, UnitsFinite

(* What is counted over the first places of a sequence. *)
FirstUnits(f, n) == Cardinality(Units(f, 1..n))

LEMMA FirstUnitsNext ==
  ASSUME NEW f, Counting(f), NEW n \in Nat, n # 0, 1..n \subseteq DOMAIN f
  PROVE  FirstUnits(f, n) = f[n] + FirstUnits(f, n - 1)
<1>1. n \in 1..n /\ (1..n) \ {n} = 1..(n - 1)
  OBVIOUS
<1>2. 1..n \in SUBSET DOMAIN f
  OBVIOUS
<1>3. QED
  BY <1>1, <1>2, UnitsNext DEF FirstUnits

LEMMA SumFirst ==
  ASSUME NEW f, Counting(f), NEW n \in Nat, DOMAIN f = 1..n
  PROVE  SumFunction(f) = FirstUnits(f, n)
  BY SumCounts DEF FirstUnits

LEMMA FirstSix ==
  ASSUME NEW f, Counting(f), 1..6 \subseteq DOMAIN f
  PROVE  FirstUnits(f, 6) = f[1] + f[2] + f[3] + f[4] + f[5] + f[6]
<1>1. \A n \in 1..6 : f[n] \in Nat /\ 1..n \subseteq DOMAIN f
  BY DEF Counting
<1>2. FirstUnits(f, 0) = 0
  <2>1. 1..0 = {}
    OBVIOUS
  <2>2. QED
    BY <2>1, NoUnits DEF FirstUnits
<1>3. \A n \in 1..6 : FirstUnits(f, n) = f[n] + FirstUnits(f, n - 1)
  BY <1>1, FirstUnitsNext
<1>4. FirstUnits(f, 1) = f[1]
  <2>1. FirstUnits(f, 1) = f[1] + FirstUnits(f, 1 - 1)
    BY <1>3
  <2>2. QED
    BY <1>1, <1>2, <2>1
<1>5. FirstUnits(f, 2) = f[1] + f[2]
  <2>1. FirstUnits(f, 2) = f[2] + FirstUnits(f, 2 - 1)
    BY <1>3
  <2>2. QED
    BY <1>1, <1>4, <2>1
<1>6. FirstUnits(f, 3) = f[1] + f[2] + f[3]
  <2>1. FirstUnits(f, 3) = f[3] + FirstUnits(f, 3 - 1)
    BY <1>3
  <2>2. QED
    BY <1>1, <1>5, <2>1
<1>7. FirstUnits(f, 4) = f[1] + f[2] + f[3] + f[4]
  <2>1. FirstUnits(f, 4) = f[4] + FirstUnits(f, 4 - 1)
    BY <1>3
  <2>2. QED
    BY <1>1, <1>6, <2>1
<1>8. FirstUnits(f, 5) = f[1] + f[2] + f[3] + f[4] + f[5]
  <2>1. FirstUnits(f, 5) = f[5] + FirstUnits(f, 5 - 1)
    BY <1>3
  <2>2. QED
    BY <1>1, <1>7, <2>1
<1>9. FirstUnits(f, 6) = f[1] + f[2] + f[3] + f[4] + f[5] + f[6]
  <2>1. FirstUnits(f, 6) = f[6] + FirstUnits(f, 6 - 1)
    BY <1>3
  <2>2. QED
    BY <1>1, <1>8, <2>1
<1>10. QED
  BY <1>9

LEMMA FirstEight ==
  ASSUME NEW f, Counting(f), 1..8 \subseteq DOMAIN f
  PROVE  FirstUnits(f, 8) = f[1] + f[2] + f[3] + f[4] + f[5] + f[6] + f[7] + f[8]
<1>1. 1..6 \subseteq DOMAIN f /\ 1..7 \subseteq DOMAIN f /\ \A n \in 1..8 : f[n] \in Nat
  BY DEF Counting
<1>2. FirstUnits(f, 6) = f[1] + f[2] + f[3] + f[4] + f[5] + f[6]
  BY <1>1, FirstSix
<1>3. FirstUnits(f, 7) = f[7] + FirstUnits(f, 6)
  <2>1. FirstUnits(f, 7) = f[7] + FirstUnits(f, 7 - 1)
    BY <1>1, FirstUnitsNext
  <2>2. QED
    BY <2>1
<1>4. FirstUnits(f, 8) = f[8] + FirstUnits(f, 7)
  <2>1. FirstUnits(f, 8) = f[8] + FirstUnits(f, 8 - 1)
    BY FirstUnitsNext
  <2>2. QED
    BY <2>1
<1>5. QED
  BY <1>1, <1>2, <1>3, <1>4

-----------------------------------------------------------------------------
(* The bytes of what is written                                            *)

LEMMA FlagBytes ==
  ASSUME NEW flag, Len(flag) \in Nat, NEW enc
  PROVE  FlagSize(flag, enc) \in Nat /\ FlagSize(flag, enc) >= 4
  BY DEF FlagSize, TextSize

(* A sum over a set, and one over a sequence. *)
LEMMA SetTotal ==
  ASSUME NEW S, IsFiniteSet(S), NEW f, DOMAIN f = S, NEW k \in Nat,
         \A x \in S : f[x] \in Nat /\ f[x] >= k
  PROVE  SumFunction(f) \in Nat /\ SumFunction(f) >= k * Cardinality(S)
  BY SumAtLeast DEF Counting

LEMMA ListTotal ==
  ASSUME NEW s, IsText(s), NEW f, DOMAIN f = DOMAIN s, NEW k \in Nat,
         \A i \in DOMAIN s : f[i] \in Nat /\ f[i] >= k
  PROVE  SumFunction(f) \in Nat /\ SumFunction(f) >= k * Len(s)
<1>1. DOMAIN s = 1..Len(s) /\ Len(s) \in Nat /\ IsFiniteSet(DOMAIN s)
  BY TextType
<1>2. Cardinality(DOMAIN s) = Len(s)
  BY <1>1, CountedUp
<1>3. QED
  BY <1>1, <1>2, SetTotal

LEMMA FlagsBytes ==
  ASSUME NEW flags, Measured(flags), NEW enc
  PROVE  /\ OptionalFlagSize(flags, enc) \in Nat /\ FlagsSize(flags, enc) \in Nat
         /\ OptionalFlagSize(flags, enc) >= 1 /\ FlagsSize(flags, enc) >= 4
         /\ flags # {} => OptionalFlagSize(flags, enc) >= 5
<1> DEFINE f == [x \in flags |-> FlagSize(x, enc)]
           c == Cardinality(flags)
<1>1. \A x \in flags : f[x] \in Nat /\ f[x] >= 4
  BY FlagBytes DEF Measured
<1>2. TotalOf(flags, LAMBDA x : FlagSize(x, enc)) = SumFunction(f)
  BY DEF TotalOf
<1>3. c \in Nat /\ (flags # {} => c >= 1)
  <2>1. c \in Nat /\ (c = 0 <=> flags = {})
    BY FS_CardinalityType, FS_EmptySet DEF Measured
  <2>2. QED
    BY <2>1
<1>4. DOMAIN f = flags
  OBVIOUS
<1>5. OptionalFlagSize(flags, enc) = 1 + SumFunction(f) /\ FlagsSize(flags, enc) = 4 + SumFunction(f)
  BY <1>2 DEF OptionalFlagSize, FlagsSize
<1> HIDE DEF f, c
<1>6. SumFunction(f) \in Nat /\ SumFunction(f) >= 4 * c
  BY <1>1, <1>4, SetTotal DEF Measured, c
<1>7. QED
  BY <1>3, <1>5, <1>6

LEMMA LexemeBytes ==
  ASSUME NEW l, Len(l.stem) \in Nat, Measured(l.flags), NEW enc
  PROVE  LexemeSize(l, enc) \in Nat /\ LexemeSize(l, enc) >= 8
<1>1. FlagsSize(l.flags, enc) \in Nat /\ FlagsSize(l.flags, enc) >= 4
  BY FlagsBytes
<1>2. QED
  BY <1>1 DEF LexemeSize, TextSize, Morphology

LEMMA AtomBytes ==
  ASSUME NEW atom, IsFiniteSet(atom.members)
  PROVE  AtomSize(atom) \in Nat
<1>1. Cardinality(atom.members) \in Nat
  BY FS_CardinalityType
<1>2. QED
  BY <1>1 DEF AtomSize

LEMMA ConditionBytes ==
  ASSUME NEW c, ConditionMeasured(c)
  PROVE  ConditionSize(c) \in Nat /\ ConditionSize(c) >= 6
<1> DEFINE f == [x \in c.notBefore |-> AtomSize(x)]
           g == [i \in DOMAIN c.atoms |-> AtomSize(c.atoms[i])]
<1>1. \A x \in c.notBefore : f[x] \in Nat /\ f[x] >= 0
  BY AtomBytes DEF ConditionMeasured, AtomTyped
<1>2. \A i \in DOMAIN c.atoms : g[i] \in Nat /\ g[i] >= 0
  BY AtomBytes DEF ConditionMeasured, AtomsMeasured, AtomTyped, Range
<1>3. ConditionSize(c) = 2 + SumFunction(f) + 4 + SumFunction(g)
  BY DEF ConditionSize, Total, TotalOf
<1>4. DOMAIN f = c.notBefore /\ DOMAIN g = DOMAIN c.atoms
  OBVIOUS
<1> HIDE DEF f, g
<1>5. SumFunction(f) \in Nat
  BY <1>1, <1>4, SingleFinite, SetTotal DEF ConditionMeasured
<1>6. SumFunction(g) \in Nat
  BY <1>2, <1>4, ListTotal DEF ConditionMeasured, AtomsMeasured
<1>7. QED
  BY <1>3, <1>5, <1>6

LEMMA RuleBytes ==
  ASSUME NEW r, RuleSpelled(r), RuleSized(r), NEW enc
  PROVE  RuleSize(r, enc) \in Nat /\ RuleSize(r, enc) >= 26
<1>1. FlagSize(r.flag, enc) \in Nat /\ FlagSize(r.flag, enc) >= 4
  BY FlagBytes DEF RuleSized
<1>2. /\ TextSize(r.strip) \in Nat /\ TextSize(r.strip) >= 4
      /\ TextSize(r.add) \in Nat /\ TextSize(r.add) >= 4
  BY TextType DEF RuleSpelled, TextSize
<1>3. ConditionSize(r.condition) \in Nat /\ ConditionSize(r.condition) >= 6
  BY ConditionBytes DEF RuleSized
<1>4. FlagsSize(r.continuation, enc) \in Nat /\ FlagsSize(r.continuation, enc) >= 4
  BY FlagsBytes DEF RuleSized
<1>5. QED
  BY <1>1, <1>2, <1>3, <1>4 DEF RuleSize, Morphology

LEMMA ConversionBytes ==
  ASSUME NEW c, ConversionSized(c)
  PROVE  ConversionSize(c) \in Nat /\ ConversionSize(c) >= 10
<1>1. /\ TextSize(c.from) \in Nat /\ TextSize(c.from) >= 4
      /\ TextSize(c.to) \in Nat /\ TextSize(c.to) >= 4
  BY TextType DEF ConversionSized, TextSize
<1>2. QED
  BY <1>1 DEF ConversionSize

LEMMA BreakBytes ==
  ASSUME NEW p, BreakTyped(p)
  PROVE  BreakSize(p) \in Nat /\ BreakSize(p) >= 7
<1>1. Len(p.text) \in Nat /\ Len(p.text) # 0
  BY TextType, NoEmptyText DEF BreakTyped
<1>2. QED
  BY <1>1 DEF BreakSize, TextSize

LEMMA PatternBytes ==
  ASSUME NEW p, PatternTyped(p), PatternSized(p), NEW enc
  PROVE  PatternSize(p, enc) \in Nat /\ PatternSize(p, enc) >= 13
<1>1. ASSUME NEW text, IsText(text), NEW flag, PartFilled(text, flag)
      PROVE  /\ TextSize(text) + OptionalFlagSize(flag, enc) \in Nat
             /\ TextSize(text) + OptionalFlagSize(flag, enc) >= 6
  <2>1. Len(text) \in Nat /\ (flag = {} => Len(text) # 0) /\ Measured(flag)
    BY <1>1, TextType DEF PartFilled, Optional
  <2>2. /\ OptionalFlagSize(flag, enc) \in Nat /\ OptionalFlagSize(flag, enc) >= 1
        /\ flag # {} => OptionalFlagSize(flag, enc) >= 5
    BY <2>1, FlagsBytes
  <2>3. QED
    BY <2>1, <2>2 DEF TextSize
<1> DEFINE f == [x \in p.replacement |-> TextSize(x)]
<1>2. PatternSize(p, enc) = TextSize(p.ending) + OptionalFlagSize(p.endingFlag, enc)
        + TextSize(p.beginning) + OptionalFlagSize(p.beginningFlag, enc) + 1 + SumFunction(f)
  BY DEF PatternSize, TotalOf
<1>3. \A x \in p.replacement : f[x] \in Nat /\ f[x] >= 0
  BY DEF PatternSized, Optional, Measured, TextSize
<1>4. DOMAIN f = p.replacement
  OBVIOUS
<1> HIDE DEF f
<1>5. SumFunction(f) \in Nat
  BY <1>3, <1>4, SetTotal DEF PatternSized, Optional, Measured
<1>6. QED
  <2> DEFINE a == TextSize(p.ending) + OptionalFlagSize(p.endingFlag, enc)
             b == TextSize(p.beginning) + OptionalFlagSize(p.beginningFlag, enc)
  <2>1. a \in Nat /\ a >= 6 /\ b \in Nat /\ b >= 6
    BY <1>1 DEF PatternSized, PatternTyped
  <2>2. /\ TextSize(p.ending) \in Nat /\ OptionalFlagSize(p.endingFlag, enc) \in Nat
        /\ TextSize(p.beginning) \in Nat /\ OptionalFlagSize(p.beginningFlag, enc) \in Nat
    BY FlagsBytes, TextType DEF PatternSized, PatternTyped, PartFilled, Optional, TextSize
  <2>3. QED
    BY <1>2, <1>5, <2>1, <2>2

LEMMA CompoundRuleBytes ==
  ASSUME NEW rule, RuleTyped(rule), FlagListsSized(rule), NEW enc
  PROVE  CompoundRuleSize(rule, enc) \in Nat
<1> DEFINE Flags(s) == [i \in DOMAIN s |-> FlagSize(s[i], enc)]
           f == [i \in DOMAIN rule |-> 4 + SumFunction(Flags(rule[i]))]
<1>1. ASSUME NEW s \in Range(rule)
      PROVE  SumFunction(Flags(s)) \in Nat
  <2>1. IsText(s) /\ \A x \in Range(s) : Len(x) \in Nat
    BY DEF FlagListsSized
  <2>2. \A i \in DOMAIN s : Flags(s)[i] \in Nat /\ Flags(s)[i] >= 0
    BY <2>1, FlagBytes DEF Range
  <2>3. DOMAIN Flags(s) = DOMAIN s
    OBVIOUS
  <2> HIDE DEF Flags
  <2>4. QED
    BY <2>1, <2>2, <2>3, ListTotal
<1>2. \A i \in DOMAIN rule : f[i] \in Nat /\ f[i] >= 0
  BY <1>1 DEF Range
<1>3. CompoundRuleSize(rule, enc) = 4 + SumFunction(f)
  BY DEF CompoundRuleSize, Total
<1>4. DOMAIN f = DOMAIN rule
  OBVIOUS
<1> HIDE DEF f
<1>5. SumFunction(f) \in Nat
  BY <1>2, <1>4, ListTotal DEF RuleTyped
<1>6. QED
  BY <1>3, <1>5

LEMMA SyllablesBytes ==
  ASSUME NEW option, IsFiniteSet(option), \A limit \in option : IsFiniteSet(limit.vowels)
  PROVE  SyllablesSize(option) \in Nat /\ SyllablesSize(option) >= 1
<1> DEFINE f == [limit \in option |-> 12 + 4 * Cardinality(limit.vowels)]
<1>1. \A limit \in option : f[limit] \in Nat /\ f[limit] >= 0
  BY FS_CardinalityType
<1>2. SyllablesSize(option) = 1 + SumFunction(f)
  BY DEF SyllablesSize, TotalOf
<1>3. DOMAIN f = option
  OBVIOUS
<1> HIDE DEF f
<1>4. SumFunction(f) \in Nat
  BY <1>1, <1>3, SetTotal
<1>5. QED
  BY <1>2, <1>4

(* A section that may be read, and one that its items are enough for.      *)
Readable(s) == s.size \in Nat /\ s.counted \in BOOLEAN /\ s.readable

Filled(s) == Readable(s) /\ s.items * s.each \in 0..s.size

(* A dictionary that may be compiled, as the importer leaves it. *)
Compilable(d) ==
  /\ StoredTyped(d) /\ DictionaryTyped(d) /\ EntriesTyped(d) /\ Sized(d)
  /\ ValidDictionary(d)

LEMMA SectionFilled ==
  ASSUME NEW size \in Nat
  PROVE  Filled(Section(size))
  BY DEF Filled, Readable, Section

LEMMA CountsFilled ==
  ASSUME NEW items \in Nat, NEW each \in Nat, NEW size \in Nat, size >= each * items,
         NEW readable \in BOOLEAN, readable
  PROVE  Filled(Counts(items, each, size, readable))
<1>1. items * each = each * items
  OBVIOUS
<1>2. QED
  BY <1>1 DEF Filled, Readable, Counts

LEMMA FieldOf ==
  ASSUME NEW d, Sized(d), NEW f \in DOMAIN EmptyDictionary
  PROVE  FieldSized(f, d[f])
  BY DEF Sized

LEMMA CompoundFieldOf ==
  ASSUME NEW d, Sized(d), NEW f \in DOMAIN EmptyCompound
  PROVE  CompoundFieldSized(f, d.compound[f])
<1>1. FieldSized("compound", d["compound"])
  BY StoredFields DEF Sized
<1>2. QED
  BY <1>1 DEF FieldSized, CompoundSized

LEMMA DictionaryNames ==
  /\ FlagNames \cup {"keyboard", "wordCharacters", "ignored", "lexemes", "rules", "breaks", "maps",
                     "inputConversions", "outputConversions", "replacements", "compound"}
       \subseteq DOMAIN EmptyDictionary
  /\ CompoundFlagNames \cup {"syllables", "rules", "patterns"} \subseteq DOMAIN EmptyCompound
<1>1. FlagNames \cup {"keyboard", "wordCharacters", "ignored", "lexemes", "rules", "breaks", "maps",
                     "inputConversions", "outputConversions", "replacements", "compound"}
       \subseteq DOMAIN EmptyDictionary
  BY DEF EmptyDictionary, FlagNames
<1>2. CompoundFlagNames \cup {"syllables", "rules", "patterns"} \subseteq DOMAIN EmptyCompound
  BY DEF EmptyCompound, CompoundFlagNames
<1>3. QED
  BY <1>1, <1>2

LEMMA LexemesFilled ==
  ASSUME NEW d, Compilable(d)
  PROVE  Filled(LexemesSection(d))
<1> DEFINE f == [l \in d.lexemes |-> LexemeSize(l, d.mode)]
           readable == \A l \in d.lexemes : l.stem # <<>>
<1>1. LexemesSized(d.lexemes)
  BY FieldOf, DictionaryNames DEF Compilable, FieldSized
<1>2. \A l \in d.lexemes : f[l] \in Nat /\ f[l] >= 8
  BY <1>1, LexemeBytes DEF LexemesSized
<1>3. LexemesSection(d) = Counts(Cardinality(d.lexemes), 8, SumFunction(f), readable)
  BY DEF LexemesSection, TotalOf
<1>4. readable /\ readable \in BOOLEAN
  BY DEF Compilable, ValidDictionary
<1>5. DOMAIN f = d.lexemes /\ IsFiniteSet(d.lexemes) /\ Cardinality(d.lexemes) \in Nat
  BY <1>1, FS_CardinalityType DEF LexemesSized
<1> HIDE DEF f, readable
<1>6. SumFunction(f) \in Nat /\ SumFunction(f) >= 8 * Cardinality(d.lexemes)
  BY <1>2, <1>5, SetTotal
<1>7. QED
  BY <1>3, <1>4, <1>5, <1>6, CountsFilled

LEMMA RulesFilled ==
  ASSUME NEW d, Compilable(d), NEW kind
  PROVE  Filled(RulesSection(d, kind))
<1> DEFINE rules == {r \in d.rules : r.kind = kind}
           f == [r \in rules |-> RuleSize(r, d.mode)]
<1>1. \A r \in d.rules : RuleSized(r) /\ RuleSpelled(r)
  BY FieldOf, DictionaryNames DEF Compilable, FieldSized, EntriesTyped
<1>2. \A r \in rules : f[r] \in Nat /\ f[r] >= 26
  BY <1>1, RuleBytes
<1>3. RulesSection(d, kind) = Counts(Cardinality(rules), 26, SumFunction(f), TRUE)
  BY DEF RulesSection, TotalOf
<1>4. DOMAIN f = rules
  OBVIOUS
<1>5. IsFiniteSet(rules) /\ Cardinality(rules) \in Nat
  BY FS_Subset, FS_CardinalityType DEF Compilable, EntriesTyped
<1> HIDE DEF f, rules
<1>6. SumFunction(f) \in Nat /\ SumFunction(f) >= 26 * Cardinality(rules)
  BY <1>2, <1>4, <1>5, SetTotal
<1>7. QED
  BY <1>3, <1>5, <1>6, CountsFilled

LEMMA NamesCounted ==
  /\ IsFiniteSet(FlagNames) /\ Cardinality(FlagNames) = 6
  /\ IsFiniteSet(CompoundFlagNames) /\ Cardinality(CompoundFlagNames) = 7
<1>1. ASSUME NEW S, NEW n \in Nat, IsFiniteSet(S) /\ Cardinality(S) = n, NEW x, x \notin S
      PROVE  IsFiniteSet(S \cup {x}) /\ Cardinality(S \cup {x}) = n + 1
  BY <1>1, FS_AddElement
<1>2. IsFiniteSet(FlagNames) /\ Cardinality(FlagNames) = 6
  <2>1. IsFiniteSet({"circumfix"}) /\ Cardinality({"circumfix"}) = 1
    BY FS_Singleton
  <2> DEFINE s2 == {"circumfix", "forbidden"}
  <2>2. IsFiniteSet(s2) /\ Cardinality(s2) = 2
    <3>1. s2 = {"circumfix"} \cup {"forbidden"} /\ "forbidden" \notin {"circumfix"}
      OBVIOUS
    <3>2. QED
      BY <1>1, <2>1, <3>1
  <2> DEFINE s3 == {"circumfix", "forbidden", "keepCase"}
  <2>3. IsFiniteSet(s3) /\ Cardinality(s3) = 3
    <3>1. s3 = s2 \cup {"keepCase"} /\ "keepCase" \notin s2
      OBVIOUS
    <3>2. QED
      BY <1>1, <2>2, <3>1
  <2> DEFINE s4 == {"circumfix", "forbidden", "keepCase", "needAffix"}
  <2>4. IsFiniteSet(s4) /\ Cardinality(s4) = 4
    <3>1. s4 = s3 \cup {"needAffix"} /\ "needAffix" \notin s3
      OBVIOUS
    <3>2. QED
      BY <1>1, <2>3, <3>1
  <2> DEFINE s5 == {"circumfix", "forbidden", "keepCase", "needAffix", "onlyInCompound"}
  <2>5. IsFiniteSet(s5) /\ Cardinality(s5) = 5
    <3>1. s5 = s4 \cup {"onlyInCompound"} /\ "onlyInCompound" \notin s4
      OBVIOUS
    <3>2. QED
      BY <1>1, <2>4, <3>1
  <2> DEFINE s6 == {"circumfix", "forbidden", "keepCase", "needAffix", "onlyInCompound", "noSuggest"}
  <2>6. IsFiniteSet(s6) /\ Cardinality(s6) = 6
    <3>1. s6 = s5 \cup {"noSuggest"} /\ "noSuggest" \notin s5
      OBVIOUS
    <3>2. QED
      BY <1>1, <2>5, <3>1
  <2>7. QED
    BY <2>6 DEF FlagNames
<1>3. IsFiniteSet(CompoundFlagNames) /\ Cardinality(CompoundFlagNames) = 7
  <2>1. IsFiniteSet({"flag"}) /\ Cardinality({"flag"}) = 1
    BY FS_Singleton
  <2> DEFINE s2 == {"flag", "begin"}
  <2>2. IsFiniteSet(s2) /\ Cardinality(s2) = 2
    <3>1. s2 = {"flag"} \cup {"begin"} /\ "begin" \notin {"flag"}
      OBVIOUS
    <3>2. QED
      BY <1>1, <2>1, <3>1
  <2> DEFINE s3 == {"flag", "begin", "middle"}
  <2>3. IsFiniteSet(s3) /\ Cardinality(s3) = 3
    <3>1. s3 = s2 \cup {"middle"} /\ "middle" \notin s2
      OBVIOUS
    <3>2. QED
      BY <1>1, <2>2, <3>1
  <2> DEFINE s4 == {"flag", "begin", "middle", "end"}
  <2>4. IsFiniteSet(s4) /\ Cardinality(s4) = 4
    <3>1. s4 = s3 \cup {"end"} /\ "end" \notin s3
      OBVIOUS
    <3>2. QED
      BY <1>1, <2>3, <3>1
  <2> DEFINE s5 == {"flag", "begin", "middle", "end", "permit"}
  <2>5. IsFiniteSet(s5) /\ Cardinality(s5) = 5
    <3>1. s5 = s4 \cup {"permit"} /\ "permit" \notin s4
      OBVIOUS
    <3>2. QED
      BY <1>1, <2>4, <3>1
  <2> DEFINE s6 == {"flag", "begin", "middle", "end", "permit", "forbid"}
  <2>6. IsFiniteSet(s6) /\ Cardinality(s6) = 6
    <3>1. s6 = s5 \cup {"forbid"} /\ "forbid" \notin s5
      OBVIOUS
    <3>2. QED
      BY <1>1, <2>5, <3>1
  <2> DEFINE s7 == {"flag", "begin", "middle", "end", "permit", "forbid", "forceUppercase"}
  <2>7. IsFiniteSet(s7) /\ Cardinality(s7) = 7
    <3>1. s7 = s6 \cup {"forceUppercase"} /\ "forceUppercase" \notin s6
      OBVIOUS
    <3>2. QED
      BY <1>1, <2>6, <3>1
  <2>8. QED
    BY <2>7 DEF CompoundFlagNames
<1>4. QED
  BY <1>2, <1>3

LEMMA SpecialFlagsFilled ==
  ASSUME NEW d, Compilable(d)
  PROVE  Filled(SpecialFlagsSection(d)) /\ SpecialFlagsSection(d).size >= 7
<1> DEFINE f == [x \in FlagNames |-> OptionalFlagSize(d[x], d.mode)]
<1>1. \A x \in FlagNames : Measured(d[x])
  BY FieldOf, DictionaryNames DEF Compilable, FieldSized, Optional
<1>2. \A x \in FlagNames : f[x] \in Nat /\ f[x] >= 1
  BY <1>1, FlagsBytes
<1>3. SpecialFlagsSection(d) = Section(SumFunction(f) + 1)
  BY DEF SpecialFlagsSection, TotalOf, FlagNames
<1>4. DOMAIN f = FlagNames /\ IsFiniteSet(FlagNames) /\ Cardinality(FlagNames) = 6
  BY NamesCounted
<1> HIDE DEF f
<1>5. SumFunction(f) \in Nat /\ SumFunction(f) >= 1 * Cardinality(FlagNames)
  BY <1>2, <1>4, SetTotal
<1>6. QED
  BY <1>3, <1>4, <1>5, SectionFilled DEF Section

LEMMA KeyboardFilled ==
  ASSUME NEW d, Compilable(d)
  PROVE  Filled(KeyboardSection(d))
<1> DEFINE f == [x \in d.keyboard |-> TextSize(x)]
<1>1. Measured(d.keyboard)
  BY FieldOf, DictionaryNames DEF Compilable, FieldSized, Optional
<1>2. \A x \in d.keyboard : f[x] \in Nat /\ f[x] >= 0
  BY <1>1 DEF Measured, TextSize
<1>3. KeyboardSection(d) = Section(1 + SumFunction(f))
  BY DEF KeyboardSection, TotalOf
<1>4. DOMAIN f = d.keyboard
  OBVIOUS
<1> HIDE DEF f
<1>5. SumFunction(f) \in Nat
  BY <1>1, <1>2, <1>4, SetTotal DEF Measured
<1>6. QED
  BY <1>3, <1>5, SectionFilled

LEMMA MapsFilled ==
  ASSUME NEW d, Compilable(d)
  PROVE  Filled(MapsSection(d.maps))
<1> DEFINE f == [i \in DOMAIN d.maps |-> TextSize(d.maps[i])]
           readable == \A m \in Range(d.maps) : Len(m) >= 2
<1>1. \A m \in Range(d.maps) : Len(m) \in Nat /\ Len(m) >= 2
  BY FieldOf, DictionaryNames DEF Compilable, FieldSized, ValidDictionary
<1>2. \A i \in DOMAIN d.maps : f[i] \in Nat /\ f[i] >= 5
  BY <1>1 DEF Range, TextSize
<1>3. MapsSection(d.maps) = Counts(Len(d.maps), 5, SumFunction(f), readable)
  BY DEF MapsSection, Total
<1>4. readable /\ readable \in BOOLEAN
  BY <1>1
<1>5. IsText(d.maps) /\ Len(d.maps) \in Nat /\ DOMAIN f = DOMAIN d.maps
  BY TextType DEF Compilable, StoredTyped, Tables
<1> HIDE DEF f, readable
<1>6. SumFunction(f) \in Nat /\ SumFunction(f) >= 5 * Len(d.maps)
  BY <1>2, <1>5, ListTotal
<1>7. QED
  BY <1>3, <1>4, <1>5, <1>6, CountsFilled

LEMMA CompoundFilled ==
  ASSUME NEW d, Compilable(d)
  PROVE  Filled(CompoundSection(d.compound, d.mode)) /\ CompoundSection(d.compound, d.mode).size >= 28
<1> DEFINE f == [x \in CompoundFlagNames |-> OptionalFlagSize(d.compound[x], d.mode)]
<1>1. \A x \in CompoundFlagNames : Measured(d.compound[x])
  BY CompoundFieldOf, DictionaryNames DEF Compilable, CompoundFieldSized, Optional
<1>2. \A x \in CompoundFlagNames : f[x] \in Nat /\ f[x] >= 1
  BY <1>1, FlagsBytes
<1>3. CompoundSection(d.compound, d.mode) = Section(SumFunction(f) + 8 + 8 + 5)
  BY DEF CompoundSection, TotalOf, CompoundFlagNames
<1>4. /\ DOMAIN f = CompoundFlagNames /\ IsFiniteSet(CompoundFlagNames)
      /\ Cardinality(CompoundFlagNames) = 7
  BY NamesCounted
<1> HIDE DEF f
<1>5. SumFunction(f) \in Nat /\ SumFunction(f) >= 1 * Cardinality(CompoundFlagNames)
  BY <1>2, <1>4, SetTotal
<1>6. QED
  BY <1>3, <1>4, <1>5, SectionFilled DEF Section

LEMMA CompoundRulesFilled ==
  ASSUME NEW d, Compilable(d)
  PROVE  Filled(CompoundRulesSection(d.compound.rules, d.mode))
<1> DEFINE rules == d.compound.rules
           f == [i \in DOMAIN rules |-> CompoundRuleSize(rules[i], d.mode)]
           readable == \A rule \in Range(rules) :
                         rule # <<>> /\ \A s \in Range(rule) : Len(s) >= 2
<1>1. \A rule \in Range(rules) : FlagListsSized(rule) /\ RuleTyped(rule)
  BY CompoundFieldOf, DictionaryNames
     DEF Compilable, CompoundFieldSized, DictionaryTyped, CompoundOptions
<1>2. \A i \in DOMAIN rules : f[i] \in Nat /\ f[i] >= 0
  BY <1>1, CompoundRuleBytes DEF Range
<1>3. CompoundRulesSection(rules, d.mode) = Counts(Len(rules), 0, SumFunction(f), readable)
  BY DEF CompoundRulesSection, Total
<1>4. readable /\ readable \in BOOLEAN
  <2>1. ASSUME NEW rule \in Range(rules)
        PROVE  rule # <<>> /\ \A s \in Range(rule) : Len(s) >= 2
    <3>1. /\ Len(rule) \in 1..MaxExpansionsPerRule
          /\ \A s \in Range(rule) : Len(s) \in 2..MaxRuleComponents
      BY DEF Compilable, ValidDictionary, ValidCompound
    <3>2. QED
      BY <3>1, Len(<<>>) = 0
  <2>2. QED
    BY <2>1
<1>5. IsText(rules) /\ Len(rules) \in Nat /\ DOMAIN f = DOMAIN rules
  BY TextType DEF Compilable, DictionaryTyped, CompoundOptions
<1> HIDE DEF f, readable
<1>6. SumFunction(f) \in Nat
  BY <1>2, <1>5, ListTotal
<1>7. SumFunction(f) >= 0 * Len(rules)
  BY <1>5, <1>6
<1>8. QED
  BY <1>3, <1>4, <1>5, <1>6, <1>7, CountsFilled

LEMMA SyllablesFilled ==
  ASSUME NEW d, Compilable(d)
  PROVE  Filled(Section(SyllablesSize(d.compound.syllables))) /\ SyllablesSize(d.compound.syllables) >= 1
<1>1. /\ IsFiniteSet(d.compound.syllables)
      /\ \A limit \in d.compound.syllables : IsFiniteSet(limit.vowels)
  <2>1. CompoundFieldSized("syllables", d.compound["syllables"])
    BY CompoundFieldOf, DictionaryNames DEF Compilable
  <2>2. QED
    BY <2>1, SingleFinite DEF CompoundFieldSized, SyllablesSized
<1>2. QED
  BY <1>1, SyllablesBytes, SectionFilled

LEMMA CharactersFilled ==
  ASSUME NEW S, IsFiniteSet(S)
  PROVE  Filled(CharactersSection(S))
<1> DEFINE n == Cardinality(S)
           readable == TRUE
<1>1. n \in Nat /\ readable \in BOOLEAN /\ readable
  BY FS_CardinalityType
<1>2. CharactersSection(S) = Counts(n, 4, 4 * n, readable)
  BY DEF CharactersSection
<1> HIDE DEF n, readable
<1>3. 4 * n \in Nat /\ 4 * n >= 4 * n
  BY <1>1
<1>4. QED
  BY <1>1, <1>2, <1>3, CountsFilled

LEMMA ReplacementsFilled ==
  ASSUME NEW d, Compilable(d)
  PROVE  Filled(ReplacementsSection(d.replacements))
<1> DEFINE list == d.replacements
           f == [i \in DOMAIN list |-> ConversionSize(list[i])]
           readable == \A r \in Range(list) : r.from # <<>> /\ r.to # <<>>
<1>1. \A c \in Range(list) : ConversionSized(c) /\ c.from # <<>> /\ c.to # <<>>
  BY FieldOf, DictionaryNames DEF Compilable, FieldSized, ConversionSized
<1>2. \A i \in DOMAIN list : f[i] \in Nat /\ f[i] >= 8
  <2>1. \A c \in Range(list) : ConversionSize(c) \in Nat /\ ConversionSize(c) >= 10
    BY <1>1, ConversionBytes
  <2>2. QED
    BY <2>1 DEF Range
<1>3. ReplacementsSection(list) = Counts(Len(list), 8, SumFunction(f), readable)
  BY DEF ReplacementsSection, Total
<1>4. readable /\ readable \in BOOLEAN
  BY <1>1
<1>5. IsText(list) /\ Len(list) \in Nat /\ DOMAIN f = DOMAIN list
  BY TextType DEF Compilable, StoredTyped, Tables
<1> HIDE DEF f, readable
<1>6. SumFunction(f) \in Nat /\ SumFunction(f) >= 8 * Len(list)
  BY <1>2, <1>5, ListTotal
<1>7. QED
  BY <1>3, <1>4, <1>5, <1>6, CountsFilled

LEMMA ConversionsFilled ==
  ASSUME NEW list, IsText(list), ValidConversions(list), \A c \in Range(list) : ConversionSized(c)
  PROVE  Filled(ConversionsSection(list))
<1> DEFINE f == [i \in DOMAIN list |-> ConversionSize(list[i])]
           readable == \A c \in Range(list) : c.from # <<>>
<1>1. \A i \in DOMAIN list : f[i] \in Nat /\ f[i] >= 10
  BY ConversionBytes DEF Range
<1>2. ConversionsSection(list) = Counts(Len(list), 10, SumFunction(f), readable)
  BY DEF ConversionsSection, Total
<1>3. readable /\ readable \in BOOLEAN
  BY DEF ValidConversions
<1>4. Len(list) \in Nat /\ DOMAIN f = DOMAIN list
  BY TextType
<1> HIDE DEF f, readable
<1>5. SumFunction(f) \in Nat /\ SumFunction(f) >= 10 * Len(list)
  BY <1>1, <1>4, ListTotal
<1>6. QED
  BY <1>2, <1>3, <1>4, <1>5, CountsFilled

(* The two sections whose items may be too short for their reader. *)
LEMMA PatternsReadable ==
  ASSUME NEW d, Compilable(d)
  PROVE  LET s == PatternsSection(d.compound.patterns, d.mode)
             n == Len(d.compound.patterns)
         IN Readable(s) /\ n \in Nat /\ s.items = n /\ s.each = 14 /\ s.size >= 13 * n
<1> DEFINE list == d.compound.patterns
           f == [i \in DOMAIN list |-> PatternSize(list[i], d.mode)]
           readable == \A p \in Range(list) :
             p.ending \o p.beginning # <<>> \/ p.endingFlag \cup p.beginningFlag # {}
<1>1. \A p \in Range(list) : PatternSized(p) /\ PatternTyped(p)
  BY CompoundFieldOf, DictionaryNames
     DEF Compilable, CompoundFieldSized, DictionaryTyped, CompoundOptions, PatternsTyped
<1>2. \A i \in DOMAIN list : f[i] \in Nat /\ f[i] >= 13
  <2>1. \A p \in Range(list) : PatternSize(p, d.mode) \in Nat /\ PatternSize(p, d.mode) >= 13
    BY <1>1, PatternBytes
  <2>2. QED
    BY <2>1 DEF Range
<1>3. PatternsSection(list, d.mode) = Counts(Len(list), 14, SumFunction(f), readable)
  BY DEF PatternsSection, Total
<1>4. readable /\ readable \in BOOLEAN
  <2>1. ASSUME NEW p \in Range(list), p.endingFlag = {}
        PROVE  p.ending \o p.beginning # <<>>
    <3>1. IsText(p.ending) /\ IsText(p.beginning) /\ Len(p.ending) # 0
      BY <1>1, <2>1 DEF PatternSized, PatternTyped, PartFilled
    <3>2. Len(p.ending \o p.beginning) = Len(p.ending) + Len(p.beginning)
      <4> DEFINE S == Range(p.ending) \cup Range(p.beginning)
      <4>1. p.ending \in Seq(S) /\ p.beginning \in Seq(S)
        BY <3>1, SeqMonotonic DEF IsText
      <4> HIDE DEF S
      <4>2. QED
        BY <4>1, ConcatProperties
    <3>3. Len(p.ending) \in Nat /\ Len(p.beginning) \in Nat /\ Len(<<>>) = 0
      BY <3>1, TextType
    <3>4. QED
      BY <3>1, <3>2, <3>3
  <2>2. QED
    BY <2>1
<1>5. IsText(list) /\ Len(list) \in Nat /\ DOMAIN f = DOMAIN list
  BY TextType DEF Compilable, DictionaryTyped, CompoundOptions, PatternsTyped
<1> HIDE DEF f, readable
<1>6. SumFunction(f) \in Nat /\ SumFunction(f) >= 13 * Len(list)
  BY <1>2, <1>5, ListTotal
<1>7. QED
  BY <1>3, <1>4, <1>5, <1>6 DEF Counts, Readable

LEMMA BreaksReadable ==
  ASSUME NEW d, Compilable(d)
  PROVE  LET s == BreaksSection(d.breaks)
             n == Len(d.breaks)
         IN Readable(s) /\ n \in Nat /\ s.items = n /\ s.each = 10 /\ s.size >= 7 * n
<1> DEFINE list == d.breaks
           f == [i \in DOMAIN list |-> BreakSize(list[i])]
           readable == \A p \in Range(list) : p.text # <<>> /\ ~(p.atStart /\ p.atEnd)
<1>1. \A p \in Range(list) : BreakTyped(p) /\ ~(p.atStart /\ p.atEnd)
  <2>1. FieldSized("breaks", d["breaks"])
    BY FieldOf, DictionaryNames DEF Compilable
  <2>2. QED
    BY <2>1 DEF Compilable, FieldSized, BreakSized, DictionaryTyped, BreaksTyped
<1>2. \A i \in DOMAIN list : f[i] \in Nat /\ f[i] >= 7
  <2>1. \A p \in Range(list) : BreakSize(p) \in Nat /\ BreakSize(p) >= 7
    BY <1>1, BreakBytes
  <2>2. QED
    BY <2>1 DEF Range
<1>3. BreaksSection(list) = Counts(Len(list), 10, SumFunction(f), readable)
  BY DEF BreaksSection, Total
<1>4. readable /\ readable \in BOOLEAN
  BY <1>1 DEF BreakTyped
<1>5. IsText(list) /\ Len(list) \in Nat /\ DOMAIN f = DOMAIN list
  BY TextType DEF Compilable, DictionaryTyped, BreaksTyped
<1> HIDE DEF f, readable
<1>6. SumFunction(f) \in Nat /\ SumFunction(f) >= 7 * Len(list)
  BY <1>2, <1>5, ListTotal
<1>7. QED
  BY <1>3, <1>4, <1>5, <1>6 DEF Counts, Readable

LEMMA BytesOf ==
  ASSUME NEW s, Readable(s)
  PROVE  SectionBytes(s) \in Nat /\ SectionBytes(s) >= s.size /\ (s.counted => SectionBytes(s) >= 4 + s.size)
  BY DEF Readable, SectionBytes

LEMMA BytesOfAll ==
  ASSUME NEW s, IsText(s), \A i \in DOMAIN s : Readable(s[i])
  PROVE  /\ Total(s, SectionBytes) = SumFunction([i \in DOMAIN s |-> SectionBytes(s[i])])
         /\ Counting([i \in DOMAIN s |-> SectionBytes(s[i])])
         /\ Total(s, SectionBytes) \in Nat
<1> DEFINE f == [i \in DOMAIN s |-> SectionBytes(s[i])]
<1>1. Total(s, SectionBytes) = SumFunction(f)
  BY DEF Total
<1>2. \A i \in DOMAIN s : f[i] \in Nat
  BY BytesOf
<1>3. DOMAIN f = DOMAIN s /\ IsFiniteSet(DOMAIN s)
  BY TextType
<1> HIDE DEF f
<1>4. Counting(f)
  BY <1>2, <1>3 DEF Counting
<1>5. SumFunction(f) \in Nat
  BY <1>4, SumType
<1>6. QED
  BY <1>1, <1>4, <1>5 DEF f

(* The sections by their places. *)
LEMMA SectionPlaces ==
  ASSUME NEW d
  PROVE  LET s == Sections(d)
         IN /\ IsText(s) /\ Len(s) = 19 /\ DOMAIN s = 1..19
            /\ s[1] = Section(ModesSize) /\ s[2] = MorphologyTable
            /\ s[3] = LexemesSection(d) /\ s[4] = RulesSection(d, "prefix")
            /\ s[5] = RulesSection(d, "suffix") /\ s[6] = SpecialFlagsSection(d)
            /\ s[7] = KeyboardSection(d) /\ s[8] = MapsSection(d.maps)
            /\ s[9] = CompoundSection(d.compound, d.mode)
            /\ s[10] = CompoundRulesSection(d.compound.rules, d.mode)
            /\ s[11] = PatternsSection(d.compound.patterns, d.mode)
            /\ s[12] = Section(SyllablesSize(d.compound.syllables))
            /\ s[13] = BreaksSection(d.breaks) /\ s[14] = CharactersSection(d.wordCharacters)
            /\ s[15] = ReplacementsSection(d.replacements)
            /\ s[16] = CharactersSection(d.ignored)
            /\ s[17] = ConversionsSection(d.inputConversions)
            /\ s[18] = ConversionsSection(d.outputConversions) /\ s[19] = Section(2)
<1> DEFINE s == Sections(d)
<1>1. /\ Len(s) = 19 /\ DOMAIN s = 1..19
            /\ s[1] = Section(ModesSize) /\ s[2] = MorphologyTable
            /\ s[3] = LexemesSection(d) /\ s[4] = RulesSection(d, "prefix")
            /\ s[5] = RulesSection(d, "suffix") /\ s[6] = SpecialFlagsSection(d)
            /\ s[7] = KeyboardSection(d) /\ s[8] = MapsSection(d.maps)
            /\ s[9] = CompoundSection(d.compound, d.mode)
            /\ s[10] = CompoundRulesSection(d.compound.rules, d.mode)
            /\ s[11] = PatternsSection(d.compound.patterns, d.mode)
            /\ s[12] = Section(SyllablesSize(d.compound.syllables))
            /\ s[13] = BreaksSection(d.breaks) /\ s[14] = CharactersSection(d.wordCharacters)
            /\ s[15] = ReplacementsSection(d.replacements)
            /\ s[16] = CharactersSection(d.ignored)
            /\ s[17] = ConversionsSection(d.inputConversions)
            /\ s[18] = ConversionsSection(d.outputConversions) /\ s[19] = Section(2)
  BY DEF Sections
<1>2. s = [i \in DOMAIN s |-> s[i]]
  BY DEF Sections
<1> HIDE DEF s
<1>3. IsText(s)
  BY <1>1, <1>2, TextMade
<1>4. QED
  BY <1>1, <1>3 DEF s

LEMMA AllReadable ==
  ASSUME NEW d, Compilable(d), NEW i \in 1..19
  PROVE  /\ Readable(Sections(d)[i])
         /\ i \notin {11, 13} => Filled(Sections(d)[i])
<1> DEFINE s == Sections(d)
<1>1. /\ Filled(s[3]) /\ Filled(s[4]) /\ Filled(s[5]) /\ Filled(s[6]) /\ Filled(s[7]) /\ Filled(s[8])
      /\ Filled(s[9]) /\ Filled(s[10]) /\ Filled(s[12])
  BY SectionPlaces, LexemesFilled, RulesFilled, SpecialFlagsFilled, KeyboardFilled, MapsFilled,
     CompoundFilled, CompoundRulesFilled, SyllablesFilled
<1>2. Filled(s[1]) /\ Filled(s[19])
  BY SectionPlaces, SectionFilled DEF ModesSize
<1>3. Filled(s[2])
  <2>1. s[2] = MorphologyTable
    BY SectionPlaces
  <2>2. QED
    BY <2>1 DEF MorphologyTable, Filled, Readable, Counts
<1>4. IsFiniteSet(d.wordCharacters) /\ IsFiniteSet(d.ignored)
  <2>1. FieldSized("wordCharacters", d["wordCharacters"]) /\ FieldSized("ignored", d["ignored"])
    BY FieldOf, DictionaryNames DEF Compilable
  <2>2. QED
    BY <2>1 DEF FieldSized
<1>5. Filled(s[14]) /\ Filled(s[16])
  BY <1>4, SectionPlaces, CharactersFilled
<1>6. Filled(s[15])
  BY SectionPlaces, ReplacementsFilled
<1>7. \A list \in {d.inputConversions, d.outputConversions} :
        IsText(list) /\ ValidConversions(list) /\ \A c \in Range(list) : ConversionSized(c)
  <2>1. /\ FieldSized("inputConversions", d["inputConversions"])
        /\ FieldSized("outputConversions", d["outputConversions"])
    BY FieldOf, DictionaryNames DEF Compilable
  <2>2. IsText(d["inputConversions"]) /\ IsText(d["outputConversions"])
    BY DEF Compilable, StoredTyped, Tables
  <2>3. QED
    BY <2>1, <2>2 DEF FieldSized, Compilable, ValidDictionary
<1>8. Filled(s[17]) /\ Filled(s[18])
  BY <1>7, SectionPlaces, ConversionsFilled
<1>9. Readable(s[11]) /\ Readable(s[13])
  BY SectionPlaces, PatternsReadable, BreaksReadable
<1> HIDE DEF s
<1>10. /\ Readable(s[i]) /\ (i \notin {11, 13} => Filled(s[i]))
  <2>1. i \in {11, 13} \/ Filled(s[i])
    BY <1>1, <1>2, <1>3, <1>5, <1>6, <1>8
  <2>2. QED
    BY <1>9, <2>1 DEF Filled
<1>11. QED
  BY <1>10 DEF s

(* What follows a section. *)
Following(d, i) == SubSeq(Sections(d), i + 1, 19)

LEMMA FollowingPlaces ==
  ASSUME NEW d, NEW i \in 1..19
  PROVE  /\ IsText(Following(d, i)) /\ Len(Following(d, i)) = 19 - i
         /\ DOMAIN Following(d, i) = 1..(19 - i)
         /\ \A k \in 1..(19 - i) : Following(d, i)[k] = Sections(d)[i + k]
<1> DEFINE s == Sections(d)
           S == {s[n] : n \in i + 1..19}
           t == SubSeq(s, i + 1, 19)
<1>1. \A n \in i + 1..19 : s[n] \in S
  OBVIOUS
<1> HIDE DEF s, S
<1>2. /\ Len(t) = IF i + 1 <= 19 THEN 19 - (i + 1) + 1 ELSE 0
      /\ \A k \in 1..19 - (i + 1) + 1 : t[k] = s[i + 1 + k - 1]
  BY <1>1, SubSeqProperties
<1>3. IsText(t)
  BY PartIsText
<1> HIDE DEF t
<1>4. Len(t) = 19 - i /\ \A k \in 1..(19 - i) : t[k] = s[i + k]
  <2>1. 1..19 - (i + 1) + 1 = 1..(19 - i) /\ \A k \in 1..(19 - i) : i + 1 + k - 1 = i + k
    OBVIOUS
  <2>2. \A k \in 1..(19 - i) : t[k] = s[i + k]
    BY <1>2, <2>1
  <2>3. QED
    BY <1>2, <2>2
<1>5. DOMAIN t = 1..(19 - i)
  BY <1>3, <1>4, TextType
<1>6. QED
  BY <1>3, <1>4, <1>5 DEF Following, s, t

FollowingSizes(d, i) == [k \in 1..(19 - i) |-> SectionBytes(Sections(d)[i + k])]

LEMMA FollowingBytes ==
  ASSUME NEW d, Compilable(d), NEW i \in 1..19
  PROVE  /\ Total(Following(d, i), SectionBytes) \in Nat
         /\ Counting(FollowingSizes(d, i))
         /\ Total(Following(d, i), SectionBytes) = FirstUnits(FollowingSizes(d, i), 19 - i)
<1> DEFINE t == Following(d, i)
           f == [k \in DOMAIN t |-> SectionBytes(t[k])]
           g == [k \in 1..(19 - i) |-> SectionBytes(Sections(d)[i + k])]
<1>1. /\ IsText(t) /\ Len(t) = 19 - i /\ DOMAIN t = 1..(19 - i)
      /\ \A k \in 1..(19 - i) : t[k] = Sections(d)[i + k]
  BY FollowingPlaces
<1>2. f = g
  BY <1>1
<1>3. \A k \in DOMAIN t : Readable(t[k])
  <2>1. \A k \in 1..(19 - i) : i + k \in 1..19
    OBVIOUS
  <2>2. QED
    BY <1>1, <2>1, AllReadable
<1>4. DOMAIN g = 1..(19 - i) /\ 19 - i \in Nat
  OBVIOUS
<1> HIDE DEF t, g
<1>5. Total(t, SectionBytes) = SumFunction(f) /\ Counting(f) /\ Total(t, SectionBytes) \in Nat
  BY <1>1, <1>3, BytesOfAll
<1> HIDE DEF f
<1>6. SumFunction(g) = FirstUnits(g, 19 - i)
  BY <1>2, <1>4, <1>5, SumFirst
<1>7. QED
  BY <1>2, <1>5, <1>6 DEF t, g, FollowingSizes

(* The tables behind the BREAK patterns: 4 bytes each, and 2 at the end. *)
LEMMA TailBytes ==
  ASSUME NEW d, Compilable(d)
  PROVE  /\ \A i \in 14..18 : /\ SectionBytes(Sections(d)[i]) \in Nat
                              /\ SectionBytes(Sections(d)[i]) >= 4
         /\ SectionBytes(Sections(d)[19]) = 2
<1> DEFINE s == Sections(d)
<1>1. \A i \in 14..18 : s[i].counted
  <2>1. \A i \in 14..18 : i = 14 \/ i = 15 \/ i = 16 \/ i = 17 \/ i = 18
    OBVIOUS
  <2>2. /\ s[14] = CharactersSection(d.wordCharacters)
        /\ s[15] = ReplacementsSection(d.replacements)
        /\ s[16] = CharactersSection(d.ignored)
        /\ s[17] = ConversionsSection(d.inputConversions)
        /\ s[18] = ConversionsSection(d.outputConversions)
    BY SectionPlaces
  <2> HIDE DEF s
  <2>3. s[14].counted /\ s[15].counted /\ s[16].counted /\ s[17].counted /\ s[18].counted
    BY <2>2 DEF CharactersSection, ReplacementsSection, ConversionsSection, Counts
  <2>4. QED
    BY <2>1, <2>3
<1>2. \A i \in 14..18 : Readable(s[i])
  BY AllReadable
<1>3. \A i \in 14..18 : SectionBytes(s[i]) \in Nat /\ SectionBytes(s[i]) >= 4
  <2> HIDE DEF s
  <2>1. ASSUME NEW i \in 14..18
        PROVE  SectionBytes(s[i]) \in Nat /\ SectionBytes(s[i]) >= 4
    <3>1. SectionBytes(s[i]) \in Nat /\ SectionBytes(s[i]) >= 4 + s[i].size /\ s[i].size \in Nat
      BY <1>1, <1>2, BytesOf DEF Readable
    <3>2. QED
      BY <3>1
  <2>2. QED
    BY <2>1
<1>4. SectionBytes(s[19]) = 2
  <2>1. s[19] = Section(2)
    BY SectionPlaces
  <2>2. QED
    BY <2>1 DEF Section, SectionBytes
<1>5. QED
  BY <1>3, <1>4

LEMMA BehindBreaks ==
  ASSUME NEW d, Compilable(d)
  PROVE  Total(Following(d, 13), SectionBytes) \in Nat /\ Total(Following(d, 13), SectionBytes) >= 22
<1> DEFINE g == FollowingSizes(d, 13)
<1>1. /\ Total(Following(d, 13), SectionBytes) \in Nat /\ Counting(g)
      /\ Total(Following(d, 13), SectionBytes) = FirstUnits(g, 6)
  <2>1. 13 \in 1..19 /\ 19 - 13 = 6
    OBVIOUS
  <2>2. QED
    BY <2>1, FollowingBytes
<1>2. DOMAIN g = 1..6 /\ \A k \in 1..6 : g[k] = SectionBytes(Sections(d)[13 + k])
  BY DEF FollowingSizes
<1>3. /\ \A k \in 1..5 : g[k] \in Nat /\ g[k] >= 4
      /\ g[6] = 2
  <2>1. \A k \in 1..5 : 13 + k \in 14..18
    OBVIOUS
  <2>2. QED
    BY <1>2, <2>1, TailBytes
<1> HIDE DEF g
<1>4. FirstUnits(g, 6) = g[1] + g[2] + g[3] + g[4] + g[5] + g[6]
  BY <1>1, <1>2, FirstSix
<1>5. g[1] + g[2] + g[3] + g[4] + g[5] + g[6] >= 22
  BY <1>3
<1>6. QED
  BY <1>1, <1>2, <1>4, <1>5

LEMMA BehindPatterns ==
  ASSUME NEW d, Compilable(d)
  PROVE  /\ Total(Following(d, 11), SectionBytes) \in Nat /\ Len(d.breaks) \in Nat
         /\ Total(Following(d, 11), SectionBytes) >= 27 + 7 * Len(d.breaks)
<1> DEFINE g == FollowingSizes(d, 11)
           b == Len(d.breaks)
<1>1. /\ Total(Following(d, 11), SectionBytes) \in Nat /\ Counting(g)
      /\ Total(Following(d, 11), SectionBytes) = FirstUnits(g, 8)
  <2>1. 11 \in 1..19 /\ 19 - 11 = 8
    OBVIOUS
  <2>2. QED
    BY <2>1, FollowingBytes
<1>2. DOMAIN g = 1..8 /\ \A k \in 1..8 : g[k] = SectionBytes(Sections(d)[11 + k])
  BY DEF FollowingSizes
<1>3. /\ \A k \in 3..7 : g[k] \in Nat /\ g[k] >= 4
      /\ g[8] = 2
  <2>1. \A k \in 3..7 : 11 + k \in 14..18
    OBVIOUS
  <2>2. QED
    BY <1>2, <2>1, TailBytes
<1>4. g[1] \in Nat /\ g[1] >= 1
  <2>1. Sections(d)[12] = Section(SyllablesSize(d.compound.syllables))
    BY SectionPlaces
  <2>2. SectionBytes(Sections(d)[12]) = SyllablesSize(d.compound.syllables)
    <3>1. SyllablesSize(d.compound.syllables) \in Nat
      BY <2>1, SyllablesFilled DEF Filled, Readable, Section
    <3>2. QED
      BY <2>1, <3>1 DEF Section, SectionBytes
  <2>3. Readable(Sections(d)[12])
    BY AllReadable
  <2>4. QED
    BY <1>2, <2>2, <2>3, SyllablesFilled, BytesOf
<1>5. g[2] \in Nat /\ b \in Nat /\ g[2] >= 4 + 7 * b
  <2> DEFINE s == BreaksSection(d.breaks)
  <2>1. Sections(d)[13] = s
    BY SectionPlaces
  <2>2. Readable(s) /\ b \in Nat /\ s.size >= 7 * b
    BY BreaksReadable
  <2>3. s.counted
    BY DEF BreaksSection, Counts
  <2> HIDE DEF s, b
  <2>4. SectionBytes(s) \in Nat /\ SectionBytes(s) >= 4 + s.size /\ s.size \in Nat
    BY <2>2, <2>3, BytesOf DEF Readable
  <2>5. g[2] = SectionBytes(s)
    BY <1>2, <2>1
  <2> HIDE DEF g
  <2>6. QED
    BY <2>2, <2>4, <2>5
<1> HIDE DEF g
<1>6. FirstUnits(g, 8) = g[1] + g[2] + g[3] + g[4] + g[5] + g[6] + g[7] + g[8]
  BY <1>1, <1>2, FirstEight
<1>7. g[1] + g[2] + g[3] + g[4] + g[5] + g[6] + g[7] + g[8] >= 27 + 7 * b
  <2>1. /\ g[3] \in Nat /\ g[3] >= 4 /\ g[4] \in Nat /\ g[4] >= 4 /\ g[5] \in Nat /\ g[5] >= 4
        /\ g[6] \in Nat /\ g[6] >= 4 /\ g[7] \in Nat /\ g[7] >= 4
    BY <1>3
  <2>2. g[3] + g[4] + g[5] + g[6] + g[7] + g[8] >= 22
    BY <1>3, <2>1
  <2> HIDE DEF b
  <2>3. g[1] + g[2] >= 5 + 7 * b
    BY <1>4, <1>5
  <2>4. QED
    BY <1>3, <1>4, <1>5, <2>1, <2>2, <2>3
<1>8. QED
  BY <1>1, <1>2, <1>5, <1>6, <1>7

(* The readers have enough bytes but for long lists of the two kinds. *)
LEMMA BytesEnough ==
  ASSUME NEW d, Compilable(d), Len(d.breaks) <= 7,
         Len(d.compound.patterns) <= 27 + 7 * Len(d.breaks)
  PROVE  EnoughBytes(Sections(d), 0)
<1> DEFINE s == Sections(d)
<1>1. DOMAIN s = 1..19 /\ Len(s) = 19
  BY SectionPlaces
<1>2. ASSUME NEW i \in 1..19
      PROVE  s[i].items * s[i].each <= s[i].size + 0 + Total(Following(d, i), SectionBytes)
  <2> DEFINE rest == Total(Following(d, i), SectionBytes)
  <2>1. rest \in Nat /\ s[i].size \in Nat
    BY FollowingBytes, AllReadable DEF Readable
  <2>2. CASE i \notin {11, 13}
    <3>1. Filled(s[i])
      BY <2>2, AllReadable
    <3> DEFINE need == s[i].items * s[i].each
               size == s[i].size
    <3>2. need \in 0..size /\ size \in Nat
      BY <3>1 DEF Filled, Readable
    <3> HIDE DEF rest, need, size
    <3>3. need <= size + 0 + rest
      BY <2>1, <3>2
    <3>4. QED
      BY <3>3 DEF rest, need, size
  <2>3. CASE i = 11
    <3> DEFINE n == Len(d.compound.patterns)
               b == Len(d.breaks)
    <3>1. s[11] = PatternsSection(d.compound.patterns, d.mode)
      BY SectionPlaces
    <3>2. n \in Nat /\ s[11].items = n /\ s[11].each = 14 /\ s[11].size >= 13 * n
      BY <3>1, PatternsReadable
    <3>3. rest >= 27 + 7 * b /\ b \in Nat
      BY <2>3, BehindPatterns
    <3>4. n <= 27 + 7 * b
      OBVIOUS
    <3> HIDE DEF rest, s, n, b
    <3>5. s[11].items * s[11].each = n * 14
      BY <3>2
    <3>6. n * 14 <= s[11].size + 0 + rest
      BY <2>1, <2>3, <3>2, <3>3, <3>4
    <3>7. QED
      BY <2>3, <3>5, <3>6 DEF rest
  <2>4. CASE i = 13
    <3> DEFINE b == Len(d.breaks)
    <3>1. s[13] = BreaksSection(d.breaks)
      BY SectionPlaces
    <3>2. b \in Nat /\ s[13].items = b /\ s[13].each = 10 /\ s[13].size >= 7 * b
      BY <3>1, BreaksReadable
    <3>3. rest >= 22
      BY <2>4, BehindBreaks
    <3>4. b <= 7
      OBVIOUS
    <3> HIDE DEF rest, s, b
    <3>5. s[13].items * s[13].each = b * 10
      BY <3>2
    <3>6. b * 10 <= s[13].size + 0 + rest
      <4> DEFINE size == s[13].size
      <4>1. size \in Nat /\ rest \in Nat /\ size >= 7 * b /\ b \in Nat
        BY <2>1, <2>4, <3>2
      <4> HIDE DEF size
      <4>2. b * 10 = 7 * b + 3 * b /\ 3 * b <= 21
        BY <3>4, <4>1
      <4>3. b * 10 <= size + 0 + rest
        BY <3>3, <4>1, <4>2
      <4>4. QED
        BY <4>3 DEF size
    <3>7. QED
      BY <2>4, <3>5, <3>6 DEF rest
  <2>5. QED
    BY <2>2, <2>3, <2>4
<1>3. QED
  BY <1>1, <1>2 DEF EnoughBytes, Following

(* What the tables behind entries and rules take at least. *)
LeastBytes == << 7, 1, 4, 28, 4, 4, 1, 4, 4, 4, 4, 4, 4, 2 >>

LEMMA CountedBytes ==
  ASSUME NEW d, Compilable(d), NEW i \in 1..19, Sections(d)[i].counted
  PROVE  SectionBytes(Sections(d)[i]) \in Nat /\ SectionBytes(Sections(d)[i]) >= 4
<1>1. Readable(Sections(d)[i])
  BY AllReadable
<1> DEFINE s == Sections(d)[i]
<1> HIDE DEF s
<1>2. Readable(s) /\ s.counted
  BY <1>1 DEF s
<1>3. SectionBytes(s) \in Nat /\ SectionBytes(s) >= 4 + s.size /\ s.size \in Nat
  BY <1>2, BytesOf DEF Readable
<1>4. SectionBytes(s) >= 4
  BY <1>3
<1>5. QED
  BY <1>3, <1>4 DEF s

LEMMA TablesBytes ==
  ASSUME NEW d, Compilable(d)
  PROVE  /\ \A i \in 4..5 : /\ SectionBytes(Sections(d)[i]) \in Nat
                            /\ SectionBytes(Sections(d)[i]) >= 4
         /\ \A m \in 1..14 : /\ SectionBytes(Sections(d)[5 + m]) \in Nat
                             /\ SectionBytes(Sections(d)[5 + m]) >= LeastBytes[m]
<1> DEFINE s == Sections(d)
           Holds(i, n) == SectionBytes(s[i]) \in Nat /\ SectionBytes(s[i]) >= n
<1>1. s[4].counted /\ s[5].counted /\ s[8].counted /\ s[10].counted /\ s[11].counted /\ s[13].counted
  <2>1. /\ s[4] = RulesSection(d, "prefix") /\ s[5] = RulesSection(d, "suffix")
        /\ s[8] = MapsSection(d.maps) /\ s[10] = CompoundRulesSection(d.compound.rules, d.mode)
        /\ s[11] = PatternsSection(d.compound.patterns, d.mode) /\ s[13] = BreaksSection(d.breaks)
    BY SectionPlaces
  <2> HIDE DEF s
  <2>2. s[4].counted /\ s[5].counted /\ s[8].counted
    BY <2>1 DEF RulesSection, MapsSection, Counts
  <2>3. s[10].counted /\ s[11].counted /\ s[13].counted
    BY <2>1 DEF CompoundRulesSection, PatternsSection, BreaksSection, Counts
  <2>4. QED
    BY <2>2, <2>3
<1>2. Holds(4, 4) /\ Holds(5, 4) /\ Holds(8, 4) /\ Holds(10, 4) /\ Holds(11, 4) /\ Holds(13, 4)
  BY <1>1, CountedBytes
<1>3. ASSUME NEW i \in 1..19
      PROVE  SectionBytes(s[i]) \in Nat /\ SectionBytes(s[i]) >= s[i].size
  BY AllReadable, BytesOf
<1>4. Holds(6, 7)
  <2>1. s[6].size >= 7 /\ s[6].size \in Nat
    BY SectionPlaces, SpecialFlagsFilled DEF Filled, Readable
  <2> HIDE DEF s
  <2>2. QED
    BY <1>3, <2>1
<1>5. Holds(9, 28)
  <2>1. s[9].size >= 28 /\ s[9].size \in Nat
    BY SectionPlaces, CompoundFilled DEF Filled, Readable
  <2> HIDE DEF s
  <2>2. QED
    BY <1>3, <2>1
<1>6. Holds(7, 1)
  <2> DEFINE f == [x \in d.keyboard |-> TextSize(x)]
  <2>1. s[7] = Section(1 + SumFunction(f))
    BY SectionPlaces DEF KeyboardSection, TotalOf
  <2>2. Measured(d.keyboard)
    BY FieldOf, DictionaryNames DEF Compilable, FieldSized, Optional
  <2>3. \A x \in d.keyboard : f[x] \in Nat /\ f[x] >= 0
    BY <2>2 DEF Measured, TextSize
  <2>4. DOMAIN f = d.keyboard
    OBVIOUS
  <2> HIDE DEF f
  <2>5. SumFunction(f) \in Nat
    BY <2>2, <2>3, <2>4, SetTotal DEF Measured
  <2>6. s[7].size = 1 + SumFunction(f)
    BY <2>1 DEF Section
  <2> HIDE DEF s
  <2>7. QED
    BY <1>3, <2>5, <2>6
<1>7. Holds(12, 1)
  <2>1. s[12] = Section(SyllablesSize(d.compound.syllables))
    BY SectionPlaces
  <2>2. s[12].size \in Nat /\ s[12].size >= 1
    <3>1. s[12].size = SyllablesSize(d.compound.syllables)
      BY <2>1 DEF Section
    <3>2. Filled(s[12])
      BY <2>1, SyllablesFilled
    <3>3. QED
      BY <3>1, <3>2, SyllablesFilled DEF Filled, Readable
  <2> HIDE DEF s
  <2>3. QED
    BY <1>3, <2>2
<1>8. Holds(14, 4) /\ Holds(15, 4) /\ Holds(16, 4) /\ Holds(17, 4) /\ Holds(18, 4) /\ Holds(19, 2)
  BY TailBytes
<1> HIDE DEF Holds
<1>9. ASSUME NEW m \in 1..14
      PROVE  Holds(5 + m, LeastBytes[m])
  <2>1. \/ m = 1 \/ m = 2 \/ m = 3 \/ m = 4 \/ m = 5 \/ m = 6 \/ m = 7
        \/ m = 8 \/ m = 9 \/ m = 10 \/ m = 11 \/ m = 12 \/ m = 13 \/ m = 14
    OBVIOUS
  <2>2. CASE m \in {1, 2, 3, 4, 5, 6, 7}
    BY <1>2, <1>4, <1>5, <1>6, <1>7, <2>2 DEF LeastBytes
  <2>3. CASE m \in {8, 9, 10, 11, 12, 13, 14}
    BY <1>2, <1>8, <2>3 DEF LeastBytes
  <2>4. QED
    BY <2>1, <2>2, <2>3
<1>10. \A i \in 4..5 : i = 4 \/ i = 5
  OBVIOUS
<1>11. QED
  BY <1>2, <1>9, <1>10 DEF Holds

LEMMA MoreUnits ==
  ASSUME NEW f, Counting(f), NEW n \in Nat, 1..(n + 1) \subseteq DOMAIN f,
         NEW b \in Nat, FirstUnits(f, n) \in Nat, FirstUnits(f, n) >= b,
         NEW c \in Nat, f[n + 1] >= c
  PROVE  FirstUnits(f, n + 1) \in Nat /\ FirstUnits(f, n + 1) >= b + c
<1>1. FirstUnits(f, n + 1) = f[n + 1] + FirstUnits(f, n)
  <2>1. n + 1 \in Nat /\ n + 1 # 0 /\ (n + 1) - 1 = n
    OBVIOUS
  <2>2. FirstUnits(f, n + 1) = f[n + 1] + FirstUnits(f, (n + 1) - 1)
    BY <2>1, FirstUnitsNext
  <2>3. QED
    BY <2>1, <2>2
<1>2. f[n + 1] \in Nat
  BY DEF Counting
<1>3. QED
  BY <1>1, <1>2

LEMMA LeastUnits ==
  ASSUME NEW f, Counting(f), NEW n \in Nat, 1..(n + 14) \subseteq DOMAIN f,
         NEW b \in Nat, FirstUnits(f, n) \in Nat, FirstUnits(f, n) >= b,
         \A m \in 1..14 : f[n + m] >= LeastBytes[m]
  PROVE  FirstUnits(f, n + 14) >= b + 75
<1> DEFINE Holds(m, c) == FirstUnits(f, n + m) \in Nat /\ FirstUnits(f, n + m) >= b + c
<1>1. ASSUME NEW m \in 0..13, NEW c \in Nat, Holds(m, c), NEW least \in Nat, LeastBytes[m + 1] = least,
             NEW k, k = m + 1, NEW sum, sum = c + least
      PROVE  Holds(k, sum)
  <2>1. n + m \in Nat /\ 1..((n + m) + 1) \subseteq DOMAIN f /\ b + c \in Nat
    OBVIOUS
  <2>2. f[(n + m) + 1] >= least
    <3>1. m + 1 \in 1..14 /\ (n + m) + 1 = n + (m + 1)
      OBVIOUS
    <3>2. f[n + (m + 1)] >= least
      BY <1>1, <3>1
    <3>3. QED
      BY <3>1, <3>2
  <2>3. /\ FirstUnits(f, (n + m) + 1) \in Nat
        /\ FirstUnits(f, (n + m) + 1) >= (b + c) + least
    BY <1>1, <2>1, <2>2, MoreUnits
  <2>4. (n + m) + 1 = n + k /\ (b + c) + least = b + sum
    BY <1>1
  <2>5. QED
    BY <2>3, <2>4
<1>2. Holds(0, 0)
  BY n + 0 = n
<1> HIDE DEF Holds
<1>3. /\ LeastBytes[1] = 7 /\ LeastBytes[2] = 1 /\ LeastBytes[3] = 4 /\ LeastBytes[4] = 28
      /\ LeastBytes[5] = 4 /\ LeastBytes[6] = 4 /\ LeastBytes[7] = 1 /\ LeastBytes[8] = 4
      /\ LeastBytes[9] = 4 /\ LeastBytes[10] = 4 /\ LeastBytes[11] = 4 /\ LeastBytes[12] = 4
      /\ LeastBytes[13] = 4 /\ LeastBytes[14] = 2
  BY DEF LeastBytes
<1>4. Holds(1, 7)
  BY <1>1, <1>2, <1>3
<1>5. Holds(2, 8)
  BY <1>1, <1>4, <1>3
<1>6. Holds(3, 12)
  BY <1>1, <1>5, <1>3
<1>7. Holds(4, 40)
  BY <1>1, <1>6, <1>3
<1>8. Holds(5, 44)
  BY <1>1, <1>7, <1>3
<1>9. Holds(6, 48)
  BY <1>1, <1>8, <1>3
<1>10. Holds(7, 49)
  BY <1>1, <1>9, <1>3
<1>11. Holds(8, 53)
  BY <1>1, <1>10, <1>3
<1>12. Holds(9, 57)
  BY <1>1, <1>11, <1>3
<1>13. Holds(10, 61)
  BY <1>1, <1>12, <1>3
<1>14. Holds(11, 65)
  BY <1>1, <1>13, <1>3
<1>15. Holds(12, 69)
  BY <1>1, <1>14, <1>3
<1>16. Holds(13, 73)
  BY <1>1, <1>15, <1>3
<1>17. Holds(14, 75)
  BY <1>1, <1>16, <1>3
<1>18. QED
  BY <1>17 DEF Holds

LEMMA BehindRules ==
  ASSUME NEW d, Compilable(d), NEW i \in 3..5
  PROVE  /\ Total(Following(d, i), SectionBytes) \in Nat
         /\ Total(Following(d, i), SectionBytes) >= 75 + 4 * (5 - i)
<1> DEFINE g == FollowingSizes(d, i)
           n == 5 - i
           s == Sections(d)
<1>1. /\ Total(Following(d, i), SectionBytes) \in Nat /\ Counting(g)
      /\ Total(Following(d, i), SectionBytes) = FirstUnits(g, 19 - i)
  BY FollowingBytes
<1>2. DOMAIN g = 1..(19 - i) /\ \A k \in 1..(19 - i) : g[k] = SectionBytes(s[i + k])
  BY DEF FollowingSizes
<1>3. n \in 0..2 /\ 19 - i = n + 14
  OBVIOUS
<1>4. \A m \in 1..14 : g[n + m] >= LeastBytes[m]
  <2>1. \A m \in 1..14 : n + m \in 1..(19 - i) /\ i + (n + m) = 5 + m
    OBVIOUS
  <2> HIDE DEF g, n, s
  <2>2. \A m \in 1..14 : g[n + m] = SectionBytes(s[5 + m])
    BY <1>2, <2>1
  <2>3. QED
    BY <2>2, TablesBytes DEF s
<1>5. \A k \in 1..n : g[k] >= 4
  <2>1. \A k \in 1..n : k \in 1..(19 - i) /\ i + k \in 4..5
    OBVIOUS
  <2> HIDE DEF g, n, s
  <2>2. ASSUME NEW k \in 1..n
        PROVE  g[k] >= 4
    <3>1. g[k] = SectionBytes(s[i + k]) /\ i + k \in 4..5
      BY <1>2, <2>1
    <3>2. SectionBytes(s[i + k]) >= 4
      BY <3>1, TablesBytes DEF s
    <3>3. QED
      BY <3>1, <3>2
  <2>3. QED
    BY <2>2
<1> HIDE DEF g, n, s
<1>6. FirstUnits(g, 0) = 0
  <2>1. 1..0 = {}
    OBVIOUS
  <2>2. QED
    BY <2>1, NoUnits DEF FirstUnits
<1>7. FirstUnits(g, n) \in Nat /\ FirstUnits(g, n) >= 4 * n
  <2>1. CASE n = 0
    BY <1>6, <2>1
  <2>2. CASE n # 0
    <3>1. FirstUnits(g, 0 + 1) \in Nat /\ FirstUnits(g, 0 + 1) >= 0 + 4
      <4>1. 1..(0 + 1) \subseteq DOMAIN g /\ g[0 + 1] >= 4
        BY <1>2, <1>3, <1>5, <2>2
      <4>2. QED
        BY <1>1, <1>6, <4>1, MoreUnits
    <3>2. CASE n = 1
      BY <3>1, <3>2
    <3>3. CASE n = 2
      <4>1. 1..(1 + 1) \subseteq DOMAIN g /\ g[1 + 1] >= 4
        BY <1>2, <1>3, <1>5, <3>3
      <4>2. FirstUnits(g, 1) \in Nat /\ FirstUnits(g, 1) >= 4
        BY <3>1
      <4>3. FirstUnits(g, 1 + 1) \in Nat /\ FirstUnits(g, 1 + 1) >= 4 + 4
        BY <1>1, <4>1, <4>2, MoreUnits
      <4>4. QED
        BY <3>3, <4>3
    <3>4. QED
      BY <1>3, <2>2, <3>2, <3>3
  <2>3. QED
    BY <2>1, <2>2
<1>8. FirstUnits(g, n + 14) >= 4 * n + 75
  <2>1. n \in Nat /\ 4 * n \in Nat /\ 1..(n + 14) \subseteq DOMAIN g
    BY <1>2, <1>3
  <2>2. QED
    BY <1>1, <1>4, <1>7, <2>1, LeastUnits
<1>9. Total(Following(d, i), SectionBytes) >= 4 * n + 75
  BY <1>1, <1>3, <1>8
<1>10. QED
  BY <1>1, <1>9 DEF n

(* A list of flags is read unless it is one of numbers and long. *)
LEMMA FlagsFitting ==
  ASSUME NEW items, IsText(items), NEW enc, NEW behind \in Nat,
         \A i \in DOMAIN items :
           /\ Measured(items[i].flags) /\ items[i].size \in Nat
           /\ IF enc = "numeric" THEN Cardinality(items[i].flags) <= behind + 4
                                 ELSE \A x \in items[i].flags : Len(x) # 0
  PROVE  FlagsFit(items, enc, behind)
<1>1. ASSUME NEW i \in DOMAIN items
      PROVE  Total(SubSeq(items, i + 1, Len(items)), LAMBDA x : x.size) \in Nat
  <2> DEFINE t == SubSeq(items, i + 1, Len(items))
             S == Range(items)
             f == [k \in DOMAIN t |-> t[k].size]
  <2>1. /\ i + 1 \in Int /\ Len(items) \in Int /\ DOMAIN items = 1..Len(items)
        /\ \A k \in i + 1..Len(items) : items[k] \in S
    <3>1. Len(items) \in Nat /\ DOMAIN items = 1..Len(items)
      BY TextType
    <3>2. \A k \in i + 1..Len(items) : k \in DOMAIN items
      BY <3>1
    <3>3. QED
      BY <3>1, <3>2 DEF Range
  <2>2. \A x \in S : x.size \in Nat
    BY DEF Range
  <2> HIDE DEF S
  <2>3. t \in Seq(S)
    BY <2>1, SubSeqProperties
  <2> HIDE DEF t
  <2>4. IsText(t) /\ Range(t) \subseteq S
    BY <2>3, SeqIsText
  <2>5. \A k \in DOMAIN t : f[k] \in Nat /\ f[k] >= 0
    BY <2>2, <2>4 DEF Range
  <2>6. DOMAIN f = DOMAIN t
    OBVIOUS
  <2>7. Total(t, LAMBDA x : x.size) = SumFunction(f)
    BY DEF Total
  <2> HIDE DEF f
  <2>8. SumFunction(f) \in Nat
    BY <2>4, <2>5, <2>6, ListTotal
  <2>9. QED
    BY <2>7, <2>8 DEF t
<1>2. ASSUME NEW i \in DOMAIN items
      PROVE  5 * Cardinality(items[i].flags) <=
               FlagsSize(items[i].flags, enc) - 4 + Morphology
                 + Total(SubSeq(items, i + 1, Len(items)), LAMBDA x : x.size) + behind
  <2> DEFINE rest == Total(SubSeq(items, i + 1, Len(items)), LAMBDA x : x.size)
             flags == items[i].flags
             f == [x \in flags |-> FlagSize(x, enc)]
             c == Cardinality(flags)
  <2>1. rest \in Nat
    BY <1>1
  <2>2. Measured(flags) /\ IsFiniteSet(flags) /\ c \in Nat
    BY FS_CardinalityType DEF Measured
  <2>3. FlagsSize(flags, enc) = 4 + SumFunction(f)
    BY DEF FlagsSize, TotalOf
  <2>4. DOMAIN f = flags
    OBVIOUS
  <2> HIDE DEF rest
  <2>5. CASE enc = "numeric"
    <3>1. c <= behind + 4
      BY <2>5
    <3>2. \A x \in flags : f[x] \in Nat /\ f[x] >= 4
      BY <2>5 DEF FlagSize
    <3> HIDE DEF f, c, flags
    <3>3. SumFunction(f) \in Nat /\ SumFunction(f) >= 4 * c
      BY <2>2, <2>4, <3>2, SetTotal DEF c
    <3>4. 5 * c <= FlagsSize(flags, enc) - 4 + Morphology + rest + behind
      BY <2>1, <2>2, <2>3, <3>1, <3>3 DEF Morphology
    <3>5. QED
      BY <3>4 DEF c, flags, rest
  <2>6. CASE enc # "numeric"
    <3>1. \A x \in flags : f[x] \in Nat /\ f[x] >= 5
      <4>1. \A x \in flags : Len(x) \in Nat /\ Len(x) # 0
        BY <2>2, <2>6 DEF Measured
      <4> HIDE DEF flags
      <4>2. \A x \in flags : f[x] = 4 + Len(x)
        BY <2>6 DEF FlagSize, TextSize
      <4>3. QED
        BY <4>1, <4>2
    <3> HIDE DEF f, c, flags
    <3>2. SumFunction(f) \in Nat /\ SumFunction(f) >= 5 * c
      BY <2>2, <2>4, <3>1, SetTotal DEF c
    <3>3. 5 * c <= FlagsSize(flags, enc) - 4 + Morphology + rest + behind
      BY <2>1, <2>2, <2>3, <3>2 DEF Morphology
    <3>4. QED
      BY <3>3 DEF c, flags, rest
  <2>7. QED
    BY <2>5, <2>6
<1>3. QED
  BY <1>2 DEF FlagsFit

(* No flag of a dictionary that may be compiled is empty. *)
LEMMA FlagsSaid ==
  ASSUME NEW d, Compilable(d), d.mode # "numeric", NEW flag \in FlagsIn(d)
  PROVE  Len(flag) # 0
  BY DEF Compilable, ValidDictionary, IsValidFor

LEMMA FlagsEnough ==
  ASSUME NEW d, Compilable(d), ~ManyNumbers(d)
  PROVE  EnoughForFlags(d, 0)
<1> DEFINE Behind(i) == Total(SubSeq(Sections(d), i + 1, Len(Sections(d))), SectionBytes) + 0
<1>1. ASSUME NEW i \in 3..5
      PROVE  Behind(i) \in Nat /\ Behind(i) >= 75 + 4 * (5 - i)
  <2>1. Len(Sections(d)) = 19
    BY SectionPlaces
  <2>2. Behind(i) = Total(Following(d, i), SectionBytes) + 0
    BY <2>1 DEF Following
  <2> HIDE DEF Behind
  <2> DEFINE rest == Total(Following(d, i), SectionBytes)
  <2>3. rest \in Nat /\ rest >= 75 + 4 * (5 - i)
    BY BehindRules
  <2> HIDE DEF rest
  <2>4. Behind(i) = rest + 0
    BY <2>2 DEF rest
  <2>5. QED
    BY <2>3, <2>4
<1> HIDE DEF Behind
<1>2. /\ Behind(3) \in Nat /\ Behind(3) >= 83 /\ Behind(4) \in Nat /\ Behind(4) >= 79
      /\ Behind(5) \in Nat /\ Behind(5) >= 75
  <2>1. 3 \in 3..5 /\ 4 \in 3..5 /\ 5 \in 3..5
    OBVIOUS
  <2>2. /\ Behind(3) \in Nat /\ Behind(3) >= 75 + 4 * (5 - 3)
        /\ Behind(4) \in Nat /\ Behind(4) >= 75 + 4 * (5 - 4)
        /\ Behind(5) \in Nat /\ Behind(5) >= 75 + 4 * (5 - 5)
    BY <1>1, <2>1
  <2>3. QED
    BY <2>2
<1>3. FlagsFit(LexemeItems(d), d.mode, Behind(3))
  <2> DEFINE q == SetToSeq(d.lexemes)
             items == LexemeItems(d)
  <2>1. LexemesSized(d.lexemes)
    BY FieldOf, DictionaryNames DEF Compilable, FieldSized
  <2>2. IsText(q) /\ Range(q) \subseteq d.lexemes
    BY <2>1, SetToSeqType, SeqIsText DEF LexemesSized
  <2>3. items = [i \in DOMAIN q |-> [flags |-> q[i].flags, size |-> LexemeSize(q[i], d.mode)]]
    BY DEF LexemeItems, Each
  <2> HIDE DEF q, items
  <2>4. IsText(items) /\ DOMAIN items = DOMAIN q
    BY <2>2, <2>3, TextType, TextMade
  <2>5. ASSUME NEW i \in DOMAIN items
        PROVE  /\ Measured(items[i].flags) /\ items[i].size \in Nat
               /\ IF d.mode = "numeric" THEN Cardinality(items[i].flags) <= Behind(3) + 4
                                        ELSE \A x \in items[i].flags : Len(x) # 0
    <3>1. PICK l \in d.lexemes : l = q[i]
      BY <2>2, <2>4 DEF Range
    <3>2. items[i].flags = l.flags /\ items[i].size = LexemeSize(l, d.mode)
      BY <2>3, <2>4, <3>1
    <3>3. Measured(l.flags) /\ LexemeSize(l, d.mode) \in Nat
      BY <2>1, LexemeBytes DEF LexemesSized
    <3>4. Cardinality(l.flags) \in Nat
      BY <3>3, FS_CardinalityType DEF Measured
    <3>5. d.mode = "numeric" => Cardinality(l.flags) <= Behind(3) + 4
      BY <1>2, <3>4 DEF ManyNumbers
    <3>6. l.flags \subseteq FlagsIn(d)
      BY DEF FlagsIn
    <3>7. d.mode # "numeric" => \A x \in l.flags : Len(x) # 0
      BY <3>6, FlagsSaid
    <3>8. QED
      BY <3>2, <3>3, <3>5, <3>7
  <2>6. FlagsFit(items, d.mode, Behind(3))
    BY <1>2, <2>4, <2>5, FlagsFitting
  <2>7. QED
    BY <2>6 DEF items
<1>4. ASSUME NEW kind, NEW behind \in Nat, behind >= 75
      PROVE  FlagsFit(RuleItems(d, kind), d.mode, behind)
  <2> DEFINE rules == {r \in d.rules : r.kind = kind}
             q == SetToSeq(rules)
             items == RuleItems(d, kind)
  <2>1. \A r \in d.rules : RuleSized(r) /\ RuleSpelled(r)
    BY FieldOf, DictionaryNames DEF Compilable, FieldSized, EntriesTyped
  <2>2. IsFiniteSet(rules) /\ rules \subseteq d.rules
    BY FS_Subset DEF Compilable, EntriesTyped
  <2>3. items = [i \in DOMAIN q |-> [flags |-> q[i].continuation, size |-> RuleSize(q[i], d.mode)]]
    BY DEF RuleItems, Each
  <2> HIDE DEF rules
  <2>4. IsText(q) /\ Range(q) \subseteq d.rules
    BY <2>2, SetToSeqType, SeqIsText
  <2> HIDE DEF q, items
  <2>5. IsText(items) /\ DOMAIN items = DOMAIN q
    BY <2>3, <2>4, TextType, TextMade
  <2>6. ASSUME NEW i \in DOMAIN items
        PROVE  /\ Measured(items[i].flags) /\ items[i].size \in Nat
               /\ IF d.mode = "numeric" THEN Cardinality(items[i].flags) <= behind + 4
                                        ELSE \A x \in items[i].flags : Len(x) # 0
    <3>1. PICK r \in d.rules : r = q[i]
      BY <2>4, <2>5 DEF Range
    <3>2. items[i].flags = r.continuation /\ items[i].size = RuleSize(r, d.mode)
      BY <2>3, <2>5, <3>1
    <3>3. Measured(r.continuation) /\ RuleSize(r, d.mode) \in Nat
      BY <2>1, RuleBytes DEF RuleSized
    <3>4. Cardinality(r.continuation) \in Nat
      BY <3>3, FS_CardinalityType DEF Measured
    <3>5. d.mode = "numeric" => Cardinality(r.continuation) <= behind + 4
      BY <1>4, <3>4 DEF ManyNumbers
    <3>6. r.continuation \subseteq FlagsIn(d)
      <4> DEFINE all == {{x.flag} \cup x.continuation : x \in d.rules}
      <4>1. {r.flag} \cup r.continuation \in all
        OBVIOUS
      <4>2. UNION all \subseteq FlagsIn(d)
        BY DEF FlagsIn
      <4> HIDE DEF all
      <4>3. QED
        BY <4>1, <4>2
    <3>7. d.mode # "numeric" => \A x \in r.continuation : Len(x) # 0
      BY <3>6, FlagsSaid
    <3>8. QED
      BY <3>2, <3>3, <3>5, <3>7
  <2>7. FlagsFit(items, d.mode, behind)
    BY <1>4, <2>5, <2>6, FlagsFitting
  <2>8. QED
    BY <2>7 DEF items
<1>5. /\ FlagsFit(RuleItems(d, "prefix"), d.mode, Behind(4))
      /\ FlagsFit(RuleItems(d, "suffix"), d.mode, Behind(5))
  <2>1. Behind(4) >= 75 /\ Behind(5) >= 75
    BY <1>2
  <2>2. QED
    BY <1>2, <1>4, <2>1
<1>6. QED
  BY <1>3, <1>5 DEF EnoughForFlags, Behind

LEMMA SealedTwice ==
  ASSUME NEW c, "checksum" \in DOMAIN c, c = [x \in DOMAIN c |-> c[x]]
  PROVE  Sealed(Sealed(c)) = Sealed(c)
<1> DEFINE s == Sealed(c)
           bare == [c EXCEPT !.checksum = <<>>]
<1>1. s = [c EXCEPT !.checksum = bare]
  BY DEF Sealed
<1>2. DOMAIN s = DOMAIN c /\ \A x \in DOMAIN c : x # "checksum" => s[x] = c[x]
  BY <1>1
<1>3. s = [x \in DOMAIN c |-> IF x = "checksum" THEN bare ELSE c[x]]
  BY <1>1
<1> HIDE DEF s
<1>4. [s EXCEPT !.checksum = <<>>] = [x \in DOMAIN c |-> IF x = "checksum" THEN <<>> ELSE s[x]]
  BY <1>2
<1>5. bare = [x \in DOMAIN c |-> IF x = "checksum" THEN <<>> ELSE c[x]]
  OBVIOUS
<1>6. [s EXCEPT !.checksum = <<>>] = bare
  BY <1>2, <1>4, <1>5
<1> HIDE DEF bare
<1>7. Sealed(s) = [s EXCEPT !.checksum = bare]
  BY <1>6 DEF Sealed
<1>8. [s EXCEPT !.checksum = bare] = [x \in DOMAIN c |-> IF x = "checksum" THEN bare ELSE s[x]]
  BY <1>2
<1>9. QED
  BY <1>2, <1>3, <1>7, <1>8 DEF s

(* What is compiled may be, and is longer than header and checksum. *)
LEMMA CompiledLength ==
  ASSUME NEW d, NEW a \in CompileRuntimeCache(d, "aff", "dic")
  PROVE  /\ ValidDictionary(d)
         /\ a.length = HeaderBytes + Total(Sections(d), SectionBytes) + ChecksumBytes
<1> DEFINE h == [magic |-> "FLXHUN", format |-> CacheFormat,
                   semantics |-> CacheSemantics, aff |-> "aff", dic |-> "dic",
                   content |-> WriteDictionary(d), trailing |-> 0,
                   length |-> HeaderBytes + Total(Sections(d), SectionBytes) + ChecksumBytes,
                   checksum |-> <<>>]
<1>1. ValidDictionary(d) /\ a = Sealed(h)
  BY Zenon DEF CompileRuntimeCache
<1>2. "length" \in DOMAIN h /\ h["length"] = HeaderBytes + Total(Sections(d), SectionBytes) + ChecksumBytes
  OBVIOUS
<1> HIDE DEF h
<1>3. a["length"] = h["length"]
  BY <1>1, <1>2, SealedFields
<1>4. QED
  BY <1>1, <1>2, <1>3

(* An artifact as it was written, if perhaps for other sources. *)
AsWritten(b, d) ==
  /\ b.magic = "FLXHUN" /\ b.format = CacheFormat /\ b.semantics = CacheSemantics
  /\ b.content = WriteDictionary(d) /\ b.trailing = 0 /\ b = Sealed(b)
  /\ b.length = HeaderBytes + Total(Sections(d), SectionBytes) + ChecksumBytes

LEMMA WrittenWhole ==
  ASSUME NEW d, NEW a \in CompileRuntimeCache(d, "aff", "dic"), NEW how \in {"otherAff", "otherDic"}
  PROVE  AsWritten(a, d) /\ AsWritten(Disturbed(a, how), d)
<1>1. /\ HasHeader(a, d)
      /\ a.length = HeaderBytes + Total(Sections(d), SectionBytes) + ChecksumBytes
  BY CompiledHeader, CompiledLength
<1>2. AsWritten(a, d)
  BY <1>1 DEF HasHeader, AsWritten
<1>3. ASSUME NEW f \in {"aff", "dic"}, NEW v
      PROVE  AsWritten(Sealed([a EXCEPT ![f] = v]), d)
  <2> DEFINE c == [a EXCEPT ![f] = v]
  <2>1. a = [x \in DOMAIN a |-> a[x]]
    <3>1. a = [a EXCEPT !.checksum = [a EXCEPT !.checksum = <<>>]]
      BY <1>1 DEF HasHeader, Sealed
    <3>2. QED
      BY <3>1
  <2>2. DOMAIN c = DOMAIN a /\ c = [x \in DOMAIN c |-> c[x]]
    OBVIOUS
  <2>3. DOMAIN a = {"magic", "format", "semantics", "aff", "dic", "content", "trailing",
                    "length", "checksum"}
    BY <1>1 DEF HasHeader
  <2>4. \A x \in DOMAIN a : x # f => c[x] = a[x]
    OBVIOUS
  <2>5. \A x \in {"magic", "format", "semantics", "content", "trailing", "length"} : c[x] = a[x]
    BY <2>3, <2>4
  <2> HIDE DEF c
  <2>6. \A x \in {"magic", "format", "semantics", "content", "trailing", "length"} :
          Sealed(c)[x] = a[x]
    BY <2>2, <2>3, <2>5, SealedFields
  <2>7. Sealed(c) = Sealed(Sealed(c))
    BY <2>2, <2>3, SealedTwice
  <2>8. AsWritten(Sealed(c), d)
    BY <2>6, <2>7, <1>2 DEF AsWritten
  <2>9. QED
    BY <2>8 DEF c
<1>4. CASE how = "otherAff"
  <2>1. Disturbed(a, how) = Sealed([a EXCEPT !["aff"] = "otherAff"])
    BY <1>4 DEF Disturbed
  <2>2. QED
    BY <1>2, <1>3, <2>1
<1>5. CASE how = "otherDic"
  <2>1. Disturbed(a, how) = Sealed([a EXCEPT !["dic"] = "otherDic"])
    BY <1>5 DEF Disturbed
  <2>2. QED
    BY <1>2, <1>3, <2>1
<1>6. QED
  BY <1>4, <1>5

LEMMA WrittenLoads ==
  ASSUME NEW d, Compilable(d), NEW b, AsWritten(b, d), b.length <= MaxCacheBytes,
         Len(d.breaks) <= 7, Len(d.compound.patterns) <= 27 + 7 * Len(d.breaks),
         ~ManyNumbers(d)
  PROVE  d \in LoadRuntimeArtifact(b)
<1>1. Total(Sections(d), SectionBytes) \in Nat
  BY SectionPlaces, AllReadable, BytesOfAll
<1>2. Intact(b)
  <2>1. b.length >= HeaderBytes + ChecksumBytes
    BY <1>1 DEF AsWritten, HeaderBytes, ChecksumBytes
  <2>2. QED
    BY <2>1 DEF Intact, AsWritten
<1>3. Metadata(b) = {[format |-> b.format, semantics |-> b.semantics, aff |-> b.aff, dic |-> b.dic]}
  BY <1>2 DEF Metadata, Option, AsWritten
<1>4. \A s \in Range(Sections(d)) : s.readable
  <2>1. DOMAIN Sections(d) = 1..19 /\ \A i \in 1..19 : Readable(Sections(d)[i])
    BY SectionPlaces, AllReadable
  <2>2. \A s \in Range(Sections(d)) : Readable(s)
    BY <2>1 DEF Range
  <2>3. QED
    BY <2>2 DEF Readable
<1>5. EnoughBytes(Sections(d), 0) /\ EnoughForFlags(d, 0) /\ ValidDictionary(d)
  BY BytesEnough, FlagsEnough DEF Compilable
<1>6. /\ ReadDictionary(b.content) = d /\ b.trailing = 0
      /\ b.format = CacheFormat /\ b.semantics = CacheSemantics
  BY DictionaryRead DEF AsWritten, Compilable
<1>7. OfKind(b.content[5], "prefix") /\ OfKind(b.content[6], "suffix")
  <2>1. \A r \in d.rules : RuleSized(r)
    BY FieldOf, DictionaryNames DEF Compilable, FieldSized
  <2>2. OfKind(WriteRules(d, "prefix"), "prefix") /\ OfKind(WriteRules(d, "suffix"), "suffix")
    BY <2>1, RulesRead DEF Kind
  <2> DEFINE w == WriteDictionary(d)
  <2>3. w[5] = WriteRules(d, "prefix") /\ w[6] = WriteRules(d, "suffix")
    BY DEF WriteDictionary
  <2> HIDE DEF w
  <2>4. b.content = w
    BY DEF AsWritten, w
  <2>5. QED
    BY <2>2, <2>3, <2>4
<1>8. d \in LoadRuntimeCache(b, b.aff, b.dic)
  <2> DEFINE e == ReadDictionary(b.content)
             test == /\ Metadata(b) = {[format |-> CacheFormat, semantics |-> CacheSemantics,
                                        aff |-> b.aff, dic |-> b.dic]}
                     /\ \A s \in Range(Sections(e)) : s.readable
                     /\ OfKind(b.content[5], "prefix")
                     /\ OfKind(b.content[6], "suffix")
                     /\ EnoughBytes(Sections(e), b.trailing)
                     /\ EnoughForFlags(e, b.trailing)
                     /\ b.trailing = 0
                     /\ ValidDictionary(e)
  <2>1. LoadRuntimeCache(b, b.aff, b.dic) = Option(test, e)
    BY DEF LoadRuntimeCache
  <2>2. e = d
    BY <1>6
  <2> HIDE DEF e
  <2>3. test
    BY <1>3, <1>4, <1>5, <1>6, <1>7, <2>2
  <2> HIDE DEF test
  <2>4. QED
    BY <2>1, <2>2, <2>3 DEF Option
<1>9. QED
  BY <1>8, LoadsAlone

(* A cache as compile_runtime_cache wrote it is read back whole, unless    *)
(* require_minimum_items asks for more bytes than the last tables or, of a *)
(* long list of flags under FLAG num, what follows it have, or             *)
(* ensure_artifact_size for fewer.                                         *)
THEOREM CacheReadableCorrect == Spec => []CacheReadable
<1>1. HunspellInv /\ SearchedInv /\ SourcesInv => CacheReadable
  <2> SUFFICES ASSUME HunspellInv, SearchedInv, SourcesInv, Asked, Whole,
                      ~(Len(dictionary.breaks) > 7),
                      ~(Len(dictionary.compound.patterns) > 27 + 7 * Len(dictionary.breaks)),
                      ~ManyNumbers(dictionary),
                      ~(\E a \in artifact : a.length > MaxCacheBytes)
               PROVE  Standalone # {}
    BY DEF CacheReadable
  <2>1. PICK a : /\ Written(a)
                 /\ artifact = {IF disturbance = "none" THEN a ELSE Disturbed(a, disturbance)}
    BY DEF HunspellInv, CacheInv, Asked
  <2> DEFINE b == IF disturbance = "none" THEN a ELSE Disturbed(a, disturbance)
  <2>2. AsWritten(b, dictionary)
    <3>1. a \in CompileRuntimeCache(dictionary, "aff", "dic")
      BY <2>1 DEF Written
    <3>2. QED
      BY <3>1, WrittenWhole DEF Whole
  <2>3. Compilable(dictionary)
    BY <2>1, CompiledLength
       DEF Written, Compilable, HunspellInv, ImportInv, SearchedInv, EntriesInv, SourcesInv,
           StoredInv, SizedInv
  <2>4. artifact = {b}
    BY <2>1
  <2> HIDE DEF b
  <2>5. b.length \in Nat /\ b.length <= MaxCacheBytes
    <3>1. b.length \in Nat
      <4>1. Total(Sections(dictionary), SectionBytes) \in Nat
        BY <2>3, SectionPlaces, AllReadable, BytesOfAll
      <4>2. QED
        BY <2>2, <4>1 DEF AsWritten, HeaderBytes, ChecksumBytes
    <3>2. QED
      BY <2>4, <3>1, SizeIsNumber
  <2>6. /\ Len(dictionary.breaks) <= 7
        /\ Len(dictionary.compound.patterns) <= 27 + 7 * Len(dictionary.breaks)
    <3>1. Len(dictionary.breaks) \in Nat /\ Len(dictionary.compound.patterns) \in Nat
      BY <2>3, PatternsReadable, BreaksReadable
    <3>2. QED
      BY <3>1
  <2>7. dictionary \in LoadRuntimeArtifact(b)
    BY <2>2, <2>3, <2>5, <2>6, WrittenLoads
  <2>8. QED
    BY <2>4, <2>7 DEF Standalone
<1>2. QED
  BY <1>1, HunspellInvariant, SearchedInvariant, SourcesInvariant, PTL

-----------------------------------------------------------------------------
(* What an explanation says                                                *)

(* The dictionary asked is the one imported, or still the empty one.       *)
AskedInv == Sized(hunspell) /\ StoredTyped(hunspell)

LEMMA AskedStarts ==
  ASSUME Init
  PROVE  AskedInv
<1>1. hunspell = dictionary
  BY DEF Init, ImportInit, SearchInit
<1>2. StoredInv /\ SizedInv
  BY StoredStarts, SizedStarts
<1>3. QED
  BY <1>1, <1>2 DEF AskedInv, StoredInv, SizedInv

LEMMA AskedStep ==
  ASSUME HunspellInv, SourcesInv, AskedInv, [Next]_vars
  PROVE  AskedInv'
<1>1. hunspell' \in {hunspell, dictionary}
  <2>1. CASE Import \/ Disturb \/ Refused \/ Reloaded \/ UNCHANGED vars
    BY <2>1 DEF Import, Disturb, Refused, Reloaded, vars, searchVars
  <2>2. CASE Compile
    BY <2>2 DEF Compile
  <2>3. CASE Load
    BY <2>3, LoadGives
  <2>4. CASE LookUp
    BY <2>4 DEF LookUp, Ask
  <2>5. CASE Search
    BY <2>5 DEF Search, SearchStep, TakeRulesOff, AllRulesOff, NextEntry, NoEntryLeft,
       Derive, EntryDone, Question
  <2>6. CASE Return
    BY <2>6 DEF Return, Forget
  <2>7. QED
    BY <2>1, <2>2, <2>3, <2>4, <2>5, <2>6 DEF Next
<1>2. \A d \in {hunspell, dictionary} : Sized(d) /\ StoredTyped(d)
  BY DEF AskedInv, SourcesInv, StoredInv, SizedInv
<1>3. PICK d : d = hunspell' /\ Sized(d) /\ StoredTyped(d)
  BY <1>1, <1>2
<1>4. Sized(hunspell') /\ StoredTyped(hunspell')
  BY <1>3
<1>5. QED
  BY <1>4 DEF AskedInv

LEMMA AskedInvariant == Spec => []AskedInv
<1>1. Init => AskedInv
  BY AskedStarts
<1>2. HunspellInv /\ SourcesInv /\ AskedInv /\ [Next]_vars => AskedInv'
  BY AskedStep
<1>3. QED
  BY <1>1, <1>2, HunspellInvariant, SourcesInvariant, PTL DEF Spec

(* What is looked up is a text again.  (normalize_input)                   *)
LEMMA NormalizedIsText ==
  ASSUME NEW d, Sized(d), StoredTyped(d), NEW w, IsText(w)
  PROVE  IsText(NormalizeInput(d, w)) /\ d.language \in Languages
<1> DEFINE conversions == d.inputConversions
           v == ApplyConversions(w, conversions)
<1>1. {"language", "inputConversions"} \subseteq DOMAIN EmptyDictionary
  BY DEF EmptyDictionary
<1>2. FieldSized("language", d["language"]) /\ FieldSized("inputConversions", d["inputConversions"])
  BY <1>1 DEF Sized
<1>3. d.language \in Languages /\ \A c \in Range(conversions) : ConversionSized(c)
  BY <1>2 DEF FieldSized
<1>4. IsText(conversions)
  BY DEF StoredTyped, Tables
<1> HIDE DEF conversions
<1>5. ConversionsTyped(conversions)
  BY <1>3 DEF ConversionsTyped, ConversionSized, Range
<1>6. IsText(v)
  BY <1>4, <1>5, ConvertedIsText
<1> HIDE DEF v
<1> DEFINE places == {i \in DOMAIN v : v[i] \notin d.ignored}
<1>7. places \in SUBSET Nat /\ IsFiniteSet(places)
  <2>1. places \subseteq DOMAIN v
    OBVIOUS
  <2> HIDE DEF places
  <2>2. QED
    BY <1>6, <2>1, TextType, FS_Subset
<1>8. IsText(Picked(v, places))
  <2> HIDE DEF places
  <2>1. QED
    BY <1>7, PickedType
<1>9. NormalizeInput(d, w) = Picked(v, places)
  BY DEF NormalizeInput, Kept, v, conversions
<1>10. QED
  BY <1>3, <1>8, <1>9

(* A dictionary of texts spells in more letters, too.                      *)
LEMMA SpelledWith ==
  ASSUME NEW d, EntriesTyped(d), NEW v, IsText(v)
  PROVE  Rules(d) /\ \E Letter : Spelled(d, Letter) /\ v \in Seq(Letter)
<1>1. PICK Known : Spelled(d, Known)
  BY EntriesSpelled
<1> DEFINE Letter == Known \cup Range(v)
<1>2. \A t \in Seq(Known) : t \in Seq(Letter)
  BY SeqMonotonic
<1>3. v \in Seq(Letter)
  BY SeqMonotonic DEF IsText
<1> HIDE DEF Letter
<1>4. Spelled(d, Letter)
  BY <1>1, <1>2 DEF Spelled
<1>5. QED
  BY <1>3, <1>4, EntriesSpelled

(* What is needed of a dictionary for its explanations to be right.        *)
Explained(d) ==
  DictionaryTyped(d) /\ EntriesTyped(d) /\ Sized(d) /\ StoredTyped(d)

LEMMA TextExplained ==
  ASSUME NEW d, Explained(d), NEW v, IsText(v), NEW k \in BOOLEAN,
         NEW b \in ExplainNormalized(d, v, k)
  PROVE  Explains(d, v, k, b)
<1>1. PICK Letter : Spelled(d, Letter) /\ v \in Seq(Letter)
  BY SpelledWith DEF Explained
<1>2. Rules(d) /\ CompoundTyped(d) /\ \A pattern \in RulePatterns(d) : 2 <= Len(pattern)
  BY SpelledWith, TypedCompounds DEF Explained
<1>3. QED
  BY <1>1, <1>2, ExplanationExplains

(* The explanations of one spelling or of the folded ones.                 *)
ExplanationsOf(d, asked, k) ==
  UNION {{[of |-> v, because |-> b] : b \in ExplainNormalized(d, v, k)} : v \in asked}

LEMMA ExplanationOf ==
  ASSUME NEW d, NEW asked, NEW k
  PROVE  /\ \A x \in ExplanationsOf(d, asked, k) :
              x.of \in asked /\ x.because \in ExplainNormalized(d, x.of, k)
         /\ \A v \in asked : ExplainNormalized(d, v, k) # {} => ExplanationsOf(d, asked, k) # {}
<1> DEFINE bases(v) == ExplainNormalized(d, v, k)
           whole == UNION {{[of |-> v, because |-> b] : b \in bases(v)} : v \in asked}
<1>1. whole = ExplanationsOf(d, asked, k)
  BY Zenon DEF ExplanationsOf
<1> HIDE DEF bases
<1>2. ASSUME NEW x \in whole
      PROVE  x.of \in asked /\ x.because \in bases(x.of)
  <2>1. PICK v \in asked : x \in {[of |-> v, because |-> b] : b \in bases(v)}
    OBVIOUS
  <2>2. PICK b \in bases(v) : x = [of |-> v, because |-> b]
    BY <2>1
  <2>3. QED
    BY <2>2
<1>3. ASSUME NEW v \in asked, bases(v) # {}
      PROVE  whole # {}
  <2>1. PICK b : b \in bases(v)
    BY <1>3
  <2>2. [of |-> v, because |-> b] \in whole
    BY <2>1
  <2>3. QED
    BY <2>2
<1> HIDE DEF whole
<1>4. QED
  BY <1>1, <1>2, <1>3 DEF bases

LEMMA ExplanationsFound ==
  ASSUME NEW d, NEW input
  PROVE  LET w == NormalizeInput(d, input)
             first == ExplanationsOf(d, {w}, TRUE)
             second == ExplanationsOf(d, CaseFoldedCandidates(d, w), FALSE)
         IN /\ Explanations(d, input) \subseteq first \cup second
            /\ first \cup second # {} => Explanations(d, input) # {}
<1> DEFINE w == NormalizeInput(d, input)
           first == ExplanationsOf(d, {w}, TRUE)
           second == ExplanationsOf(d, CaseFoldedCandidates(d, w), FALSE)
           sets == << first, second >>
<1>1. Explanations(d, input) = FirstOf(sets)
  BY Zenon DEF Explanations, ExplanationsOf
<1> HIDE DEF w, first, second
<1>2. DOMAIN sets = 1..2 /\ sets[1] = first /\ sets[2] = second
  OBVIOUS
<1> HIDE DEF sets
<1>3. /\ \A x \in FirstOf(sets) : \E i \in 1..2 : x \in sets[i]
      /\ (\E i \in 1..2 : sets[i] # {}) => FirstOf(sets) # {}
  BY <1>2, FirstOfSets
<1>4. \A i \in 1..2 : i = 1 \/ i = 2
  OBVIOUS
<1>5. /\ Explanations(d, input) \subseteq first \cup second
      /\ first \cup second # {} => Explanations(d, input) # {}
  BY <1>1, <1>2, <1>3, <1>4
<1>6. QED
  BY <1>5, Zenon DEF first, second, w

LEMMA AcceptedExplained ==
  ASSUME NEW d, NEW input, ContainsWord(d, input)
  PROVE  Explanations(d, input) # {}
<1> DEFINE w == NormalizeInput(d, input)
           folded == CaseFoldedCandidates(d, w)
<1>1. PICK q \in {<< w, TRUE >>} \cup (folded \X {FALSE}) : ContainsNormalized(d, q[1], q[2])
  BY Zenon DEF ContainsWord
<1>2. ExplainNormalized(d, q[1], q[2]) # {}
  BY <1>1, RecognisedExplained
<1> HIDE DEF w, folded
<1>3. \/ q[1] \in {w} /\ q[2] = TRUE
      \/ q[1] \in folded /\ q[2] = FALSE
  <2>1. CASE q = << w, TRUE >>
    BY <2>1
  <2>2. CASE q \in folded \X {FALSE}
    BY <2>2
  <2>3. QED
    BY <2>1, <2>2
<1>4. \A asked, k : q[1] \in asked /\ q[2] = k => ExplanationsOf(d, asked, k) # {}
  <2>1. \A asked : q[1] \in asked => ExplanationsOf(d, asked, q[2]) # {}
    BY <1>2, ExplanationOf
  <2>2. QED
    BY <2>1
<1>5. ExplanationsOf(d, {w}, TRUE) \cup ExplanationsOf(d, folded, FALSE) # {}
  <2>1. CASE q[1] \in {w} /\ q[2] = TRUE
    <3>1. ExplanationsOf(d, {w}, TRUE) # {}
      BY <1>4, <2>1
    <3>2. QED
      BY <3>1
  <2>2. CASE q[1] \in folded /\ q[2] = FALSE
    <3>1. ExplanationsOf(d, folded, FALSE) # {}
      BY <1>4, <2>2
    <3>2. QED
      BY <3>1
  <2>3. QED
    BY <1>3, <2>1, <2>2
<1>6. QED
  BY <1>5, ExplanationsFound DEF w, folded

LEMMA ExplanationExact ==
  ASSUME NEW d, Explained(d), NEW input, IsText(input), NEW e \in Explanations(d, input)
  PROVE  /\ ExplainsBy(d, e.of, e.because)
         /\ \/ ContainsWord(d, input)
            \/ /\ e.because = Because("compatibility", <<>>, <<"sharps">>)
               /\ e.of # NormalizeInput(d, input)
            \/ e.because.kind = "compound" /\ ~CountAllowed(d, e.of, Len(e.because.trace))
<1> DEFINE w == NormalizeInput(d, input)
           folded == CaseFoldedCandidates(d, w)
<1>1. IsText(w) /\ d.language \in Languages
  BY NormalizedIsText DEF Explained
<1>2. e \in ExplanationsOf(d, {w}, TRUE) \/ e \in ExplanationsOf(d, folded, FALSE)
  BY ExplanationsFound
<1>3. \A v \in folded : IsText(v) /\ v # w
  BY <1>1, FoldedAreTexts
<1>4. \A q : /\ q \in {<< w, TRUE >>} \cup (folded \X {FALSE})
              /\ ContainsNormalized(d, q[1], q[2])
              => ContainsWord(d, input)
  BY Zenon DEF ContainsWord
<1> HIDE DEF w, folded
<1>5. \/ e.of = w /\ e.because \in ExplainNormalized(d, w, TRUE)
      \/ e.of \in folded /\ e.because \in ExplainNormalized(d, e.of, FALSE)
  <2>1. ASSUME NEW asked, NEW k, e \in ExplanationsOf(d, asked, k)
        PROVE  e.of \in asked /\ e.because \in ExplainNormalized(d, e.of, k)
    BY <2>1, ExplanationOf
  <2>2. CASE e \in ExplanationsOf(d, {w}, TRUE)
    <3>1. e.of \in {w} /\ e.because \in ExplainNormalized(d, e.of, TRUE)
      BY <2>1, <2>2
    <3>2. QED
      BY <3>1
  <2>3. CASE e \in ExplanationsOf(d, folded, FALSE)
    BY <2>1, <2>3
  <2>4. QED
    BY <1>2, <2>2, <2>3
<1> DEFINE Given(v, k) ==
             /\ v = e.of /\ IsText(v) /\ e.because \in ExplainNormalized(d, v, k)
             /\ << v, k >> \in {<< w, TRUE >>} \cup (folded \X {FALSE})
             /\ k \/ v # w
<1>6. \E v : \E k \in BOOLEAN : Given(v, k)
  <2>1. CASE e.of = w /\ e.because \in ExplainNormalized(d, w, TRUE)
    <3>1. Given(w, TRUE)
      BY <1>1, <2>1
    <3>2. QED
      BY <3>1
  <2>2. CASE e.of \in folded /\ e.because \in ExplainNormalized(d, e.of, FALSE)
    <3>1. Given(e.of, FALSE)
      BY <1>3, <2>2
    <3>2. QED
      BY <3>1
  <2>3. QED
    BY <1>5, <2>1, <2>2
<1>7. PICK v : \E k \in BOOLEAN : Given(v, k)
  BY <1>6, Zenon
<1>8. PICK k \in BOOLEAN : Given(v, k)
  BY <1>7, Zenon
<1>9. Explains(d, v, k, e.because)
  BY <1>8, TextExplained
<1>10. ContainsNormalized(d, v, k) => ContainsWord(d, input)
  <2> DEFINE q == << v, k >>
  <2>1. q[1] = v /\ q[2] = k /\ q \in {<< w, TRUE >>} \cup (folded \X {FALSE})
    BY <1>8
  <2> HIDE DEF q
  <2>2. QED
    BY <1>4, <2>1
<1>11. QED
  BY <1>8, <1>9, <1>10 DEF Explains, Warranted, w

(* In every dictionary the importer makes, compiled or not: the second     *)
(* search explains every word the first accepts, and apart from the two    *)
(* kinds no other; the entry, the rules and the parts it names make up the *)
(* word.  (HunspellDictionary::explain, contains)                          *)
THEOREM ExplanationAgreesCorrect == Spec => []ExplanationAgrees
<1>1. ASSUME HunspellInv, SearchedInv, AskedInv
      PROVE  ExplanationAgrees
  <2>1. Explained(hunspell) /\ IsText(word)
    <3>1. EntriesTyped(hunspell)
      BY <1>1 DEF SearchedInv, ExactInv, SearchInv
    <3>2. QED
      BY <1>1, <3>1 DEF HunspellInv, AskedInv, Explained
  <2>2. ContainsWord(hunspell, word) => Explanations(hunspell, word) # {}
    BY AcceptedExplained
  <2>3. ASSUME NEW e \in Explanations(hunspell, word)
        PROVE  Honest(e) /\ (ContainsWord(hunspell, word) \/ ExplainsTooMuch(e))
    <3>1. ExplainsBy(hunspell, e.of, e.because)
          /\ (ContainsWord(hunspell, word) \/ ExplainsTooMuch(e))
      BY <2>1, ExplanationExact DEF ExplainsTooMuch
    <3>2. \A stem, chain, w : Makes(hunspell, stem, chain, w) => Replays(stem, chain, w)
      BY DEF Makes, IsMaking, MadeBy, RulesNamed, Replays
    <3>3. Honest(e)
      BY <3>1, <3>2 DEF ExplainsBy, TraceOf, Honest
    <3>4. QED
      BY <3>1, <3>3
  <2>4. QED
    BY <2>2, <2>3 DEF ExplanationAgrees, Agree
<1>2. QED
  BY <1>1, HunspellInvariant, SearchedInvariant, AskedInvariant, PTL
=============================================================================
