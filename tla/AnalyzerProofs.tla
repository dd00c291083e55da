--------------------------- MODULE AnalyzerProofs ---------------------------
(***************************************************************************)
(* Theorems about Analyzer and the segments of IdentifierSplit, for every  *)
(* set of characters, every document, policy and dictionary.               *)
(***************************************************************************)
EXTENDS Analyzer, FiniteSetTheorems, FunctionTheorems, SequenceTheorems,
        NaturalsInduction, WellFoundedInduction, TLAPS

-----------------------------------------------------------------------------
(* Numbers                                                                 *)

LEMMA LeastNumber ==
  ASSUME NEW T \in SUBSET Nat, T # {}
  PROVE  \E n \in T : \A m \in T : n <= m
<1> DEFINE R == {ss \in Nat \X Nat : ss[1] < ss[2]}
<1>1. IsWellFoundedOn(R, Nat)
  BY NatLessThanWellFounded DEF OpToRel
<1>2. ASSUME NEW x \in Nat, NEW y \in Nat, y < x
      PROVE  <<y, x>> \in R
  BY <1>2
<1> HIDE DEF R
<1>3. PICK x \in T : \A y \in T : ~ (<<y, x>> \in R)
  BY <1>1, WFMin
<1>4. \A y \in T : ~(y < x)
  BY <1>2, <1>3, Zenon
<1> QED
  BY <1>4

(* Induction over a set of numbers: what holds of 0, and of n + 1 whenever  *)
(* it holds of n, holds of all.                                            *)
LEMMA AllNumbers ==
  ASSUME NEW S, 0 \in S, \A n \in Nat : n \in S => n + 1 \in S
  PROVE  \A n \in Nat : n \in S
<1> SUFFICES ASSUME Nat \ S # {} PROVE FALSE
  OBVIOUS
<1>1. PICK n \in Nat \ S : \A m \in Nat \ S : n <= m
  BY LeastNumber
<1>2. n # 0 /\ n - 1 \in Nat /\ n - 1 \in S
  BY <1>1
<1> QED
  BY <1>1, <1>2

-----------------------------------------------------------------------------
(* Segments                                                                *)

(* Two ranges of positions that share none. *)
Apart(s, t) == s[2] < t[1] \/ t[2] < s[1]

(* Two runs of a text have no position in common: in front of a run and     *)
(* behind it is none.  (split_identifier_into)                             *)
LEMMA RunsApart ==
  ASSUME NEW text \in Text, NEW r \in Runs(text), NEW q \in Runs(text), r # q
  PROVE  Apart(r, q)
<1> DEFINE in == InRun(text)
           n == Len(text)
<1>0. n \in Nat /\ DOMAIN text = 1..n
  BY DEF Text
<1>1. \A x \in Runs(text) :
        /\ x \in (1..n) \X (1..n) /\ x[1] <= x[2]
        /\ \A i \in x[1]..x[2] : in[i]
        /\ ~in[x[1] - 1]
        /\ x[2] < n => ~in[x[2] + 1]
  BY <1>0 DEF Runs
<1> HIDE DEF in, n
<1>2. /\ r[1] \in Nat /\ r[2] \in Nat /\ q[1] \in Nat /\ q[2] \in Nat
      /\ r[1] >= 1 /\ q[1] >= 1 /\ r[2] <= n /\ q[2] <= n
      /\ r[1] <= r[2] /\ q[1] <= q[2]
  BY <1>0, <1>1
<1>3. ASSUME NEW x \in Runs(text), NEW y \in Runs(text), x[1] < y[1]
      PROVE  x[2] < y[1]
  <2>1. /\ x[1] \in Nat /\ x[2] \in Nat /\ y[1] \in Nat /\ y[1] >= 1
        /\ \A i \in x[1]..x[2] : in[i]
        /\ ~in[y[1] - 1]
    BY <1>0, <1>1
  <2>2. y[1] - 1 \notin x[1]..x[2]
    BY <2>1
  <2>3. QED
    BY <1>3, <2>1, <2>2
<1>4. ASSUME NEW x \in Runs(text), NEW y \in Runs(text), x[1] = y[1]
      PROVE  ~(x[2] < y[2])
  <2>1. /\ y[1] \in Nat /\ x[2] \in Nat /\ y[2] \in Nat /\ y[2] <= n /\ x[1] <= x[2]
        /\ \A i \in y[1]..y[2] : in[i]
        /\ x[2] < n => ~in[x[2] + 1]
    BY <1>0, <1>1
  <2>2. SUFFICES ASSUME x[2] < y[2] PROVE FALSE
    OBVIOUS
  <2>3. x[2] + 1 \in y[1]..y[2] /\ x[2] < n
    BY <1>0, <1>4, <2>1, <2>2
  <2>4. QED
    BY <2>1, <2>3
<1>5. CASE r[1] = q[1]
  <2>1. r[2] = q[2]
    BY <1>2, <1>4, <1>5
  <2>2. r = <<r[1], r[2]>> /\ q = <<q[1], q[2]>>
    BY <1>1
  <2>3. QED
    BY <1>5, <2>1, <2>2
<1>6. QED
  BY <1>2, <1>3, <1>5 DEF Apart

(* The pieces of a range do not meet either. *)
LEMMA PiecesApart ==
  ASSUME NEW r \in Nat \X Nat, NEW starts \in SUBSET Nat,
         NEW s \in Pieces(r, starts), NEW t \in Pieces(r, starts), s # t
  PROVE  Apart(s, t)
<1>1. \A x \in Pieces(r, starts) :
        /\ x = <<x[1], x[2]>> /\ x[1] \in starts /\ x[1] \in Nat
        /\ x[2] \in Nat /\ x[2] <= r[2] /\ x[1] <= x[2]
        /\ \A k \in starts : k <= x[1] \/ k > x[2]
        /\ x[2] = r[2] \/ x[2] + 1 \in starts
  <2>1. ASSUME NEW x \in Pieces(r, starts)
        PROVE  /\ x \in starts \X (r[1]..r[2]) /\ x[1] <= x[2]
               /\ \A k \in starts : k <= x[1] \/ k > x[2]
               /\ x[2] = r[2] \/ x[2] + 1 \in starts
    BY Zenon DEF Pieces
  <2>2. r[1] \in Nat /\ r[2] \in Nat
    OBVIOUS
  <2>3. QED
    BY <2>1, <2>2
<1>2. ASSUME NEW x \in Pieces(r, starts), NEW y \in Pieces(r, starts), x[1] < y[1]
      PROVE  x[2] < y[1]
  BY <1>1, <1>2
<1>3. ASSUME NEW x \in Pieces(r, starts), NEW y \in Pieces(r, starts), x[1] = y[1]
      PROVE  ~(x[2] < y[2])
  <2>1. SUFFICES ASSUME x[2] < y[2] PROVE FALSE
    OBVIOUS
  <2>2. x[2] + 1 \in starts
    BY <1>1, <2>1
  <2>3. x[2] + 1 <= y[1] \/ x[2] + 1 > y[2]
    BY <1>1, <2>2
  <2>4. QED
    BY <1>1, <1>3, <2>1, <2>3
<1>4. CASE s[1] = t[1]
  <2>1. s[2] = t[2]
    BY <1>1, <1>3, <1>4
  <2>2. QED
    BY <1>1, <1>4, <2>1
<1>5. QED
  BY <1>1, <1>2, <1>4 DEF Apart

(* A segment lies within its run, and the segments of a run are the pieces  *)
(* between some of its positions.  (split_run)                             *)
LEMMA SplitIsPieces ==
  ASSUME NEW text \in Text, NEW r \in Runs(text), NEW join
  PROVE  \E starts \in SUBSET (r[1]..r[2]) : SplitRun(text, r, join) = Pieces(r, starts)
<1>1. r[1] \in Nat /\ r[2] \in Nat /\ r[1] <= r[2]
  BY DEF Runs, Text
<1> DEFINE cuts == Cuts(text, r)
<1>2. cuts \in SUBSET (r[1]..r[2])
  BY <1>1 DEF Cuts
<1>3. /\ cuts \cup {r[1]} \in SUBSET (r[1]..r[2])
      /\ (cuts \cup {r[1]}) \ {r[1] + 1} \in SUBSET (r[1]..r[2])
  BY <1>1, <1>2
<1>4. \/ SplitRun(text, r, join) = Pieces(r, cuts \cup {r[1]})
      \/ SplitRun(text, r, join) = Pieces(r, (cuts \cup {r[1]}) \ {r[1] + 1})
  BY DEF SplitRun
<1>5. QED
  BY <1>3, <1>4

LEMMA SegmentWithin ==
  ASSUME NEW text \in Text, NEW r \in Runs(text), NEW join,
         NEW s \in SplitRun(text, r, join)
  PROVE  /\ s = <<s[1], s[2]>> /\ s[1] \in Nat /\ s[2] \in Nat
         /\ 1 <= r[1] /\ r[1] <= s[1] /\ s[1] <= s[2] /\ s[2] <= r[2] /\ r[2] <= Len(text)
         /\ r[1] \in Nat /\ r[2] \in Nat
<1>1. r[1] \in Nat /\ r[2] \in Nat /\ 1 <= r[1] /\ r[2] <= Len(text)
  BY DEF Runs, Text
<1>2. PICK starts \in SUBSET (r[1]..r[2]) : SplitRun(text, r, join) = Pieces(r, starts)
  BY SplitIsPieces
<1>3. s \in starts \X (r[1]..r[2]) /\ s[1] <= s[2]
  <2>1. s \in Pieces(r, starts)
    BY <1>2
  <2>2. QED
    BY <2>1, Zenon DEF Pieces
<1>4. s = <<s[1], s[2]>>
  BY <1>3
<1>5. s[1] \in r[1]..r[2] /\ s[2] \in r[1]..r[2]
  BY <1>3
<1>6. QED
  BY <1>1, <1>3, <1>4, <1>5

(* No two segments of a text share a position, and they are finitely many. *)
(* (split_identifier_into)                                                 *)
LEMMA SegmentsApart ==
  ASSUME NEW text \in Text, NEW join,
         NEW s \in Segments(text, join), NEW t \in Segments(text, join), s # t
  PROVE  Apart(s, t)
<1>1. PICK r \in Runs(text) : s \in SplitRun(text, r, join)
  BY DEF Segments
<1>2. PICK q \in Runs(text) : t \in SplitRun(text, q, join)
  BY DEF Segments
<1>3. /\ s[1] \in Nat /\ s[2] \in Nat /\ r[1] \in Nat /\ r[2] \in Nat
      /\ r[1] <= s[1] /\ s[1] <= s[2] /\ s[2] <= r[2]
  BY <1>1, SegmentWithin
<1>4. /\ t[1] \in Nat /\ t[2] \in Nat /\ q[1] \in Nat /\ q[2] \in Nat
      /\ q[1] <= t[1] /\ t[1] <= t[2] /\ t[2] <= q[2]
  BY <1>2, SegmentWithin
<1>5. CASE r = q
  <2>1. PICK starts \in SUBSET (r[1]..r[2]) : SplitRun(text, r, join) = Pieces(r, starts)
    BY SplitIsPieces
  <2>2. starts \in SUBSET Nat /\ r \in Nat \X Nat
    BY <1>3, <2>1 DEF Runs
  <2>3. QED
    BY <1>1, <1>2, <1>5, <2>1, <2>2, PiecesApart
<1>6. CASE r # q
  <2>1. Apart(r, q)
    BY <1>6, RunsApart
  <2>2. QED
    BY <1>3, <1>4, <2>1 DEF Apart
<1>7. QED
  BY <1>5, <1>6

LEMMA SegmentsType ==
  ASSUME NEW text \in Text, NEW join
  PROVE  /\ Segments(text, join) \subseteq (1..Len(text)) \X (1..Len(text))
         /\ \A s \in Segments(text, join) : s[1] <= s[2]
         /\ IsFiniteSet(Segments(text, join))
<1>0. Len(text) \in Nat
  BY DEF Text
<1>1. ASSUME NEW s \in Segments(text, join)
      PROVE  s \in (1..Len(text)) \X (1..Len(text)) /\ s[1] <= s[2]
  <2>1. PICK r \in Runs(text) : s \in SplitRun(text, r, join)
    BY DEF Segments
  <2>2. /\ s = <<s[1], s[2]>> /\ s[1] \in Nat /\ s[2] \in Nat
        /\ 1 <= r[1] /\ r[1] <= s[1] /\ s[1] <= s[2] /\ s[2] <= r[2] /\ r[2] <= Len(text)
        /\ r[1] \in Nat /\ r[2] \in Nat
    BY <2>1, SegmentWithin
  <2>3. s[1] \in 1..Len(text) /\ s[2] \in 1..Len(text)
    BY <1>0, <2>2
  <2>4. QED
    BY <2>2, <2>3
<1>2. IsFiniteSet((1..Len(text)) \X (1..Len(text)))
  <2>1. IsFiniteSet(1..Len(text))
    BY <1>0, FS_Interval
  <2>2. QED
    BY <2>1, FS_Product
<1>3. QED
  BY <1>1, <1>2, FS_Subset

(***************************************************************************)
(* Segments in the order of the text.  The rank of a segment counts those  *)
(* that begin no later; segments that begin apart have every rank once.    *)
(***************************************************************************)
UpTo(segments, n) == {t \in segments : t[1] <= n}

BeginApart(segments, m) ==
  /\ segments \subseteq (1..m) \X (1..m)
  /\ \A s, t \in segments : s[1] = t[1] => s = t

LEMMA UpToFinite ==
  ASSUME NEW m \in Nat, NEW segments, BeginApart(segments, m), NEW n
  PROVE  IsFiniteSet(UpTo(segments, n)) /\ Cardinality(UpTo(segments, n)) \in Nat
<1>1. IsFiniteSet(1..m)
  BY FS_Interval
<1>2. IsFiniteSet((1..m) \X (1..m))
  BY <1>1, FS_Product
<1>3. UpTo(segments, n) \in SUBSET ((1..m) \X (1..m))
  BY DEF UpTo, BeginApart
<1>4. IsFiniteSet(UpTo(segments, n))
  BY <1>2, <1>3, FS_Subset
<1>5. QED
  BY <1>4, FS_CardinalityType

LEMMA EveryRank ==
  ASSUME NEW m \in Nat, NEW segments, BeginApart(segments, m)
  PROVE  \A n \in Nat : \A k \in 1..Cardinality(UpTo(segments, n)) :
           \E s \in UpTo(segments, n) : Cardinality(UpTo(segments, s[1])) = k
<1> DEFINE Ranked(n) == \A k \in 1..Cardinality(UpTo(segments, n)) :
             \E s \in UpTo(segments, n) : Cardinality(UpTo(segments, s[1])) = k
           S == {n \in Nat : Ranked(n)}
<1>0. \A s \in segments : s[1] \in Nat /\ s[1] >= 1
  BY DEF BeginApart
<1>1. 0 \in S
  <2>1. UpTo(segments, 0) = {}
    BY <1>0 DEF UpTo
  <2>2. Cardinality(UpTo(segments, 0)) = 0
    BY <2>1, FS_EmptySet
  <2>3. Ranked(0)
    BY <2>2
  <2>4. QED
    BY <2>3
<1>2. ASSUME NEW n \in Nat, n \in S
      PROVE  n + 1 \in S
  <2> DEFINE before == UpTo(segments, n)
             after == UpTo(segments, n + 1)
  <2>1. CASE \A s \in segments : s[1] # n + 1
    <3>1. after = before
      BY <1>0, <2>1 DEF UpTo
    <3>2. Ranked(n + 1)
      BY <1>2, <3>1
    <3>3. QED
      BY <3>2
  <2>2. CASE \E s \in segments : s[1] = n + 1
    <3>1. PICK s \in segments : s[1] = n + 1
      BY <2>2
    <3>2. after = before \cup {s} /\ s \notin before
      BY <1>0, <3>1 DEF UpTo, BeginApart
    <3>3. IsFiniteSet(before) /\ Cardinality(before) \in Nat
      BY UpToFinite
    <3>4. Cardinality(after) = Cardinality(before) + 1
      BY <3>2, <3>3, FS_AddElement
    <3>5. ASSUME NEW k \in 1..Cardinality(after)
          PROVE  \E t \in after : Cardinality(UpTo(segments, t[1])) = k
      <4>1. CASE k = Cardinality(after)
        BY <3>1, <3>2, <4>1
      <4>2. CASE k # Cardinality(after)
        <5>1. k \in 1..Cardinality(before)
          BY <3>3, <3>4, <4>2
        <5>2. PICK t \in before : Cardinality(UpTo(segments, t[1])) = k
          BY <1>2, <5>1
        <5>3. QED
          BY <3>2, <5>2
      <4>3. QED
        BY <4>1, <4>2
    <3> HIDE DEF after
    <3>6. QED
      BY <3>5 DEF after
  <2>3. QED
    BY <2>1, <2>2
<1> HIDE DEF S
<1>3. \A n \in Nat : n \in S
  BY <1>1, <1>2, AllNumbers
<1>4. QED
  BY <1>3 DEF S

LEMMA RanksGrow ==
  ASSUME NEW m \in Nat, NEW segments, BeginApart(segments, m),
         NEW s \in segments, NEW t \in segments, s[1] < t[1]
  PROVE  Cardinality(UpTo(segments, s[1])) < Cardinality(UpTo(segments, t[1]))
<1> DEFINE below == UpTo(segments, s[1])
           upto == UpTo(segments, t[1])
<1>1. /\ IsFiniteSet(below) /\ Cardinality(below) \in Nat
      /\ IsFiniteSet(upto) /\ Cardinality(upto) \in Nat
  BY UpToFinite
<1>2. \A x \in segments : x[1] \in Nat
  BY DEF BeginApart
<1>3. below \in SUBSET upto /\ t \in upto /\ t \notin below
  BY <1>2 DEF UpTo
<1> HIDE DEF below, upto
<1>4. Cardinality(below) <= Cardinality(upto) /\ Cardinality(below) # Cardinality(upto)
  BY <1>1, <1>3, FS_Subset
<1>5. QED
  BY <1>1, <1>4 DEF below, upto

(* LeftToRight lists a set of segments once, in the order of their starts.  *)
LEMMA LeftToRightLists ==
  ASSUME NEW m \in Nat, NEW segments, BeginApart(segments, m)
  PROVE  LET order == LeftToRight(segments)
         IN  /\ order \in Seq(segments)
             /\ {order[k] : k \in DOMAIN order} = segments
             /\ \A j, k \in DOMAIN order : j < k => order[j][1] < order[k][1]
<1> DEFINE rank(s) == Cardinality({t \in segments : t[1] <= s[1]})
           n == Cardinality(segments)
           order == [k \in 1..n |-> CHOOSE s \in segments : rank(s) = k]
<1>0. \A s \in segments : s[1] \in Nat /\ s[1] \in 1..m
  BY DEF BeginApart
<1>1. UpTo(segments, m) = segments /\ \A s \in segments : UpTo(segments, s[1]) \in SUBSET segments
  BY <1>0 DEF UpTo
<1>2. IsFiniteSet(segments) /\ n \in Nat
  BY <1>1, UpToFinite
<1>3. \A s \in segments : rank(s) = Cardinality(UpTo(segments, s[1]))
  BY DEF UpTo
<1> HIDE DEF rank
<1>4. \A k \in 1..n : \E s \in segments : rank(s) = k
  BY <1>1, <1>3, EveryRank
<1>5. \A s \in segments : rank(s) \in 1..n
  <2>1. ASSUME NEW s \in segments
        PROVE  rank(s) \in 1..n
    <3>1. s \in UpTo(segments, s[1])
      BY <1>0 DEF UpTo
    <3>2. /\ IsFiniteSet(UpTo(segments, s[1])) /\ Cardinality(UpTo(segments, s[1])) \in Nat
          /\ Cardinality(UpTo(segments, s[1])) <= n
      BY <1>1, <1>2, UpToFinite, FS_Subset
    <3>3. Cardinality(UpTo(segments, s[1])) # 0
      BY <3>1, <3>2, FS_EmptySet
    <3>4. QED
      BY <1>2, <1>3, <3>2, <3>3
  <2>2. QED
    BY <2>1
<1>6. \A s, t \in segments : s[1] < t[1] => rank(s) < rank(t)
  BY <1>3, RanksGrow
<1>7. order = LeftToRight(segments)
  BY DEF LeftToRight, rank
<1>8. \A k \in 1..n : order[k] \in segments /\ rank(order[k]) = k
  BY <1>4
<1>9. DOMAIN order = 1..n /\ order \in Seq(segments)
  BY <1>2, <1>8
<1> HIDE DEF order, n
<1>10. ASSUME NEW j \in 1..n, NEW k \in 1..n, j < k
       PROVE  order[j][1] < order[k][1]
  <2>1. /\ order[j][1] \in Nat /\ order[k][1] \in Nat /\ j \in Nat /\ k \in Nat
        /\ order[j] \in segments /\ order[k] \in segments
    BY <1>0, <1>2, <1>8
  <2>2. order[j][1] # order[k][1]
    <3>1. order[j] # order[k]
      BY <1>8, <1>10, <2>1
    <3>2. QED
      BY <2>1, <3>1 DEF BeginApart
  <2>3. ~(order[k][1] < order[j][1])
    BY <1>6, <1>8, <1>10, <2>1
  <2>4. QED
    BY <2>1, <2>2, <2>3
<1>11. ASSUME NEW s \in segments
       PROVE  \E k \in 1..n : order[k] = s
  <2>1. rank(s) \in 1..n
    BY <1>5
  <2>2. order[rank(s)] \in segments /\ rank(order[rank(s)]) = rank(s)
    BY <1>8, <2>1
  <2>3. order[rank(s)] = s
    <3>1. s[1] \in Nat /\ order[rank(s)][1] \in Nat /\ rank(s) \in Nat
      BY <1>0, <1>2, <2>1, <2>2
    <3>2. ~(s[1] < order[rank(s)][1]) /\ ~(order[rank(s)][1] < s[1])
      BY <1>6, <2>2, <3>1
    <3>3. QED
      BY <2>2, <3>1, <3>2 DEF BeginApart
  <2>4. QED
    BY <2>1, <2>3
<1>12. QED
  BY <1>7, <1>8, <1>9, <1>10, <1>11

-----------------------------------------------------------------------------
(* The findings of a line                                                  *)

(* The recursion of FlattenSeq has a solution. *)
IsFlat(seqs, f, k) ==
  f = [i \in 1..k |-> IF i = 1 THEN seqs[i] ELSE f[i - 1] \o seqs[i]]

LEMMA FlatExists ==
  ASSUME NEW seqs
  PROVE  \A k \in Nat : \E f : IsFlat(seqs, f, k)
<1> DEFINE S == {k \in Nat : \E f : IsFlat(seqs, f, k)}
<1>1. 0 \in S
  <2> DEFINE f == [i \in 1..0 |-> seqs[i]]
  <2>1. f = [i \in 1..0 |-> IF i = 1 THEN seqs[i] ELSE f[i - 1] \o seqs[i]]
    OBVIOUS
  <2>2. QED
    BY <2>1 DEF IsFlat
<1>2. ASSUME NEW k \in Nat, k \in S
      PROVE  k + 1 \in S
  <2>1. PICK f : IsFlat(seqs, f, k)
    BY <1>2
  <2>2. \A i \in 1..k : f[i] = IF i = 1 THEN seqs[i] ELSE f[i - 1] \o seqs[i]
    BY <2>1 DEF IsFlat
  <2> DEFINE g == [i \in 1..(k + 1) |-> IF i = k + 1
                                        THEN IF i = 1 THEN seqs[i] ELSE f[k] \o seqs[i]
                                        ELSE f[i]]
  <2>3. ASSUME NEW i \in 1..(k + 1)
        PROVE  g[i] = IF i = 1 THEN seqs[i] ELSE g[i - 1] \o seqs[i]
    <3>1. CASE i = k + 1
      <4>1. i # 1 => g[i - 1] = f[k]
        BY <3>1
      <4>2. QED
        BY <3>1, <4>1
    <3>2. CASE i \in 1..k
      <4>1. g[i] = f[i] /\ (i # 1 => g[i - 1] = f[i - 1])
        BY <3>2
      <4>2. QED
        BY <2>2, <3>2, <4>1
    <3>3. QED
      BY <3>1, <3>2
  <2>4. g = [i \in 1..(k + 1) |-> g[i]]
    OBVIOUS
  <2> HIDE DEF g
  <2>5. IsFlat(seqs, g, k + 1)
    BY <2>3, <2>4 DEF IsFlat
  <2>6. QED
    BY <2>5
<1> HIDE DEF S
<1>3. \A k \in Nat : k \in S
  BY <1>1, <1>2, AllNumbers
<1>4. QED
  BY <1>3 DEF S

LEMMA FlattenDef ==
  ASSUME NEW S, NEW seqs \in Seq(S), seqs # <<>>
  PROVE  \E f : /\ FlattenSeq(seqs) = f[Len(seqs)]
                /\ f[1] = seqs[1]
                /\ \A i \in 2..Len(seqs) : f[i] = f[i - 1] \o seqs[i]
<1>1. Len(seqs) \in Nat /\ Len(seqs) # 0
  BY EmptySeq
<1> DEFINE f == CHOOSE g : IsFlat(seqs, g, Len(seqs))
<1>2. IsFlat(seqs, f, Len(seqs))
  BY <1>1, FlatExists
<1>3. FlattenSeq(seqs) = f[Len(seqs)]
  BY <1>1 DEF FlattenSeq, IsFlat
<1> HIDE DEF f
<1>4. \A i \in 1..Len(seqs) : f[i] = IF i = 1 THEN seqs[i] ELSE f[i - 1] \o seqs[i]
  BY <1>2 DEF IsFlat
<1>5. f[1] = seqs[1]
  BY <1>1, <1>4
<1>6. ASSUME NEW i \in 2..Len(seqs)
      PROVE  f[i] = f[i - 1] \o seqs[i]
  <2>1. i \in 1..Len(seqs) /\ i # 1
    BY <1>1
  <2>2. QED
    BY <1>4, <2>1
<1>7. QED
  BY <1>3, <1>5, <1>6

(* A line, a token of it, and a segment of that. *)
Finding == Nat \X Nat \X (Nat \X Nat)

Ordered(list) == \A i, j \in DOMAIN list : i < j => Before(list[i], list[j])

LEMMA ConcatOrdered ==
  ASSUME NEW a \in Seq(Finding), NEW b \in Seq(Finding), Ordered(a), Ordered(b),
         \A x \in Range(a), y \in Range(b) : Before(x, y)
  PROVE  /\ a \o b \in Seq(Finding)
         /\ Range(a \o b) = Range(a) \cup Range(b)
         /\ Ordered(a \o b)
<1> DEFINE c == a \o b
<1>1. /\ Len(a) \in Nat /\ Len(b) \in Nat /\ Len(c) = Len(a) + Len(b)
      /\ DOMAIN a = 1..Len(a) /\ DOMAIN b = 1..Len(b) /\ DOMAIN c = 1..Len(c)
      /\ c \in Seq(Finding)
      /\ \A i \in 1..Len(a) : c[i] = a[i]
      /\ \A i \in 1..Len(b) : c[Len(a) + i] = b[i]
  OBVIOUS
<1> HIDE DEF c
<1>2. \A i \in 1..Len(c) : i \in 1..Len(a) \/ (i - Len(a)) \in 1..Len(b)
  BY <1>1
<1>3. \A i \in 1..Len(c) : i \notin 1..Len(a) => c[i] = b[i - Len(a)]
  <2>1. ASSUME NEW i \in 1..Len(c), i \notin 1..Len(a)
        PROVE  c[i] = b[i - Len(a)]
    <3>1. i - Len(a) \in 1..Len(b) /\ Len(a) + (i - Len(a)) = i
      BY <1>1, <2>1
    <3>2. QED
      BY <1>1, <3>1
  <2>2. QED
    BY <2>1
<1>4. Range(c) = Range(a) \cup Range(b)
  <2>1. ASSUME NEW x \in Range(c)
        PROVE  x \in Range(a) \cup Range(b)
    <3>1. PICK i \in 1..Len(c) : x = c[i]
      BY <1>1 DEF Range
    <3>2. QED
      BY <1>1, <1>2, <1>3, <3>1 DEF Range
  <2>2. ASSUME NEW x \in Range(a)
        PROVE  x \in Range(c)
    <3>1. PICK i \in 1..Len(a) : x = a[i]
      BY <1>1 DEF Range
    <3>2. i \in DOMAIN c /\ x = c[i]
      BY <1>1, <3>1
    <3>3. QED
      BY <3>2 DEF Range
  <2>3. ASSUME NEW x \in Range(b)
        PROVE  x \in Range(c)
    <3>1. PICK i \in 1..Len(b) : x = b[i]
      BY <1>1 DEF Range
    <3>2. Len(a) + i \in DOMAIN c /\ x = c[Len(a) + i]
      BY <1>1, <3>1
    <3>3. QED
      BY <3>2 DEF Range
  <2>4. QED
    BY <2>1, <2>2, <2>3
<1>5. ASSUME NEW i \in 1..Len(c), NEW j \in 1..Len(c), i < j
      PROVE  Before(c[i], c[j])
  <2>1. CASE j \in 1..Len(a)
    <3>1. i \in 1..Len(a)
      BY <1>1, <1>5, <2>1
    <3>2. QED
      BY <1>1, <1>5, <2>1, <3>1 DEF Ordered
  <2>2. CASE i \in 1..Len(a) /\ j \notin 1..Len(a)
    <3>1. c[i] = a[i] /\ c[j] = b[j - Len(a)] /\ j - Len(a) \in 1..Len(b)
      BY <1>1, <1>2, <1>3, <2>2
    <3>2. c[i] \in Range(a) /\ c[j] \in Range(b)
      BY <1>1, <2>2, <3>1 DEF Range
    <3>3. QED
      BY <3>2
  <2>3. CASE i \notin 1..Len(a) /\ j \notin 1..Len(a)
    <3>1. /\ c[i] = b[i - Len(a)] /\ i - Len(a) \in 1..Len(b)
          /\ c[j] = b[j - Len(a)] /\ j - Len(a) \in 1..Len(b)
          /\ i - Len(a) < j - Len(a)
      BY <1>1, <1>2, <1>3, <1>5, <2>3
    <3>2. QED
      BY <1>1, <3>1 DEF Ordered
  <2>4. QED
    BY <1>1, <1>5, <2>1, <2>2, <2>3
<1>6. Ordered(c)
  BY <1>1, <1>5 DEF Ordered
<1>7. QED
  BY <1>1, <1>4, <1>6 DEF c

(* The segments of a token that are reported. *)
Reported(token) == IF Skipped(token) THEN {} ELSE Misspelled(token)

Input == doc \in Document /\ policy \in Policies

LEMMA TokenText ==
  ASSUME Input, NEW l \in DOMAIN doc.lines, NEW i \in DOMAIN doc.lines[l].tokens
  PROVE  /\ doc.lines[l] \in Line /\ doc.lines[l].tokens \in Seq(Token)
         /\ doc.lines[l].tokens[i].text \in Text
<1>1. doc.lines \in Seq(Line)
  BY AnalyzerAssumption DEF Input
<1>2. doc.lines[l] \in Line
  BY <1>1
<1>3. doc.lines[l].tokens \in Seq(Token)
  BY <1>2 DEF Line
<1>4. doc.lines[l].tokens[i] \in Token
  BY <1>3
<1>5. QED
  BY <1>2, <1>3, <1>4 DEF Token

LEMMA MisspelledApart ==
  ASSUME NEW token, token.text \in Text
  PROVE  /\ BeginApart(Misspelled(token), Len(token.text))
         /\ \A s, t \in Misspelled(token) : s[1] < t[1] => s[2] < t[1]
<1>1. Misspelled(token) \subseteq Segments(token.text, policy.join)
  BY DEF Misspelled
<1>2. Len(token.text) \in Nat
  BY DEF Text
<1>3. \A s \in Segments(token.text, policy.join) :
        /\ s \in (1..Len(token.text)) \X (1..Len(token.text)) /\ s[1] <= s[2]
        /\ s[1] \in Nat /\ s[2] \in Nat
  BY <1>2, SegmentsType
<1>4. ASSUME NEW s \in Misspelled(token), NEW t \in Misspelled(token), s # t
      PROVE  s[2] < t[1] \/ t[2] < s[1]
  BY <1>1, <1>4, SegmentsApart DEF Apart
<1>5. ASSUME NEW s \in Misspelled(token), NEW t \in Misspelled(token), s[1] = t[1]
      PROVE  s = t
  BY <1>1, <1>3, <1>4, <1>5
<1>6. ASSUME NEW s \in Misspelled(token), NEW t \in Misspelled(token), s[1] < t[1]
      PROVE  s[2] < t[1]
  BY <1>1, <1>3, <1>4, <1>6
<1>7. Misspelled(token) \subseteq (1..Len(token.text)) \X (1..Len(token.text))
  BY <1>1, <1>3
<1>8. QED
  BY <1>5, <1>6, <1>7 DEF BeginApart

LEMMA FindingsOfToken ==
  ASSUME Input, NEW l \in DOMAIN doc.lines, NEW i \in DOMAIN doc.lines[l].tokens
  PROVE  /\ FindingsAt(l, i) \in Seq(Finding)
         /\ Range(FindingsAt(l, i)) =
              {g \in Finding : g[1] = l /\ g[2] = i /\ g[3] \in Reported(doc.lines[l].tokens[i])}
         /\ Ordered(FindingsAt(l, i))
<1> DEFINE token == doc.lines[l].tokens[i]
           segments == Misspelled(token)
           order == LeftToRight(segments)
           list == [j \in DOMAIN order |-> <<l, i, order[j]>>]
<1>1. token.text \in Text /\ l \in Nat /\ i \in Nat
  <2>1. doc.lines \in Seq(Line)
    BY AnalyzerAssumption DEF Input
  <2>2. doc.lines[l].tokens \in Seq(Token)
    BY TokenText
  <2>3. QED
    BY <2>1, <2>2, TokenText
<1>2. CASE Skipped(token)
  <2>1. FindingsAt(l, i) = <<>>
    BY <1>2 DEF FindingsAt
  <2>2. Range(FindingsAt(l, i)) = {}
    BY <2>1 DEF Range
  <2>3. Ordered(FindingsAt(l, i))
    BY <2>1 DEF Ordered
  <2>4. Reported(token) = {}
    BY <1>2 DEF Reported
  <2>5. QED
    BY <2>1, <2>2, <2>3, <2>4
<1>3. CASE ~Skipped(token)
  <2>1. FindingsAt(l, i) = list /\ Reported(token) = segments
    BY <1>3 DEF FindingsAt, Reported
  <2>2. Len(token.text) \in Nat
    BY <1>1 DEF Text
  <2>3. BeginApart(segments, Len(token.text)) /\ segments \subseteq Nat \X Nat
    <3>1. BeginApart(segments, Len(token.text))
      BY <1>1, MisspelledApart
    <3>2. QED
      BY <2>2, <3>1 DEF BeginApart
  <2>4. /\ order \in Seq(segments)
        /\ {order[k] : k \in DOMAIN order} = segments
        /\ \A j, k \in DOMAIN order : j < k => order[j][1] < order[k][1]
    BY <2>2, <2>3, LeftToRightLists
  <2>5. \A s, t \in segments : s[1] < t[1] => s[2] < t[1]
    BY <1>1, MisspelledApart
  <2> HIDE DEF order, segments, token
  <2>6. DOMAIN order = 1..Len(order) /\ Len(order) \in Nat /\ \A j \in DOMAIN order : order[j] \in segments
    BY <2>4
  <2>7. list \in Seq(Finding) /\ DOMAIN list = DOMAIN order
    <3>1. \A j \in DOMAIN order : <<l, i, order[j]>> \in Finding
      BY <1>1, <2>3, <2>6 DEF Finding
    <3>2. QED
      BY <2>6, <3>1
  <2>8. ASSUME NEW g \in Range(list)
        PROVE  g \in Finding /\ g[1] = l /\ g[2] = i /\ g[3] \in segments
    <3>1. PICK j \in DOMAIN order : g = <<l, i, order[j]>>
      BY <2>8 DEF Range
    <3>2. QED
      BY <1>1, <2>3, <2>6, <3>1 DEF Finding
  <2>9. ASSUME NEW g \in Finding, g[1] = l, g[2] = i, g[3] \in segments
        PROVE  g \in Range(list)
    <3>1. PICK j \in DOMAIN order : g[3] = order[j]
      BY <2>4, <2>9
    <3>2. g = <<l, i, order[j]>>
      BY <2>9, <3>1 DEF Finding
    <3>3. list[j] = g /\ j \in DOMAIN list
      BY <3>2
    <3>4. QED
      BY <3>3 DEF Range
  <2>10. Range(list) = {g \in Finding : g[1] = l /\ g[2] = i /\ g[3] \in segments}
    BY <2>8, <2>9
  <2>11. Ordered(list)
    <3>1. ASSUME NEW j \in DOMAIN order, NEW k \in DOMAIN order, j < k
          PROVE  Before(list[j], list[k])
      <4>1. order[j][2] < order[k][1]
        BY <2>4, <2>5, <2>6, <3>1
      <4>2. list[j] = <<l, i, order[j]>> /\ list[k] = <<l, i, order[k]>>
        OBVIOUS
      <4>3. QED
        BY <4>1, <4>2 DEF Before
    <3> HIDE DEF list
    <3>2. QED
      BY <2>7, <3>1 DEF Ordered
  <2>12. QED
    BY <2>1, <2>7, <2>10, <2>11 DEF token
<1>4. QED
  BY <1>2, <1>3

LineFindings(l, k) ==
  {g \in Finding :
     g[1] = l /\ g[2] \in 1..k /\ g[3] \in Reported(doc.lines[l].tokens[g[2]])}

(* The findings of a line are the reported segments of its tokens, in the   *)
(* order of the text.  (check_token)                                       *)
LEMMA FindingsOfLine ==
  ASSUME Input, NEW l \in DOMAIN doc.lines
  PROVE  /\ FindingsOf(l) \in Seq(Finding)
         /\ Range(FindingsOf(l)) = LineFindings(l, Len(doc.lines[l].tokens))
         /\ Ordered(FindingsOf(l))
<1> DEFINE tokens == doc.lines[l].tokens
           lists == [i \in DOMAIN tokens |-> FindingsAt(l, i)]
           n == Len(tokens)
<1>1. tokens \in Seq(Token)
  <2>1. doc.lines \in Seq(Line)
    BY AnalyzerAssumption DEF Input
  <2>2. doc.lines[l] \in Line
    BY <2>1
  <2>3. QED
    BY <2>2 DEF Line
<1>2. n \in Nat /\ DOMAIN tokens = 1..n
  BY <1>1
<1>3. \A i \in 1..n :
        /\ FindingsAt(l, i) \in Seq(Finding)
        /\ Range(FindingsAt(l, i)) =
             {g \in Finding : g[1] = l /\ g[2] = i /\ g[3] \in Reported(tokens[i])}
        /\ Ordered(FindingsAt(l, i))
  BY <1>2, FindingsOfToken
<1>4. /\ lists \in Seq(Seq(Finding)) /\ Len(lists) = n
      /\ \A i \in 1..n : lists[i] = FindingsAt(l, i)
  BY <1>2, <1>3
<1>5. FindingsOf(l) = FlattenSeq(lists)
  BY DEF FindingsOf
<1>6. LineFindings(l, n) =
        {g \in Finding : g[1] = l /\ g[2] \in 1..n /\ g[3] \in Reported(tokens[g[2]])}
  BY DEF LineFindings
<1> HIDE DEF lists, tokens, n
<1>7. CASE n = 0
  <2>1. lists = <<>>
    BY <1>4, <1>7, EmptySeq
  <2>2. FindingsOf(l) = <<>>
    BY <1>5, <2>1 DEF FlattenSeq
  <2>3. Range(FindingsOf(l)) = {}
    BY <2>2 DEF Range
  <2>4. LineFindings(l, n) = {}
    BY <1>6, <1>7
  <2>5. Ordered(FindingsOf(l))
    BY <2>2 DEF Ordered
  <2>6. QED
    BY <2>2, <2>3, <2>4, <2>5 DEF n, tokens
<1>8. CASE n # 0
  <2>1. lists # <<>>
    BY <1>2, <1>4, <1>8, EmptySeq
  <2>2. PICK f : /\ FlattenSeq(lists) = f[n] /\ f[1] = lists[1]
                 /\ \A i \in 2..n : f[i] = f[i - 1] \o lists[i]
    BY <1>4, <2>1, FlattenDef
  <2> DEFINE Done(k) == /\ f[k] \in Seq(Finding)
                        /\ Range(f[k]) = LineFindings(l, k)
                        /\ Ordered(f[k])
             S == {k \in Nat : k + 1 <= n => Done(k + 1)}
  <2>3. \A k : LineFindings(l, k) =
          {g \in Finding : g[1] = l /\ g[2] \in 1..k /\ g[3] \in Reported(tokens[g[2]])}
    BY DEF LineFindings, tokens
  <2>4. 0 \in S
    <3>1. 1 \in 1..n /\ f[1] = FindingsAt(l, 1)
      BY <1>2, <1>4, <1>8, <2>2
    <3>2. LineFindings(l, 1) =
            {g \in Finding : g[1] = l /\ g[2] = 1 /\ g[3] \in Reported(tokens[1])}
      BY <2>3
    <3>3. Done(1)
      BY <1>3, <3>1, <3>2
    <3>4. QED
      BY <3>3
  <2>5. ASSUME NEW k \in Nat, k \in S
        PROVE  k + 1 \in S
    <3> DEFINE a == f[k + 1]
               b == FindingsAt(l, k + 2)
    <3> SUFFICES ASSUME (k + 1) + 1 <= n
                 PROVE  Done((k + 1) + 1)
      OBVIOUS
    <3>0. k + 1 <= n /\ k + 2 \in 1..n /\ k + 2 \in 2..n /\ (k + 1) + 1 = k + 2
          /\ (k + 2) - 1 = k + 1
      BY <1>2
    <3>1. Done(k + 1)
      BY <2>5, <3>0
    <3>2. f[k + 2] = a \o b
      BY <1>4, <2>2, <3>0
    <3>3. /\ b \in Seq(Finding) /\ Ordered(b)
          /\ Range(b) = {g \in Finding : g[1] = l /\ g[2] = k + 2 /\ g[3] \in Reported(tokens[k + 2])}
      BY <1>3, <3>0
    <3>4. Range(a) = {g \in Finding : g[1] = l /\ g[2] \in 1..(k + 1)
                                      /\ g[3] \in Reported(tokens[g[2]])}
      BY <2>3, <3>1
    <3>5. a \in Seq(Finding) /\ Ordered(a)
      BY <3>1
    <3> HIDE DEF a, b
    <3>6. ASSUME NEW x \in Range(a), NEW y \in Range(b)
          PROVE  Before(x, y)
      <4>1. x[1] = l /\ x[2] \in 1..(k + 1)
        BY <3>4
      <4>2. y[1] = l /\ y[2] = k + 2
        BY <3>3
      <4>3. x[2] < y[2]
        BY <4>1, <4>2
      <4>4. QED
        BY <4>1, <4>2, <4>3 DEF Before
    <3>7. /\ a \o b \in Seq(Finding) /\ Range(a \o b) = Range(a) \cup Range(b)
          /\ Ordered(a \o b)
      BY <3>3, <3>5, <3>6, ConcatOrdered
    <3>8. Range(a) \cup Range(b) =
            {g \in Finding : g[1] = l /\ g[2] \in 1..(k + 2) /\ g[3] \in Reported(tokens[g[2]])}
      BY <3>3, <3>4 DEF Finding
    <3>9. Range(a) \cup Range(b) = LineFindings(l, k + 2)
      BY <2>3, <3>8
    <3>10. QED
      BY <3>0, <3>2, <3>7, <3>9
  <2> HIDE DEF S
  <2>6. \A k \in Nat : k \in S
    BY <2>4, <2>5, AllNumbers
  <2>7. n - 1 \in S /\ n - 1 \in Nat /\ (n - 1) + 1 = n
    BY <1>2, <1>8, <2>6
  <2>8. Done(n)
    BY <1>2, <2>7 DEF S
  <2>9. QED
    BY <1>5, <2>2, <2>8 DEF n, tokens
<1>9. QED
  BY <1>7, <1>8

-----------------------------------------------------------------------------
(* The two passes                                                          *)

Kind(l) == Directive(doc.lines[l])

ReportedAt(l, i) == Reported(doc.lines[l].tokens[i])

(* Lines of these are checked. *)
Checked(l) == Kind(l) = None /\ ~InDisabledRange(l)

(* The findings of the first n lines. *)
Expected(n) ==
  {g \in Finding :
     /\ g[1] \in 1..n /\ Checked(g[1])
     /\ g[2] \in DOMAIN doc.lines[g[1]].tokens
     /\ g[3] \in ReportedAt(g[1], g[2])}

(* What the directives of the first n lines ignore, and their problems. *)
Collected(n) ==
  /\ ignored = UNION {doc.lines[i].arguments : i \in {j \in 1..n : Kind(j) = "ignore"}}
  /\ {d[1] : d \in diagnostics} = {l \in 1..n : Kind(l) \in Problem}

InDirectives ==
  /\ findings = <<>> /\ disabled = FALSE
  /\ \A n \in Nat : at = n + 1 => Collected(n)

InTokens ==
  /\ \A n \in Nat : n = Len(doc.lines) => Collected(n)
  /\ findings \in Seq(Finding) /\ Ordered(findings)
  /\ \A n \in Nat : at = n + 1 => /\ Range(findings) = Expected(n)
                                  /\ disabled \in BOOLEAN
                                  /\ disabled <=> InDisabledRange(n + 1)

(* The ignored words and the diagnostics are those of the lines the first   *)
(* pass has read; the findings are those of the lines the second has read,  *)
(* in order, and checking is off at the next line in a disabled range.      *)
AnalyzerInv ==
  /\ Input
  /\ at \in Nat /\ 1 <= at /\ at <= Len(doc.lines) + 1
  /\ pass \in {"directives", "tokens", "done"}
  /\ pass = "directives" => InDirectives
  /\ pass \in {"tokens", "done"} => InTokens
  /\ pass = "done" => at = Len(doc.lines) + 1

LEMMA InputType ==
  ASSUME Input
  PROVE  /\ doc.lines \in Seq(Line) /\ Len(doc.lines) \in Nat
         /\ DOMAIN doc.lines = 1..Len(doc.lines)
<1>1. doc.lines \in Seq(Line)
  BY AnalyzerAssumption DEF Input
<1>2. QED
  BY <1>1

LEMMA KindKept ==
  ASSUME doc' = doc
  PROVE  \A l : Kind(l)' = Kind(l)
BY DEF Kind, Directive

LEMMA InDisabledRangeKind ==
  \A l : InDisabledRange(l) <=>
    \E i \in 1..l - 1 : /\ Kind(i) = "disable"
                        /\ \A j \in i + 1..l - 1 : Kind(j) # "enable"
BY DEF InDisabledRange, Kind

LEMMA InDisabledRangeKept ==
  ASSUME doc' = doc
  PROVE  \A l : InDisabledRange(l)' <=> InDisabledRange(l)
BY DEF InDisabledRange, Directive

LEMMA ReportedKept ==
  ASSUME doc' = doc, policy' = policy, known' = known, ignored' = ignored
  PROVE  \A l, i : ReportedAt(l, i)' = ReportedAt(l, i)
BY DEF ReportedAt, Reported, Skipped, ClassOf, Misspelled, Excluded,
       ContainsNormalized

LEMMA ExpectedKept ==
  ASSUME doc' = doc, policy' = policy, known' = known, ignored' = ignored
  PROVE  \A n : Expected(n)' = Expected(n)
<1>1. \A l : Checked(l)' <=> Checked(l)
  BY KindKept, InDisabledRangeKept DEF Checked
<1>2. QED
  BY <1>1, ReportedKept DEF Expected

LEMMA CollectedKept ==
  ASSUME doc' = doc, diagnostics' = diagnostics, ignored' = ignored
  PROVE  \A n : Collected(n)' <=> Collected(n)
BY KindKept DEF Collected

(* Switching checking off and on line by line is being in a disabled range. *)
LEMMA DisabledNext ==
  ASSUME NEW l \in Nat, 1 <= l
  PROVE  InDisabledRange(l + 1) <=>
           \/ Kind(l) = "disable"
           \/ InDisabledRange(l) /\ Kind(l) # "enable"
<1>1. 1..(l + 1) - 1 = 1..l /\ l \in 1..l
  OBVIOUS
<1>2. CASE Kind(l) = "disable"
  <2>1. \A j \in l + 1..(l + 1) - 1 : Kind(j) # "enable"
    OBVIOUS
  <2>2. InDisabledRange(l + 1)
    BY <1>1, <1>2, <2>1, InDisabledRangeKind
  <2>3. QED
    BY <1>2, <2>2
<1>3. CASE Kind(l) # "disable"
  <2>1. ASSUME InDisabledRange(l + 1)
        PROVE  InDisabledRange(l) /\ Kind(l) # "enable"
    <3>1. PICK i \in 1..(l + 1) - 1 :
            Kind(i) = "disable" /\ \A j \in i + 1..(l + 1) - 1 : Kind(j) # "enable"
      BY <2>1, InDisabledRangeKind
    <3>2. i # l
      BY <1>3, <3>1
    <3>3. i \in 1..l - 1 /\ l \in i + 1..(l + 1) - 1
      BY <3>2
    <3>4. \A j \in i + 1..l - 1 : j \in i + 1..(l + 1) - 1
      OBVIOUS
    <3>5. InDisabledRange(l)
      BY <3>1, <3>3, <3>4, InDisabledRangeKind
    <3>6. QED
      BY <3>1, <3>3, <3>5
  <2>2. ASSUME InDisabledRange(l), Kind(l) # "enable"
        PROVE  InDisabledRange(l + 1)
    <3>1. PICK i \in 1..l - 1 :
            Kind(i) = "disable" /\ \A j \in i + 1..l - 1 : Kind(j) # "enable"
      BY <2>2, InDisabledRangeKind
    <3>2. i \in 1..(l + 1) - 1
      OBVIOUS
    <3>3. ASSUME NEW j \in i + 1..(l + 1) - 1
          PROVE  Kind(j) # "enable"
      <4>1. j = l \/ j \in i + 1..l - 1
        OBVIOUS
      <4>2. QED
        BY <2>2, <3>1, <4>1
    <3>4. QED
      BY <3>1, <3>2, <3>3, InDisabledRangeKind
  <2>3. QED
    BY <1>3, <2>1, <2>2
<1>4. QED
  BY <1>2, <1>3

LEMMA ExpectedNext ==
  ASSUME Input, NEW n \in Nat, n + 1 <= Len(doc.lines)
  PROVE  Expected(n + 1) =
           Expected(n) \cup (IF Checked(n + 1)
                             THEN LineFindings(n + 1, Len(doc.lines[n + 1].tokens))
                             ELSE {})
<1>1. doc.lines[n + 1] \in Line
  BY InputType
<1>2. doc.lines[n + 1].tokens \in Seq(Token)
  BY <1>1 DEF Line
<1>3. DOMAIN doc.lines[n + 1].tokens = 1..Len(doc.lines[n + 1].tokens)
  BY <1>2
<1>4. \A k : k \in 1..(n + 1) <=> k \in 1..n \/ k = n + 1
  OBVIOUS
<1>5. ASSUME NEW g \in Finding, g[1] = n + 1
      PROVE  g \in LineFindings(n + 1, Len(doc.lines[n + 1].tokens)) <=>
               /\ g[2] \in DOMAIN doc.lines[g[1]].tokens
               /\ g[3] \in ReportedAt(g[1], g[2])
  BY <1>3, <1>5 DEF LineFindings, ReportedAt
<1>6. \A g \in LineFindings(n + 1, Len(doc.lines[n + 1].tokens)) : g \in Finding /\ g[1] = n + 1
  BY DEF LineFindings
<1> DEFINE here == LineFindings(n + 1, Len(doc.lines[n + 1].tokens))
<1>7. \A g \in Finding : g[1] = n + 1 =>
        (g \in here <=> /\ g[2] \in DOMAIN doc.lines[g[1]].tokens
                        /\ g[3] \in ReportedAt(g[1], g[2]))
  BY <1>5
<1>8. \A g \in here : g \in Finding /\ g[1] = n + 1
  BY <1>6
<1> HIDE DEF here
<1> DEFINE P(g) == /\ Checked(g[1])
                    /\ g[2] \in DOMAIN doc.lines[g[1]].tokens
                    /\ g[3] \in ReportedAt(g[1], g[2])
<1>9. CASE Checked(n + 1)
  <2>1. \A m : Expected(m) = {g \in Finding : g[1] \in 1..m /\ P(g)}
    BY Zenon DEF Expected
  <2>2. \A g \in Finding : g[1] = n + 1 => (g \in here <=> P(g))
    BY <1>7, <1>9
  <2> HIDE DEF P
  <2>3. Expected(n + 1) = Expected(n) \cup here
    BY <1>4, <1>8, <2>1, <2>2
  <2>4. QED
    BY <1>9, <2>3 DEF here
<1>10. CASE ~Checked(n + 1)
  BY <1>4, <1>10 DEF Expected
<1>11. QED
  BY <1>9, <1>10 DEF here

(* The next line of the first pass adds its words and its problem.         *)
LEMMA CollectedNext ==
  ASSUME Input, NEW n \in Nat, n + 1 <= Len(doc.lines), doc' = doc, Collected(n),
         ignored' = ignored \cup Recorded(doc.lines[n + 1], Kind(n + 1)),
         diagnostics' = diagnostics \cup
           (IF Kind(n + 1) \in Problem THEN {<<n + 1, Kind(n + 1)>>} ELSE {})
  PROVE  Collected(n + 1)'
<1>1. \A k : k \in 1..(n + 1) <=> k \in 1..n \/ k = n + 1
  OBVIOUS
<1> DEFINE words(m) == UNION {doc.lines[i].arguments : i \in {j \in 1..m : Kind(j) = "ignore"}}
           problems(m) == {l \in 1..m : Kind(l) \in Problem}
<1>2. ignored = words(n) /\ {d[1] : d \in diagnostics} = problems(n)
  BY DEF Collected
<1>3. words(n + 1) = words(n) \cup Recorded(doc.lines[n + 1], Kind(n + 1))
  <2>1. CASE Kind(n + 1) = "ignore"
    <3>1. {j \in 1..(n + 1) : Kind(j) = "ignore"} =
            {j \in 1..n : Kind(j) = "ignore"} \cup {n + 1}
      BY <1>1, <2>1
    <3>2. QED
      BY <2>1, <3>1 DEF Recorded
  <2>2. CASE Kind(n + 1) # "ignore"
    <3>1. {j \in 1..(n + 1) : Kind(j) = "ignore"} = {j \in 1..n : Kind(j) = "ignore"}
      BY <1>1, <2>2
    <3>2. QED
      BY <2>2, <3>1 DEF Recorded
  <2>3. QED
    BY <2>1, <2>2
<1>4. {d[1] : d \in diagnostics'} = problems(n + 1)
  <2>1. CASE Kind(n + 1) \in Problem
    <3>1. problems(n + 1) = problems(n) \cup {n + 1}
      BY <1>1, <2>1
    <3>2. diagnostics' = diagnostics \cup {<<n + 1, Kind(n + 1)>>}
      BY <2>1
    <3>3. {d[1] : d \in diagnostics'} = {d[1] : d \in diagnostics} \cup {n + 1}
      <4> DEFINE e == <<n + 1, Kind(n + 1)>>
      <4>1. e[1] = n + 1 /\ diagnostics' = diagnostics \cup {e}
        BY <3>2
      <4> HIDE DEF e
      <4>2. QED
        BY <4>1
    <3>4. QED
      BY <1>2, <3>1, <3>3
  <2>2. CASE Kind(n + 1) \notin Problem
    <3>1. problems(n + 1) = problems(n)
      BY <1>1, <2>2
    <3>2. QED
      BY <1>2, <2>2, <3>1
  <2>3. QED
    BY <2>1, <2>2
<1>5. ignored' = words(n + 1)
  BY <1>2, <1>3
<1>6. \A l : Kind(l)' = Kind(l)
  BY KindKept
<1>7. QED
  BY <1>4, <1>5, <1>6 DEF Collected

LEMMA SwitchedIsKind ==
  ASSUME NEW d
  PROVE  /\ d = "disable" => Switched(d) = TRUE
         /\ d = "enable" => Switched(d) = FALSE
         /\ d \notin {"disable", "enable"} => Switched(d) = disabled
<1>1. CASE d = "disable"
  BY <1>1, Zenon DEF Switched
<1>2. CASE d = "enable"
  <2>1. Switched(d) = FALSE
    BY <1>2, Zenon DEF Switched
  <2>2. QED
    BY <1>2, <2>1
<1>3. CASE d \notin {"disable", "enable"}
  <2>1. Switched(d) = disabled
    BY <1>3, Zenon DEF Switched
  <2>2. QED
    BY <1>3, <2>1, Zenon
<1>4. QED
  BY <1>1, <1>2, <1>3, Zenon

(* The next line of the second pass adds its findings. *)
LEMMA TokensNext ==
  ASSUME Input, NEW n \in Nat, n + 1 <= Len(doc.lines),
         findings \in Seq(Finding), Ordered(findings), Range(findings) = Expected(n),
         disabled <=> InDisabledRange(n + 1),
         NEW list,
         list = IF Kind(n + 1) # None \/ disabled THEN findings
                ELSE findings \o FindingsOf(n + 1)
  PROVE  list \in Seq(Finding) /\ Ordered(list) /\ Range(list) = Expected(n + 1)
<1>1. n + 1 \in DOMAIN doc.lines
  BY InputType
<1>2. CASE ~Checked(n + 1)
  <2>1. list = findings
    BY <1>2 DEF Checked
  <2>2. Expected(n + 1) = Expected(n)
    BY <1>2, ExpectedNext
  <2>3. QED
    BY <2>1, <2>2
<1>3. CASE Checked(n + 1)
  <2> DEFINE here == FindingsOf(n + 1)
             found == LineFindings(n + 1, Len(doc.lines[n + 1].tokens))
  <2>1. list = findings \o here
    BY <1>3 DEF Checked
  <2>2. Expected(n + 1) = Expected(n) \cup found
    BY <1>3, ExpectedNext
  <2>3. here \in Seq(Finding) /\ Range(here) = found /\ Ordered(here)
    BY <1>1, FindingsOfLine
  <2>4. \A g \in found : g[1] = n + 1
    BY DEF LineFindings
  <2>5. \A g \in Expected(n) : g[1] \in 1..n
    BY DEF Expected
  <2> HIDE DEF here, found
  <2>6. ASSUME NEW x \in Range(findings), NEW y \in Range(here)
        PROVE  Before(x, y)
    <3>1. x[1] \in 1..n /\ y[1] = n + 1
      BY <2>3, <2>4, <2>5
    <3>2. x[1] < y[1]
      BY <3>1
    <3>3. QED
      BY <3>2 DEF Before
  <2>7. /\ findings \o here \in Seq(Finding)
        /\ Range(findings \o here) = Range(findings) \cup Range(here)
        /\ Ordered(findings \o here)
    BY <2>3, <2>6, ConcatOrdered
  <2>8. QED
    BY <2>1, <2>2, <2>3, <2>7
<1>4. QED
  BY <1>2, <1>3

LEMMA AnalyzerInit ==
  ASSUME CheckInit
  PROVE  AnalyzerInv
<1>1. Input
  BY DEF CheckInit, Input
<1>2. Len(doc.lines) \in Nat
  BY <1>1, InputType
<1>3. Collected(0)
  BY DEF CheckInit, Collected
<1>4. InDirectives
  BY <1>3 DEF CheckInit, InDirectives
<1>5. at \in Nat /\ 1 <= at /\ at <= Len(doc.lines) + 1 /\ pass = "directives"
  BY <1>2 DEF CheckInit
<1>6. QED
  BY <1>1, <1>4, <1>5 DEF AnalyzerInv

LEMMA AnalyzerStep ==
  ASSUME AnalyzerInv, [CheckNext]_checkVars
  PROVE  AnalyzerInv'
<1>1. /\ Input /\ Len(doc.lines) \in Nat
      /\ at \in Nat /\ 1 <= at /\ at <= Len(doc.lines) + 1
  BY InputType DEF AnalyzerInv
<1>2. ASSUME doc' = doc, policy' = policy
      PROVE  Input' /\ Len(doc.lines)' = Len(doc.lines)
  BY <1>1, <1>2 DEF Input
<1>3. CASE RecordDirective
  <2>1. /\ doc' = doc /\ policy' = policy /\ pass = "directives" /\ pass' = pass
        /\ at <= Len(doc.lines) /\ at' = at + 1
        /\ disabled' = disabled /\ findings' = findings
        /\ ignored' = ignored \cup Recorded(doc.lines[at], Kind(at))
        /\ diagnostics' = diagnostics \cup
             (IF Kind(at) \in Problem THEN {<<at, Kind(at)>>} ELSE {})
    BY <1>3 DEF RecordDirective, input, Kind
  <2>2. PICK n \in Nat : n + 1 = at
    BY <1>1, SMT
  <2>3. Collected(n) /\ findings = <<>> /\ disabled = FALSE
    BY <2>1, <2>2 DEF AnalyzerInv, InDirectives
  <2>4. Collected(n + 1)'
    BY <1>1, <2>1, <2>2, <2>3, CollectedNext
  <2>5. \A m \in Nat : at' = m + 1 => m = n + 1
    BY <2>1, <2>2
  <2>6. InDirectives'
    BY <2>1, <2>3, <2>4, <2>5 DEF InDirectives
  <2>7. at' \in Nat /\ 1 <= at' /\ at' <= Len(doc.lines) + 1
    BY <1>1, <2>1
  <2>8. QED
    BY <1>2, <2>1, <2>6, <2>7 DEF AnalyzerInv
<1>4. CASE EndDirectives
  <2>1. /\ doc' = doc /\ policy' = policy /\ known' = known
        /\ pass = "directives" /\ pass' = "tokens"
        /\ at > Len(doc.lines) /\ at' = 1
        /\ disabled' = disabled /\ findings' = findings
        /\ ignored' = ignored /\ diagnostics' = diagnostics
    BY <1>4 DEF EndDirectives, input
  <2>2. \A n \in Nat : n = Len(doc.lines) => at = n + 1
    BY <1>1, <2>1
  <2>3. findings = <<>> /\ disabled = FALSE
        /\ \A n \in Nat : n = Len(doc.lines) => Collected(n)
    BY <2>1, <2>2 DEF AnalyzerInv, InDirectives
  <2>4. \A n : Collected(n)' <=> Collected(n)
    BY <2>1, CollectedKept
  <2>5. \A n : Expected(n)' = Expected(n)
    BY <2>1, ExpectedKept
  <2>6. Expected(0) = {} /\ ~InDisabledRange(1)
    BY DEF Expected, InDisabledRange
  <2>7. Range(findings) = {} /\ findings \in Seq(Finding) /\ Ordered(findings)
    BY <2>3 DEF Range, Ordered
  <2>8. \A n \in Nat : at' = n + 1 => n = 0
    BY <2>1
  <2>9. Range(findings') = {} /\ findings' \in Seq(Finding) /\ Ordered(findings')
    BY <2>1, <2>7
  <2>10. InDisabledRange(0 + 1)' <=> FALSE
    BY <2>1, <2>6, InDisabledRangeKept
  <2>11. InTokens'
    <3>1. \A n \in Nat : n = Len(doc.lines)' => Collected(n)'
      BY <1>2, <2>1, <2>3, <2>4
    <3>2. findings' \in Seq(Finding) /\ Ordered(findings)'
      BY <2>9 DEF Ordered, Before
    <3>3. ASSUME NEW n \in Nat, at' = n + 1
          PROVE  /\ Range(findings)' = Expected(n)'
                 /\ disabled' \in BOOLEAN
                 /\ disabled' <=> InDisabledRange(n + 1)'
      <4>1. n = 0
        BY <2>8, <3>3
      <4>2. disabled' = FALSE
        BY <2>1, <2>3
      <4>3. Range(findings)' = {}
        BY <2>9 DEF Range
      <4>4. QED
        BY <2>5, <2>6, <2>10, <4>1, <4>2, <4>3
    <3>4. QED
      BY <3>1, <3>2, <3>3 DEF InTokens
  <2>12. at' \in Nat /\ 1 <= at' /\ at' <= Len(doc.lines) + 1
    BY <1>1, <2>1
  <2>13. QED
    BY <1>2, <2>1, <2>11, <2>12 DEF AnalyzerInv
<1>5. CASE CheckLine
  <2>1. /\ doc' = doc /\ policy' = policy /\ known' = known
        /\ pass = "tokens" /\ pass' = pass
        /\ at <= Len(doc.lines) /\ at' = at + 1
        /\ disabled' = Switched(Kind(at))
        /\ findings' = IF Kind(at) # None \/ disabled THEN findings
                       ELSE findings \o FindingsOf(at)
        /\ ignored' = ignored /\ diagnostics' = diagnostics
    BY <1>5 DEF CheckLine, input, Kind
  <2>2. PICK n \in Nat : n + 1 = at
    BY <1>1, SMT
  <2>3. /\ findings \in Seq(Finding) /\ Ordered(findings)
        /\ \A m \in Nat : m = Len(doc.lines) => Collected(m)
        /\ Range(findings) = Expected(n)
        /\ disabled \in BOOLEAN
        /\ disabled <=> InDisabledRange(n + 1)
    BY <2>1, <2>2 DEF AnalyzerInv, InTokens
  <2>4. /\ findings' \in Seq(Finding) /\ Ordered(findings')
        /\ Range(findings') = Expected(n + 1)
    BY <1>1, <2>1, <2>2, <2>3, TokensNext
  <2>5. \A m : Expected(m)' = Expected(m)
    BY <2>1, ExpectedKept
  <2>6. \A m : Collected(m)' <=> Collected(m)
    BY <2>1, CollectedKept
  <2>7. disabled' \in BOOLEAN /\ (disabled' <=> InDisabledRange(n + 2))
    <3>1. InDisabledRange((n + 1) + 1) <=>
            \/ Kind(n + 1) = "disable"
            \/ InDisabledRange(n + 1) /\ Kind(n + 1) # "enable"
      BY DisabledNext
    <3>2. /\ Kind(n + 1) = "disable" => disabled' = TRUE
          /\ Kind(n + 1) = "enable" => disabled' = FALSE
          /\ Kind(n + 1) \notin {"disable", "enable"} => disabled' = disabled
      BY <2>1, <2>2, SwitchedIsKind
    <3>3. (n + 1) + 1 = n + 2
      OBVIOUS
    <3>4. CASE Kind(n + 1) \in {"disable", "enable"}
      BY <3>1, <3>2, <3>3, <3>4
    <3>5. CASE Kind(n + 1) \notin {"disable", "enable"}
      <4>1. disabled' = disabled
        BY <3>2, <3>5
      <4>2. InDisabledRange(n + 2) <=> InDisabledRange(n + 1)
        BY <3>1, <3>3, <3>5
      <4>3. QED
        BY <2>3, <4>1, <4>2
    <3>6. QED
      BY <3>4, <3>5
  <2>8. InTokens'
    <3>1. \A m \in Nat : m = Len(doc.lines)' => Collected(m)'
      BY <1>2, <2>1, <2>3, <2>6
    <3>2. findings' \in Seq(Finding) /\ Ordered(findings)'
      BY <2>4 DEF Ordered, Before
    <3>3. ASSUME NEW m \in Nat, at' = m + 1
          PROVE  /\ Range(findings)' = Expected(m)'
                 /\ disabled' \in BOOLEAN
                 /\ disabled' <=> InDisabledRange(m + 1)'
      <4>1. m = n + 1 /\ m + 1 = n + 2
        BY <2>1, <2>2, <3>3
      <4>2. Range(findings)' = Expected(m)'
        BY <2>4, <2>5, <4>1 DEF Range
      <4>3. InDisabledRange(m + 1)' <=> InDisabledRange(m + 1)
        BY <2>1, InDisabledRangeKept
      <4>4. QED
        BY <2>7, <4>1, <4>2, <4>3
    <3>4. QED
      BY <3>1, <3>2, <3>3 DEF InTokens
  <2>9. at' \in Nat /\ 1 <= at' /\ at' <= Len(doc.lines) + 1
    BY <1>1, <2>1
  <2>10. QED
    BY <1>2, <2>1, <2>8, <2>9 DEF AnalyzerInv
<1>6. CASE EndTokens \/ UNCHANGED checkVars
  <2>1. /\ doc' = doc /\ policy' = policy /\ known' = known
        /\ at' = at /\ disabled' = disabled /\ findings' = findings
        /\ ignored' = ignored /\ diagnostics' = diagnostics
    BY <1>6 DEF EndTokens, input, checkVars
  <2>2. /\ pass' \in {"directives", "tokens", "done"}
        /\ pass' = "directives" => InDirectives
        /\ pass' \in {"tokens", "done"} => InTokens
        /\ pass' = "done" => at = Len(doc.lines) + 1
    BY <1>1, <1>6 DEF EndTokens, checkVars, AnalyzerInv
  <2>3. \A n : Collected(n)' <=> Collected(n)
    BY <2>1, CollectedKept
  <2>4. \A n : Expected(n)' = Expected(n)
    BY <2>1, ExpectedKept
  <2>5. \A l : InDisabledRange(l)' <=> InDisabledRange(l)
    BY <2>1, InDisabledRangeKept
  <2>6. InDirectives => InDirectives'
    BY <2>1, <2>3 DEF InDirectives
  <2>7. ASSUME InTokens
        PROVE  InTokens'
    <3>1. \A n \in Nat : n = Len(doc.lines)' => Collected(n)'
      BY <2>1, <2>3, <2>7 DEF InTokens
    <3>2. findings' \in Seq(Finding) /\ Ordered(findings)'
      BY <2>1, <2>7 DEF InTokens, Ordered, Before
    <3>3. Range(findings)' = Range(findings)
      BY <2>1 DEF Range
    <3>4. QED
      BY <2>1, <2>4, <2>5, <2>7, <3>1, <3>2, <3>3 DEF InTokens
  <2>8. at' \in Nat /\ 1 <= at' /\ at' <= Len(doc.lines)' + 1
    BY <1>1, <1>2, <2>1
  <2>9. QED
    BY <1>2, <2>1, <2>2, <2>6, <2>7, <2>8 DEF AnalyzerInv
<1>7. QED
  BY <1>3, <1>4, <1>5, <1>6 DEF CheckNext

LEMMA AnalyzerInvCorrect == CheckSpec => []AnalyzerInv
<1>1. CheckInit => AnalyzerInv
  BY AnalyzerInit
<1>2. AnalyzerInv /\ [CheckNext]_checkVars => AnalyzerInv'
  BY AnalyzerStep
<1>3. QED
  BY <1>1, <1>2, PTL DEF CheckSpec

LEMMA InvIsExact ==
  ASSUME AnalyzerInv, pass = "done"
  PROVE  FindingsExact
<1> DEFINE n == Len(doc.lines)
<1>1. /\ Input /\ n \in Nat /\ at = n + 1 /\ InTokens
      /\ doc.lines \in Seq(Line) /\ DOMAIN doc.lines = 1..n
  BY InputType DEF AnalyzerInv
<1>2. /\ Collected(n) /\ findings \in Seq(Finding) /\ Ordered(findings)
      /\ Range(findings) = Expected(n)
  BY <1>1 DEF InTokens
<1> HIDE DEF n
<1>3. ignored = UNION {line.arguments : line \in
                         {l \in Range(doc.lines) : Directive(l) = "ignore"}}
  <2>1. ignored = UNION {doc.lines[i].arguments : i \in {j \in 1..n : Kind(j) = "ignore"}}
    BY <1>2 DEF Collected
  <2>2. Range(doc.lines) = {doc.lines[i] : i \in 1..n}
    BY <1>1 DEF Range
  <2>3. {line.arguments : line \in {l \in Range(doc.lines) : Directive(l) = "ignore"}} =
          {doc.lines[i].arguments : i \in {j \in 1..n : Kind(j) = "ignore"}}
    BY <2>2, Zenon DEF Kind
  <2>4. QED
    BY <2>1, <2>3
<1>4. ASSUME NEW l \in DOMAIN doc.lines, NEW i \in DOMAIN doc.lines[l].tokens
      PROVE  LET token == doc.lines[l].tokens[i]
                 reported == /\ Directive(doc.lines[l]) = None
                             /\ ~InDisabledRange(l)
                             /\ ~Skipped(token)
             IN  {f[3] : f \in {g \in Range(findings) : g[1] = l /\ g[2] = i}}
                 = IF reported THEN Misspelled(token) ELSE {}
  <2> DEFINE token == doc.lines[l].tokens[i]
             found == {f[3] : f \in {g \in Range(findings) : g[1] = l /\ g[2] = i}}
  <2>1. l \in 1..n /\ l \in Nat /\ i \in Nat /\ token \in Token
    <3>1. doc.lines[l] \in Line
      BY <1>1
    <3>2. doc.lines[l].tokens \in Seq(Token)
      BY <3>1 DEF Line
    <3>3. QED
      BY <1>1, <3>2
  <2>2. Reported(token) \subseteq Nat \X Nat
    BY <2>1, <1>1, TokenText, SegmentsType DEF Reported, Misspelled
  <2>3. found = IF Checked(l) THEN Reported(token) ELSE {}
    <3>1. ASSUME NEW s
          PROVE  s \in found <=> <<l, i, s>> \in Expected(n) /\ s \in Nat \X Nat
      <4>1. ASSUME NEW g \in Expected(n), g[1] = l, g[2] = i
            PROVE  g = <<l, i, g[3]>> /\ g[3] \in Nat \X Nat
        BY <4>1 DEF Expected, Finding
      <4>2. ASSUME s \in found
            PROVE  <<l, i, s>> \in Expected(n) /\ s \in Nat \X Nat
        <5>1. PICK g \in Expected(n) : g[1] = l /\ g[2] = i /\ g[3] = s
          BY <1>2, <4>2
        <5>2. QED
          BY <4>1, <5>1
      <4>3. ASSUME <<l, i, s>> \in Expected(n)
            PROVE  s \in found
        <5>1. <<l, i, s>>[1] = l /\ <<l, i, s>>[2] = i /\ <<l, i, s>>[3] = s
          OBVIOUS
        <5> DEFINE g == <<l, i, s>>
        <5>2. g \in Range(findings) /\ g[1] = l /\ g[2] = i /\ g[3] = s
          BY <1>2, <4>3, <5>1
        <5> HIDE DEF g
        <5>3. QED
          BY <5>2
      <4>4. QED
        BY <4>2, <4>3
    <3>2. ASSUME NEW s \in Nat \X Nat
          PROVE  <<l, i, s>> \in Expected(n) <=> Checked(l) /\ s \in Reported(token)
      <4> DEFINE g == <<l, i, s>>
      <4>1. g[1] = l /\ g[2] = i /\ g[3] = s /\ g \in Finding
        BY <2>1 DEF Finding
      <4> HIDE DEF g
      <4>2. g \in Expected(n) <=> Checked(l) /\ s \in Reported(token)
        BY <2>1, <4>1 DEF Expected, ReportedAt
      <4>3. QED
        BY <4>2 DEF g
    <3> HIDE DEF found, token
    <3>3. \A s : s \in found <=> Checked(l) /\ s \in Reported(token)
      BY <2>2, <3>1, <3>2
    <3>4. QED
      BY <3>3
  <2> HIDE DEF found
  <2>4. found = IF /\ Directive(doc.lines[l]) = None
                   /\ ~InDisabledRange(l)
                   /\ ~Skipped(token)
                THEN Misspelled(token) ELSE {}
    BY <2>3 DEF Checked, Kind, Reported
  <2>5. QED
    BY <2>4 DEF found
<1>5. \A i, j \in DOMAIN findings : i < j => Before(findings[i], findings[j])
  BY <1>2 DEF Ordered
<1>6. {d[1] : d \in diagnostics} =
        {l \in DOMAIN doc.lines : Directive(doc.lines[l]) \in Problem}
  BY <1>1, <1>2 DEF Collected, Kind
<1>7. QED
  BY <1>3, <1>4, <1>5, <1>6 DEF FindingsExact

(* Whatever characters, documents, policies and dictionaries there are, the *)
(* findings of a finished check are the misspelled segments of every token  *)
(* on a line outside directives and disabled ranges, in source order, each  *)
(* once, and ignored words are those of all ignore directives.              *)
(* (Analyzer::check_with_progress, check_token)                             *)
THEOREM FindingsExactCorrect == CheckSpec => []FindingsExact
<1>1. AnalyzerInv => FindingsExact
  BY InvIsExact DEF FindingsExact
<1>2. QED
  BY <1>1, AnalyzerInvCorrect, PTL

-----------------------------------------------------------------------------
(* Every letter is in one segment                                          *)

(* What the loop of split_identifier_into knows after position i.          *)
InRunAt(text, in, i) ==
  /\ i > 0
  /\ \/ text[i] \in RunCharacter
     \/ /\ text[i] \in Apostrophe
        /\ in[i - 1]
        /\ i < Len(text)
        /\ text[i + 1] \in Alphabetic

IsInRun(text, in, k) == in = [i \in 0..k |-> InRunAt(text, in, i)]

LEMMA InRunExists ==
  ASSUME NEW text
  PROVE  \A k \in Nat : \E in : IsInRun(text, in, k)
<1> DEFINE S == {k \in Nat : \E in : IsInRun(text, in, k)}
<1>1. 0 \in S
  <2> DEFINE g == [i \in 0..0 |-> InRunAt(text, [j \in {} |-> FALSE], i)]
  <2>1. \A in : ~InRunAt(text, in, 0)
    BY DEF InRunAt
  <2>2. [i \in 0..0 |-> InRunAt(text, g, i)] = g
    <3>1. \A i \in 0..0 : InRunAt(text, g, i) = InRunAt(text, [j \in {} |-> FALSE], i)
      <4>1. \A i \in 0..0 : i = 0
        OBVIOUS
      <4>2. QED
        BY <2>1, <4>1, Zenon DEF InRunAt
    <3> HIDE DEF g
    <3>2. QED
      BY <3>1, Zenon DEF g
  <2>3. IsInRun(text, g, 0)
    BY <2>2 DEF IsInRun
  <2>4. QED
    BY <2>3
<1>2. ASSUME NEW k \in Nat, k \in S
      PROVE  k + 1 \in S
  <2>1. PICK f : IsInRun(text, f, k)
    BY <1>2
  <2>2. f = [i \in 0..k |-> InRunAt(text, f, i)]
    BY <2>1 DEF IsInRun
  <2> DEFINE g == [i \in 0..(k + 1) |-> InRunAt(text, f, i)]
  <2>3. ASSUME NEW i \in 0..(k + 1)
        PROVE  InRunAt(text, g, i) = InRunAt(text, f, i)
    <3>1. CASE i = 0
      BY <3>1 DEF InRunAt
    <3>2. CASE i # 0
      <4>1. i - 1 \in 0..k /\ i - 1 \in 0..(k + 1)
        BY <3>2
      <4>2. g[i - 1] = InRunAt(text, f, i - 1)
        BY <4>1
      <4>3. f[i - 1] = InRunAt(text, f, i - 1)
        <5>1. \A j \in 0..k : f[j] = InRunAt(text, f, j)
          BY <2>2
        <5> QED
          BY <4>1, <5>1
      <4>4. g[i - 1] = f[i - 1]
        BY <4>2, <4>3, Zenon
      <4> HIDE DEF g
      <4>5. QED
        BY <4>4, Zenon DEF InRunAt
    <3>3. QED
      BY <3>1, <3>2
  <2>4. g = [i \in 0..(k + 1) |-> InRunAt(text, g, i)]
    <3> DEFINE h == [i \in 0..(k + 1) |-> InRunAt(text, g, i)]
    <3>1. \A i \in 0..(k + 1) : g[i] = h[i]
      BY <2>3, Zenon
    <3>2. QED
      BY <3>1, Zenon
  <2>5. IsInRun(text, g, k + 1)
    BY <2>4, Zenon DEF IsInRun
  <2>6. QED
    BY <2>5
<1> HIDE DEF S
<1>3. \A k \in Nat : k \in S
  BY <1>1, <1>2, AllNumbers
<1>4. QED
  BY <1>3 DEF S

LEMMA InRunDef ==
  ASSUME NEW text \in Text
  PROVE  \A i \in 0..Len(text) :
           InRun(text)[i] <=>
             /\ i > 0
             /\ \/ text[i] \in RunCharacter
                \/ /\ text[i] \in Apostrophe
                   /\ InRun(text)[i - 1]
                   /\ i < Len(text)
                   /\ text[i + 1] \in Alphabetic
<1>1. Len(text) \in Nat
  BY DEF Text
<1> DEFINE in == CHOOSE in : IsInRun(text, in, Len(text))
<1>2. in = InRun(text)
  BY Zenon DEF InRun, IsInRun, InRunAt
<1>3. IsInRun(text, in, Len(text))
  BY <1>1, InRunExists, Zenon
<1> HIDE DEF in
<1>4. in = [i \in 0..Len(text) |-> InRunAt(text, in, i)]
  BY <1>3, Zenon DEF IsInRun
<1>5. ASSUME NEW i \in 0..Len(text)
      PROVE  in[i] <=> InRunAt(text, in, i)
  BY <1>4, Zenon
<1>6. QED
  BY <1>2, <1>5, Zenon DEF InRunAt

(* A position in a run is in one of the runs. *)
LEMMA RunThrough ==
  ASSUME NEW text \in Text, NEW i \in 1..Len(text), InRun(text)[i]
  PROVE  \E r \in Runs(text) : r[1] <= i /\ i <= r[2]
<1> DEFINE in == InRun(text)
           n == Len(text)
           L == {a \in Nat : a <= i /\ \A j \in a..i : in[j]}
           R == {b \in Nat : b > i /\ (b = n + 1 \/ ~in[b])}
<1>1. n \in Nat /\ DOMAIN text = 1..n /\ i \in 1..n /\ in[i]
  BY DEF Text
<1>2. ~in[0]
  BY <1>1, InRunDef
<1>3. \A x \in (1..n) \X (1..n) :
        /\ \A j \in x[1]..x[2] : in[j]
        /\ x[1] <= x[2]
        /\ ~in[x[1] - 1]
        /\ x[2] < n => ~in[x[2] + 1]
        => x \in Runs(text)
  BY <1>1 DEF Runs
<1> HIDE DEF in, n
<1>4. i \in L
  <2>1. \A j \in i..i : j = i
    BY <1>1
  <2>2. QED
    BY <1>1, <2>1
<1>5. n + 1 \in R
  BY <1>1
<1>6. PICK a \in L : \A x \in L : a <= x
  <2>1. L \in SUBSET Nat /\ L # {}
    BY <1>4
  <2> HIDE DEF L
  <2>2. QED
    BY <2>1, LeastNumber
<1>7. PICK b \in R : \A x \in R : b <= x
  <2>1. R \in SUBSET Nat /\ R # {}
    BY <1>5
  <2> HIDE DEF R
  <2>2. QED
    BY <2>1, LeastNumber
<1>8. a \in Nat /\ a <= i /\ \A j \in a..i : in[j]
  BY <1>6
<1>9. b \in Nat /\ b > i /\ (b = n + 1 \/ ~in[b]) /\ b <= n + 1
  BY <1>5, <1>7
<1>10. a # 0
  <2>1. 0 \in 0..i
    BY <1>1
  <2>2. QED
    BY <1>2, <1>8, <2>1
<1>11. ~in[a - 1]
  <2> SUFFICES ASSUME in[a - 1]
               PROVE  FALSE
    OBVIOUS
  <2>1. \A j \in (a - 1)..i : j = a - 1 \/ j \in a..i
    BY <1>8
  <2>2. a - 1 \in L
    BY <1>8, <1>10, <2>1
  <2>3. QED
    BY <1>6, <1>8, <2>2
<1>12. ASSUME NEW j \in a..(b - 1)
       PROVE  in[j]
  <2>1. CASE j <= i
    BY <1>8, <2>1
  <2>2. CASE j > i
    <3>1. j \in Nat /\ j < b /\ j <= n
      BY <1>8, <1>9, <1>1
    <3>2. j \notin R
      BY <1>7, <1>9, <3>1
    <3>3. QED
      BY <2>2, <3>1, <3>2
  <2>3. QED
    BY <2>1, <2>2, <1>1, <1>8
<1> DEFINE r == <<a, b - 1>>
<1>13. r[1] = a /\ r[2] = b - 1 /\ r \in (1..n) \X (1..n)
  BY <1>1, <1>8, <1>9, <1>10
<1>14. b - 1 < n => ~in[(b - 1) + 1]
  BY <1>1, <1>9
<1>15. a <= b - 1 /\ i <= b - 1
  BY <1>1, <1>8, <1>9
<1> HIDE DEF r
<1>16. r \in Runs(text)
  BY <1>3, <1>11, <1>12, <1>13, <1>14, <1>15
<1>17. QED
  BY <1>8, <1>13, <1>15, <1>16

(* The pieces cover the range if it begins with one. *)
LEMMA PieceThrough ==
  ASSUME NEW r \in Nat \X Nat, NEW starts \in SUBSET (r[1]..r[2]), r[1] \in starts,
         NEW i \in r[1]..r[2]
  PROVE  \E s \in Pieces(r, starts) : s[1] <= i /\ i <= s[2]
<1> DEFINE L == {m \in Nat : m <= i /\ i - m \in starts}
           R == {b \in Nat : b > i /\ (b = r[2] + 1 \/ b \in starts)}
<1>1. r[1] \in Nat /\ r[2] \in Nat /\ i \in Nat /\ r[1] <= i /\ i <= r[2]
  OBVIOUS
<1>2. i - r[1] \in L
  <2>1. i - (i - r[1]) = r[1]
    BY <1>1
  <2>2. QED
    BY <1>1, <2>1
<1>3. r[2] + 1 \in R
  BY <1>1
<1>4. PICK m \in L : \A x \in L : m <= x
  <2>1. L \in SUBSET Nat /\ L # {}
    BY <1>2
  <2> HIDE DEF L
  <2>2. QED
    BY <2>1, LeastNumber
<1>5. PICK b \in R : \A x \in R : b <= x
  <2>1. R \in SUBSET Nat /\ R # {}
    BY <1>3
  <2> HIDE DEF R
  <2>2. QED
    BY <2>1, LeastNumber
<1> DEFINE a == i - m
<1>6. m \in Nat /\ m <= i /\ a \in starts /\ a \in Nat /\ a <= i
  BY <1>1, <1>4
<1>7. b \in Nat /\ b > i /\ (b = r[2] + 1 \/ b \in starts) /\ b <= r[2] + 1
  BY <1>3, <1>5
<1>8. ASSUME NEW k \in starts
      PROVE  k <= a \/ k > b - 1
  <2>1. k \in Nat
    BY <1>1
  <2>2. SUFFICES ASSUME k > a, k < b
                 PROVE  FALSE
    BY <1>6, <1>7, <2>1
  <2>3. CASE k <= i
    <3>1. i - k \in Nat /\ i - k <= i /\ i - (i - k) = k
      BY <1>1, <2>1, <2>3
    <3>2. i - k \in L
      BY <3>1
    <3>3. m <= i - k
      BY <1>4, <3>2
    <3>4. QED
      BY <1>1, <1>6, <2>1, <2>2, <3>3
  <2>4. CASE k > i
    <3>1. k \in R
      BY <2>1, <2>4
    <3>2. QED
      BY <1>5, <1>7, <2>1, <2>2, <3>1
  <2>5. QED
    BY <1>1, <2>1, <2>3, <2>4
<1> DEFINE s == <<a, b - 1>>
<1> HIDE DEF a
<1>9. s[1] = a /\ s[2] = b - 1 /\ s \in starts \X (r[1]..r[2]) /\ s[1] <= s[2]
  <2>1. b - 1 \in r[1]..r[2] /\ a <= b - 1
    BY <1>1, <1>6, <1>7
  <2>2. QED
    BY <1>6, <2>1
<1>10. s[2] = r[2] \/ s[2] + 1 \in starts
  <2>1. CASE b = r[2] + 1
    BY <1>1, <1>7, <1>9, <2>1
  <2>2. CASE b \in starts
    <3>1. s[2] + 1 = b
      BY <1>7, <1>9
    <3>2. QED
      BY <2>2, <3>1
  <2>3. QED
    BY <1>7, <2>1, <2>2
<1> HIDE DEF s
<1>11. \A k \in starts : k <= s[1] \/ k > s[2]
  BY <1>8, <1>9
<1>12. s \in Pieces(r, starts)
  BY <1>9, <1>10, <1>11, Zenon DEF Pieces
<1>13. s[1] <= i /\ i <= s[2]
  BY <1>1, <1>6, <1>7, <1>9
<1>14. QED
  BY <1>12, <1>13

LEMMA SplitThrough ==
  ASSUME NEW text \in Text, NEW r \in Runs(text), NEW join, NEW i \in r[1]..r[2]
  PROVE  \E s \in SplitRun(text, r, join) : s[1] <= i /\ i <= s[2]
<1>1. r[1] \in Nat /\ r[2] \in Nat /\ r[1] <= r[2] /\ r \in Nat \X Nat
  BY DEF Runs, Text
<1> DEFINE cuts == Cuts(text, r)
<1>2. cuts \in SUBSET (r[1]..r[2])
  BY <1>1 DEF Cuts
<1>3. /\ cuts \cup {r[1]} \in SUBSET (r[1]..r[2]) /\ r[1] \in cuts \cup {r[1]}
      /\ (cuts \cup {r[1]}) \ {r[1] + 1} \in SUBSET (r[1]..r[2])
      /\ r[1] \in (cuts \cup {r[1]}) \ {r[1] + 1}
  BY <1>1, <1>2
<1>4. \/ SplitRun(text, r, join) = Pieces(r, cuts \cup {r[1]})
      \/ SplitRun(text, r, join) = Pieces(r, (cuts \cup {r[1]}) \ {r[1] + 1})
  BY DEF SplitRun
<1> HIDE DEF cuts
<1>5. CASE SplitRun(text, r, join) = Pieces(r, cuts \cup {r[1]})
  BY <1>1, <1>3, <1>5, PieceThrough
<1>6. CASE SplitRun(text, r, join) = Pieces(r, (cuts \cup {r[1]}) \ {r[1] + 1})
  BY <1>1, <1>3, <1>6, PieceThrough
<1>7. QED
  BY <1>4, <1>5, <1>6

(* A position is in a run if it is a letter, a mark or a digit, or an       *)
(* apostrophe between one of these and a letter.                           *)
Within(text, i) ==
  /\ text[i] \in Apostrophe
  /\ 1 < i /\ i < Len(text)
  /\ text[i - 1] \in Alphabetic \cup Numeric \cup Mark
  /\ text[i + 1] \in Alphabetic

LEMMA InRunMeans ==
  ASSUME NEW text \in Text, NEW i \in 1..Len(text)
  PROVE  InRun(text)[i] <=>
           text[i] \in Alphabetic \cup Numeric \cup Mark \/ Within(text, i)
<1> DEFINE in == InRun(text)
<1>1. Len(text) \in Nat
  BY DEF Text
<1>2. \A j \in 0..Len(text) :
        in[j] <=> /\ j > 0
                  /\ \/ text[j] \in RunCharacter
                     \/ /\ text[j] \in Apostrophe
                        /\ in[j - 1]
                        /\ j < Len(text)
                        /\ text[j + 1] \in Alphabetic
  BY InRunDef
<1> HIDE DEF in
<1>3. RunCharacter = Alphabetic \cup Numeric \cup Mark
  BY DEF RunCharacter, WordCharacter
<1>4. CASE text[i] \in RunCharacter
  BY <1>1, <1>2, <1>3, <1>4 DEF in
<1>5. CASE text[i] \notin RunCharacter
  <2>1. in[i] <=> /\ text[i] \in Apostrophe
                  /\ in[i - 1]
                  /\ i < Len(text)
                  /\ text[i + 1] \in Alphabetic
    BY <1>1, <1>2, <1>5
  <2>2. ASSUME text[i] \in Apostrophe
        PROVE  in[i - 1] <=> 1 < i /\ text[i - 1] \in RunCharacter
    <3>1. i - 1 \in 0..Len(text) /\ (i - 1) + 1 = i /\ (i - 1 > 0 <=> 1 < i)
      BY <1>1
    <3>2. text[i] \notin Alphabetic
      BY <2>2, CharAssumption
    <3>3. QED
      BY <1>2, <2>2, <3>1, <3>2
  <2>3. QED
    BY <1>3, <1>5, <2>1, <2>2 DEF Within, in
<1>6. QED
  BY <1>4, <1>5

(* Every letter is in one segment, other characters but for apostrophes    *)
(* within words in none.                                                   *)
LEMMA LetterOnce ==
  ASSUME NEW text \in Text, NEW join, NEW i \in 1..Len(text)
  PROVE  Cardinality({s \in Segments(text, join) : s[1] <= i /\ i <= s[2]})
         = IF text[i] \in Alphabetic \cup Numeric \cup Mark \/ Within(text, i)
           THEN 1 ELSE 0
<1> DEFINE around == {s \in Segments(text, join) : s[1] <= i /\ i <= s[2]}
<1>1. Len(text) \in Nat
  BY DEF Text
<1>2. CASE InRun(text)[i]
  <2>1. PICK r \in Runs(text) : r[1] <= i /\ i <= r[2]
    BY <1>2, RunThrough
  <2>2. r[1] \in Nat /\ r[2] \in Nat
    BY DEF Runs, Text
  <2>3. i \in r[1]..r[2]
    BY <1>1, <2>1, <2>2
  <2>4. PICK s \in SplitRun(text, r, join) : s[1] <= i /\ i <= s[2]
    BY <2>3, SplitThrough
  <2>5. s \in around
    BY <2>4 DEF Segments
  <2>6. ASSUME NEW t \in around
        PROVE  t = s
    <3>1. /\ s \in Segments(text, join) /\ t \in Segments(text, join)
          /\ s[1] <= i /\ i <= s[2] /\ t[1] <= i /\ i <= t[2]
      BY <2>5
    <3>2. /\ s[1] \in Nat /\ s[2] \in Nat /\ t[1] \in Nat /\ t[2] \in Nat
      BY <1>1, <3>1, SegmentsType
    <3>3. ~Apart(s, t)
      BY <1>1, <3>1, <3>2 DEF Apart
    <3>4. QED
      BY <3>1, <3>3, SegmentsApart
  <2> HIDE DEF around
  <2>7. around = {s}
    BY <2>5, <2>6
  <2>8. Cardinality(around) = 1
    BY <2>7, FS_Singleton
  <2>9. QED
    BY <1>2, <2>8, InRunMeans DEF around
<1>3. CASE ~InRun(text)[i]
  <2>1. ASSUME NEW s \in around
        PROVE  FALSE
    <3>1. PICK r \in Runs(text) : s \in SplitRun(text, r, join)
      BY DEF Segments
    <3>2. /\ r[1] \in Nat /\ r[2] \in Nat /\ s[1] \in Nat /\ s[2] \in Nat
          /\ r[1] <= s[1] /\ s[2] <= r[2]
      BY <3>1, SegmentWithin
    <3>3. i \in r[1]..r[2]
      BY <1>1, <3>2
    <3>4. InRun(text)[i]
      BY <3>3, Zenon DEF Runs
    <3>5. QED
      BY <1>3, <3>4
  <2>2. around = {}
    BY <2>1
  <2> HIDE DEF around
  <2>3. Cardinality(around) = 0
    BY <2>2, FS_EmptySet
  <2>4. QED
    BY <1>3, <2>3, InRunMeans DEF around
<1>4. QED
  BY <1>2, <1>3

-----------------------------------------------------------------------------
(* The count is the number of segments                                     *)

(* There are as many pieces as starts. *)
LEMMA PiecesCount ==
  ASSUME NEW r \in Nat \X Nat, NEW starts \in SUBSET (r[1]..r[2]), r[1] \in starts
  PROVE  /\ IsFiniteSet(starts) /\ IsFiniteSet(Pieces(r, starts))
         /\ Cardinality(Pieces(r, starts)) = Cardinality(starts)
<1> DEFINE pieces == Pieces(r, starts)
           begin == [s \in pieces |-> s[1]]
<1>1. r[1] \in Nat /\ r[2] \in Nat /\ starts \in SUBSET Nat
  OBVIOUS
<1>0. /\ \A k \in starts : k \in Nat
      /\ \A k \in r[1]..r[2] : k \in Nat
  <2>1. ASSUME NEW k \in r[1]..r[2]
        PROVE  k \in Nat
    BY <1>1
  <2>2. QED
    BY <2>1
<1>2. IsFiniteSet(starts)
  <2>1. IsFiniteSet(r[1]..r[2])
    BY <1>1, FS_Interval
  <2>2. QED
    BY <2>1, FS_Subset
<1>3. ASSUME NEW s \in pieces
      PROVE  /\ s \in starts \X (r[1]..r[2]) /\ s[1] <= s[2] /\ s[1] \in starts
             /\ s[1] \in Nat /\ s[2] \in Nat
             /\ \A k \in starts : k <= s[1] \/ k > s[2]
  <2>1. /\ s \in starts \X (r[1]..r[2]) /\ s[1] <= s[2]
        /\ \A k \in starts : k <= s[1] \/ k > s[2]
    BY Zenon DEF Pieces
  <2> HIDE DEF pieces
  <2>2. s[1] \in starts /\ s[2] \in r[1]..r[2]
    BY <2>1
  <2>3. s[1] \in Nat /\ s[2] \in Nat
    BY <1>0, <2>2, Zenon
  <2>4. QED
    BY <2>1, <2>2, <2>3, Zenon
<1>4. ASSUME NEW s \in pieces, NEW t \in pieces, s[1] = t[1]
      PROVE  s = t
  <2>1. ~Apart(s, t)
    BY <1>3, <1>4 DEF Apart
  <2>2. QED
    BY <1>1, <2>1, PiecesApart
<1>5. ASSUME NEW a \in starts
      PROVE  \E s \in pieces : s[1] = a
  <2>1. PICK s \in pieces : s[1] <= a /\ a <= s[2]
    BY PieceThrough
  <2>2. s[1] = a
    BY <1>1, <1>3, <2>1
  <2>3. QED
    BY <2>2
<1> HIDE DEF pieces
<1>6. begin \in Bijection(pieces, starts)
  <2>1. begin \in [pieces -> starts]
    BY <1>3
  <2>2. \A s, t \in pieces : begin[s] = begin[t] => s = t
    BY <1>4
  <2>3. \A a \in starts : \E s \in pieces : begin[s] = a
    BY <1>5
  <2>4. QED
    BY <2>1, <2>2, <2>3, Fun_IsBij
<1>7. IsFiniteSet(pieces) /\ Cardinality(pieces) = Cardinality(starts)
  <2>1. ExistsBijection(pieces, starts)
    BY <1>6 DEF ExistsBijection
  <2>2. QED
    BY <1>2, <2>1, FS_Bijection, Fun_ExistsBijSymmetric
<1>8. QED
  BY <1>2, <1>7 DEF pieces

(* What run_segment_count keeps.  *)
Counter == [segments : Nat, current : Nat, first : Nat, numeric : BOOLEAN]

One == [segments |-> 1, current |-> 1, first |-> 1, numeric |-> TRUE]

(* A character begins a segment, from the counter acc to v. *)
Begun(acc, number, v) ==
  /\ v \in Counter
  /\ v.segments = acc.segments + 1 /\ v.current = 1
  /\ acc.segments = 1 => v.first = acc.current /\ (v.numeric <=> number)
  /\ acc.segments # 1 => v.first = acc.first /\ (v.numeric <=> acc.numeric)

(* A character goes on with one. *)
GoneOn(acc, number, v) ==
  /\ v \in Counter
  /\ v.segments = acc.segments /\ v.current = acc.current + 1
  /\ v.first = acc.first
  /\ v.numeric <=> acc.numeric /\ (acc.segments = 2 => number)

LEMMA VisitedCut ==
  ASSUME NEW text, NEW acc \in Counter, NEW k, NEW last, Cut(text, k, last)
  PROVE  Begun(acc, text[k] \in Numeric, Visited(text, acc, k, last))
<1> DEFINE first == IF acc.segments = 1 THEN acc.current ELSE acc.first
           numeric == IF acc.segments = 1 THEN text[k] \in Numeric ELSE acc.numeric
<1>1. /\ acc.segments \in Nat /\ acc.current \in Nat /\ acc.first \in Nat
      /\ acc.numeric \in BOOLEAN
  BY DEF Counter
<1>2. first \in Nat
  BY <1>1
<1>3. numeric \in BOOLEAN
  <2>1. CASE acc.segments = 1
    <3>1. numeric = (text[k] \in Numeric)
      BY <2>1, Zenon
    <3> HIDE DEF numeric
    <3>2. QED
      BY <3>1
  <2>2. CASE acc.segments # 1
    <3>1. numeric = acc.numeric
      BY <2>2, Zenon
    <3> HIDE DEF numeric
    <3>2. QED
      BY <1>1, <3>1
  <2>3. QED
    BY <2>1, <2>2, Zenon
<1>4. Visited(text, acc, k, last) =
        [segments |-> acc.segments + 1, current |-> 1, first |-> first, numeric |-> numeric]
  BY Zenon DEF Visited
<1> HIDE DEF first, numeric
<1>5. Visited(text, acc, k, last) \in Counter
  BY <1>1, <1>2, <1>3, <1>4 DEF Counter
<1>6. /\ Visited(text, acc, k, last).segments = acc.segments + 1
      /\ Visited(text, acc, k, last).current = 1
      /\ Visited(text, acc, k, last).first = first
      /\ Visited(text, acc, k, last).numeric <=> numeric
  BY <1>4
<1>7. QED
  <2>1. acc.segments = 1 => first = acc.current /\ (numeric <=> text[k] \in Numeric)
    BY Zenon DEF first, numeric
  <2>2. acc.segments # 1 => first = acc.first /\ (numeric <=> acc.numeric)
    BY Zenon DEF first, numeric
  <2>3. QED
    BY <1>5, <1>6, <2>1, <2>2, Zenon DEF Begun

LEMMA VisitedOn ==
  ASSUME NEW text, NEW acc \in Counter, NEW k, NEW last, ~Cut(text, k, last)
  PROVE  GoneOn(acc, text[k] \in Numeric, Visited(text, acc, k, last))
<1> DEFINE numeric == IF acc.segments = 2 THEN acc.numeric /\ text[k] \in Numeric
                      ELSE acc.numeric
<1>1. /\ acc.segments \in Nat /\ acc.current \in Nat /\ acc.first \in Nat
      /\ acc.numeric \in BOOLEAN
  BY DEF Counter
<1>2. numeric \in BOOLEAN /\ (numeric <=> acc.numeric /\ (acc.segments = 2 => text[k] \in Numeric))
  BY <1>1
<1>3. Visited(text, acc, k, last) =
        [acc EXCEPT !.current = @ + 1, !.numeric = numeric]
  BY Zenon DEF Visited
<1> HIDE DEF numeric
<1>4. Visited(text, acc, k, last) \in Counter
  <2> DEFINE counted == [acc EXCEPT !.current = acc.current + 1]
  <2>1. counted \in Counter
    BY <1>1 DEF Counter
  <2> HIDE DEF counted
  <2>2. [counted EXCEPT !.numeric = numeric] \in Counter
    BY <1>2, <2>1 DEF Counter
  <2>3. QED
    BY <1>3, <2>2 DEF counted
<1>5. /\ Visited(text, acc, k, last).segments = acc.segments
      /\ Visited(text, acc, k, last).current = acc.current + 1
      /\ Visited(text, acc, k, last).first = acc.first
      /\ Visited(text, acc, k, last).numeric = numeric
  BY <1>3 DEF Counter
<1>6. QED
  BY <1>2, <1>4, <1>5, Zenon DEF GoneOn

IsVisit(text, r, f, k) ==
  f = [i \in r[1]..k |-> IF i = r[1] THEN One ELSE Visited(text, f[i - 1], i, r[2])]

LEMMA VisitExists ==
  ASSUME NEW text, NEW r \in Nat \X Nat
  PROVE  \A m \in Nat : \E f : IsVisit(text, r, f, r[1] + m)
<1> DEFINE S == {m \in Nat : \E f : IsVisit(text, r, f, r[1] + m)}
           At(f, i) == IF i = r[1] THEN One ELSE Visited(text, f[i - 1], i, r[2])
<1>0. r[1] \in Nat /\ r[2] \in Nat
  OBVIOUS
<1>1. 0 \in S
  <2> DEFINE g == [i \in r[1]..(r[1] + 0) |-> One]
  <2>1. \A i \in r[1]..(r[1] + 0) : i = r[1]
    BY <1>0
  <2>2. \A i \in r[1]..(r[1] + 0) : One = At(g, i)
    BY <2>1
  <2>3. g = [i \in r[1]..(r[1] + 0) |-> At(g, i)]
    BY <2>2, Zenon
  <2>4. IsVisit(text, r, g, r[1] + 0)
    BY <2>3, Zenon DEF IsVisit
  <2>5. QED
    BY <2>4
<1>2. ASSUME NEW m \in Nat, m \in S
      PROVE  m + 1 \in S
  <2> DEFINE k == r[1] + m
  <2>1. PICK f : IsVisit(text, r, f, k)
    BY <1>2
  <2>2. f = [i \in r[1]..k |-> At(f, i)]
    BY <2>1, Zenon DEF IsVisit
  <2>3. \A i \in r[1]..k : f[i] = At(f, i)
    BY <2>2, Zenon
  <2> DEFINE g == [i \in r[1]..(k + 1) |-> At(f, i)]
  <2>4. ASSUME NEW i \in r[1]..(k + 1)
        PROVE  At(f, i) = At(g, i)
    <3>1. CASE i = r[1]
      BY <3>1
    <3>2. CASE i # r[1]
      <4>1. i - 1 \in r[1]..k /\ i - 1 \in r[1]..(k + 1)
        BY <1>0, <3>2
      <4>2. g[i - 1] = At(f, i - 1)
        BY <4>1
      <4>3. f[i - 1] = At(f, i - 1)
        BY <2>3, <4>1
      <4>4. g[i - 1] = f[i - 1]
        BY <4>2, <4>3, Zenon
      <4> HIDE DEF g
      <4>5. QED
        BY <3>2, <4>4, Zenon
    <3>3. QED
      BY <3>1, <3>2
  <2>5. g = [i \in r[1]..(k + 1) |-> At(g, i)]
    BY <2>4, Zenon
  <2>6. k + 1 = r[1] + (m + 1)
    BY <1>0
  <2> HIDE DEF g, k
  <2>7. IsVisit(text, r, g, k + 1)
    BY <2>5, Zenon DEF IsVisit
  <2>8. QED
    BY <2>6, <2>7
<1> HIDE DEF S
<1>3. \A m \in Nat : m \in S
  BY <1>1, <1>2, AllNumbers
<1>4. QED
  BY <1>3 DEF S

(* The loop of run_segment_count, as a function of the position reached. *)
Visits(text, r, f) ==
  /\ f[r[1]] = One
  /\ \A i \in r[1] + 1..r[2] : f[i] = Visited(text, f[i - 1], i, r[2])

(* What it makes of the counter behind the run. *)
Tally(text, r, join, end) ==
  IF /\ join
     /\ end.segments >= 2
     /\ end.first = 1
     /\ text[r[1]] \in Upper
     /\ ~end.numeric
  THEN end.segments - 1
  ELSE end.segments

LEMMA RunSegmentCountDef ==
  ASSUME NEW text, NEW r \in Nat \X Nat, r[1] <= r[2], NEW join
  PROVE  \E f : /\ Visits(text, r, f)
               /\ RunSegmentCount(text, r, join) = Tally(text, r, join, f[r[2]])
<1>1. r[1] \in Nat /\ r[2] \in Nat
  OBVIOUS
<1> DEFINE f == CHOOSE g : IsVisit(text, r, g, r[2])
<1>2. IsVisit(text, r, f, r[2])
  <2>1. r[2] - r[1] \in Nat /\ r[1] + (r[2] - r[1]) = r[2]
    BY <1>1
  <2>2. \E g : IsVisit(text, r, g, r[2])
    BY <2>1, VisitExists
  <2>3. QED
    BY <2>2, Zenon
<1>3. RunSegmentCount(text, r, join) = Tally(text, r, join, f[r[2]])
  BY Zenon DEF RunSegmentCount, IsVisit, One, Tally
<1> HIDE DEF f
<1>4. \A i \in r[1]..r[2] :
        f[i] = IF i = r[1] THEN One ELSE Visited(text, f[i - 1], i, r[2])
  BY <1>2, Zenon DEF IsVisit
<1>5. r[1] \in r[1]..r[2]
  BY <1>1
<1>6. f[r[1]] = One
  BY <1>4, <1>5, Zenon
<1>7. ASSUME NEW i \in r[1] + 1..r[2]
      PROVE  f[i] = Visited(text, f[i - 1], i, r[2])
  <2>1. i \in r[1]..r[2] /\ i # r[1]
    BY <1>1
  <2>2. QED
    BY <1>4, <2>1, Zenon
<1>8. QED
  BY <1>3, <1>6, <1>7, Zenon DEF Visits

CutsUpTo(text, r, k) == {x \in Cuts(text, r) : x <= k}

LEMMA NextOn ==
  ASSUME NEW text, NEW r \in Nat \X Nat, NEW f, Visits(text, r, f),
         NEW k \in Nat, k + 1 \in r[1] + 1..r[2], f[k] \in Counter,
         k + 1 \notin Cuts(text, r)
  PROVE  /\ f[k + 1] \in Counter
         /\ f[k + 1].segments = f[k].segments
         /\ f[k + 1].current = f[k].current + 1
         /\ f[k + 1].first = f[k].first
         /\ f[k + 1].numeric <=>
              f[k].numeric /\ (f[k].segments = 2 => text[k + 1] \in Numeric)
<1>1. (k + 1) - 1 = k
  OBVIOUS
<1>2. f[k + 1] = Visited(text, f[k], k + 1, r[2])
  BY <1>1 DEF Visits
<1>3. ~Cut(text, k + 1, r[2])
  BY DEF Cuts
<1>4. GoneOn(f[k], text[k + 1] \in Numeric, f[k + 1])
  BY <1>2, <1>3, VisitedOn
<1>5. QED
  BY <1>4, Zenon DEF GoneOn

LEMMA NextCut ==
  ASSUME NEW text, NEW r \in Nat \X Nat, NEW f, Visits(text, r, f),
         NEW k \in Nat, k + 1 \in r[1] + 1..r[2], f[k] \in Counter,
         k + 1 \in Cuts(text, r)
  PROVE  /\ f[k + 1] \in Counter
         /\ f[k + 1].segments = f[k].segments + 1
         /\ f[k].segments = 1 => /\ f[k + 1].first = f[k].current
                                 /\ f[k + 1].numeric <=> text[k + 1] \in Numeric
         /\ f[k].segments # 1 => /\ f[k + 1].first = f[k].first
                                 /\ f[k + 1].numeric <=> f[k].numeric
<1>1. (k + 1) - 1 = k
  OBVIOUS
<1>2. f[k + 1] = Visited(text, f[k], k + 1, r[2])
  BY <1>1 DEF Visits
<1>3. Cut(text, k + 1, r[2])
  BY DEF Cuts
<1>4. Begun(f[k], text[k + 1] \in Numeric, f[k + 1])
  BY <1>2, <1>3, VisitedCut
<1>5. QED
  BY <1>4, Zenon DEF Begun

(* Until the first cut the segment at hand is the first. *)
LEMMA CountBeforeCut ==
  ASSUME NEW text, NEW r \in Nat \X Nat, NEW f, Visits(text, r, f), NEW c \in Nat,
         c <= r[2] + 1, \A x \in Cuts(text, r) : c <= x
  PROVE  \A m \in Nat : r[1] + m < c /\ r[1] + m <= r[2] =>
           /\ f[r[1] + m] \in Counter
           /\ f[r[1] + m].segments = 1 /\ f[r[1] + m].current = m + 1
<1> DEFINE S == {m \in Nat : r[1] + m < c /\ r[1] + m <= r[2] =>
                   /\ f[r[1] + m] \in Counter
                   /\ f[r[1] + m].segments = 1 /\ f[r[1] + m].current = m + 1}
<1>0. r[1] \in Nat /\ r[2] \in Nat
  OBVIOUS
<1>1. 0 \in S
  <2>1. r[1] + 0 = r[1]
    BY <1>0
  <2>2. f[r[1]] \in Counter /\ f[r[1]].segments = 1 /\ f[r[1]].current = 0 + 1
    BY DEF Visits, One, Counter
  <2>3. QED
    BY <2>1, <2>2
<1>2. ASSUME NEW m \in Nat, m \in S
      PROVE  m + 1 \in S
  <2>0. PICK k \in Nat : k = r[1] + m
    BY <1>0
  <2> SUFFICES ASSUME r[1] + (m + 1) < c, r[1] + (m + 1) <= r[2]
               PROVE  /\ f[r[1] + (m + 1)] \in Counter
                      /\ f[r[1] + (m + 1)].segments = 1
                      /\ f[r[1] + (m + 1)].current = (m + 1) + 1
    OBVIOUS
  <2>1. k \in Nat /\ k < c /\ k <= r[2] /\ r[1] + (m + 1) = k + 1
        /\ (k + 1) - 1 = k /\ k + 1 \in r[1] + 1..r[2]
    BY <1>0, <2>0
  <2>2. f[k] \in Counter /\ f[k].segments = 1 /\ f[k].current = m + 1
    BY <1>2, <2>0, <2>1
  <2>3. k + 1 \notin Cuts(text, r)
    BY <2>1
  <2>4. /\ f[k + 1] \in Counter /\ f[k + 1].segments = f[k].segments
        /\ f[k + 1].current = f[k].current + 1
    BY <2>1, <2>2, <2>3, NextOn
  <2>5. QED
    BY <2>1, <2>2, <2>4
<1> HIDE DEF S
<1>3. \A m \in Nat : m \in S
  BY <1>1, <1>2, AllNumbers
<1>4. QED
  BY <1>3 DEF S

(* From the first cut c on one segment is counted for each cut, the first   *)
(* one is known, and the second is a number as far as it has been read.    *)
CountAfterCut(text, r, c, acc, k) ==
  /\ acc \in Counter
  /\ acc.segments = 1 + Cardinality(CutsUpTo(text, r, k)) /\ acc.segments >= 2
  /\ acc.first = c - r[1]
  /\ acc.segments = 2 <=> \A x \in c + 1..k : x \notin Cuts(text, r)
  /\ acc.numeric <=> \A j \in c..k :
       (\A x \in c + 1..j : x \notin Cuts(text, r)) => text[j] \in Numeric

LEMMA CutsFinite ==
  ASSUME NEW text, NEW r \in Nat \X Nat, NEW k
  PROVE  /\ Cuts(text, r) \in SUBSET (r[1] + 1..r[2])
         /\ IsFiniteSet(Cuts(text, r)) /\ Cardinality(Cuts(text, r)) \in Nat
         /\ IsFiniteSet(CutsUpTo(text, r, k)) /\ Cardinality(CutsUpTo(text, r, k)) \in Nat
<1>1. Cuts(text, r) \in SUBSET (r[1] + 1..r[2])
  BY DEF Cuts
<1>2. r[1] + 1 \in Nat /\ r[2] \in Nat
  OBVIOUS
<1>3. IsFiniteSet(r[1] + 1..r[2])
  BY <1>2, FS_Interval
<1>4. IsFiniteSet(Cuts(text, r))
  BY <1>1, <1>3, FS_Subset
<1>5. CutsUpTo(text, r, k) \in SUBSET Cuts(text, r)
  BY DEF CutsUpTo
<1>6. IsFiniteSet(CutsUpTo(text, r, k))
  BY <1>4, <1>5, FS_Subset
<1>7. QED
  BY <1>1, <1>4, <1>6, FS_CardinalityType

LEMMA CountAtCut ==
  ASSUME NEW text, NEW r \in Nat \X Nat, NEW f, Visits(text, r, f),
         NEW c \in Cuts(text, r), \A x \in Cuts(text, r) : c <= x
  PROVE  CountAfterCut(text, r, c, f[c], c)
<1>0. r[1] \in Nat /\ r[2] \in Nat
  OBVIOUS
<1>1. c \in Nat /\ r[1] + 1 <= c /\ c <= r[2] /\ Cut(text, c, r[2])
  BY <1>0 DEF Cuts
<1>2. /\ f[c - 1] \in Counter
      /\ f[c - 1].segments = 1 /\ f[c - 1].current = c - r[1]
  <2> DEFINE m == (c - 1) - r[1]
  <2>1. m \in Nat /\ r[1] + m = c - 1 /\ c - 1 < c /\ c - 1 <= r[2] /\ m + 1 = c - r[1]
        /\ c <= r[2] + 1
    BY <1>0, <1>1
  <2> HIDE DEF m
  <2>2. QED
    BY <1>1, <2>1, CountBeforeCut
<1>3. PICK k \in Nat : k + 1 = c /\ k = c - 1 /\ k + 1 \in r[1] + 1..r[2]
  BY <1>0, <1>1
<1>4. /\ f[c] \in Counter /\ f[c].segments = 2 /\ f[c].first = c - r[1]
      /\ f[c].numeric <=> text[c] \in Numeric
  <2>1. /\ f[c] \in Counter
        /\ f[c].segments = f[c - 1].segments + 1
        /\ f[c - 1].segments = 1 => /\ f[c].first = f[c - 1].current
                                    /\ f[c].numeric <=> text[c] \in Numeric
    BY <1>2, <1>3, NextCut
  <2>2. QED
    BY <1>2, <2>1
<1>5. Cardinality(CutsUpTo(text, r, c)) = 1
  <2>1. \A x \in Cuts(text, r) : x \in Nat
    BY <1>0 DEF Cuts
  <2>2. ASSUME NEW x \in Cuts(text, r), x <= c
        PROVE  x = c
    <3>1. c <= x /\ x \in Nat
      BY <2>1
    <3>2. QED
      BY <1>1, <2>2, <3>1
  <2>3. c <= c
    BY <1>1
  <2>4. CutsUpTo(text, r, c) = {c}
    BY <2>2, <2>3, Zenon DEF CutsUpTo
  <2>5. QED
    BY <2>4, FS_Singleton
<1>6. c + 1..c = {} /\ c..c = {c}
  BY <1>1
<1>7. QED
  BY <1>4, <1>5, <1>6 DEF CountAfterCut

LEMMA CountNext ==
  ASSUME NEW text, NEW r \in Nat \X Nat, NEW f, Visits(text, r, f),
         NEW c \in Cuts(text, r), NEW k \in Nat, c <= k, k + 1 <= r[2],
         CountAfterCut(text, r, c, f[k], k)
  PROVE  CountAfterCut(text, r, c, f[k + 1], k + 1)
<1>0. r[1] \in Nat /\ r[2] \in Nat
  OBVIOUS
<1>1. c \in Nat /\ r[1] + 1 <= c
  BY <1>0 DEF Cuts
<1>2. k + 1 \in r[1] + 1..r[2] /\ (k + 1) - 1 = k
  BY <1>0, <1>1
<1>4. /\ f[k] \in Counter
      /\ f[k].segments = 1 + Cardinality(CutsUpTo(text, r, k)) /\ f[k].segments >= 2
      /\ f[k].first = c - r[1]
      /\ f[k].segments = 2 <=> \A x \in c + 1..k : x \notin Cuts(text, r)
      /\ f[k].numeric <=> \A j \in c..k :
           (\A x \in c + 1..j : x \notin Cuts(text, r)) => text[j] \in Numeric
  BY DEF CountAfterCut
<1>5. f[k].segments \in Nat
  BY <1>4 DEF Counter
<1>6. /\ IsFiniteSet(CutsUpTo(text, r, k)) /\ Cardinality(CutsUpTo(text, r, k)) \in Nat
      /\ \A x \in Cuts(text, r) : x \in Nat
  <2>1. \A x \in Cuts(text, r) : x \in Nat
    BY <1>0 DEF Cuts
  <2>2. QED
    BY <2>1, CutsFinite
<1>7. /\ \A x \in c + 1..k + 1 : x \in c + 1..k \/ x = k + 1
      /\ \A x \in c + 1..k : x \in c + 1..k + 1
      /\ k + 1 \in c + 1..k + 1
      /\ \A j \in c..k + 1 : j \in c..k \/ j = k + 1
      /\ \A j \in c..k : j \in c..k + 1
      /\ k + 1 \in c..k + 1
  BY <1>1
<1>8. CASE Cut(text, k + 1, r[2])
  <2>1. k + 1 \in Cuts(text, r)
    BY <1>2, <1>8 DEF Cuts
  <2>2. /\ f[k + 1] \in Counter
        /\ f[k + 1].segments = f[k].segments + 1
        /\ f[k].segments # 1 => /\ f[k + 1].first = f[k].first
                                /\ f[k + 1].numeric <=> f[k].numeric
    BY <1>2, <1>4, <2>1, NextCut
  <2>3. CutsUpTo(text, r, k + 1) = CutsUpTo(text, r, k) \cup {k + 1}
        /\ k + 1 \notin CutsUpTo(text, r, k)
    BY <1>6, <2>1 DEF CutsUpTo
  <2>4. Cardinality(CutsUpTo(text, r, k + 1)) = Cardinality(CutsUpTo(text, r, k)) + 1
    BY <1>6, <2>3, FS_AddElement
  <2>5. f[k + 1].segments # 2 /\ f[k + 1].segments >= 2
    BY <1>4, <1>5, <2>2
  <2>6. f[k + 1].first = c - r[1] /\ (f[k + 1].numeric <=> f[k].numeric)
    BY <1>4, <2>2
  <2>7. f[k + 1].numeric <=> \A j \in c..k + 1 :
          (\A x \in c + 1..j : x \notin Cuts(text, r)) => text[j] \in Numeric
    BY <1>4, <1>7, <2>1, <2>6
  <2>8. ~\A x \in c + 1..k + 1 : x \notin Cuts(text, r)
    BY <1>7, <2>1
  <2>9. f[k + 1].segments = 1 + Cardinality(CutsUpTo(text, r, k + 1))
    BY <1>4, <1>6, <2>2, <2>4
  <2>10. QED
    BY <2>2, <2>5, <2>6, <2>7, <2>8, <2>9 DEF CountAfterCut
<1>9. CASE ~Cut(text, k + 1, r[2])
  <2>1. k + 1 \notin Cuts(text, r)
    BY <1>9 DEF Cuts
  <2>2. /\ f[k + 1] \in Counter
        /\ f[k + 1].segments = f[k].segments /\ f[k + 1].first = f[k].first
        /\ f[k + 1].numeric <=> f[k].numeric /\ (f[k].segments = 2 => text[k + 1] \in Numeric)
    BY <1>2, <1>4, <2>1, NextOn
  <2>3. CutsUpTo(text, r, k + 1) = CutsUpTo(text, r, k)
    BY <1>6, <2>1 DEF CutsUpTo
  <2>4. f[k].segments = 2 <=> \A x \in c + 1..k + 1 : x \notin Cuts(text, r)
    BY <1>4, <1>7, <2>1
  <2>5. f[k + 1].numeric <=> \A j \in c..k + 1 :
          (\A x \in c + 1..j : x \notin Cuts(text, r)) => text[j] \in Numeric
    BY <1>4, <1>7, <2>2, <2>4
  <2>6. QED
    BY <1>4, <2>2, <2>3, <2>4, <2>5 DEF CountAfterCut
<1>10. QED
  BY <1>8, <1>9

LEMMA CountToEnd ==
  ASSUME NEW text, NEW r \in Nat \X Nat, NEW f, Visits(text, r, f),
         NEW c \in Cuts(text, r), \A x \in Cuts(text, r) : c <= x
  PROVE  CountAfterCut(text, r, c, f[r[2]], r[2])
<1> DEFINE S == {m \in Nat : c + m <= r[2] => CountAfterCut(text, r, c, f[c + m], c + m)}
<1>0. r[1] \in Nat /\ r[2] \in Nat
  OBVIOUS
<1>1. c \in Nat /\ c <= r[2]
  BY <1>0 DEF Cuts
<1>2. 0 \in S
  <2>1. c + 0 = c
    BY <1>1
  <2>2. QED
    BY <2>1, CountAtCut
<1>3. ASSUME NEW m \in Nat, m \in S
      PROVE  m + 1 \in S
  <2> SUFFICES ASSUME c + (m + 1) <= r[2]
               PROVE  CountAfterCut(text, r, c, f[c + (m + 1)], c + (m + 1))
    OBVIOUS
  <2>1. c + m \in Nat /\ c <= c + m /\ (c + m) + 1 <= r[2] /\ c + (m + 1) = (c + m) + 1
        /\ c + m <= r[2]
    BY <1>0, <1>1
  <2>2. CountAfterCut(text, r, c, f[c + m], c + m)
    BY <1>3, <2>1
  <2>3. CountAfterCut(text, r, c, f[(c + m) + 1], (c + m) + 1)
    BY <2>1, <2>2, CountNext
  <2>4. QED
    BY <2>1, <2>3
<1> HIDE DEF S
<1>4. \A m \in Nat : m \in S
  BY <1>2, <1>3, AllNumbers
<1>5. r[2] - c \in Nat /\ c + (r[2] - c) = r[2]
  BY <1>0, <1>1
<1>6. QED
  BY <1>0, <1>4, <1>5 DEF S

(* The second piece of a run is a number if what the loop has read up to    *)
(* the next cut is.                                                        *)
LEMMA SecondPiece ==
  ASSUME NEW text, NEW r \in Nat \X Nat, NEW c \in Cuts(text, r),
         NEW s \in Pieces(r, Cuts(text, r) \cup {r[1]}), s[1] = c
  PROVE  AllIn(text, s, Numeric) <=>
           \A j \in c..r[2] :
             (\A x \in c + 1..j : x \notin Cuts(text, r)) => text[j] \in Numeric
<1> DEFINE cuts == Cuts(text, r)
<1>1. r[1] \in Nat /\ r[2] \in Nat /\ \A x \in cuts : x \in Nat /\ r[1] < x /\ x <= r[2]
  BY DEF Cuts
<1>2. /\ s \in (cuts \cup {r[1]}) \X (r[1]..r[2]) /\ s[1] <= s[2]
      /\ \A k \in cuts : k <= c \/ k > s[2]
      /\ s[2] = r[2] \/ s[2] + 1 \in cuts \cup {r[1]}
  BY Zenon DEF Pieces
<1>3. c \in cuts
  OBVIOUS
<1> HIDE DEF cuts
<1>4. c \in Nat /\ r[1] < c /\ s[2] \in Nat /\ s[2] <= r[2] /\ c <= s[2]
  <2>1. s[2] \in r[1]..r[2]
    BY <1>2
  <2>2. QED
    BY <1>1, <1>2, <1>3, <2>1
<1>5. ASSUME NEW j \in c..r[2]
      PROVE  (\A x \in c + 1..j : x \notin cuts) <=> j <= s[2]
  <2>1. ASSUME j <= s[2], NEW x \in c + 1..j, x \in cuts
        PROVE  FALSE
    BY <1>1, <1>2, <1>4, <2>1
  <2>2. ASSUME ~(j <= s[2])
        PROVE  \E x \in c + 1..j : x \in cuts
    <3>1. s[2] # r[2] /\ s[2] + 1 # r[1] /\ s[2] + 1 \in c + 1..j
      BY <1>1, <1>4, <2>2
    <3>2. s[2] + 1 \in cuts
      BY <1>2, <3>1
    <3>3. QED
      BY <3>1, <3>2
  <2>3. QED
    BY <2>1, <2>2
<1>6. \A j : j \in s[1]..s[2] <=> j \in c..r[2] /\ j <= s[2]
  BY <1>1, <1>4
<1>7. AllIn(text, s, Numeric) <=>
        \A j \in c..r[2] : j <= s[2] => text[j] \in Numeric
  BY <1>6, Zenon DEF AllIn
<1>8. QED
  BY <1>5, <1>7, Zenon DEF cuts

(* identifier_segment_count joins where split_run does. *)
LEMMA JoinedAlike ==
  ASSUME NEW text, NEW r \in Nat \X Nat, NEW acc,
         NEW c \in Cuts(text, r), \A x \in Cuts(text, r) : c <= x,
         CountAfterCut(text, r, c, acc, r[2])
  PROVE  /\ JoinsPrefix(text, Pieces(r, Cuts(text, r) \cup {r[1]}), r) <=>
              acc.first = 1 /\ text[r[1]] \in Upper /\ ~acc.numeric
         /\ acc.first = 1 => r[1] + 1 \in Cuts(text, r)
<1> DEFINE cuts == Cuts(text, r)
           starts == cuts \cup {r[1]}
           pieces == Pieces(r, starts)
<1>1. /\ r[1] \in Nat /\ r[2] \in Nat
      /\ \A x \in cuts : x \in Nat /\ r[1] < x /\ x <= r[2]
  BY DEF Cuts
<1>2. c \in cuts /\ \A x \in cuts : c <= x
  OBVIOUS
<1>3. acc.first = c - r[1]
  BY DEF CountAfterCut
<1>4. acc.numeric <=> \A j \in c..r[2] :
        (\A x \in c + 1..j : x \notin Cuts(text, r)) => text[j] \in Numeric
  BY DEF CountAfterCut
<1>5. ASSUME NEW s \in pieces, s[1] = c
      PROVE  AllIn(text, s, Numeric) <=> acc.numeric
  BY <1>4, <1>5, SecondPiece, Zenon
<1>6. acc.first = 1 <=> r[1] + 1 \in cuts
  <2> HIDE DEF cuts
  <2>1. c \in Nat /\ r[1] < c
    BY <1>1, <1>2
  <2>2. ASSUME r[1] + 1 \in cuts
        PROVE  c = r[1] + 1
    BY <1>1, <1>2, <2>1, <2>2
  <2>3. QED
    BY <1>1, <1>2, <1>3, <2>1, <2>2
<1>7. starts \in SUBSET (r[1]..r[2]) /\ r[1] \in starts /\ c \in starts /\ c \in r[1]..r[2]
  <2> HIDE DEF cuts
  <2>1. r[1] <= r[2]
    BY <1>1, <1>2
  <2>2. QED
    BY <1>1, <1>2, <2>1
<1>8. CASE acc.first = 1
  <2>1. c = r[1] + 1
    BY <1>1, <1>2, <1>3, <1>8
  <2>2. <<r[1], r[1]>> \in pieces
    <3> DEFINE s == <<r[1], r[1]>>
    <3>1. /\ s \in starts \X (r[1]..r[2]) /\ s[1] = r[1] /\ s[2] = r[1] /\ s[1] <= s[2]
      BY <1>1, <1>7
    <3>2. s[2] + 1 \in starts
      BY <1>7, <2>1
    <3>3. \A k \in starts : k <= s[1] \/ k > s[2]
      BY <1>1, <1>7
    <3> HIDE DEF s, starts
    <3>4. s \in pieces
      BY <3>1, <3>2, <3>3, Zenon DEF Pieces
    <3>5. QED
      BY <3>4 DEF s
  <2>3. PICK s \in pieces : s[1] <= c /\ c <= s[2]
    <3> HIDE DEF starts
    <3>1. QED
      BY <1>7, PieceThrough
  <2>4. s[1] = c
    <3>1. /\ s \in starts \X (r[1]..r[2])
          /\ \A k \in starts : k <= s[1] \/ k > s[2]
      BY Zenon DEF Pieces
    <3> HIDE DEF starts, pieces
    <3>2. s[1] \in r[1]..r[2] /\ s[2] \in r[1]..r[2]
      BY <1>7, <3>1
    <3>3. QED
      BY <1>1, <1>7, <2>3, <3>1, <3>2
  <2>5. AllIn(text, s, Numeric) <=> acc.numeric
    BY <1>5, <2>4
  <2>6. ASSUME NEW t \in pieces, t[1] = r[1] + 1, ~AllIn(text, t, Numeric)
        PROVE  ~acc.numeric
    BY <1>5, <2>1, <2>6
  <2> HIDE DEF pieces
  <2>7. JoinsPrefix(text, pieces, r) <=> text[r[1]] \in Upper /\ ~acc.numeric
    BY <2>1, <2>2, <2>4, <2>5, <2>6, Zenon DEF JoinsPrefix
  <2>8. QED
    BY <1>6, <1>8, <2>7, Zenon DEF pieces, starts, cuts
<1>9. CASE acc.first # 1
  <2>1. ASSUME NEW s \in pieces, s[1] = r[1] + 1
        PROVE  FALSE
    <3>1. s[1] \in starts
      <4>1. s \in starts \X (r[1]..r[2])
        BY Zenon DEF Pieces
      <4> HIDE DEF starts, pieces
      <4>2. QED
        BY <4>1
    <3>2. r[1] + 1 \notin starts
      BY <1>1, <1>6, <1>9
    <3>3. QED
      BY <2>1, <3>1, <3>2
  <2>2. ~JoinsPrefix(text, pieces, r)
    BY <2>1, Zenon DEF JoinsPrefix
  <2>3. QED
    BY <1>9, <2>2, Zenon
<1>10. QED
  BY <1>8, <1>9, Zenon

LEMMA RunCount ==
  ASSUME NEW text \in Text, NEW r \in Runs(text), NEW join \in BOOLEAN
  PROVE  /\ RunSegmentCount(text, r, join) = Cardinality(SplitRun(text, r, join))
         /\ IsFiniteSet(SplitRun(text, r, join))
<1> DEFINE cuts == Cuts(text, r)
           starts == cuts \cup {r[1]}
           joined == starts \ {r[1] + 1}
           pieces == Pieces(r, starts)
<1>1. r[1] \in Nat /\ r[2] \in Nat /\ r[1] <= r[2] /\ r \in Nat \X Nat
  BY DEF Runs, Text
<1>2. \A x \in cuts : x \in Nat /\ r[1] < x /\ x <= r[2]
  BY <1>1 DEF Cuts
<1>3. IsFiniteSet(cuts) /\ Cardinality(cuts) \in Nat
  BY <1>1, CutsFinite
<1>4. SplitRun(text, r, join) =
        IF join /\ JoinsPrefix(text, pieces, r) THEN Pieces(r, joined) ELSE pieces
  BY Zenon DEF SplitRun
<1>5. PICK f :
        /\ Visits(text, r, f)
        /\ RunSegmentCount(text, r, join) = Tally(text, r, join, f[r[2]])
  BY <1>1, RunSegmentCountDef
<1> HIDE DEF cuts
<1>6. /\ IsFiniteSet(starts) /\ Cardinality(starts) = Cardinality(cuts) + 1
      /\ starts \in SUBSET (r[1]..r[2]) /\ r[1] \in starts
  <2>1. r[1] \notin cuts
    BY <1>1, <1>2
  <2>2. IsFiniteSet(starts) /\ Cardinality(starts) = Cardinality(cuts) + 1
    BY <1>3, <2>1, FS_AddElement
  <2>3. starts \in SUBSET (r[1]..r[2])
    BY <1>1, <1>2
  <2>4. QED
    BY <2>2, <2>3
<1>7. joined \in SUBSET (r[1]..r[2]) /\ r[1] \in joined
  BY <1>1, <1>6
<1> HIDE DEF starts, joined
<1>8. /\ IsFiniteSet(pieces) /\ Cardinality(pieces) = Cardinality(cuts) + 1
  BY <1>1, <1>6, PiecesCount
<1>9. /\ IsFiniteSet(Pieces(r, joined))
      /\ Cardinality(Pieces(r, joined)) = Cardinality(joined)
  BY <1>1, <1>7, PiecesCount
<1>10. CASE cuts = {}
  <2>1. f[r[2]].segments = 1
    <3>1. r[2] - r[1] \in Nat /\ r[1] + (r[2] - r[1]) = r[2] /\ r[2] < r[2] + 1
          /\ r[2] + 1 \in Nat /\ r[2] + 1 <= r[2] + 1 /\ r[2] <= r[2]
      BY <1>1
    <3>2. \A x \in Cuts(text, r) : r[2] + 1 <= x
      BY <1>10 DEF cuts
    <3>3. \A m \in Nat : r[1] + m < r[2] + 1 /\ r[1] + m <= r[2] =>
            f[r[1] + m].segments = 1
      BY <1>1, <1>5, <3>1, <3>2, CountBeforeCut
    <3>4. QED
      BY <3>1, <3>3
  <2>2. RunSegmentCount(text, r, join) = 1
    BY <1>5, <2>1 DEF Tally
  <2>3. ASSUME NEW s \in pieces, s[1] = r[1] + 1
        PROVE  FALSE
    <3>1. s \in starts \X (r[1]..r[2])
      BY Zenon DEF Pieces
    <3>2. s[1] \in starts
      BY <3>1
    <3>3. s[1] = r[1]
      BY <1>10, <3>2 DEF starts
    <3>4. QED
      BY <1>1, <2>3, <3>3
  <2>4. SplitRun(text, r, join) = pieces
    BY <1>4, <2>3, Zenon DEF JoinsPrefix
  <2>5. Cardinality(cuts) = 0
    BY <1>10, FS_EmptySet
  <2>6. QED
    BY <1>8, <2>2, <2>4, <2>5
<1>11. CASE cuts # {}
  <2>1. PICK c \in cuts : \A x \in cuts : c <= x
    <3>1. cuts \in SUBSET Nat
      BY <1>2
    <3>2. QED
      BY <1>11, <3>1, LeastNumber
  <2> DEFINE end == f[r[2]]
  <2>2. CountAfterCut(text, r, c, end, r[2])
    BY <1>1, <1>5, <2>1, CountToEnd DEF cuts
  <2>3. CutsUpTo(text, r, r[2]) = cuts
    BY <1>2 DEF CutsUpTo, cuts
  <2>4. end.segments = 1 + Cardinality(cuts) /\ end.segments >= 2
    BY <2>2, <2>3 DEF CountAfterCut
  <2>5. /\ JoinsPrefix(text, pieces, r) <=>
             end.first = 1 /\ text[r[1]] \in Upper /\ ~end.numeric
        /\ end.first = 1 => r[1] + 1 \in cuts
    BY <1>1, <2>1, <2>2, JoinedAlike DEF cuts, starts
  <2>6. RunSegmentCount(text, r, join) =
          IF join /\ JoinsPrefix(text, pieces, r)
          THEN end.segments - 1 ELSE end.segments
    BY <1>5, <2>4, <2>5, Zenon DEF Tally
  <2> HIDE DEF end
  <2>7. CASE join /\ JoinsPrefix(text, pieces, r)
    <3>1. r[1] + 1 \in starts
      BY <2>5, <2>7 DEF starts
    <3>2. Cardinality(joined) = Cardinality(starts) - 1
      BY <1>6, <3>1, FS_RemoveElement DEF joined
    <3>3. SplitRun(text, r, join) = Pieces(r, joined)
      BY <1>4, <2>7, Zenon
    <3>4. RunSegmentCount(text, r, join) = end.segments - 1
      BY <2>6, <2>7, Zenon
    <3>5. Cardinality(Pieces(r, joined)) = end.segments - 1
      BY <1>3, <1>6, <1>9, <2>4, <3>2
    <3>6. QED
      BY <1>9, <3>3, <3>4, <3>5
  <2>8. CASE ~(join /\ JoinsPrefix(text, pieces, r))
    <3>1. SplitRun(text, r, join) = pieces
      BY <1>4, <2>8, Zenon
    <3>2. RunSegmentCount(text, r, join) = end.segments
      BY <2>6, <2>8, Zenon
    <3>3. Cardinality(pieces) = end.segments
      BY <1>3, <1>8, <2>4
    <3>4. QED
      BY <1>8, <3>1, <3>2, <3>3
  <2>9. QED
    BY <2>7, <2>8
<1>12. QED
  BY <1>10, <1>11

(* The segments of some of the runs. *)
SplitAll(text, join, s) == UNION {SplitRun(text, r, join) : r \in s}

LEMMA SplitAllFinite ==
  ASSUME NEW text \in Text, NEW join, NEW s \in SUBSET Runs(text)
  PROVE  /\ IsFiniteSet(SplitAll(text, join, s))
         /\ Cardinality(SplitAll(text, join, s)) \in Nat
<1>1. SplitAll(text, join, s) \in SUBSET Segments(text, join)
  BY DEF SplitAll, Segments
<1>2. IsFiniteSet(Segments(text, join))
  BY SegmentsType
<1>3. QED
  BY <1>1, <1>2, FS_Subset, FS_CardinalityType

LEMMA SplitAllNext ==
  ASSUME NEW text \in Text, NEW join \in BOOLEAN, NEW s \in SUBSET Runs(text), NEW x \in s
  PROVE  Cardinality(SplitAll(text, join, s)) =
           RunSegmentCount(text, x, join) + Cardinality(SplitAll(text, join, s \ {x}))
<1> DEFINE rest == SplitAll(text, join, s \ {x})
           own == SplitRun(text, x, join)
<1>1. SplitAll(text, join, s) = own \cup rest
  BY DEF SplitAll
<1>2. ASSUME NEW p \in own, p \in rest
      PROVE  FALSE
  <2>1. PICK r \in s \ {x} : p \in SplitRun(text, r, join)
    BY <1>2 DEF SplitAll
  <2>2. r \in Runs(text) /\ x \in Runs(text) /\ r # x
    OBVIOUS
  <2>3. Apart(r, x)
    BY <2>2, RunsApart
  <2>4. /\ p[1] \in Nat /\ p[2] \in Nat /\ r[1] \in Nat /\ r[2] \in Nat
        /\ r[1] <= p[1] /\ p[1] <= p[2] /\ p[2] <= r[2]
    BY <2>1, <2>2, SegmentWithin
  <2>5. /\ x[1] \in Nat /\ x[2] \in Nat /\ x[1] <= p[1] /\ p[2] <= x[2]
    BY <2>2, SegmentWithin
  <2>6. QED
    BY <2>3, <2>4, <2>5 DEF Apart
<1>3. own \cap rest = {}
  BY <1>2
<1>4. /\ RunSegmentCount(text, x, join) = Cardinality(own) /\ IsFiniteSet(own)
  BY RunCount
<1>5. s \ {x} \in SUBSET Runs(text)
  OBVIOUS
<1>6. IsFiniteSet(rest) /\ Cardinality(rest) \in Nat
  BY <1>5, SplitAllFinite
<1> HIDE DEF own, rest
<1>7. Cardinality(own) \in Nat
  BY <1>4, FS_CardinalityType
<1>8. Cardinality(own \cup rest) = Cardinality(own) + Cardinality(rest) - Cardinality(own \cap rest)
  BY <1>4, <1>6, FS_Union
<1>9. Cardinality(own \cap rest) = 0
  BY <1>3, FS_EmptySet
<1>10. Cardinality(own \cup rest) = Cardinality(own) + Cardinality(rest)
  BY <1>6, <1>7, <1>8, <1>9
<1>11. QED
  BY <1>1, <1>4, <1>10 DEF rest

(* The sum over the runs, as the fold adds it up. *)
AddedUp(text, join, iter) ==
  iter = [s \in SUBSET Runs(text) |->
            IF s = {} THEN 0
            ELSE RunSegmentCount(text, CHOOSE x \in s : TRUE, join)
                 + iter[s \ {CHOOSE x \in s : TRUE}]]

LEMMA SegmentCountDef ==
  ASSUME NEW text, NEW join
  PROVE  SegmentCount(text, join) = (CHOOSE iter : AddedUp(text, join, iter))[Runs(text)]
  BY Zenon DEF SegmentCount, MapThenSumSet, MapThenFoldSet, AddedUp

LEMMA AddedUpExists ==
  ASSUME NEW text \in Text, NEW join \in BOOLEAN
  PROVE  \E iter : AddedUp(text, join, iter)
<1> DEFINE g == [s \in SUBSET Runs(text) |-> Cardinality(SplitAll(text, join, s))]
           Sum(h, s) == IF s = {} THEN 0
                        ELSE RunSegmentCount(text, CHOOSE x \in s : TRUE, join)
                             + h[s \ {CHOOSE x \in s : TRUE}]
<1>1. ASSUME NEW s \in SUBSET Runs(text)
      PROVE  g[s] = Sum(g, s)
  <2>1. CASE s = {}
    <3>1. SplitAll(text, join, s) = {}
      BY <2>1 DEF SplitAll
    <3>2. QED
      BY <2>1, <3>1, FS_EmptySet
  <2>2. CASE s # {}
    <3>1. PICK x \in s : x = CHOOSE y \in s : TRUE
      BY <2>2
    <3>2. s \ {x} \in SUBSET Runs(text)
      OBVIOUS
    <3>3. g[s] = RunSegmentCount(text, x, join) + g[s \ {x}]
      BY <3>2, SplitAllNext
    <3> HIDE DEF g
    <3>4. QED
      BY <2>2, <3>1, <3>3, Zenon
  <2>3. QED
    BY <2>1, <2>2
<1>2. g = [s \in SUBSET Runs(text) |-> Sum(g, s)]
  BY <1>1, Zenon
<1> HIDE DEF g
<1>3. AddedUp(text, join, g)
  BY <1>2, Zenon DEF AddedUp
<1>4. QED
  BY <1>3

LEMMA AddedUpCounts ==
  ASSUME NEW text \in Text, NEW join \in BOOLEAN, NEW f, AddedUp(text, join, f)
  PROVE  f[Runs(text)] = Cardinality(Segments(text, join))
<1> DEFINE S == {n \in Nat : \A s \in SUBSET Runs(text) :
                   Cardinality(s) = n => f[s] = Cardinality(SplitAll(text, join, s))}
<1>0. IsFiniteSet(Runs(text))
  <2>1. Len(text) \in Nat /\ DOMAIN text = 1..Len(text)
    BY DEF Text
  <2>2. IsFiniteSet(1..Len(text))
    BY <2>1, FS_Interval
  <2>3. IsFiniteSet((1..Len(text)) \X (1..Len(text)))
    BY <2>2, FS_Product
  <2>4. Runs(text) \in SUBSET ((1..Len(text)) \X (1..Len(text)))
    BY <2>1 DEF Runs
  <2>5. QED
    BY <2>3, <2>4, FS_Subset
<1>1. \A s \in SUBSET Runs(text) : IsFiniteSet(s) /\ Cardinality(s) \in Nat
  BY <1>0, FS_Subset, FS_CardinalityType
<1>2. \A s \in SUBSET Runs(text) :
        f[s] = IF s = {} THEN 0
               ELSE RunSegmentCount(text, CHOOSE x \in s : TRUE, join)
                    + f[s \ {CHOOSE x \in s : TRUE}]
  BY Zenon DEF AddedUp
<1>3. 0 \in S
  <2>1. ASSUME NEW s \in SUBSET Runs(text), Cardinality(s) = 0
        PROVE  f[s] = Cardinality(SplitAll(text, join, s))
    <3>1. s = {}
      BY <1>1, <2>1, FS_EmptySet
    <3>2. SplitAll(text, join, s) = {}
      BY <3>1 DEF SplitAll
    <3>3. f[s] = 0
      BY <1>2, <3>1, Zenon
    <3>4. QED
      BY <3>2, <3>3, FS_EmptySet
  <2>2. QED
    BY <2>1
<1>4. ASSUME NEW n \in Nat, n \in S
      PROVE  n + 1 \in S
  <2>1. ASSUME NEW s \in SUBSET Runs(text), Cardinality(s) = n + 1
        PROVE  f[s] = Cardinality(SplitAll(text, join, s))
    <3>1. s # {}
      BY <2>1, FS_EmptySet
    <3>2. PICK x \in s : x = CHOOSE y \in s : TRUE
      BY <3>1
    <3>3. s \ {x} \in SUBSET Runs(text)
      OBVIOUS
    <3>4. Cardinality(s \ {x}) = n
      <4>1. Cardinality(s \ {x}) = Cardinality(s) - 1
        BY <1>1, FS_RemoveElement
      <4>2. QED
        BY <2>1, <4>1
    <3>5. f[s \ {x}] = Cardinality(SplitAll(text, join, s \ {x}))
      BY <1>4, <3>3, <3>4
    <3>6. f[s] = RunSegmentCount(text, x, join) + f[s \ {x}]
      BY <1>2, <3>1, <3>2, Zenon
    <3>7. QED
      BY <3>5, <3>6, SplitAllNext
  <2>2. QED
    BY <2>1
<1> HIDE DEF S
<1>5. \A n \in Nat : n \in S
  BY <1>3, <1>4, AllNumbers
<1>6. f[Runs(text)] = Cardinality(SplitAll(text, join, Runs(text)))
  <2>1. Runs(text) \in SUBSET Runs(text) /\ Cardinality(Runs(text)) \in Nat
    BY <1>1
  <2>2. Cardinality(Runs(text)) \in S
    BY <1>5, <2>1
  <2>3. QED
    BY <2>1, <2>2 DEF S
<1>7. QED
  BY <1>6 DEF SplitAll, Segments

LEMMA CountsSegments ==
  ASSUME NEW text \in Text, NEW join \in BOOLEAN
  PROVE  SegmentCount(text, join) = Cardinality(Segments(text, join))
<1> DEFINE f == CHOOSE iter : AddedUp(text, join, iter)
<1>1. AddedUp(text, join, f)
  BY AddedUpExists, Zenon
<1>2. SegmentCount(text, join) = f[Runs(text)]
  BY SegmentCountDef, Zenon
<1> HIDE DEF f
<1>3. QED
  BY <1>1, <1>2, AddedUpCounts

LEMMA InputTexts ==
  ASSUME Input
  PROVE  Texts \subseteq Text
<1>1. ASSUME NEW text \in Texts
      PROVE  text \in Text
  <2>1. PICK l \in DOMAIN doc.lines :
          \E t \in Range(doc.lines[l].tokens) : text = t.text
    BY DEF Texts, Range
  <2>2. PICK i \in DOMAIN doc.lines[l].tokens : text = doc.lines[l].tokens[i].text
    BY <2>1 DEF Range
  <2>3. QED
    BY <2>2, TokenText
<1>2. QED
  BY <1>1

(* Whatever characters and documents there are, identifier_segment_count    *)
(* counts the segments split_identifier_into returns, and the segments have *)
(* every letter, mark and digit of a token once and, of all others, the     *)
(* apostrophes within words.                                               *)
THEOREM SegmentsExactCorrect == CheckSpec => []SegmentsExact
<1>1. AnalyzerInv => SegmentsExact
  <2> SUFFICES ASSUME AnalyzerInv, pass = "done"
               PROVE  SegmentsExact
    BY DEF SegmentsExact, CountIsLength, EveryLetterOnce
  <2>1. Texts \subseteq Text
    BY InputTexts DEF AnalyzerInv
  <2>2. CountIsLength
    BY <2>1, CountsSegments DEF CountIsLength
  <2>3. EveryLetterOnce
    <3>1. ASSUME NEW text \in Texts, NEW join \in BOOLEAN, NEW i \in DOMAIN text
          PROVE  Cardinality({s \in Segments(text, join) : s[1] <= i /\ i <= s[2]})
                 = IF text[i] \in Alphabetic \cup Numeric \cup Mark \/ Within(text, i)
                   THEN 1 ELSE 0
      <4>1. text \in Text
        BY <2>1
      <4>2. i \in 1..Len(text)
        BY <4>1 DEF Text
      <4>3. QED
        BY <4>1, <4>2, LetterOnce
    <3>2. QED
      BY <3>1, Zenon DEF EveryLetterOnce, Within
  <2>4. QED
    BY <2>2, <2>3 DEF SegmentsExact
<1>2. QED
  BY <1>1, AnalyzerInvCorrect, PTL
=============================================================================
