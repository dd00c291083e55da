-------------------------- MODULE IdentifierSplit --------------------------
(***************************************************************************)
(* split_identifier of crates/ferrolex-code, and identifier_segment_count, *)
(* a second implementation that only counts and decides how a token is     *)
(* classified.  A text is a sequence of characters, and a character is     *)
(* what the Unicode predicates of the code say of it.                      *)
(*                                                                         *)
(* A segment is a pair of positions, the first and the last.               *)
(***************************************************************************)
EXTENDS Naturals, SequencesExt

CONSTANTS
  Char,
  Alphabetic, Numeric, Upper, Lower,  \* char::is_alphabetic and so on
  Mark,                               \* canonical combining class is not 0
  Apostrophe

ASSUME CharAssumption ==
  /\ Alphabetic \subseteq Char /\ Numeric \subseteq Char
  /\ Upper \subseteq Char /\ Lower \subseteq Char
  /\ Mark \subseteq Char /\ Apostrophe \subseteq Char
  /\ Upper \cap Lower = {}
  /\ Apostrophe \cap (Alphabetic \cup Numeric \cup Mark) = {}

-----------------------------------------------------------------------------
(* Runs                                                                    *)

(* is_word_character *)
WordCharacter == Alphabetic \cup Mark

RunCharacter == WordCharacter \cup Numeric

(* Whether the loop of split_identifier_into is in a run after position i;  *)
(* an apostrophe goes on with a run if a letter follows it.                *)
InRun(text) ==
  LET in[i \in 0..Len(text)] ==
        /\ i > 0
        /\ \/ text[i] \in RunCharacter
           \/ /\ text[i] \in Apostrophe
              /\ in[i - 1]
              /\ i < Len(text)
              /\ text[i + 1] \in Alphabetic
  IN  in

Runs(text) ==
  LET in == InRun(text) IN
  {r \in (DOMAIN text) \X (DOMAIN text) :
     /\ \A i \in r[1]..r[2] : in[i]
     /\ r[1] <= r[2]
     /\ ~in[r[1] - 1]
     /\ r[2] < Len(text) => ~in[r[2] + 1]}

(* A segment ends before position k of the run that goes up to last:        *)
(* changes_kind or starts_word.                                            *)
Cut(text, k, last) ==
  \/ (text[k - 1] \in Numeric) # (text[k] \in Numeric)
  \/ /\ text[k] \in Upper
     /\ \/ text[k - 1] \in Lower
        \/ text[k - 1] \in Upper /\ k < last /\ text[k + 1] \in Lower

Cuts(text, r) == {k \in r[1] + 1..r[2] : Cut(text, k, r[2])}

-----------------------------------------------------------------------------
(* split_run                                                               *)

AllIn(text, s, set) == \A i \in s[1]..s[2] : text[i] \in set

(* The pieces of a run between its cuts.                                   *)
Pieces(r, starts) ==
  {s \in starts \X (r[1]..r[2]) :
     /\ s[1] <= s[2]
     /\ \A k \in starts : k <= s[1] \/ k > s[2]
     /\ s[2] = r[2] \/ s[2] + 1 \in starts}

(* Mutant: a number may be joined to a prefix. *)
JoinsPrefixAny(text, pieces, r) ==
  /\ text[r[1]] \in Upper
  /\ <<r[1], r[1]>> \in pieces
  /\ pieces # {<<r[1], r[1]>>}

(* The first two segments of a run become one.                             *)
JoinsPrefix(text, pieces, r) ==
  /\ text[r[1]] \in Upper
  /\ <<r[1], r[1]>> \in pieces
  /\ \E second \in pieces : second[1] = r[1] + 1 /\ ~AllIn(text, second, Numeric)

SplitRun(text, r, join) ==
  LET cuts == Cuts(text, r)
      pieces == Pieces(r, cuts \cup {r[1]})
  IN  IF join /\ JoinsPrefix(text, pieces, r)
      THEN Pieces(r, (cuts \cup {r[1]}) \ {r[1] + 1})
      ELSE pieces

(* split_identifier_into; the code keeps the segments in their order.      *)
Segments(text, join) == UNION {SplitRun(text, r, join) : r \in Runs(text)}

IsNumber(text, s) == AllIn(text, s, Numeric)

Word(text, s) == SubSeq(text, s[1], s[2])

-----------------------------------------------------------------------------
(* run_segment_count                                                       *)

(* One more character of the run: it begins a segment or goes on with one. *)
(* The count, the length of the segment at hand and of the first, and      *)
(* whether the second is a number.                                         *)
Visited(text, acc, k, last) ==
  IF Cut(text, k, last)
  THEN [segments |-> acc.segments + 1,
        current |-> 1,
        first |-> IF acc.segments = 1 THEN acc.current ELSE acc.first,
        numeric |-> IF acc.segments = 1 THEN text[k] \in Numeric ELSE acc.numeric]
  ELSE [acc EXCEPT
          !.current = @ + 1,
          !.numeric = IF acc.segments = 2 THEN @ /\ text[k] \in Numeric ELSE @]

RunSegmentCount(text, r, join) ==
  LET after[k \in r[1]..r[2]] ==
        IF k = r[1] THEN [segments |-> 1, current |-> 1, first |-> 1, numeric |-> TRUE]
        ELSE Visited(text, after[k - 1], k, r[2])
      end == after[r[2]]
  IN  IF /\ join
         /\ end.segments >= 2
         /\ end.first = 1
         /\ text[r[1]] \in Upper
         /\ ~end.numeric
      THEN end.segments - 1
      ELSE end.segments

(* identifier_segment_count *)
SegmentCount(text, join) ==
  MapThenSumSet(LAMBDA r : RunSegmentCount(text, r, join), Runs(text))
=============================================================================
