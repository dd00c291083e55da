--------------------------- MODULE HunspellSyntax --------------------------
(***************************************************************************)
(* What one field of an .aff or .dic line means: numbers, flags, affix     *)
(* conditions, compound rules, entries (crates/ferrolex-hunspell/src/      *)
(* parse.rs).  A field is a sequence of characters; a parser returns the   *)
(* set of the one value it read, empty where the code has None or Err.     *)
(***************************************************************************)
EXTENDS HunspellModel

CONSTANTS DigitValue,           \* [digits -> Nat]
          VariationSelector     \* characters that belong to the flag before

ASSUME DigitsAreNumbers == DigitValue \in [DOMAIN DigitValue -> Nat]
ASSUME LimitsAreNumbers == MaxCompoundScalars \in Nat /\ MaxRuleComponents \in Nat

Option(test, value) == IF test THEN {value} ELSE {}

(* Numbers of one digit stand for all.                                     *)
Number(field) ==
  {DigitValue[c] : c \in {x \in DOMAIN DigitValue : field = <<x>>}}

AllDigits(field) == Range(field) \subseteq DOMAIN DigitValue

EmptyMarker(field) == IF field = <<"0">> THEN <<>> ELSE field

(* What stands before the first c, and after it.                           *)
Before(field, c) == SubSeq(field, 1, SelectInSeq(field, LAMBDA x : x = c) - 1)
After(field, c) ==
  SubSeq(field, SelectInSeq(field, LAMBDA x : x = c) + 1, Len(field))
Has(field, c) == c \in Range(field)

------------------------------- (* flags *) --------------------------------

(* A flag is the text that names it; a number is marked as one.            *)
IsValidFor(flag, mode) ==
  CASE mode = "numeric" -> Head(flag) = "num"
    [] mode = "long" -> Head(flag) # "num" /\ Len(flag) = 2
    [] OTHER -> Head(flag) # "num"
                /\ Len(flag) \in 1..2 /\ (Len(flag) = 2 => flag[2] \in VariationSelector)

NumericFlags(field) ==
  LET n == Len(field)
  IN Option(/\ n % 2 = 1
            /\ \A i \in 1..n : IF i % 2 = 1 THEN field[i] \in DOMAIN DigitValue
                               ELSE field[i] = ",",
            [i \in 1..(n + 1) \div 2 |-> <<"num", field[2 * i - 1]>>])

LongFlags(field) ==
  LET n == Len(field)
  IN Option(n > 0 /\ n % 2 = 0,
            [i \in 1..n \div 2 |-> <<field[2 * i - 1], field[2 * i]>>])

(* A selector belongs to the character before it and may not stand alone.  *)
UnicodeTokens(field) ==
  LET Selects(i) == i \in DOMAIN field /\ field[i] \in VariationSelector
      starts == {i \in DOMAIN field : ~Selects(i)}
      from == LeftToRight(starts)
  IN Option(/\ field # <<>>
            /\ \A i \in DOMAIN field : Selects(i) => i > 1 /\ ~Selects(i - 1),
            [k \in DOMAIN from |->
               SubSeq(field, from[k], from[k] + (IF Selects(from[k] + 1) THEN 1 ELSE 0))])

FlagSequence(field, mode) ==
  CASE mode = "numeric" -> NumericFlags(field)
    [] mode = "long" -> LongFlags(field)
    [] OTHER -> UnicodeTokens(field)

DecodeFlag(field, mode) == {s[1] : s \in {x \in FlagSequence(field, mode) : Len(x) = 1}}

(* Flags written out, or, once there are aliases, the number of one.       *)
EntryFlags(field, mode, aliases) ==
  IF aliases # <<>> /\ AllDigits(field)
  THEN UNION {aliases[n] : n \in Number(field) \cap DOMAIN aliases}
  ELSE {Range(s) : s \in {x \in FlagSequence(field, mode) : Len(x) <= MaxFlagsPerEntry}}

----------------------------- (* conditions *) -----------------------------

Literal(c) == [members |-> {c}, negated |-> FALSE]
AnyLetter == [members |-> {}, negated |-> TRUE]

(* One atom: a dot, a letter, or a class in brackets.                      *)
ConditionAtom(field) ==
  LET negated == Len(field) > 1 /\ field[2] = "^"
      members == SubSeq(field, IF negated THEN 3 ELSE 2, Len(field) - 1)
  IN IF field = <<".">> THEN {AnyLetter}
     ELSE IF Len(field) = 1 THEN {Literal(field[1])}
     ELSE Option(/\ Len(field) > 1 /\ Head(field) = "[" /\ Last(field) = "]"
                 /\ members # <<>>,
                 [members |-> Range(members), negated |-> negated])

ConditionAtoms(field) ==
  LET Joined(first, rest) == {<<a>> \o s : a \in first, s \in rest}
      atoms[i \in 1..Len(field) + 1] ==
        IF i > Len(field) THEN {<<>>}
        ELSE IF field[i] = "["
        THEN LET ends == {j \in i + 1..Len(field) : field[j] = "]"}
             IN IF ends = {} THEN {}
                ELSE Joined(ConditionAtom(SubSeq(field, i, Min(ends))),
                            atoms[Min(ends) + 1])
        ELSE IF field[i] \in {"]", "(", ")", "|", "*", "?", "\\"} THEN {}
        ELSE Joined(ConditionAtom(<<field[i]>>), atoms[i + 1])
  IN IF Len(field) > MaxConditionAtoms THEN {} ELSE atoms[1]

(* (?<!x) and (^|[^x]): a letter that may not stand before the ending.     *)
NegativeLookbehind(field) ==
  LET behind == <<"(", "?", "<", "!">>
      alternative == <<"(", "^", "|">>
      Inner(opening) == Before(SubSeq(field, Len(opening) + 1, Len(field)), ")")
  IN IF IsPrefix(behind, field)
     THEN {[notBefore |-> {a}, rest |-> After(field, ")")] :
             a \in {x \in ConditionAtom(Inner(behind)) : Has(field, ")")}}
     ELSE IF IsPrefix(alternative, field)
     THEN {[notBefore |-> {[a EXCEPT !.negated = FALSE]}, rest |-> After(field, ")")] :
             a \in {x \in ConditionAtom(Inner(alternative)) :
                      x.negated /\ x # AnyLetter /\ Has(field, ")")}}
     ELSE {[notBefore |-> {}, rest |-> field]}

StartAnchor(field) ==
  LET head == Before(field, ")")
      inner == SubSeq(head, 3, Len(head))
  IN IF IsPrefix(<<"(", "^">>, field)
     THEN {[anchored |-> TRUE, rest |-> f] :
             f \in {x \in {inner} : /\ Has(field, ")") /\ After(field, ")") = <<>>
                                   /\ x # <<>>}}
     ELSE {[anchored |-> FALSE, rest |-> field]}

ParseCondition(field) ==
  IF field = <<"0">> THEN {NoCondition}
  ELSE UNION {UNION {{[atoms |-> a, notBefore |-> b.notBefore, anchored |-> s.anchored] :
                        a \in ConditionAtoms(s.rest)} :
                     s \in StartAnchor(b.rest)} :
              b \in NegativeLookbehind(field)}

---------------------------- (* conversions *) -----------------------------

ParseConversion(from, to) ==
  LET starts == from # <<>> /\ Head(from) = "_"
      tail == IF starts THEN Tail(from) ELSE from
      ends == tail # <<>> /\ Last(tail) = "_"
      text == IF ends THEN Front(tail) ELSE tail
  IN Option(text # <<>>, [from |-> text, to |-> EmptyMarker(to),
                          atStart |-> starts, atEnd |-> ends])

(* ^ and $ anchor a field at the start and at the end of the word.         *)
Anchored(field) ==
  LET starts == field # <<>> /\ Head(field) = "^"
      tail == IF starts THEN Tail(field) ELSE field
      ends == tail # <<>> /\ Last(tail) = "$"
  IN [text |-> IF ends THEN Front(tail) ELSE tail, atStart |-> starts, atEnd |-> ends]

ParseReplacementRule(from, to) ==
  LET a == Anchored(from)
  IN Option(a.text # <<>> /\ to # <<>>,
            [from |-> a.text, to |-> to, atStart |-> a.atStart, atEnd |-> a.atEnd])

ParseBreakPattern(field) ==
  LET a == Anchored(field)
  IN Option(/\ ~(a.atStart /\ a.atEnd)
            /\ a.text # <<>> /\ Range(a.text) \cap {"^", "$"} = {},
            a)

ParsePatternPart(field, mode) ==
  IF ~Has(field, "/") THEN {[text |-> field, flag |-> {}]}
  ELSE {[text |-> Before(field, "/"), flag |-> {f}] :
          f \in DecodeFlag(After(field, "/"), mode)}

ParseCompoundPattern(ending, beginning, replacement, mode) ==
  {[ending |-> p[1].text, endingFlag |-> p[1].flag,
    beginning |-> p[2].text, beginningFlag |-> p[2].flag, replacement |-> replacement] :
     p \in {parts \in ParsePatternPart(ending, mode) \X ParsePatternPart(beginning, mode) :
        \E i \in 1..2 : parts[i] # [text |-> <<>>, flag |-> {}]}}

--------------------------- (* compound rules *) ---------------------------

Repeats(quantifier) ==
  CASE quantifier = "*" -> 0..MaxRuleComponents
    [] quantifier = "+" -> 1..MaxRuleComponents
    [] quantifier = "?" -> 0..1
    [] OTHER -> 1..1

Quantifier == {"*", "+", "?"}
IsMark(token) == token \in {<<q>> : q \in Quantifier}

(* The ways to choose how often each flag is repeated: the first i of them.*)
WithinLimit(choice, repeat) == repeat + FoldLeft(+, 0, choice) <= MaxRuleComponents

Extensions(choices, repeats) ==
  {Append(p[1], p[2]) : p \in {x \in choices \X repeats : WithinLimit(x[1], x[2])}}

Chosen(repeats) ==
  LET chosen[i \in 0..Len(repeats)] ==
        IF i = 0 THEN {<<>>} ELSE Extensions(chosen[i - 1], repeats[i])
  IN chosen

RepeatChoices(repeats) ==
  Option(\A i \in 1..Len(repeats) :
           Cardinality(Chosen(repeats)[i]) <= MaxExpansionsPerRule,
         Chosen(repeats)[Len(repeats)])

QuantifiedRule(tokens) ==
  LET flags == LeftToRight({i \in DOMAIN tokens : ~IsMark(tokens[i])})
      Mark(i) == IF i < Len(tokens) /\ IsMark(tokens[i + 1])
                 THEN Head(tokens[i + 1]) ELSE ""
      valid == \A i \in DOMAIN tokens :
                 IsMark(tokens[i]) => i > 1 /\ ~IsMark(tokens[i - 1])
      Spelled(choice) == FlattenSeq([k \in DOMAIN flags |->
                           [n \in 1..choice[k] |-> tokens[flags[k]]]])
  IN IF ~valid THEN {}
     ELSE {[n \in 1..Cardinality(cs) |-> Spelled(SetToSeq(cs)[n])] :
             cs \in RepeatChoices([k \in DOMAIN flags |-> Repeats(Mark(flags[k]))])}

(* (a)(b): one flag in each pair of parentheses.                           *)
ParenthesizedRule(field, mode) ==
  LET opens == LeftToRight({i \in DOMAIN field : field[i] = "("})
      End(k) == IF k < Len(opens) THEN opens[k + 1] - 1 ELSE Len(field)
      Inner(k) == SubSeq(field, opens[k] + 1, End(k) - 1)
      Flag(k) == IF Range(Inner(k)) \cap (Quantifier \cup {"(", ")"}) # {} THEN {}
                 ELSE DecodeFlag(Inner(k), mode)
  IN Option(/\ opens # <<>> /\ opens[1] = 1
            /\ \A k \in DOMAIN opens : field[End(k)] = ")" /\ Flag(k) # {},
            <<[k \in DOMAIN opens |-> CHOOSE f \in Flag(k) : TRUE]>>)

(* The list of flag sequences a rule stands for.                           *)
ParseCompoundRule(field, mode) ==
  LET rules == IF Range(field) \cap {"(", ")"} # {} THEN ParenthesizedRule(field, mode)
               ELSE IF mode # "unicode" THEN {<<s>> : s \in FlagSequence(field, mode)}
               ELSE UNION {QuantifiedRule(t) : t \in UnicodeTokens(field)}
      Bounded(rule) ==
        Picked(rule, {i \in DOMAIN rule : Len(rule[i]) \in 2..MaxRuleComponents})
  IN {Bounded(rule) : rule \in {r \in rules : Bounded(r) # <<>>}}

------------------------------- (* entries *) ------------------------------

(* The stem and the flags of an entry are divided by the first slash that  *)
(* no backslash escapes.                                                   *)
SplitEntry(field) ==
  LET escaped[i \in 0..Len(field)] ==
        i > 0 /\ i < Len(field) + 1 /\ field[i] = "\\" /\ ~escaped[i - 1]
      slashes == {i \in DOMAIN field : field[i] = "/" /\ ~escaped[i - 1]}
      Unescaped(s) ==
        Picked(s, {i \in DOMAIN s : ~(/\ escaped[i] /\ i < Len(s)
                                     /\ s[i + 1] \in {"/", "\\"})})
  IN IF slashes = {} THEN [stem |-> Unescaped(field), flags |-> {}]
     ELSE [stem |-> Unescaped(SubSeq(field, 1, Min(slashes) - 1)),
           flags |-> {SubSeq(field, Min(slashes) + 1, Len(field))}]
=============================================================================
