------------------------------ MODULE Analyzer ------------------------------
(***************************************************************************)
(* Analyzer::check of crates/ferrolex-code: a first pass over the lines of *)
(* a document collects what its directives ignore and reports malformed    *)
(* ones, a second one switches checking off and on and checks tokens.      *)
(*                                                                         *)
(* A token is a text and whether it looks like a hash or like another of   *)
(* the machine-made classes; a directive is its name and its arguments.    *)
(***************************************************************************)
EXTENDS IdentifierSplit

CONSTANTS
  Document,   \* [lines: Seq(Line), syntax: BOOLEAN]; syntax: directives are read
  Policies,   \* AnalyzerConfig
  Dictionary, \* sets of texts a dictionary may contain
  Composed,   \* Composed[<<base, mark>>]: the character NFC makes of the two
  None        \* no directive on a line

Class == {"machine", "hash", "number", "identifier", "acronym", "word", "unknown"}
Text == Seq(Char)
Token == [text: Text, shape: {"plain", "hash", "machine"}]
Line == [name: {None, "ignore", "disable", "enable", "other"},
         arguments: SUBSET Text, tokens: Seq(Token)]

ASSUME AnalyzerAssumption ==
  /\ \A doc \in Document : doc.syntax \in BOOLEAN /\ doc.lines \in Seq(Line)
  /\ \A p \in Policies :
       /\ p.join \in BOOLEAN
       /\ p.classes \subseteq Class
       /\ p.words \subseteq Text /\ p.patterns \subseteq Text
       /\ p.minimum \in Nat
  /\ \A known \in Dictionary : known \subseteq Text

VARIABLES
  doc, policy, known,  \* the document, the policy and the dictionary
  pass,                \* "directives", "tokens" or "done"
  at,                  \* the next line of the pass
  disabled, ignored,   \* DirectiveState
  diagnostics,         \* malformed directives: lines and problems
  findings             \* lines, tokens and segments, in order

input == <<doc, policy, known>>
checkVars == <<doc, policy, known, pass, at, disabled, ignored, diagnostics, findings>>

-----------------------------------------------------------------------------
(* Directives                                                              *)

(* parse_directive: None, what it does, or what is wrong with it.          *)
Directive(line) ==
  IF ~doc.syntax \/ line.name = None THEN None
  ELSE CASE line.name = "ignore" ->
              IF line.arguments = {} THEN "missingIgnoredWords" ELSE "ignore"
         [] line.name \in {"disable", "enable"} ->
              IF line.arguments = {} THEN line.name ELSE "unexpectedArguments"
         [] OTHER -> "unknownDirective"

Problem == {"missingIgnoredWords", "unexpectedArguments", "unknownDirective"}

(* DirectiveState::record_ignore_words *)
Recorded(line, d) == IF d = "ignore" THEN line.arguments ELSE {}

(* Mutant: an enable directive is not read. *)
SwitchedOff(d) == disabled \/ d = "disable"

(* DirectiveState::apply_switch *)
Switched(d) ==
  CASE d = "disable" -> TRUE
    [] d = "enable" -> FALSE
    [] OTHER -> disabled

-----------------------------------------------------------------------------
(* Tokens                                                                  *)

(* classify: the default policy joins a prefix, whatever the analyzer's.   *)
Classified(token) ==
  LET all(set) == \A i \in DOMAIN token.text : token.text[i] \in set IN
  CASE token.shape # "plain" -> token.shape
    [] token.shape = "plain" /\ all(Numeric) -> "number"
    [] token.shape = "plain" /\ ~all(Numeric) ->
         CASE SegmentCount(token.text, TRUE) > 1 -> "identifier"
           [] SegmentCount(token.text, TRUE) <= 1 ->
                IF all(Alphabetic \cap Upper) THEN "acronym"
                ELSE IF all(WordCharacter) THEN "word" ELSE "unknown"

(* A term the dictionary has is no hash.                                   *)
ClassOf(token) ==
  IF Classified(token) = "hash" /\ token.text \in known THEN "word"
  ELSE Classified(token)

(* Unicode NFC, for one mark after a base. *)
Nfc(text) ==
  FoldLeft(LAMBDA done, c :
             IF done # <<>> /\ <<Last(done), c>> \in DOMAIN Composed
             THEN Append(Front(done), Composed[<<Last(done), c>>])
             ELSE Append(done, c), <<>>, text)

ContainsNormalized(text) == text \in known \/ Nfc(text) \in known

Excluded(text) == text \in policy.words \cup ignored

Skipped(token) ==
  \/ ClassOf(token) \in policy.classes
  \/ token.text \in policy.patterns
  \/ token.text \in policy.words \cup ignored

(* The segments of a token that are neither numbers, nor too short, nor     *)
(* excluded, nor known.                                                    *)
Misspelled(token) ==
  {s \in Segments(token.text, policy.join) :
     LET word == Word(token.text, s) IN
     /\ ~IsNumber(token.text, s)
     /\ Len(word) >= policy.minimum
     /\ ~Excluded(word)
     /\ ~ContainsNormalized(word)}

LeftToRight(segments) ==
  [k \in 1..Cardinality(segments) |->
     CHOOSE s \in segments : Cardinality({t \in segments : t[1] <= s[1]}) = k]

(* check_token for the tokens of a line, from left to right.               *)
FindingsAt(l, i) ==
  LET token == doc.lines[l].tokens[i]
      order == LeftToRight(Misspelled(token))
  IN  IF Skipped(token) THEN <<>> ELSE [j \in DOMAIN order |-> <<l, i, order[j]>>]

FindingsOf(l) == FlattenSeq([i \in DOMAIN doc.lines[l].tokens |-> FindingsAt(l, i)])

-----------------------------------------------------------------------------
(* Analyzer::check                                                         *)

CheckInit ==
  /\ doc \in Document /\ policy \in Policies /\ known \in Dictionary
  /\ pass = "directives" /\ at = 1
  /\ disabled = FALSE /\ ignored = {}
  /\ diagnostics = {} /\ findings = <<>>

RecordDirective ==
  /\ pass = "directives" /\ at <= Len(doc.lines)
  /\ LET d == Directive(doc.lines[at]) IN
     /\ ignored' = ignored \cup Recorded(doc.lines[at], d)
     /\ diagnostics' = diagnostics \cup (IF d \in Problem THEN {<<at, d>>} ELSE {})
  /\ at' = at + 1
  /\ UNCHANGED <<input, pass, disabled, findings>>

EndDirectives ==
  /\ pass = "directives" /\ at > Len(doc.lines)
  /\ pass' = "tokens" /\ at' = 1
  /\ UNCHANGED <<input, disabled, ignored, diagnostics, findings>>

CheckLine ==
  /\ pass = "tokens" /\ at <= Len(doc.lines)
  /\ LET d == Directive(doc.lines[at]) IN
     /\ disabled' = Switched(d)
     /\ findings' = IF d # None \/ disabled THEN findings
                    ELSE findings \o FindingsOf(at)
  /\ at' = at + 1
  /\ UNCHANGED <<input, pass, ignored, diagnostics>>

EndTokens ==
  /\ pass = "tokens" /\ at > Len(doc.lines)
  /\ pass' = "done"
  /\ UNCHANGED <<input, at, disabled, ignored, diagnostics, findings>>

CheckNext == RecordDirective \/ EndDirectives \/ CheckLine \/ EndTokens

CheckSpec == CheckInit /\ [][CheckNext]_checkVars

-----------------------------------------------------------------------------
(* Properties                                                              *)

Texts == {t.text : t \in UNION {Range(line.tokens) : line \in Range(doc.lines)}}

(* The allocation-free count, which decides what is an identifier, is the   *)
(* number of segments the splitter returns.                                *)
CountIsLength ==
  pass = "done" => \A text \in Texts, join \in BOOLEAN :
    SegmentCount(text, join) = Cardinality(Segments(text, join))

(* Nothing is lost or checked twice: every letter, mark and digit is in one *)
(* segment, and of the other characters only apostrophes within words.      *)
EveryLetterOnce ==
  pass = "done" => \A text \in Texts, join \in BOOLEAN : \A i \in DOMAIN text :
    LET within == /\ text[i] \in Apostrophe
                  /\ 1 < i /\ i < Len(text)
                  /\ text[i - 1] \in Alphabetic \cup Numeric \cup Mark
                  /\ text[i + 1] \in Alphabetic
    IN  Cardinality({s \in Segments(text, join) : s[1] <= i /\ i <= s[2]})
        = IF text[i] \in Alphabetic \cup Numeric \cup Mark \/ within THEN 1 ELSE 0

(* SegmentsExact: both, the two segmentations agree and lose nothing.       *)
(* (identifier_segment_count, split_identifier_into)                       *)
SegmentsExact == CountIsLength /\ EveryLetterOnce

(* Lines between a disable directive and the next enable directive.         *)
InDisabledRange(l) ==
  \E i \in 1..l - 1 :
    /\ Directive(doc.lines[i]) = "disable"
    /\ \A j \in i + 1..l - 1 : Directive(doc.lines[j]) # "enable"

Before(f, g) ==
  \/ f[1] < g[1]
  \/ f[1] = g[1] /\ f[2] < g[2]
  \/ f[1] = g[1] /\ f[2] = g[2] /\ f[3][2] < g[3][1]

(* The findings are, in source order, the misspelled segments of all lines  *)
(* that are no directives and outside disabled ranges, less the words of    *)
(* every ignore directive, wherever in the document it stands.              *)
FindingsExact ==
  pass = "done" =>
    /\ ignored = UNION {line.arguments : line \in
                          {l \in Range(doc.lines) : Directive(l) = "ignore"}}
    /\ \A l \in DOMAIN doc.lines : \A i \in DOMAIN doc.lines[l].tokens :
         LET token == doc.lines[l].tokens[i]
             reported == /\ Directive(doc.lines[l]) = None
                         /\ ~InDisabledRange(l)
                         /\ ~Skipped(token)
         IN  {f[3] : f \in {g \in Range(findings) : g[1] = l /\ g[2] = i}}
             = IF reported THEN Misspelled(token) ELSE {}
    /\ \A i, j \in DOMAIN findings : i < j => Before(findings[i], findings[j])
    /\ {d[1] : d \in diagnostics} =
         {l \in DOMAIN doc.lines : Directive(doc.lines[l]) \in Problem}
=============================================================================
