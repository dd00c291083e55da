----------------------------- MODULE LspServer -----------------------------
(***************************************************************************)
(* crates/ferrolex-lsp: the language server, its one client and the user   *)
(* dictionary file.  The server handles one message after the other; the   *)
(* client sends without waiting and sees what the server saw some time     *)
(* ago.  Both channels are stdio pipes: ordered and reliable.              *)
(*                                                                         *)
(* A text is a sequence of words and line ends.  A word counts as one       *)
(* character, of one or two UTF-16 units.  The ranges of a change cross the *)
(* channel as lines and units, and each end finds the place by its own idea *)
(* of a line; what the server sends is left as indexes into its text.      *)
(***************************************************************************)
EXTENDS Naturals, SequencesExt, FiniteSets

CONSTANTS
  Uri,          \* documents of the workspace
  Word,         \* words and line ends that may occur in them
  Feed,         \* \n or \r\n: ends a line for the client and the server
  Returns,      \* a lone \r: it ends a line for the client only
  Wide,         \* words of two UTF-16 units
  Ferrolex,     \* the words of an inserted directive, after the comment prefix
  Ignore,
  Invalid,      \* words UserDictionary::insert refuses
  Similar,      \* Similar[w]: words the suggester may offer for w
  Config,       \* configurations the client may send
  Text,         \* texts the client may open or paste
  Typed,        \* words the client may type
  Faults,       \* "persist": the dictionary file cannot be written;
                \* "unreadable": nor read;
                \* "crash": the server stops at any time
  MaxText,      \* bound: words and line ends in a text
  MaxSent,      \* bound: messages the client sends
  None          \* no document; no request

Doc == [version: Nat, text: Seq(Word)]

(* The requests the server has to answer.                                  *)
ActionRequest == [m: {"codeAction"}, id: Nat, uri: Uri, at: Nat, version: Nat]
AddRequest == [m: {"add"}, id: Nat, word: Word]
OtherRequest == [m: {"other"}, id: Nat]
Requests == ActionRequest \cup AddRequest \cup OtherRequest

ASSUME LspAssumption ==
  /\ IsFiniteSet(Uri)
  /\ None \notin Uri \cup Doc \cup Requests
  /\ {Ferrolex, Ignore, Feed} \subseteq Word
  /\ Returns \subseteq Word \ {Feed} /\ Wide \subseteq Word
  /\ Invalid \subseteq Word
  /\ Similar \in [Word -> SUBSET Word]
  /\ Config \subseteq [words: SUBSET Word, ignored: SUBSET Word, path: BOOLEAN]
  /\ Text \subseteq Seq(Word)
  /\ Typed \subseteq Word
  /\ Faults \subseteq {"persist", "unreadable", "crash"}
  /\ MaxText \in Nat /\ MaxSent \in Nat

VARIABLES
  phase,      \* the server: "idle", inside fs::write, replying, or "down"
  job,        \* the add-word request it is working on
  base,       \* State::base
  user,       \* State::user
  ignored,    \* State::ignored_words
  path,       \* whether State::user_dictionary_path is set
  documents,  \* State::documents, with None for those that are not open
  file,       \* the dictionary file: its words, and whether the server has
              \* the file that is under the name open
  torn,       \* history: "torn" from the truncation of the file to the end of
              \* its rewriting, "lost" if that never came; or "no"
  toServer, toClient,
  editor,     \* the client's documents
  shown,      \* the diagnostics the client shows: positions and words
  pending,    \* the requests the client has no answer to
  offered,    \* the last code actions received, and the text they are for
  sent,       \* number of messages the client has sent: the next id or version
  acked,      \* history: words the server reported as added to the file
  silenced    \* history: words whose Ignore action was the last edit of a text

server == <<phase, job, base, user, ignored, path, documents>>
disk == <<file, torn>>
client == <<editor, shown, pending, offered, sent, acked, silenced>>
vars == <<phase, job, base, user, ignored, path, documents, file, torn, toServer,
          toClient, editor, shown, pending, offered, sent, acked, silenced>>

NoOffer == [uri |-> None, version |-> 0, edits |-> {}]

-----------------------------------------------------------------------------
(* Texts, findings and edits                                               *)

ServerEnds == {Feed}
ClientEnds == {Feed} \cup Returns

LineOf(text, i, ends) == Cardinality({j \in 1..i : text[j] \in ends})

(* What is between the start of its line and position i.                   *)
OnLine(text, i, ends) == {j \in 1..i : \A k \in j..i : text[k] \notin ends}

LineStart(text, i, ends) == i - Cardinality(OnLine(text, i, ends))

Units(text, places) ==
  Cardinality(places) + Cardinality({j \in places : text[j] \in Wide})

(* byte_to_position, with the line ends of the server; how a client counts *)
(* with its own.                                                           *)
PositionOf(text, i, ends) ==
  [line |-> LineOf(text, i, ends), character |-> Units(text, OnLine(text, i, ends))]

(* The places a position may stand for: those with the line and the units, *)
(* and the end of the text for the start of a line that is not there.      *)
Places(text, p) ==
  {i \in 0..Len(text) : PositionOf(text, i, ServerEnds) = p}
  \cup {i \in {Len(text)} :
          p.line > LineOf(text, i, ServerEnds) /\ p.character = 0}

(* Mutant: characters are counted, not UTF-16 units. *)
PlacesByCharacter(text, p) ==
  {i \in 0..Len(text) :
     /\ LineOf(text, i, ServerEnds) = p.line
     /\ Cardinality(OnLine(text, i, ServerEnds)) = p.character}

(* The place, or none: inside a character or past the end of the line.     *)
PositionToByte(text, p) == Places(text, p)

Splice(text, from, to, new) ==
  SubSeq(text, 1, from) \o new \o SubSeq(text, to + 1, Len(text))

(* The text after one change; none if its range is not in the text, or     *)
(* reversed.                                                               *)
ChangedBy(text, c) ==
  IF c.whole THEN {c.new}
  ELSE {Splice(text, range[1], range[2], c.new) :
          range \in {r \in PositionToByte(text, c.start) \X PositionToByte(text, c.end) :
                       r[1] <= r[2]}}

AnyChangedBy(texts, c) == UNION {ChangedBy(text, c) : text \in texts}

(* Mutant: only the first change of a notification is applied. *)
AppliedFirst(text, changes) ==
  IF changes = <<>> THEN {text} ELSE ChangedBy(text, changes[1])

(* Every range is looked up in the result of the change before; after one  *)
(* that fails there is no text.                                            *)
Applied(text, changes) ==
  LET after[n \in 0..Len(changes)] ==
        IF n = 0 THEN {text}
        ELSE AnyChangedBy(after[n - 1], changes[n])
  IN  after[Len(changes)]

(* Document::new has no comment syntax, so no line of it is a directive.   *)
Directives(text) == {}

Known == base \cup user \cup ignored

(* Where the words are that neither layer nor the configuration knows.     *)
FindingsIn(text, known) ==
  {<<i, text[i]>> : i \in {j \in DOMAIN text :
                             text[j] \notin known \cup Directives(text) \cup ClientEnds}}

(* word_list: an empty configuration has a dictionary of one word.         *)
WordList(words) == IF words = {} THEN {Ferrolex} ELSE words

Publish(u, text, known) ==
  [m |-> "publish", uri |-> u, diagnostics |-> FindingsIn(text, known)]

(* publish_all: in whatever order the documents have. *)
PublishAll(docs, known) ==
  LET open == SetToSeq({u \in Uri : docs[u] # None})
  IN  [i \in DOMAIN open |-> Publish(open[i], docs[open[i]].text, known)]

Answer(request, kind, edits) ==
  [m |-> "answer", id |-> request.id, kind |-> kind, edits |-> edits]

-----------------------------------------------------------------------------
(* State::new, and what a launched server and its client start from        *)

(* reload_user_dictionary: an unreadable file is an empty user dictionary.  *)
Reloaded == {file.words} \cup (IF "unreadable" \in Faults THEN {{}} ELSE {})

(* Words that are nowhere but in memory go when it is replaced.            *)
GivenUp == IF torn = "torn" THEN "lost" ELSE torn

(* State::new *)
Launch(config) ==
  /\ phase' = "idle"
  /\ job' = None
  /\ base' = WordList(config.words)
  /\ ignored' = config.ignored
  /\ path' = config.path
  /\ user' \in IF config.path THEN Reloaded ELSE {{}}
  /\ documents' = [u \in Uri |-> None]

Init ==
  /\ \E config \in Config :
       /\ base = WordList(config.words)
       /\ ignored = config.ignored
       /\ path = config.path
  /\ phase = "idle" /\ job = None
  /\ user = {}
  /\ documents = [u \in Uri |-> None]
  /\ file = [words |-> {}, held |-> FALSE]
  /\ torn = "no"
  /\ toServer = <<>> /\ toClient = <<>>
  /\ editor = [u \in Uri |-> None]
  /\ shown = [u \in Uri |-> {}]
  /\ pending = {}
  /\ offered = NoOffer
  /\ sent = 0
  /\ acked = {}
  /\ silenced = [u \in Uri |-> {}]

-----------------------------------------------------------------------------
(* The handlers                                                            *)

Idle(m) ==
  /\ phase = "idle"
  /\ toServer # <<>>
  /\ Head(toServer).m = m
  /\ toServer' = Tail(toServer)

Send(messages) == toClient' = toClient \o messages

DidOpen ==
  /\ Idle("didOpen")
  /\ LET msg == Head(toServer) IN
     /\ documents' = [documents EXCEPT
                        ![msg.uri] = [version |-> msg.version, text |-> msg.text]]
     /\ Send(<<Publish(msg.uri, msg.text, Known)>>)
  /\ UNCHANGED <<phase, job, base, user, ignored, path, disk, client>>

(* A change of a document that is not open, or with a range that is not in *)
(* it, is an Err that leaves the message loop: the server exits.           *)
DidChange ==
  /\ Idle("didChange")
  /\ LET msg == Head(toServer)
         doc == documents[msg.uri]
         texts == IF doc = None THEN {} ELSE Applied(doc.text, msg.changes)
     IN  IF texts # {}
         THEN /\ \E text \in texts :
                   /\ documents' = [documents EXCEPT
                                      ![msg.uri] = [version |-> msg.version, text |-> text]]
                   /\ Send(<<Publish(msg.uri, text, Known)>>)
              /\ UNCHANGED phase
         ELSE /\ phase' = "down"
              /\ UNCHANGED <<documents, toClient>>
  /\ UNCHANGED <<job, base, user, ignored, path, disk, client>>

DidClose ==
  /\ Idle("didClose")
  /\ LET u == Head(toServer).uri IN
     /\ documents' = [documents EXCEPT ![u] = None]
     /\ Send(<<[m |-> "publish", uri |-> u, diagnostics |-> {}]>>)
  /\ UNCHANGED <<phase, job, base, user, ignored, path, disk, client>>

(* Mutant: the open documents wait for their next change. *)
ConfigureSilent(known) == <<>>

ConfigurePublishes(known) == PublishAll(documents, known)

(* State::configure: no words keep the old ones, no path keeps the old one  *)
(* and the user dictionary; a path replaces the user dictionary by what the *)
(* file holds.                                                             *)
DidChangeConfiguration ==
  /\ Idle("configure")
  /\ LET config == Head(toServer).config IN
     /\ base' = IF config.words = {} THEN base ELSE config.words
     /\ ignored' = config.ignored
     /\ path' = (path \/ config.path)
     /\ user' \in IF config.path THEN Reloaded ELSE {user}
     /\ torn' = IF config.path THEN GivenUp ELSE torn
  /\ Send(ConfigurePublishes(base' \cup user' \cup ignored'))
  /\ UNCHANGED <<phase, job, documents, file, client>>

(* The quick fixes for one finding: replacements, then the directive on a  *)
(* line of its own before the finding's.                                   *)
EditsFor(text, finding) ==
  LET i == finding[1]
      start == LineStart(text, i - 1, ServerEnds)
  IN  {[from |-> i - 1, to |-> i, new |-> <<s>>] : s \in Similar[finding[2]] \cap base}
      \cup {[from |-> start, to |-> start,
              new |-> <<Ferrolex, Ignore, finding[2], Feed>>]}

CodeAction ==
  /\ Idle("codeAction")
  /\ LET msg == Head(toServer)
         doc == documents[msg.uri]
         hits == IF doc = None THEN {}
                 ELSE {f \in FindingsIn(doc.text, Known) : f[1] = msg.at}
     IN  Send(<<Answer(msg, "actions", UNION {EditsFor(doc.text, f) : f \in hits})>>)
  /\ UNCHANGED <<phase, job, base, user, ignored, path, documents, disk, client>>

(* workspace/executeCommand: insert, then persist_user_dictionary.         *)
AddToDictionary ==
  /\ Idle("add")
  /\ LET msg == Head(toServer) IN
     IF msg.word \in Invalid
     THEN /\ Send(<<Answer(msg, "error", {})>>)
          /\ UNCHANGED <<user, phase, job>>
     ELSE /\ user' = user \cup {msg.word}
          /\ job' = msg
          /\ phase' = IF path THEN "open" ELSE "reply"
          /\ UNCHANGED toClient
  /\ UNCHANGED <<base, ignored, path, documents, disk, client>>

(* Any other request, command or argument list is answered with an error.  *)
Unsupported ==
  /\ Idle("other")
  /\ Send(<<Answer(Head(toServer), "error", {})>>)
  /\ UNCHANGED <<phase, job, base, user, ignored, path, documents, disk, client>>

(* fs::write opens with O_TRUNC ...                                        *)
OpenFile ==
  /\ phase = "open"
  /\ file' = [words |-> {}, held |-> TRUE]
  /\ torn' = IF torn = "no" THEN "torn" ELSE torn
  /\ phase' = "write"
  /\ UNCHANGED <<job, base, user, ignored, path, documents, toServer, toClient, client>>

(* Mutant: what is written is what the configuration knows. *)
PersistedBase == base

Persisted == user

(* ... and writes to the file it opened, whatever has the name by now.     *)
WriteFile ==
  /\ phase = "write"
  /\ file' = IF file.held THEN [words |-> Persisted, held |-> FALSE] ELSE file
  /\ torn' = IF torn = "torn" THEN "no" ELSE torn
  /\ phase' = "reply"
  /\ UNCHANGED <<job, base, user, ignored, path, documents, toServer, toClient, client>>

(* A failure answers the request and changes nothing else: the word stays   *)
(* in memory.                                                              *)
PersistFails ==
  /\ "persist" \in Faults
  /\ phase \in {"open", "write"}
  /\ file' = [file EXCEPT !.held = FALSE]
  /\ phase' = "idle"
  /\ job' = None
  /\ Send(<<Answer(job, "error", {})>>)
  /\ UNCHANGED <<base, user, ignored, path, documents, torn, toServer, client>>

(* Mutants: the answer is forgotten, or overtakes the diagnostics. *)
RepliesNot == PublishAll(documents, Known)
RepliesFirst ==
  <<Answer(job, "added", {})>> \o PublishAll(documents, Known)

Replies ==
  Append(PublishAll(documents, Known), Answer(job, "added", {}))

Reply ==
  /\ phase = "reply"
  /\ Send(Replies)
  /\ phase' = "idle"
  /\ job' = None
  /\ acked' = IF path THEN acked \cup {job.word} ELSE acked
  /\ UNCHANGED <<base, user, ignored, path, documents, disk, toServer>>
  /\ UNCHANGED <<editor, shown, pending, offered, sent, silenced>>

-----------------------------------------------------------------------------
(* The client                                                              *)

Ask(msg) ==
  /\ phase # "down"
  /\ sent < MaxSent
  /\ sent' = sent + 1
  /\ toServer' = Append(toServer, msg)
  /\ UNCHANGED <<server, disk, toClient>>

OpenDocument(u, text) ==
  /\ editor[u] = None
  /\ Ask([m |-> "didOpen", uri |-> u, version |-> sent, text |-> text])
  /\ editor' = [editor EXCEPT ![u] = [version |-> sent, text |-> text]]
  /\ UNCHANGED <<shown, pending, offered, acked, silenced>>

(* What the user does to a text: paste a new one, type or delete a word or *)
(* a line end, or both, the second place in the result of the first.       *)
Paste(text) == [whole |-> TRUE, from |-> 0, to |-> 0, new |-> text]
Type(i, w) == [whole |-> FALSE, from |-> i, to |-> i, new |-> <<w>>]
Delete(i) == [whole |-> FALSE, from |-> i - 1, to |-> i, new |-> <<>>]

Changes(text) ==
  {<<Paste(t)>> : t \in Text}
  \cup {<<Type(i, w)>> : i \in 0..Len(text), w \in Typed}
  \cup {<<Delete(i)>> : i \in 1..Len(text)}
  \cup {<<Type(0, w), Delete(i)>> : w \in Typed, i \in 1..Len(text) + 1}

EditedBy(text, e) ==
  IF e.whole THEN e.new ELSE Splice(text, e.from, e.to, e.new)

Edited(text, edits) ==
  LET after[n \in 0..Len(edits)] ==
        IF n = 0 THEN text ELSE EditedBy(after[n - 1], edits[n])
  IN  after[Len(edits)]

(* The notification of these edits: each range is of the text that the     *)
(* edits before it leave.                                                  *)
Positioned(text, edits) ==
  [n \in DOMAIN edits |->
     LET e == edits[n]
         now == Edited(text, SubSeq(edits, 1, n - 1))
     IN  [whole |-> e.whole, start |-> PositionOf(now, e.from, ClientEnds),
          end |-> PositionOf(now, e.to, ClientEnds), new |-> e.new]]

ChangeDocument(u, edits) ==
  /\ LET text == Edited(editor[u].text, edits) IN
     /\ Len(text) <= MaxText
     /\ editor' = [editor EXCEPT ![u] = [version |-> sent, text |-> text]]
  /\ Ask([m |-> "didChange", uri |-> u, version |-> sent,
          changes |-> Positioned(editor[u].text, edits)])
  /\ UNCHANGED <<shown, pending, offered, acked>>

EditDocument(u) ==
  /\ editor[u] # None
  /\ \E edits \in Changes(editor[u].text) : ChangeDocument(u, edits)
  /\ silenced' = [silenced EXCEPT ![u] = {}]

(* An action is applied to the text it was asked for.                      *)
ApplyAction(edit) ==
  LET u == offered.uri IN
  /\ edit \in offered.edits
  /\ editor[u] # None
  /\ editor[u].version = offered.version
  /\ ChangeDocument(u, <<[whole |-> FALSE, from |-> edit.from, to |-> edit.to,
                           new |-> edit.new]>>)
  /\ silenced' = [silenced EXCEPT
                    ![u] = IF Len(edit.new) = 4 THEN {edit.new[3]} ELSE {}]

CloseDocument(u) ==
  /\ editor[u] # None
  /\ Ask([m |-> "didClose", uri |-> u])
  /\ editor' = [editor EXCEPT ![u] = None]
  /\ silenced' = [silenced EXCEPT ![u] = {}]
  /\ UNCHANGED <<shown, pending, offered, acked>>

Configure(config) ==
  /\ Ask([m |-> "configure", config |-> config])
  /\ UNCHANGED <<editor, shown, pending, offered, acked, silenced>>

Request(msg) ==
  /\ Ask(msg)
  /\ pending' = pending \cup {msg}
  /\ UNCHANGED <<editor, shown, offered, acked, silenced>>

(* A request at the word with index i. *)
RequestActions(u, i) ==
  /\ editor[u] # None
  /\ i \in DOMAIN editor[u].text
  /\ Request([m |-> "codeAction", id |-> sent, uri |-> u, at |-> i,
              version |-> editor[u].version])

RequestAdd(w) == Request([m |-> "add", id |-> sent, word |-> w])

RequestOther == Request([m |-> "other", id |-> sent])

Received(m) ==
  /\ toClient # <<>>
  /\ Head(toClient).m = m
  /\ toClient' = Tail(toClient)
  /\ UNCHANGED <<server, disk, toServer>>

ShowDiagnostics ==
  /\ Received("publish")
  /\ shown' = [shown EXCEPT ![Head(toClient).uri] = Head(toClient).diagnostics]
  /\ UNCHANGED <<editor, pending, offered, sent, acked, silenced>>

ReceiveAnswer ==
  /\ Received("answer")
  /\ LET answer == Head(toClient) IN \E request \in pending :
       /\ request.id = answer.id
       /\ pending' = pending \ {request}
       /\ offered' = IF answer.kind = "actions"
                     THEN [uri |-> request.uri, version |-> request.version,
                           edits |-> answer.edits]
                     ELSE offered
  /\ UNCHANGED <<editor, shown, sent, acked, silenced>>

-----------------------------------------------------------------------------
(* The end of a server and the launch of the next                          *)

Crash ==
  /\ "crash" \in Faults
  /\ phase # "down"
  /\ phase' = "down"
  /\ file' = [file EXCEPT !.held = FALSE]
  /\ torn' = GivenUp
  /\ UNCHANGED <<job, base, user, ignored, path, documents, toServer, toClient, client>>

(* The client launches another server and opens its documents there.       *)
Restart ==
  /\ phase = "down"
  /\ \E config \in Config : Launch(config)
  /\ toServer' = LET open == SetToSeq({u \in Uri : editor[u] # None}) IN
       [i \in DOMAIN open |-> [m |-> "didOpen", uri |-> open[i],
                               version |-> editor[open[i]].version,
                               text |-> editor[open[i]].text]]
  /\ toClient' = <<>>
  /\ shown' = [u \in Uri |-> {}]
  /\ pending' = {}
  /\ offered' = NoOffer
  /\ UNCHANGED <<disk, editor, sent, acked, silenced>>

-----------------------------------------------------------------------------

Serve ==
  \/ DidOpen \/ DidChange \/ DidClose \/ DidChangeConfiguration
  \/ CodeAction \/ AddToDictionary \/ Unsupported
  \/ OpenFile \/ WriteFile \/ PersistFails \/ Reply

Receive == ShowDiagnostics \/ ReceiveAnswer

Use ==
  \/ \E u \in Uri, text \in Text : OpenDocument(u, text)
  \/ \E u \in Uri : EditDocument(u) \/ CloseDocument(u)
  \/ \E u \in Uri, i \in 1..MaxText : RequestActions(u, i)
  \/ \E edit \in offered.edits : ApplyAction(edit)
  \/ \E config \in Config : Configure(config)
  \/ \E w \in Word \ ClientEnds : RequestAdd(w)
  \/ RequestOther

Next == Serve \/ Receive \/ Use \/ Crash \/ Restart

Spec == Init /\ [][Next]_vars

(* The server does not wait for anything but its input; the client reads    *)
(* what the server sends and launches a server that ended again.           *)
Fairness == WF_vars(Serve) /\ WF_vars(Receive) /\ WF_vars(Restart)

FairSpec == Spec /\ Fairness

-----------------------------------------------------------------------------
(* Properties                                                              *)

TypeOK ==
  /\ phase \in {"idle", "open", "write", "reply", "down"}
  /\ base \in (SUBSET Word) \ {{}} /\ user \subseteq Word /\ ignored \subseteq Word
  /\ path \in BOOLEAN
  /\ documents \in [Uri -> Doc \cup {None}]
  /\ file.words \subseteq Word /\ file.held \in BOOLEAN
  /\ torn \in {"no", "torn", "lost"}
  /\ editor \in [Uri -> Doc \cup {None}]
  /\ shown \in [Uri -> SUBSET (Nat \X Word)]
  /\ sent \in 0..MaxSent
  /\ acked \subseteq Word /\ silenced \in [Uri -> SUBSET Word]

(* Incremental synchronisation: once the server has read everything, it     *)
(* has the client's texts, ranges of a notification found and applied one   *)
(* after the other.                                                        *)
InSync ==
  phase # "down" /\ toServer = <<>> =>
    \A u \in Uri : documents[u] = editor[u]

(* No change of a client makes the server exit: each range it sends is one *)
(* of the text the server has by then.  Clients send the exact position of *)
(* a place in their text, never one past the end of a line.                *)
StaysUp == [][phase # "down" /\ phase' = "down" => Crash]_vars

(* When all is read on both sides, the client shows the findings of its     *)
(* texts under the server's dictionaries, and none for closed documents:    *)
(* every handler that changes either republishes what it affects.  Only a   *)
(* word that could not be saved is known and still shown.                  *)
ShownIsCurrent ==
  phase = "idle" /\ toServer = <<>> /\ toClient = <<>> =>
    \A u \in Uri :
      LET current == IF editor[u] = None THEN {} ELSE FindingsIn(editor[u].text, Known)
      IN  /\ current \subseteq shown[u]
          /\ \A finding \in shown[u] \ current :
               editor[u] # None /\ finding[2] \in user \ file.words

(* A client that is told its word was added does not show it as unknown any *)
(* more: the diagnostics go out before the answer.                          *)
AddedIsClean ==
  [][\A request \in pending \ pending' :
       phase # "down" /\ request.m = "add" /\ Head(toClient).kind = "added" =>
         \A u \in Uri : \A finding \in shown[u] : finding[2] # request.word]_vars

(* A request is on its way, in work or answered: never lost, never twice.   *)
OneAnswer ==
  phase # "down" => \A request \in pending :
    Cardinality({i \in DOMAIN toServer : toServer[i] = request})
    + (IF job = request THEN 1 ELSE 0)
    + Cardinality({i \in DOMAIN toClient :
                     toClient[i].m = "answer" /\ toClient[i].id = request.id}) = 1

(* Words the server reported as added to its file are there, unless a        *)
(* rewriting of it was interrupted and not repeated by the same server: a   *)
(* write that succeeds later brings back what a failed one truncated.      *)
AckedSaved == torn = "no" => acked \subseteq file.words

(* A word the user chose to ignore in a document is not shown there.        *)
IgnoreHonoured ==
  phase = "idle" /\ toServer = <<>> /\ toClient = <<>> =>
    \A u \in Uri : \A finding \in shown[u] : finding[2] \notin silenced[u]

(* Every request is answered.                                              *)
Answered ==
  \A id \in 0..MaxSent :
    (\E request \in pending : request.id = id)
      ~> (\A request \in pending : request.id # id)
=============================================================================
