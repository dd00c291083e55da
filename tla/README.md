# Ferrolex: TLA+ models and proofs

Ferrolex is a spell checker written in Rust: dictionaries (plain word lists,
Hunspell imports, compiled artifacts), a recogniser, a bounded suggester, an
analyzer for source code, an installer for reviewed dictionaries, and front ends
(command line, language server, Node.js, C, Python). This directory models the
parts whose correctness depends on more than one step or more than one actor,
checks the models with TLC on small instances, and proves the main results with
TLAPS for every value of the constants.

Much of the program is sequential and immutable once built. What is hard about
it is of two kinds. At its edges: several processes on one cache directory or on
one word list, a file system that can fail or stop between two calls, an editor
that sends messages faster than the server reads them. And in its core: one
relation (which words a Hunspell dictionary accepts) computed by several
searches that must agree, each with an index, a frontier or a budget that may
lose nothing; and a suggester that asks many layers and shares a small budget
among them.

## 1. Inventory

| Component (source) | State it keeps | Operations | What is hard |
| --- | --- | --- | --- |
| Dictionary installer (`crates/ferrolex-dictionaries`) | `<cache>/<locale>/{aff,dic}`, hidden temporaries, a hidden lock, a process-wide counter | `install` → `install_file` for affixes, then words: look, fetch, verify, write a temporary, sync, link or rename, sync the directory | concurrent callers of different revisions, file systems without hard links, killed processes, power loss, sweeping old temporaries |
| Catalog and manifests (same crate) | immutable values | `validate`, `find`, fetchers | none beyond parsing |
| User word list (`crates/ferrolex-cli`, `dictionary add-word`) | `words.txt`, its lock and temporaries | lock, read, insert, write, sync, rename, sync the directory, unlock | lost updates, torn files, failing calls, locks of dead processes |
| User dictionary overlay (`ferrolex-core/overlay.rs`) | a set behind a `RwLock` | insert, remove, snapshot, text form | words the text form cannot hold |
| Language server (`ferrolex-lsp`) | open documents, configuration, base and user dictionary, the user dictionary file | the notifications and requests of `run` | messages under way, several ranges per change, diagnostics that go stale, a server that ends |
| Suggester (`ferrolex-suggest`) | per call: two counters, the candidates so far | a direct pass, a pass over seeds and derived words, a pass over what was left | two limits shared by three passes; reservations that are given back |
| Candidate index (`ferrolex-core/candidate_index.rs`) | an index behind a `OnceLock` | built at the first request with its limit | a later request with a larger limit; pruning that loses a word |
| Word lists, composition (`ferrolex-core`) | immutable layers | lookup, enumeration, admission, frequency | four questions that each layer answers on its own |
| Hunspell import (`ferrolex-hunspell/parse.rs`, `lib.rs`) | the open section, what was declared, aliases, the dictionary so far | one line after another of `.aff`, then `.dic` | counted sections that take the lines of others; directives that depend on order |
| Hunspell recognition (`lib.rs`, `compound.rs`, `model.rs`) | per question: stacks, sets of forms, frontiers of boundaries, budgets | `contains`: conversions, breaks, case, stems, affixes, compounds | a way back that must find what the way forth derives; budgets; a dozen paths that ask about flags |
| Hunspell explanations (`explanation.rs`) | none | `explain` | a second implementation of recognition |
| Hunspell runtime cache (`cache.rs`) | a file | compile, load | bounds of the reader against the sizes of the writer; files read after the files they stand for |
| Compiler (`ferrolex-compiler`) | an artifact file | compile, open, lookup | validation of untrusted offsets |
| Analyzer (`ferrolex-code`) | per document: a switch and a set of ignored words | `check`: directives, then tokens, then identifier segments | order of directives; two implementations of segmentation; precedence of classes |
| Install workflow and loading (`ferrolex-cli`) | the installed pair and the cache compiled from it | install, compile the cache, load | three files read one after another while they are written |
| Plain text checker, arguments, globs, bindings, umbrella crate | none | conversions | none |

How they interact: the command line and the Node.js binding call the installer,
in one process or in many; the command line compiles the installed pair into a
runtime cache and loads both; the language server and `add-word` use the same
text form for a user word list and may be pointed at the same file; server and
client exchange ordered messages over pipes; the analyzer asks a dictionary,
the server asks the analyzer and the suggester, the suggester asks a composition
of candidate sources: word lists, artifacts, Hunspell dictionaries and the
overlay, which other threads change meanwhile.

What would make each correct:

* installer: a final name holds verified bytes or nothing, never changes, the
  words of a revision never stand beside other affixes, success means that both
  files are there, every call returns and leaves nothing behind;
* word list: a word reported as added stays, through crashes and concurrent
  writers, and the list never reads as something nobody wrote;
* server: it has the client's text, its diagnostics are those of the text and
  the dictionaries of the moment, every request is answered once, it ends only
  when it is told to;
* suggester: the limits hold, neither source starves the other, and a result
  that is called complete was;
* analyzer: findings are exactly the unknown words outside what directives and
  configuration exclude;
* import: a line that bears on what is recognised is understood or an error;
* recognition: each search finds exactly what the rules derive, ends, and says so
  only when it gave up; what is excluded adds no word on any path;
* explanation: it agrees with recognition and names what makes up the word;
* cache: it means the same as the files it was compiled from, or nothing;
* candidates: no near word is lost by an index, a stale limit or a change of the
  overlay, and none is offered against the policy of the layer that has it.

## 2. Modules

| Module | What it is |
| --- | --- |
| `VerifiedStore` | abstract: a directory that is written once per file, affixes first, with the bytes of a caller's manifest |
| `DictionaryInstaller` | `DictionaryInstaller::install`, one action per file-system call |
| `DictionaryInstallerProofs` | TLAPS proofs about it |
| `UserWordStore` | abstract: a set to which words are added, and what survives a stop of the machine |
| `UserDictionaryFile` | `add_user_dictionary_word`, one action per file-system call |
| `UserDictionaryFileProofs` | TLAPS proofs about it, with the refinement of `UserWordStore` |
| `LspServer` | `run` of the language server, its client, the pipes and the dictionary file |
| `LspServerProofs` | TLAPS proofs about it |
| `SharedUserDictionary` | `LspServer` and `UserDictionaryFile` on one file |
| `SuggestBudget` | `Suggester::suggest_into`: its three passes and their budget |
| `IdentifierSplit` | `split_identifier` and `identifier_segment_count`, the two segmentations |
| `Analyzer` | `Analyzer::check`: directives, classes, policies, findings |
| `AnalyzerProofs` | TLAPS proofs about both |
| `RuntimeCache` | `dictionary install` and the loading of what it installed, on top of `VerifiedStore` |
| `RuntimeCacheProofs` | TLAPS proofs about it |
| `HunspellModel` | the data of a dictionary, and what one affix rule does (`model.rs`) |
| `HunspellCompound` | stems, single affixes, and the five ways to form compounds (`compound.rs`) |
| `HunspellLookup` | `contains` and the related forms; `DerivedWord`, the relation of derived affixes |
| `HunspellDerivation` | the two budgeted searches that decide `DerivedWord` |
| `HunspellDerivationProofs` | TLAPS proofs about them |
| `HunspellExplanation` | `explain` |
| `HunspellSyntax`, `HunspellImport` | the fields of a line, and the importer, one step per line |
| `HunspellCodec` | what the sections of a runtime cache say: every writer and its reader |
| `HunspellCache` | the runtime cache: validation, sizes, header, bounds of the readers |
| `Hunspell` | import, cache and questions composed, and the properties between them |
| `HunspellProofs` | TLAPS proofs about them |
| `CandidateIndex` | the index of a word source, and the edit distance it must respect |
| `CandidateSearch` | callers that ask one composition of layers for suggestions |
| `SuggestProofs` | TLAPS proofs about `SuggestBudget` and about these two |
| `MC*` | the instances TLC checks |

### DictionaryInstaller

A caller is a process or thread inside `install`; `pc` says before which call it
is, `manifest`, `file`, `data` and `temp` are its locals, `counter` the
`TEMPORARY_FILE_COUNTER` of its process. The shared state is the directory:
`dest` (final names), `temps` (temporary names, keyed by file, pid and counter
as `hidden_sibling` forms them), `disk` (the final names as of the last
directory sync), `stale` (temporaries an hour old) and `lock` (the flock of each
`.install-lock`). A file is a record of its bytes, whether they are synced and
who has it open; a hard link copies the record, so a write through a temporary
that is already linked shows under the final name too, as it does on disk.

Steps follow `install_file` and `atomic_write_new_with_hard_link`: `Install`,
`DestinationExists`, `ReuseDestination`, `Fetch`, `Sweep`, `Create`, `Write`,
`Sync`, `Link` with its branches `MatchWinner` and `Unlink`, the fallback
`AcquireLock` … `RenameMatch`, `SyncDirectory`, `Cleanup`. `IoError` is any of
the calls failing, with the cleanup and the unlock of the error return. The
environment can suspend a caller for an hour (`Age`), end a process (`Kill`,
which frees its locks), stop the machine (`PowerLoss`: unsynced data may be
torn, unsynced names may be the old ones), and be another program
(`ForeignWrite`). A caller that is done may call again with another manifest.

A sweep looks at the age of a file and removes it in two calls (`FindStale`,
`RemoveStale`; `EndSweep` goes on, whatever it left). `found` is the file between
the two, and a file that its owner renews there is taken away although it is
young again. `RunningTempsKept` therefore promises a running caller its file
unless a sweep under way has seen it an hour old (`sawOld`, a history variable):
no other call of another caller takes it.

`VerifiedStore` is the promise of `docs/dictionary-fetching.md` without files in
between. `ImplementsStore` is the refinement: `store` is the bytes under the
final names, `reply` is what a caller was told; every step of every caller maps
to a step of the store or to none.

### UserDictionaryFile

The whole cycle of `add_user_dictionary_word` under its lock. A text is the set
of its entries; a text that was cut short reads as `{Torn}`; spellings that are
equal under NFC are one word. `file` is `words.txt`, `durable` the set of texts
one of which it holds after a power loss: a rename adds to it, a directory sync
makes it one. Temporaries of a list are made, renewed and removed under its lock,
so the sweep, which the holder of the lock runs, is one step; what it fails to
remove stays. `UserWordStore` is the same set without files; `ImplementsStore`
maps `word` and `reply` as above.

### LspServer

The server handles one message at a time, so a handler is one action, except
for the command that writes the dictionary: `fs::write` opens (and truncates),
then writes, and the server may end in between, so `AddToDictionary`,
`OpenFile`, `WriteFile`, `PersistFails` and `Reply` are steps of their own. The
client keeps its own texts (`editor`) and its view of the diagnostics (`shown`)
and sends without waiting; `toServer` and `toClient` are the two pipes. `Crash`
and `Restart` are a server that ends and a client that launches another and
opens its documents there.

A text is a sequence of words and line ends. A word is a character of one or two
UTF-16 units (`Wide`). A client sends the ranges of its changes as lines and units
(`Positioned`); the server finds each in the text that the changes before it
leave (`PositionToByte`), as `position_to_byte` does: no place for a position inside
a character or past the end of its line, the end of the text for the start of a
line that is not there, and lines end at a line feed only. For the protocol they
also end at a lone carriage return; `Returns` are such line ends, which the passing
run and the theorems leave out and `LspReturns` has. The position of a request
for actions, and what the server sends, are indexes into the text. The directive
that the Ignore action inserts is a line of its own.

`acked` (words reported as saved) and `silenced` (words whose Ignore action was
the last edit) are history variables for the properties.

### SuggestBudget

A call chooses limits, a sequence of direct candidates and a sequence of seeds
with the candidates derived from them. `examined` and `cells` are the two
counters, `quota` the reservation of the running pass, `left` the candidates a
pass kept for the last one. A candidate is what `consider_candidate` can tell
apart: skipped before it is counted, accepted by a replacement without counting
cells, or compared at a cost. `nDirect` and `nRelated` count compared candidates
of each source; they are history variables, as is the record of what every pass
stopped at.

### IdentifierSplit and Analyzer

A text is a sequence of characters and a character is what `char::is_alphabetic`,
`is_numeric`, `is_uppercase`, `is_lowercase` and its combining class say of it;
Roman numerals, which are numeric and have case, and letters without case are
among them. Runs and segments are pairs of positions, found by where a run is
cut. `SegmentCount` follows the loop of the allocation-free second
implementation. `Analyzer` has one action per line of either pass of `check`;
`disabled` and `ignored` are `DirectiveState`. What a hash or another
machine-made token looks like is a field of the token.

### RuntimeCache

An installing process runs the steps of `VerifiedStore` (`Install`, `StoreFile`,
`Fetched`), then reads the pair again (`ReadAff`, `Import`) and replaces the cache
(`Sweep`, in steps like those of the installer, … `Ready`). A loading process reads affixes, words and cache
(`LoadSource`, `LoadCache`). A dictionary is what it was imported from: two
contents, encodings, and the recognition semantics of the program that imported
it; `Accepted` is the check of `load_runtime_cache`. `Policy` are the encodings of
the catalog, `Declared` those of the affix file, which a load without a cache
has to use. `durable` is the set of contents one of which the cache has after a
power loss. `ready`, `expected` and `overtaken` are history variables: the cache
a load may count on, and the installs that began before a file was taken away.

### Hunspell

`HunspellImport` reads a line per step. `section` is the counted section that is
open, which takes every line whatever it says; `declared`, `aliases` and
`morphologies` are the parser's other locals; `diagnostics` are places and
severities. Fields are sequences of characters and are parsed as `parse.rs` does
(`HunspellSyntax`); a parser returns a set of at most one value.

`HunspellLookup!ContainsWord` is `contains`: input conversion, breaks, then
`ContainsNormalized` for the spelling and its folded forms. It is made of
operators, since nothing of it is kept between two questions, with two
exceptions. Compounds (`HunspellCompound`) extend the frontier of boundaries
that so many components can end at, as the code does (`reach`), so that where
the code gives up is visible. The affix search (`HunspellDerivation`) is a state
machine: `TakeRulesOff` is one turn of the loop of `derived_candidate_indices`,
`NextEntry` and `Derive` those of `matches_derived_word`, and `pending`, `forms`,
`candidates`, `states`, `derivations` their locals. A stack gives one of its
deepest elements; which one depends on the order of rules in the file, and is
left open.

`HunspellExplanation` is translated from `explanation.rs` and shares with
recognition only what the code shares. Where the code looks for one division of
the word into the parts asked for (`trace_compound_from`, depth first),
`Divisions` has all of them, part by part. The bound on the steps of this search
(`MAX_COMPOUND_TRACE_STEPS`) is left out: beyond it, as after a search in vain,
the last stage asks recognition again and answers without a trace.

Of the cases of letters `HunspellModel` knows the two tables `Casing` has for a
language; a letter they do not list stands for itself.

`HunspellCodec` has each `write_*` and its `read_*`: which fields go where, what
stands for a mark or a missing value, which section a rule is written to and
which kind a section takes. What is written one after the other is a tuple, so
that a field read at another place is another dictionary. The bytes of numbers
and texts are left out, and so is the order of entries and rules within their
sections (rules carry their number). A class of one letter in a condition is
written as the letter.

`HunspellCache` has a record for an artifact: its header, its content as the
writers put it down, its length, a checksum that is the rest of it.
`CompileRuntimeCache` is the validation, the writing and the size;
`LoadRuntimeArtifact` and `LoadRuntimeCache` the checks of the readers and the
reading. `EnoughBytes` is `require_minimum_items` for each section,
`EnoughForFlags` that of `read_flags`, which asks for five bytes a flag in every
entry and rule where a number takes four.

`Hunspell` runs them one after the other: `Import`, `Compile`, `Disturb` (the file
is what another version wrote, belongs to other sources, is damaged, cut or
longer), `Load`, then `LookUp` … `Return` for every spelling asked.

### CandidateIndex and CandidateSearch

`NewIndex` and `VisitNearby` are `CandidateIndex`: postings by length and by
letter, the multiset bound, and the linear scan when the request's limit is
beyond that of the index; `Distance` is the optimal string alignment they may not
lose a word of. `CandidateSearch` has several callers of one composition. A step is
the visit of one layer (`VisitLayer`, which builds the index behind its
`OnceLock` or takes the snapshot of an overlay), one candidate (`Consider`: the
distance or a replacement, the presentation in the case of the query, the
admission by all layers), or the ranking (`Rank`: order, repeated words,
truncation). `InsertWord` and `RemoveWord` are other threads at the overlay.
`seen` (what the overlay held during a request, always or at some time) is a
history variable. The multiset two words share is the set of their letters, each
with its number among those alike (`Numbered`); what the code sorts is a finite
set put in order (`Arranged`).

## 3. Runs

| Run | Shows | Bounds |
| --- | --- | --- |
| `InstallerLink` | success means installed and stays so, a live temporary is taken away only by a sweep that has seen it an hour old | 2 callers, 2 revisions, 2 temporaries per process, 1 orphan; bad responses, failing calls, kills, sleeps, a foreign program (862,498 states) |
| `InstallerRename` | without hard links: the verified store is implemented, no pair is mixed, races end well, nothing is left over and calls return | 2 callers, 2 revisions, 4 temporaries, no faults (8,797 states); that failing calls leave nothing behind either is `NoLeftoversCorrect` |
| `InstallerPower` | verified bytes after a power loss, kill or failure at any step | one caller links, one renames; 1 revision (550,413 states) |
| `AddWord` | acknowledged words stay, the file is well-formed, the set is implemented, calls return | 2 processes, 2 words and one that is refused, 1 orphan, all faults |
| `Lsp` | synchronisation, one answer per request and an answer in the end, current diagnostics, no exit over an edit, added words are clean and words reported as saved are in the file | either 1 document with texts of up to 4 words and line ends, one word of two UTF-16 units, or 2 documents under 3 configurations; 3 messages; crashes and failing writes (190,220 states) |
| `LspReturns` | (violation) after an edit near a lone carriage return client and server have different texts | 1 document, texts of 2, 2 messages |
| `LspIgnore` | (violation) the Ignore action does nothing | 1 document, 3 messages |
| `SharedLosesCli` | (violation) the server overwrites words of `add-word` | 1 process, 1 document |
| `Checking` | suggester: limits, shares, charging once, completeness; analyzer: the segmentations agree, no letter is lost or checked twice, findings are exact and in order; candidates: no near word is lost, none is offered against its policy | up to 3 direct candidates, 2 seeds, limits 0..3 and 1, 4, 6 cells; texts of up to 4 of 10 characters, documents of up to 3 of 8 lines, 2 policies, 2 dictionaries; 3 compositions of 2 layers, one caller with queries of up to 3 letters at distance 1 or 2, one that has the index built, 1 change of the overlay (781,744 states) |
| `RuntimeCache` | a load is what it has read or an error, the cache is never torn, what is ready is found | 2 installs of 2 program versions, 1 reader, 1 removal of the words or the cache, all faults |
| `Hunspell` | an import loses no line in silence, a cache gives its dictionary back field by field or nothing, and nothing for few dictionaries only, the searches are exact and end, compounds are exact, excluded entries add nothing, related forms are words, explanations agree | 26 dictionaries that between them have every directive of recognition, asked all words of up to 3, 4 or 6 letters over their alphabet; the 2,304 pairs of 48 lines; encodings and long lines; budgets of 40 forms, 4 entries, 12 derivations; entries of 87 and 88 numeric flags (59,529 states) |
| `SearchPolicy` | (violation) beside an overlay, a Hunspell dictionary offers stems it forbids or marks as no suggestion | 1 composition, no change |

`Lsp` and `Checking` hold several instances each: a variable (`setting`, `working`)
is chosen in the initial state and says which of them a behaviour belongs to. In
`Lsp` it restricts what the user does, so that either many texts or many
configurations are met; in `Checking` it says which of three parts, which share
no state, takes its steps.

Why the bounds are enough. Two callers with two revisions have every pairwise
race: same revision, other revision, one behind the other at every call; a third
caller adds no new kind of step since all steps concern one name. A process that
creates two temporaries has met its own leftovers (names depend on the counter),
one orphan is enough for a name to be taken. Two add-word processes and two
words lose an update if the lock or the read is wrong. Three messages are an
open, a change and one more (a request, a close, a second change on top), which
is the shortest history in which a stale position, answer or diagnostic can
occur; with two open documents one of them is the new configuration.
Candidates that cost nothing, one cell or three, under limits that are odd, even
or zero, meet every rounding and every order of running out. Four characters
hold a cut with a character on either side of it, which is all a cut depends
on, and a joined prefix with two more segments; three lines hold a switch, its
undoing and a line after either. One reader reads at every point of two
installs, and two versions of the semantics are enough to have the wrong one;
one removal separates what was read, what was compiled and what is there.
A rule, a condition and a flag concern one boundary of a word or one entry, so
words of four letters over three meet every order of two affixes on either
side; compounds are asked up to six letters over two, which is three components
of any shape and more than `COMPOUNDWORDMAX`. The budgets are small enough to be
used up by some of the dictionaries and large enough for the others. Pairs of
lines are what order in a file is about: a section and the line it takes, a
directive and one it comes too late for. An index is built with one of two
limits, so that it may be too small or large enough for the request that uses
it; two letters of either case and a letter that is two scalars in lower case
make folding change a word's length.

Deadlock is checked for the installer and the word list, where somebody can
always go on, and for Hunspell, where it shows that neither search is stuck. It
is switched off where the system stops: the client after `MaxSent` messages, a
call of the suggester, the analyzer or a search for candidates when it is done.

### Fairness

`InstallReturns` and `AddReturns` assume weak fairness of every caller's steps:
a scheduler runs every thread, and a file operation returns. A caller that
waits for a lock may wait while others take it again and again, and for that
step the specification assumes strong fairness; flock queues its waiters.
Nothing is assumed of faults, kills or sleepers. `Answered` assumes that the
server goes on handling input, that the client reads, and that it launches a
server again when one has ended; none is required of the user. `SearchEnds`
assumes that the importer and the search go on once they were called; they are
loops that wait for nothing.

## 4. Proofs

`DictionaryInstallerProofs` (for any number of callers, revisions and faults):

* `TypeCorrect`: `TypeOK`, one step per action.
* `VerifiedOnlyCorrect`: `VerifiedOnly` under `PidsDistinct`. The property is not
  inductive: a link publishes what a temporary holds, so one has to know what
  that is. `VerifiedInv` adds that a caller past `create_new` holds a name with
  its pid (`HoldsName`), that what it holds in memory was verified
  (`HoldsVerified`), that only the creator of a temporary has it open and only
  while it writes (`WriterHolds`), that its temporary is as far as its caller
  (`TempProgress`), and that final files are closed and synced (`FinalFiles`).
* `NoMixedPairCorrect`, `SuccessCorrect`, `NeverReplacedCorrect` (no final name
  is ever given other bytes; no run states it, since `ImplementsStore` says more
  there) and `StoreCorrect` (`ImplementsStore`, the refinement of
  `VerifiedStore`): under `PidsDistinct` and `Uniform`, that the callers all link and
  no link fails (`AllLink`), or all rename and no other program writes (`AllRename`),
  and that no power fails. All other failing calls, killed and sleeping callers
  are included. `UniformInv` has what a caller has in place so far (`InOrder`)
  and why no name is replaced. Among callers that link nothing is ever
  renamed (`NothingToRename`: the fallback is only reached when the own temporary
  was swept). Among callers that rename the lock excludes the others
  (`OneRenames`): whoever is in the locked section holds the lock of its file,
  so a name that was free under the lock is free when it is renamed to. The
  theorems share one lemma, `FinalNames`: a step leaves the final names alone or
  gives a free one a verified file.
* `RunningTempsKeptCorrect`: under `PidsDistinct`, whatever fails. What a sweep has
  found and will remove it has seen old (`FoundOld`), which the property excepts,
  and by `VerifiedInv` no other caller holds the name of a temporary, so none
  removes or renames it.
* `NoLeftoversCorrect`: where no process dies and no power fails, every temporary
  is that of a caller that still has to use or remove it (`TempsHeld`). It does
  not matter who shares a pid or has hard links.
* `RacesSucceedCorrect`: under `PidsDistinct`, `Uniform` and `Calm` (nothing fails,
  dies or sleeps). `CalmInv` adds that a temporary stays until its caller is done with
  it, and that a caller only gives up before the bytes of another revision.

`SuggestProofs` (of the budget, for every source and every limit; of the search,
for every composition, table, query and change of the overlay, and any number of
callers):

* `TypeCorrect`; `ReservationCorrect`: `ReservationInv`, that before the end the
  counters are what was compared and that the reservations of the first two
  passes do not overlap; from it `BudgetCorrect`, `ChargedOnceCorrect` and
  `SharesCorrect`, which states both shares.
* `CompleteCorrect`: a result that is called complete is. `VisitedInv` says that
  the related pass, as long as it calls itself complete, has passed over no seed
  that was too long, and that it has seen all seeds when the last pass begins.
* `NothingLostCorrect`. `SearchInv` has the types (`SearchTyped`), that the words
  the overlay had at every time of a request are still in it (`Asking`), and that
  every near word that the layers visited so far store and offer waits to be
  compared or has led to a suggestion that shows it and ranks no later than its
  distance (`Finding`, by `Reached` and `Represented`). Three arguments carry
  it. The index loses no near word: `DistanceAtLeast`, by induction over the
  sum of the two positions in the table of distances, bounds the distance from below by the
  lengths and by the multiset of shared letters, so that what is near passes both
  tests (`NearIsPossible`) and is posted under its length or under a letter it
  shares (`NearIsPosted`), whichever limit the index was built with (`VisitFinds`).
  The comparison makes a suggestion of a near word that is admitted
  (`NearIsRepresented`). And ranking keeps, of the words that were found, each or
  `results` others that rank before it (`RankedKeeps`): bytes order words and the
  comparison orders suggestions strictly and totally (`WordsTransitive`,
  `RanksBeforeOrder`), so that each has its place (`ArrangedInOrder`).
* `PolicyKeptCorrect`, where `PoliciesAlike` holds: of the compositions that ask
  every constituent of every word, each has a policy in all its layers or in none.
  `PolicyInv` says that what waits was named by a layer, and that what was found
  is offered by one. Without the hypothesis the property fails: `SearchPolicy`.

`AnalyzerProofs` (for any characters, documents, policies and dictionaries):

* `FindingsExactCorrect`. `AnalyzerInv` says of either pass what the lines before
  the present one have come to: which are in a disabled range, which words are
  ignored, and that the findings so far are those of the lines so far, in order.
  Findings of a line come from tokens, runs and segments, each of which is a
  finite set of places put in order; the lemmas show that a place has a rank,
  that ranks follow the order of places (`RanksGrow`), and that lists in order,
  one after the other, are in order (`ConcatOrdered`).
* `SegmentsExactCorrect`: the segmentation that builds segments and the one that
  only counts agree on every text, and every letter is in one segment. The first
  adds up the segments of the runs, the second reads a run from left to right
  and counts the cuts it passes: at every place its count is that of the
  cuts before it (`CountNext`, `CountToEnd`), with the exception of a joined
  prefix (`JoinedAlike`), and the counts of the runs add up (`AddedUpCounts`).

`RuntimeCacheProofs` (for any number of installs, loads, versions and removals,
under every fault):

* `TypeCorrect`, `CacheWholeCorrect`, `LoadedIsReadCorrect`, `ReadyLoadsCorrect`,
  from one invariant `IInv` with a step for every action. A cache is renamed into
  place by a process that may have read its sources long ago, so the invariant
  says what is in between: what an install read is still there unless it was
  overtaken (`ReadInv`), a synced temporary holds its import (`TempInv`), what
  "ready" promised is the only content a power loss can leave and nobody
  overtaken is left to replace it (`ReadyInv`), and a load that counts on it
  reads just those sources (`ExpectedInv`).

`UserDictionaryFileProofs` (for any number of processes and words, under every
fault; nothing is assumed of pids, since the lock alone protects a temporary):

* `TypeCorrect`; `AckedStayCorrect`, `WellFormedCorrect` and `StoreCorrect`, that
  the file implements `UserWordStore`. The invariant `Inv` says for every step of
  the section what its caller knows (`Section`): that it holds the lock, that
  what it read is still the list, that what it will rename is the list and its
  own word, complete and synced. `ListKept` says of every list that a power loss
  may bring back that it is a part of the present one with all words that were
  reported. It needs no word on callers outside the section, so a step of the
  holder leaves the others alone (`OthersWait`). `StoreNext` maps each action to a
  step of the set: the rename is `Put`, the returns are `Succeed` and `Fail`, the end
  of a process is `Leave`, a power loss `Lose`; the others stutter.

`LspServerProofs` (for any finite number of documents, any words and texts, any
number of messages on their way, under every fault unless stated otherwise), all
under `OnlyFeeds`, that no text has a lone carriage return. Both ends then count
lines alike, and the server finds the place a client means from its position
(`OneDelivered`), since lines and units grow with the place (`PositionsDiffer`).
Without the hypothesis `InSync` fails: `LspReturns`.

* `TypeCorrect`; `InSyncCorrect`, `OneAnswerCorrect`, `StaysUpCorrect`,
  `AddedIsCleanCorrect`. The properties speak of empty channels or of one end of a
  channel; the invariant has to say what is on its way. `Path` does: the messages
  of a channel lead, each read in turn, from what its reader has to what its
  writer has. `Sync` is a path of texts through `toServer`, on which every change
  fits the text it is applied to and a version of a document stands for one text.
  `Offers` adds that a code action offered for the client's version of a text fits
  that text, so that applying one keeps the path. `Talk` says that a request
  is in exactly one place: in either channel, or with the server. `Shows` is a
  path of diagnostics through `toClient` that ends where the client shows
  what the server finds (`Settled`), with the words of answered additions gone
  before their answers.
* `AckedSavedCorrect` and `ShownIsCurrentCorrect` assume `Readable`, that the
  dictionary file can always be read ("unreadable" is not among the faults): a
  server that starts with the file unreadable takes it for empty and overwrites
  it, see below. `Saved` relates memory, file and reported words. It needs no
  word on the client.

`HunspellDerivationProofs` (for every dictionary with finitely many rules, every
spelling and every budget):

* `SearchBoundedCorrect`. `SearchInv` counts: a state has used as many rules as it
  counts prefixes and suffixes, at most two of each, and every state kept but the
  first was paid for out of the budget. It needs that states are only kept while
  one entry is at work, and that a rule makes at most one form of a stem, so that
  what is added is finite.
* `DerivedExactCorrect`: the search answers yes only if some entry derives the word
  and, unless a budget was used up, whenever one does. `ExactInv` adds to
  `SearchInv` that the states kept are derivations of the entry at work
  (`StatesDerived`); that on the way back every stem of a form that was taken up,
  and every entry with that stem, has been noted (`WayBack`); and that on the way
  forth, as long as no budget was used up and the word can be derived at all,
  something still to be taken up leads to it (`WayForth`). The way back takes
  rules off a spelling where the way forth puts them on a stem; `StemsOf` relates
  the two, and the paths of a derivation are followed from either end.

Both are theorems of `SearchSpec(d)`, the search in a given dictionary `d`. They
assume `Rules(d)` (finitely many rules, each a prefix or a suffix) and, for the
second, `Spelled(d, Letter)` (stems and what rules add and take off are sequences
of some letters). That every dictionary the importer makes is such a one is
proved in `HunspellProofs`.

`HunspellProofs` (for any sources and any spellings asked):

* `HunspellInvariant`: the importer keeps the dictionary well-formed
  (`DictionaryTyped`: counts and limits are numbers, sections have the shape the
  questions expect), line by line; an artifact is what was written of it or what
  became of that (`CacheInv`); what is asked is a text. What is proved of
  recognition rests on it.
* `CacheHonestCorrect`: what a reader gives is what was written, or nothing; a
  change of version, bytes or sources is seen by the header or by the digests.
  That each reader gives back what its writer put down is a lemma for each of
  them, up to `DictionaryRead`. They need the shape of what was imported: an option
  holds one value at most, zero is no word maximum, an atom is a class, a rule is
  a prefix or a suffix (`SourcesInv`, what the importer makes of any sources).
* `CompoundExactCorrect`: a compound found by extending frontiers component by
  component is one some set of cuts makes. A frontier holds the boundaries that a
  number of legal parts reach; a path along frontiers gives the cuts (its
  ends), and the cuts, in order, give the path. That giving up at the word
  maximum loses none is part of it.
* `RelatedAreWordsCorrect`: a form offered to the suggester is a usable entry
  with rules whose flags `contains` asks for on the way back.
* `ExcludedAddNothingCorrect`: of a dictionary without the excluded entries
  (`Narrower`), every path of recognition accepts what it accepted before. None
  of them asks an excluded entry for a stem, an affixed form or a component;
  the paths that recur (derivations, frontiers, breaks) grow with what they are
  given (`FrontierGrows`), and pieces of a text are texts (`BreakPartsAreTexts`,
  `UndonePatternsAreTexts`), so that their lengths are numbers.
* `ImportedSearchBounded`, `ImportedDerivedExact`: the two theorems on the search
  hold of the whole specification, in which the dictionary comes from sources and
  perhaps through a cache. A dictionary is imported with finitely many rules, each
  a prefix or a suffix, and with spellings that are texts (`EntriesInv`, kept line
  by line and entry by entry, with the letters of IGNORE taken out); a load gives
  the imported dictionary, whatever became of the cache (`LoadGives`), and a search
  at rest may be given another (`RestsExact`).
* `LostLinesAreErrorsCorrect`: an action property of the importer, line by line. A
  line that stores must be seen to change something, so every field it stores
  into exists, every table it appends to is a sequence and a rule is numbered by
  those before it, which makes it a new one (`StoredInv`); a line that only stores
  what is there already is one of the few that `SaysNothing` names, or has added
  to what is declared. Each directive and each section is a case
  (`DirectivePasses`, `SectionPasses`). The exception are lines about suggestions,
  REP lines (section 5) and what an open table of REP, MAP or AM took.
* `CacheReadableCorrect`: the sizes of all that is written are numbers, at least
  so many for each item, and what follows a list makes up for an item that is
  shorter than its reader thinks: of a list of numeric flags, which are a byte
  short each, the 87 bytes at least behind an entry's and the 79 behind a rule's
  (`FlagsEnough`). `SizedInv` says of every field of an imported
  dictionary what its size takes: finitely many flags, each a text; patterns with
  neither part empty; breaks not anchored at both ends; conditions of finitely
  many atoms. It is kept by every directive, section, alias and entry. A sum is
  the number of the units it counts (`SumCounts`), which bounds sums over sets
  and sequences (`SumAtLeast`) and adds up the sections at the end of a file
  (`FirstEight`). The proof found the bound of an earlier `CacheReadable` wrong:
  BREAK patterns make up for compound patterns before them, and a file may grow
  past its limit after the writer looked.

* `ExplanationAgreesCorrect`: two searches for the same thing, written side by
  side, find it for the same words. One way, recognition is `explain` stage by
  stage (`StagesOf`), and where a stage searches for less than it does the last
  one repeats it (`RecognisedExplained`). The other way is what an explanation
  claims (`Explains`), stage by stage. An affixed one names the rules in the
  order of their use: the chain of `DerivedWord` is replayed from its entry
  (`MadeBy`, `Makes`). A compound one names parts: every division the trace goes
  through is a path along the frontiers of recognition (`DivisionsReached`), with
  the flag each part needs at its place, so that what is traced is recognised
  (`TracedGenericRecognised` and its companions), unless there are more parts than
  COMPOUNDWORDMAX allows, which only recognition asks of a COMPOUNDRULE. What is
  explained is a text, through IGNORE, ICONV and the folding of capitals
  (`NormalizedIsText`, `FoldedAreTexts`); the dictionary asked is the one imported
  (`AskedInv`), whose rules of compounds have two parts at least and whose
  conversions are texts (`TypedCompounds`, `SizedInv`). It assumes `CasesAreLetters`,
  that a letter becomes letters. The lemmas on texts, frontiers and explanations
  that need no importer are in `HunspellDerivationProofs`.

Recursive functions are reasoned about without the induction theorems of the
library, which take an operator as a parameter: `LeastNumber` (a set of numbers
that is not empty has a least) is proved from the well-foundedness of < and
`AllNumbers` (a set with 0 that has n + 1 with every n has all numbers) from
it; a recursion over numbers is then shown to have a solution (`SequelExists`, of
a table in two directions `FilledExists`) and its equation used. This reaches
recursion over the numbers up to a bound, sums over finite sets, restated as
numbers of units, the flattening of a sequence (`FlatExists`), and not the other
folds of the community modules.

The assumptions are those of the ASSUMEs of the modules, which TLC evaluates in
their runs (of Hunspell: `CasesAreTexts`, that each file is lines of fields that are
not empty, `DigitsAreNumbers`, `LimitsAreNumbers`, `VersionsAreNumbers`,
`SizeIsNumber`, `SearchBounds`, `CasesAreLetters`; of the search `SearchTypes`, that dictionaries hold
finitely many words and frequencies are numbers), and `PidsDistinct`, `Uniform`,
`Calm`, `Readable`, `OnlyFeeds`, `Rules`, `Spelled` and `PoliciesAlike` where a theorem names them. `PidsDistinct` is the one the code itself
relies on without saying so: see below. `Uniform` leaves out a cache directory
that some callers see with hard links and some without.

Only model-checked: that the server answers every request, that calls return and
the search ends (liveness); what the Ignore action of the server does, and its
composition with `add-word`. Every invariant and action property that a passing
run checks is a theorem too, most for every value of the constants, some under
the assumptions named above. Liveness, ENABLED and induction over data are out of
reach of the proof system and stay with TLC.

## 5. What the code does otherwise than documented

Shown by a run:

* `LspIgnore`: the Ignore code action inserts a comment the server's own
  analysis does not read, since it gives its documents no comment syntax.
* `SharedLosesCli`: the server writes the list from memory and without the lock
  that is to retain independently added words.
* `LspReturns`: lines end at a lone carriage return for an LSP client and not for
  the server, so an edit near one deletes what the client kept, or ends the server
  (`ferrolex-lsp/src/main.rs:486-513`).
* `SearchPolicy`: a composition admits a candidate if any of its layers does, and
  an overlay or a word list admits every string, so that stems Hunspell forbids or
  marks NOSUGGEST are offered (`ferrolex-core/src/composition.rs:95`,
  `ferrolex-node/src/lib.rs:210`); `docs/suggestions.md:42-45` excludes them.

Met while modelling, without a run of their own. Hunspell:

* `case_pattern` (`ferrolex-hunspell/src/model.rs:145-158`) asks `all` of an iterator
  that a first `all` has consumed in part, so `HEllo` is classed as initial
  capital; `docs/affix-semantics.md:74` has mixed case kept. The model does as the
  code does.
* Explanation and recognition differ in two ways, which `ExplainsTooMuch` names: a
  COMPOUNDRULE compound is traced without the check of its word count, and the
  capitals of a sharp s are folded without asking KEEPCASE
  (`docs/hunspell-format.md:130-133`). `rejection_reason` always asks as if KEEPCASE
  entries counted, so that reason is never given.
* The readers of the cache ask for more bytes per BREAK pattern (10) and compound
  pattern (14) than the writer needs (7 and 13), so a dictionary with eight or
  more BREAK patterns of one letter, or with 28 and more compound patterns (7 more
  for each BREAK pattern), may compile into a cache that does not load; and the
  writer asks for its size before the last tables are written, so that a cache
  may be longer than its reader allows. `read_flags` (`cache.rs:1697`) asks for five
  bytes a flag, where a numeric one takes four: under FLAG num an entry with more
  than 87 flags, or a rule with more than 79, may not load if too little follows.
  `CacheReadable` has the exceptions.
* A REP line that is no rule, or a header that is no count, is lost with a warning
  (`ferrolex-hunspell/src/parse.rs:870`). The replacements are not only for
  suggestions: under CHECKCOMPOUNDREP recognition refuses a compound that a
  replacement makes a listed word (`compound.rs:554-577`), so that strict import
  then accepts words the lost rule would have refused, where
  `docs/hunspell-format.md:30-32` has an error. `LostLinesAreErrors` has the exception.
* A count that is too large opens a section that takes the lines after it. For
  the tables of suggestions and morphology (REP, MAP, AM) this is a warning, also
  when a lost line bears on recognition (`docs/hunspell-format.md:30-32` has such
  directives as errors). `LostLinesAreErrors` has the exception.
* FLAG after a line with flags is accepted by strict import, after which the cache
  does not compile; the expansions of COMPOUNDRULE are counted anew for every
  header; repeated BREAK headers may exceed the limit; aliases declared after a
  rule do not apply to its digits; IGNORE does not reach the atoms of a
  lookbehind; COMPOUNDMIN may be repeated in silence.
* `compound_pattern_forbids` looks for the flag of an ending at the entry that is
  the whole left text, not at the last component.
* FORBIDDENWORD excludes the entry that has it, not its homonyms;
  `ExcludedAddNothing` states what the code does.
* MAX_AFFIX_CHAIN is 8 and is never reached: two prefixes and two suffixes end a
  derivation at four (`SearchBounded`, and its theorem).

Candidates:

* A REP rule that makes a candidate of a query gives it ranking distance zero
  (`docs/suggestions.md`), but a candidate beyond the edit distance is left out
  before the rules are asked (`visit_nearby`), so `shun` to `tion` is not found at
  distance two. `NothingLost` is therefore stated of near words.

Files, server and analyzer:

* Without hard links the last step of an installation is `fs::rename`
  (`ferrolex-dictionaries/src/lib.rs:1172`), which replaces a file that another
  program, one that takes no lock, created after the check, although the write
  is documented as non-replacing (`docs/dictionary-fetching.md:20`).
  `NeverReplaced` is therefore checked there without a foreign program.
* The namespace of runtime caches is `v2` while the semantics version is 32
  (`ferrolex-hunspell/src/cache.rs`): a cache of an older program is not in an
  older namespace, where `docs/hunspell-runtime-cache.md:60-63` has it treated as
  absent, but refused, and a program of the other version can no longer load.
  `ReadyLoads` therefore ends when another version installs.
* Between the installation of the sources and that of the cache, and for good if
  the import fails, a load imports a reviewed pair under the encodings it
  declares; for the two pairs of mixed encodings these are not the reviewed ones.
* An install that was overtaken (its sources were taken away and others put in
  their place) may replace a newer cache; loads then fail until the next install.
* The segments of `1990's` are `1990` and, by the look-ahead at apostrophes, `'s`
  (`ferrolex-code/src/lib.rs:232`), while `docs/source-code-analysis.md:84` has
  apostrophes between letters only. A mark is neither upper nor lower case, so
  a decomposed letter before a capital is no place to split. `EveryLetterOnce`
  states what the code does in both cases.
* A term of a dictionary that looks like a hash is made a natural
  word, then split at its digits and looked up in parts, although "recognition
  takes precedence" over the classifier (`ferrolex-code/src/lib.rs:762`). Without
  the term in the dictionary the token would have been skipped.
* `classify` counts segments with the default policy whatever the analyzer's is,
  so a token such as `OAuth` is a word in one and two segments in the other
  (`ferrolex-code/src/lib.rs`, `classify`).
* A caller that finds a file another caller has linked but not yet synced
  reports success (`ferrolex-dictionaries/src/lib.rs:752`); the directory entry
  can still be lost with the power, while `docs/dictionary-fetching.md:22` says
  it is synced before success is reported. The runs therefore state `VerifiedOnly`,
  which holds, and not durable success, which does not.
* A sweep looks at the age of a temporary and removes it in two calls
  (`ferrolex-dictionaries/src/lib.rs:1259-1260`): a caller that wakes after an hour
  and goes on writing in between loses its file; its call then fails, unless
  another one has installed the same bytes. `RunningTempsKept` has the exception.
* The protocol reads a position past the end of a line as the end of the line; for
  the server it is an error that ends it (`ferrolex-lsp/src/main.rs:506-513`). The
  clients of `StaysUp` send the position of a place in their text.
* Two containers on one cache may both be pid 1. If one sleeps for an hour, the
  other sweeps its temporary and makes the name again, and the first then links
  a file that is still being written. This is why the proof needs
  `PidsDistinct`.
* `fs::write` in the server truncates first (`ferrolex-lsp/src/main.rs:92`); a
  server that ends there leaves an empty list. A list that cannot be read is
  taken for empty (line 80) and overwritten by the next addition. The model has
  the first; `torn` marks it until a later write of the same server has repaired
  the file, and `AckedSaved` is stated of the other times. The second is the
  fault "unreadable", which the runs leave out and the theorems exclude by
  `Readable` where they need to.
* When persisting fails, the word stays in memory (line 198) and the diagnostics
  shown are stale until the next change. `ShownIsCurrent` has the exception: only
  a word that is in memory and not in the file may be known and still shown.
* The suggester may report that the candidate limit was reached although fewer
  candidates were compared: the related pass may not use what the direct pass
  left of its half (`ferrolex-suggest/src/lib.rs:338`).

## 6. Abstractions, and what is not modelled

Bytes of a dictionary are model values and a digest is equality of them.
Response limits, redirects and timeouts are a fetch that fails. Names of
temporaries keep the pid and the counter, which decide who collides. JSON and
wording are left out, and so are positions inside a word and positions a
client sends past the end of a line. Of times only whether a file is an hour
old is kept. A configuration without words keeps the base
dictionary, one without a path keeps the path and the overlay, as `configure`
does. In `SuggestBudget` edit distance is a cost per candidate; in
`CandidateSearch` it is computed, and there the two limits are not met. The set of
suggestions found merges those that are equal in every field, as the ranking
does with those of the same word.

Of Hunspell: a character has the case the tables of the instance give it, with
the sharp s and the dotted and dotless i among them; numbers are single characters (of two digits too, in the instance);
names of encodings and flag modes are not taken apart; limits are counts, and
those on the lengths of single fields are left out but for the line that is too
long; the bytes of the cache are counted, and its fields written, without their bytes
and without morphology; of diagnostics only place
and severity are kept. Explanations keep what they name and not their wording or
the limit on trace steps.

Not modelled of the analyzer: what machine-made tokens look like, trimming of
punctuation, recombination of segments, the project configuration. Not modelled
of word lists: normalisation other than Exact (in the analyzer, NFC), and their
parsing but for what the text form of the overlay drops. While sources are
fetched no user takes files away, since `VerifiedStore`, like the installer,
checks a file once.

Not modelled at all, because nothing in them has more than one step or actor:
the catalog and its validation; the compiler, whose artifact is written once and
checked section by section (as a source of candidates it is a word list with
frequencies); the plain text checker; arguments, globs and the analysis of trees;
the bindings, which convert and call; the Unicode tables; editor extension,
homepage, scripts, fuzz targets and examples, which keep no state of the system.

## 7. Plan

1. Done: installer with its abstract store and proofs; word list with its
   abstract store, proofs and refinement; language server with proofs; both on
   one file; suggester's budget with proofs; analyzer and segmentations; runtime
   cache and loader with proofs; Hunspell from its sources to its answers, with
   proofs of its compounds, searches, cache, exclusions and explanations; candidate index and
   search with proofs. Of the installer the refinement of its abstract store and the mutual
   exclusion that makes renaming safe are proved too, of the analyzer both
   properties that are checked.
2. Next: the compiled artifact, its offsets and its binary search, as a source
   against a sorted word list; globs and positions; the project configuration.
3. Proofs: the next ones are those of the modules of 2, beginning with the binary
   search of the compiled artifact.
