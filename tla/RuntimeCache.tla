---------------------------- MODULE RuntimeCache ----------------------------
(***************************************************************************)
(* `ferrolex dictionary install` after its sources are in place, and the    *)
(* commands that load what it installed (crates/ferrolex-cli).  Install     *)
(* reads the pair, imports it under the catalog's encodings and puts the    *)
(* compiled cache beside it; a load reads affixes, words and cache one      *)
(* after another, and imports the pair itself when there is no cache.       *)
(*                                                                         *)
(* The sources are those of VerifiedStore, which the installer implements.  *)
(* Bytes are what their digests tell apart.  A dictionary is the bytes and  *)
(* encodings it was imported from and the recognition semantics of the      *)
(* program that imported it.                                               *)
(***************************************************************************)
EXTENDS Naturals, FiniteSets

CONSTANTS
  Installer, Reader,  \* processes that install, and that load
  File, Manifest, ForeignBytes, Absent,
  Policy,             \* the catalog's encodings for the locale
  Declared,           \* the encodings the affix file declares
  Importable,         \* the [aff, dic, encodings] a strict import accepts
  Semantics,          \* recognition semantics of program versions
  SemanticsOf,        \* the version every process runs
  Torn,               \* a cache that was cut short: its checksum is wrong
  Failed,             \* the outcome of a load that returned an error
  Faults,             \* the faults the environment may inject
  Replaceable,        \* bound: the sources a user takes away or replaces
  MaxRemovals         \* bound: how often a user takes a file away

Process == Installer \cup Reader
Bytes == (UNION {{m[f] : f \in File} : m \in Manifest}) \cup ForeignBytes

(* io: a failing file operation; kill, power: a process or the machine      *)
(* stops; suspend: an install sleeps for an hour.                          *)
Fault == {"io", "kill", "power", "suspend"}

Dictionary == [aff: Bytes, dic: Bytes, encodings: {Policy, Declared},
               semantics: Semantics]

ASSUME RuntimeCacheAssumption ==
  /\ File = {"aff", "dic"}
  /\ Installer \cap Reader = {}
  /\ SemanticsOf \in [Process -> Semantics]
  /\ Absent \notin Bytes \cup Dictionary \cup Installer
  /\ Torn \notin Dictionary \cup {Absent}
  /\ Failed \notin Dictionary \cup {Absent}
  /\ Importable \subseteq [aff: Bytes, dic: Bytes, encodings: {Policy, Declared}]
  /\ Faults \subseteq Fault
  /\ Replaceable \subseteq File

VARIABLES
  store, request, reply,  \* of VerifiedStore
  pc,       \* where every process is
  pair,     \* the bytes it has read so far
  cache,    \* the file under runtime_cache_path
  durable,  \* the contents one of which it has after a power loss
  temps,    \* temporary_sibling of the cache, by process
  stale,    \* temporaries that are at least an hour old
  found,    \* the temporary the sweep of an install has found stale, or Absent
  loaded,   \* what every reader's last load returned
  removals, \* counts up to MaxRemovals
  ready,    \* history: what the last install that printed "ready" installed
  overtaken,\* history: installs under way when a file was taken away
  expected  \* history: ready when a load began, Absent once it is void

sources == <<store, request, reply>>
files == <<cache, durable, temps, stale>>
history == <<removals, ready, overtaken>>
loads == <<loaded, expected>>
vars == <<sources, pc, pair, found, files, history, loads>>

Sources == INSTANCE VerifiedStore

Nothing == [f \in File |-> Absent]
Compiling == {"readAff", "readDic", "sweep", "create", "write", "sync",
              "rename", "syncDir", "cleanup"}
Holding == {"write", "sync", "rename", "cleanup"}

TypeOK ==
  /\ store \in [File -> Bytes \cup {Absent}]
  /\ pc \in [Process -> {"idle", "fetch", "loadDic", "loadCache"} \cup Compiling]
  /\ pair \in [Process -> [File -> Bytes \cup {Absent}]]
  /\ cache \in Dictionary \cup {Absent, Torn} /\ cache \in durable
  /\ durable \subseteq Dictionary \cup {Absent, Torn}
  /\ stale \subseteq DOMAIN temps /\ DOMAIN temps \subseteq Installer
  /\ found \in [Installer -> Installer \cup {Absent}]
  /\ \A i \in Installer : pc[i] = "fetch" <=> reply[i] = "busy"
  /\ loaded \in [Reader -> Dictionary \cup {Absent, Failed}]
  /\ ready \in Dictionary \cup {Absent}
  /\ overtaken \subseteq {i \in Installer : pc[i] \in Compiling}
  /\ expected \in [Reader -> {Absent, ready}]

Init ==
  /\ Sources!Init
  /\ pc = [p \in Process |-> "idle"] /\ pair = [p \in Process |-> Nothing]
  /\ cache = Absent /\ durable = {Absent}
  /\ temps = [i \in {} |-> Absent] /\ stale = {}
  /\ found = [i \in Installer |-> Absent]
  /\ loaded = [r \in Reader |-> Absent] /\ expected = [r \in Reader |-> Absent]
  /\ removals = 0 /\ ready = Absent /\ overtaken = {}

Goto(p, step) == pc' = [pc EXCEPT ![p] = step]

(* Mutant: a strict import reads no catalog. *)
EncodingsDeclared == Declared

(* catalog_import_encodings *)
Encodings == Policy

Imported(p, encodings) ==
  [aff |-> pair[p]["aff"], dic |-> pair[p]["dic"], encodings |-> encodings,
   semantics |-> SemanticsOf[p]]

(* The command ends, and its process with it. *)
End(i) ==
  /\ Sources!Leave(i)
  /\ Goto(i, "idle")
  /\ pair' = [pair EXCEPT ![i] = Nothing]
  /\ found' = [found EXCEPT ![i] = Absent]
  /\ overtaken' = overtaken \ {i}

-----------------------------------------------------------------------------
(* DictionaryCommand::Install: fetch_catalog_dictionary                    *)

Install(i, m) ==
  /\ pc[i] = "idle"
  /\ Sources!Begin(i, m)
  /\ Goto(i, "fetch")
  /\ UNCHANGED <<pair, files, found, history, loads>>

StoreFile(i, f) ==
  /\ Sources!Put(i, f)
  /\ UNCHANGED <<pc, pair, files, found, history, loads>>

Fetched(i) ==
  /\ Sources!Succeed(i)
  /\ Goto(i, "readAff")
  /\ UNCHANGED <<pair, files, found, history, loads>>

(* install returned an error. *)
FetchFails(i) ==
  /\ pc[i] = "fetch"
  /\ End(i)
  /\ UNCHANGED <<files, removals, ready, loads>>

-----------------------------------------------------------------------------
(* install_hunspell_runtime_cache and atomic_write_runtime_cache           *)

(* import_hunspell_files: the first read ...                               *)
ReadAff(i) ==
  /\ pc[i] = "readAff"
  /\ IF store["aff"] = Absent
     THEN End(i)
     ELSE /\ pair' = [pair EXCEPT ![i]["aff"] = store["aff"]]
          /\ Goto(i, "readDic")
          /\ UNCHANGED <<sources, found, overtaken>>
  /\ UNCHANGED <<files, removals, ready, loads>>

(* ... and the second, with the strict import.  A pair that is not accepted *)
(* leaves the sources and any older cache.                                 *)
Import(i) ==
  /\ pc[i] = "readDic"
  /\ IF [aff |-> pair[i]["aff"], dic |-> store["dic"], encodings |-> Encodings]
          \notin Importable
     THEN End(i)
     ELSE /\ pair' = [pair EXCEPT ![i]["dic"] = store["dic"]]
          /\ Goto(i, "sweep")
          /\ UNCHANGED <<sources, found, overtaken>>
  /\ UNCHANGED <<files, removals, ready, loads>>

RemoveTemps(names) ==
  /\ temps' = [n \in DOMAIN temps \ names |-> temps[n]]
  /\ stale' = stale \ names

(* sweep_stale_temporary_siblings: the look at an entry ...                *)
FindStale(i) ==
  /\ pc[i] = "sweep" /\ found[i] = Absent
  /\ \E n \in stale : found' = [found EXCEPT ![i] = n]
  /\ UNCHANGED <<sources, pc, pair, files, history, loads>>

(* ... and its removal, which takes whatever has that name by now.          *)
RemoveStale(i) ==
  /\ pc[i] = "sweep" /\ found[i] # Absent
  /\ RemoveTemps({found[i]})
  /\ found' = [found EXCEPT ![i] = Absent]
  /\ UNCHANGED <<sources, pc, pair, cache, durable, history, loads>>

(* What the sweep missed, or failed to remove, it leaves.                  *)
EndSweep(i) ==
  /\ pc[i] = "sweep" /\ found[i] = Absent
  /\ Goto(i, "create")
  /\ UNCHANGED <<sources, pair, found, files, history, loads>>

Sweep(i) == FindStale(i) \/ RemoveStale(i) \/ EndSweep(i)

(* create_new fails on a name that exists, and the file stays. *)
Create(i) ==
  /\ pc[i] = "create"
  /\ IF i \in DOMAIN temps
     THEN End(i) /\ UNCHANGED temps
     ELSE /\ Goto(i, "write")
          /\ temps' = [n \in DOMAIN temps \cup {i} |->
                         IF n = i THEN [content |-> Torn, synced |-> FALSE]
                         ELSE temps[n]]
          /\ UNCHANGED <<sources, pair, found, overtaken>>
  /\ UNCHANGED <<cache, durable, stale, removals, ready, loads>>

Write(i) ==
  /\ pc[i] = "write"
  /\ temps' = [n \in DOMAIN temps |->
                 IF n = i THEN [content |-> Imported(i, Encodings),
                    synced |-> FALSE]
                 ELSE temps[n]]
  /\ stale' = stale \ {i}
  /\ Goto(i, "sync")
  /\ UNCHANGED <<sources, pair, cache, durable, found, history, loads>>

(* Mutant: the data is not synced before it gets the name. *)
SyncedNot == FALSE

Synced == TRUE

Sync(i) ==
  /\ pc[i] = "sync"
  /\ temps' = [n \in DOMAIN temps |->
                 IF n = i THEN [temps[n] EXCEPT !.synced = Synced] ELSE temps[n]]
  /\ Goto(i, "rename")
  /\ UNCHANGED <<sources, pair, cache, durable, stale, found, history, loads>>

(* What a power loss may leave of a file under its new name. *)
Surviving(t) == {t.content} \cup (IF t.synced THEN {} ELSE {Torn})

(* History: a "ready" is void once there is no such cache to be expected.  *)
Void(condition) ==
  /\ ready' = IF condition THEN Absent ELSE ready
  /\ expected' = [r \in Reader |-> IF condition THEN Absent ELSE expected[r]]

Rename(i) ==
  /\ pc[i] = "rename" /\ i \in DOMAIN temps
  /\ cache' = temps[i].content
  /\ durable' = durable \cup Surviving(temps[i])
  /\ RemoveTemps({i})
  /\ Goto(i, "syncDir")
  /\ Void(ready # Absent /\ (SemanticsOf[i] # ready.semantics \/ i \in overtaken))
  /\ UNCHANGED <<sources, pair, found, removals, overtaken, loaded>>

(* sync_parent_directory; then "ready" is printed.  History: an install     *)
(* that began before sources were taken away may yet replace this cache.   *)
Ready(i) ==
  /\ pc[i] = "syncDir"
  /\ durable' = {d \in durable : d = cache \/ d = Torn}
  /\ ready' = IF cache = Imported(i, Encodings) /\ overtaken = {}
              THEN cache ELSE ready
  /\ End(i)
  /\ expected' = [r \in Reader |-> IF ready' = ready THEN expected[r] ELSE Absent]
  /\ UNCHANGED <<cache, temps, stale, removals, loaded>>

(* The error return removes the temporary it created.                      *)
Cleanup(i) ==
  /\ pc[i] = "cleanup"
  /\ RemoveTemps({i})
  /\ End(i)
  /\ UNCHANGED <<cache, durable, removals, ready, loads>>

(* Every `?` on the way; so fails the rename of a temporary that was swept. *)
IoError(i) ==
  /\ \/ "io" \in Faults
     \/ pc[i] = "rename" /\ i \notin DOMAIN temps
  /\ pc[i] \in Compiling \ {"sweep", "cleanup"}
  /\ IF pc[i] \in Holding
     THEN Goto(i, "cleanup") /\ UNCHANGED <<sources, pair, found, overtaken>>
     ELSE End(i)
  /\ UNCHANGED <<files, removals, ready, loads>>

-----------------------------------------------------------------------------
(* load_installed_hunspell_dictionary                                      *)

Finish(r, outcome) ==
  /\ loaded' = [loaded EXCEPT ![r] = outcome]
  /\ pair' = IF outcome = Failed THEN [pair EXCEPT ![r] = Nothing] ELSE pair
  /\ Goto(r, "idle")

(* A command that loads a dictionary starts, or goes on, with a source.    *)
LoadSource(r, f) ==
  /\ pc[r] = IF f = "aff" THEN "idle" ELSE "loadDic"
  /\ IF store[f] = Absent
     THEN Finish(r, Failed)
     ELSE /\ pair' = [pair EXCEPT ![r] = [(IF f = "aff" THEN Nothing ELSE @)
                                          EXCEPT ![f] = store[f]]]
          /\ loaded' = [loaded EXCEPT ![r] = Absent]
          /\ Goto(r, IF f = "aff" THEN "loadDic" ELSE "loadCache")
  /\ expected' = IF f = "aff" THEN [expected EXCEPT ![r] = ready] ELSE expected
  /\ UNCHANGED <<sources, files, found, history>>

(* Mutant: the digests are not compared. *)
AcceptedUnchecked(r) == cache # Torn /\ cache.semantics = SemanticsOf[r]

(* load_runtime_cache: checksum, semantics version and source digests. *)
Accepted(r) ==
  /\ cache # Torn
  /\ cache.semantics = SemanticsOf[r]
  /\ cache.aff = pair[r]["aff"] /\ cache.dic = pair[r]["dic"]

LoadCache(r) ==
  /\ pc[r] = "loadCache"
  /\ IF cache # Absent
     THEN Finish(r, IF Accepted(r) THEN cache ELSE Failed)
     ELSE Finish(r, IF [aff |-> pair[r]["aff"], dic |-> pair[r]["dic"],
                        encodings |-> Declared] \in Importable
                    THEN Imported(r, Declared) ELSE Failed)
  /\ UNCHANGED <<sources, files, found, history, expected>>

LoadFails(r) ==
  /\ "io" \in Faults
  /\ pc[r] \in {"loadDic", "loadCache"}
  /\ Finish(r, Failed)
  /\ expected' = [expected EXCEPT ![r] = Absent]
  /\ UNCHANGED <<sources, files, found, history>>

-----------------------------------------------------------------------------
(* The world around                                                        *)

Kill(i) ==
  /\ "kill" \in Faults
  /\ pc[i] # "idle"
  /\ End(i)
  /\ UNCHANGED <<files, removals, ready, loads>>

PowerLoss ==
  /\ "power" \in Faults
  /\ cache' \in durable /\ durable' = {cache'}
  /\ temps' = [i \in {} |-> Absent] /\ stale' = {}
  /\ found' = [i \in Installer |-> Absent]
  /\ pc' = [p \in Process |-> "idle"] /\ pair' = [p \in Process |-> Nothing]
  /\ reply' = [i \in Installer |-> "none"]
  /\ overtaken' = {}
  /\ loaded' = [r \in Reader |-> Absent] /\ expected' = [r \in Reader |-> Absent]
  /\ UNCHANGED <<store, request, removals, ready>>

(* An hour passes. *)
Age(i) ==
  /\ i \in DOMAIN temps \ stale
  /\ pc[i] \notin Holding \/ "suspend" \in Faults
  /\ stale' = stale \cup {i}
  /\ UNCHANGED <<sources, pc, pair, cache, durable, temps, found, history, loads>>

(* A user takes a file away, but not while sources are being fetched.      *)
TakeAway ==
  /\ removals < MaxRemovals /\ removals' = removals + 1
  /\ \A i \in Installer : pc[i] # "fetch"
  /\ overtaken' = {i \in Installer : pc[i] \in Compiling}
  /\ Void(TRUE)
  /\ UNCHANGED <<pc, pair, found, request, reply, temps, stale, loaded>>

RemoveSource(f) ==
  /\ TakeAway
  /\ store[f] # Absent /\ store' = [store EXCEPT ![f] = Absent]
  /\ UNCHANGED <<cache, durable>>

RemoveCache ==
  /\ TakeAway
  /\ cache # Absent /\ cache' = Absent
  /\ durable' = durable \cup {Absent}
  /\ UNCHANGED store

(* A pair of the user's own in place of a reviewed one. *)
ForeignSource(f) ==
  /\ Sources!PutForeign(f)
  /\ UNCHANGED <<pc, pair, files, found, history, loads>>

-----------------------------------------------------------------------------

Compile(i) ==
  \/ ReadAff(i) \/ Import(i) \/ Sweep(i) \/ Create(i) \/ Write(i) \/ Sync(i)
  \/ Rename(i) \/ Ready(i) \/ Cleanup(i)

Next ==
  \/ \E i \in Installer :
       \/ \E m \in Manifest : Install(i, m)
       \/ \E f \in File : StoreFile(i, f)
       \/ Fetched(i) \/ FetchFails(i) \/ Compile(i)
       \/ IoError(i) \/ Kill(i) \/ Age(i)
  \/ \E r \in Reader :
       \/ \E f \in File : LoadSource(r, f)
       \/ LoadCache(r) \/ LoadFails(r)
  \/ \E f \in Replaceable : RemoveSource(f) \/ ForeignSource(f)
  \/ RemoveCache
  \/ PowerLoss

Spec == Init /\ [][Next]_vars

-----------------------------------------------------------------------------
(* Properties                                                              *)

(* A load returns the import of the very bytes it has read, under its own   *)
(* program's semantics, or an error: never a cache of sources that were     *)
(* there before or came later, or of another version of the program.        *)
LoadedIsRead ==
  \A r \in Reader : loaded[r] \notin {Absent, Failed} =>
    loaded[r] \in {Imported(r, Policy), Imported(r, Declared)}

(* The cache reads as complete or missing, also after a power loss.         *)
CacheWhole == Torn \notin durable \cup {cache}

(* After "ready", and until a user takes a file away or another version of  *)
(* the program installs, every load gets the pair under the encodings the   *)
(* catalog has reviewed, whatever other installs do, fail or are killed at. *)
ReadyLoads ==
  \A r \in Reader :
    /\ expected[r] # Absent /\ expected[r].semantics = SemanticsOf[r]
    /\ pc[r] = "idle"
    => loaded[r] = [expected[r] EXCEPT !.encodings = Policy]
=============================================================================
