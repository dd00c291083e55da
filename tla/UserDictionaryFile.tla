------------------------- MODULE UserDictionaryFile -------------------------
(***************************************************************************)
(* add_user_dictionary_word of crates/ferrolex-cli: processes that run      *)
(* `ferrolex dictionary add-word` on one words.txt.  Each reads the whole   *)
(* list, adds its word and replaces the file, all under an flock on a       *)
(* hidden sidecar.  A step is one call to the file system.                  *)
(*                                                                         *)
(* A text is the set of its entries; one that was cut short reads as        *)
(* {Torn}.  Spellings that are equal under NFC are one word.                *)
(***************************************************************************)
EXTENDS Naturals, FiniteSets

CONSTANTS
  Adder,       \* processes that call add-word
  Word,        \* what they may want to add
  Invalid,     \* words UserDictionary::insert refuses
  Torn,        \* what a text that was cut short reads as
  Pid,         \* process ids
  PidOf,       \* PidOf[t]: the pid t sees; containers may share one
  Faults,      \* the faults the environment may inject
  MaxOrphans,  \* bound: temporaries left behind by processes that are gone
  None         \* no lock holder

(* io: a failing file operation; kill, power: a process or the machine      *)
(* stops; suspend: a caller sleeps for an hour inside add-word.             *)
Fault == {"io", "kill", "power", "suspend"}

ASSUME UserDictionaryAssumption ==
  /\ None \notin Adder
  /\ Torn \notin Word
  /\ Word # {}
  /\ Invalid \subseteq Word
  /\ PidOf \in [Adder -> Pid]
  /\ Faults \subseteq Fault
  /\ MaxOrphans \in Nat

VARIABLES
  pc,       \* where every caller is; "new", "ok" and "err" are outside add-word
  word,     \* the word of its current or last call
  text,     \* the entries it read and will write; {} outside the section
  file,     \* words.txt: its entries, and whether another program has it open
  durable,  \* the texts one of which words.txt holds after a power loss
  temps,    \* .words.txt.tmp-<pid>-0, by pid, for those that exist
  stale,    \* temporaries that are at least an hour old
  lock,     \* holder of .words.txt.lock
  acked     \* history: the words whose addition was reported as a success

callers == <<pc, word, text>>
vars == <<pc, word, text, file, durable, temps, stale, lock, acked>>

Outside == {"new", "ok", "err"}
Holding == {"write", "sync", "rename", "cleanup"}
InSection == {"read", "insert", "sweep", "create", "syncDir", "unlock"} \cup Holding
Steps == {"lock"} \cup InSection

Entries == SUBSET (Word \cup {Torn})

TypeOK ==
  /\ pc \in [Adder -> Outside \cup Steps]
  /\ word \in [Adder -> Word]
  /\ text \in [Adder -> Entries]
  /\ file \in [words: Entries, held: BOOLEAN]
  /\ durable \subseteq Entries
  /\ DOMAIN temps \subseteq Pid
  /\ temps \in [DOMAIN temps -> [words: Entries, synced: BOOLEAN]]
  /\ stale \subseteq DOMAIN temps
  /\ lock \in Adder \cup {None}
  /\ acked \subseteq Word

(* What the word of a process that has not called add-word yet is. *)
AnyWord == CHOOSE w \in Word : TRUE

Init ==
  /\ pc = [t \in Adder |-> "new"]
  /\ word = [t \in Adder |-> AnyWord]
  /\ text = [t \in Adder |-> {}]
  /\ file = [words |-> {}, held |-> FALSE]
  /\ durable = {{}}
  /\ temps = [p \in {} |-> {}]
  /\ stale = {}
  /\ lock = None
  /\ acked = {}

Goto(t, step) == pc' = [pc EXCEPT ![t] = step]

-----------------------------------------------------------------------------
(* add_user_dictionary_word                                                *)

AddWord(t, w) ==
  /\ pc[t] \in Outside
  /\ word' = [word EXCEPT ![t] = w]
  /\ Goto(t, "lock")
  /\ UNCHANGED <<text, file, durable, temps, stale, lock, acked>>

(* Mutant: no lock. *)
LockIgnored == TRUE

LockFree == lock = None

AcquireLock(t) ==
  /\ pc[t] = "lock"
  /\ LockFree
  /\ lock' = t
  /\ Goto(t, "read")
  /\ UNCHANGED <<word, text, file, durable, temps, stale, acked>>

(* Mutant: a missing or unreadable file is taken for an empty one. *)
EntriesReadNot(t) == {{}, file.words}

(* A missing file is an empty list; any other failure is an IoError. *)
EntriesRead(t) == {file.words}

Read(t) ==
  /\ pc[t] = "read"
  /\ \E entries \in EntriesRead(t) : text' = [text EXCEPT ![t] = entries]
  /\ Goto(t, "insert")
  /\ UNCHANGED <<word, file, durable, temps, stale, lock, acked>>

(* Mutant: nothing is refused. *)
RefusedNot(w) == FALSE

(* UserDictionary::normalize_word *)
Refused(w) == w \in Invalid

Insert(t) ==
  /\ pc[t] = "insert"
  /\ IF Refused(word[t])
     THEN Goto(t, "unlock") /\ UNCHANGED text
     ELSE Goto(t, "sweep") /\ text' = [text EXCEPT ![t] = @ \cup {word[t]}]
  /\ UNCHANGED <<word, file, durable, temps, stale, lock, acked>>

RemoveTemps(pids) ==
  /\ temps' = [p \in DOMAIN temps \ pids |-> temps[p]]
  /\ stale' = stale \ pids

(* sweep_stale_temporary_siblings.  Temporaries of a list are made, renewed *)
(* and removed under its lock, so none changes between the look at it and   *)
(* its removal and the walk is one step; what it fails to remove stays.     *)
Sweep(t) ==
  /\ pc[t] = "sweep"
  /\ \E swept \in SUBSET stale : RemoveTemps(swept)
  /\ Goto(t, "create")
  /\ UNCHANGED <<word, text, file, durable, lock, acked>>

(* create_new fails on a name that exists, and the file stays. *)
Create(t) ==
  /\ pc[t] = "create"
  /\ IF PidOf[t] \in DOMAIN temps
     THEN Goto(t, "unlock") /\ UNCHANGED temps
     ELSE /\ Goto(t, "write")
          /\ temps' = [p \in DOMAIN temps \cup {PidOf[t]} |->
                         IF p = PidOf[t] THEN [words |-> {Torn}, synced |-> FALSE]
                                         ELSE temps[p]]
  /\ UNCHANGED <<word, text, file, durable, stale, lock, acked>>

Write(t) ==
  /\ pc[t] = "write"
  /\ temps' = [temps EXCEPT ![PidOf[t]] = [words |-> text[t], synced |-> FALSE]]
  /\ stale' = stale \ {PidOf[t]}
  /\ Goto(t, "sync")
  /\ UNCHANGED <<word, text, file, durable, lock, acked>>

(* Mutant: the data is not synced before it gets the name. *)
SyncedNot == FALSE

Synced == TRUE

Sync(t) ==
  /\ pc[t] = "sync"
  /\ temps' = [temps EXCEPT ![PidOf[t]].synced = Synced]
  /\ Goto(t, "rename")
  /\ UNCHANGED <<word, text, file, durable, stale, lock, acked>>

(* What a power loss may leave of a file under its new name. *)
Surviving(c) == {c.words} \cup (IF c.synced THEN {} ELSE {{Torn}})

(* Readers and another program's open handle keep the file that was there. *)
Rename(t) ==
  /\ pc[t] = "rename" /\ PidOf[t] \in DOMAIN temps
  /\ file' = [words |-> temps[PidOf[t]].words, held |-> FALSE]
  /\ durable' = durable \cup Surviving(temps[PidOf[t]])
  /\ RemoveTemps({PidOf[t]})
  /\ Goto(t, "syncDir")
  /\ UNCHANGED <<word, text, lock, acked>>

(* The new name is as durable as the data it stands for. *)
Settled == {d \in durable : d = file.words \/ d = {Torn}}

(* sync_parent_directory; then the success is printed and the lock dropped. *)
SyncDirectory(t) ==
  /\ pc[t] = "syncDir"
  /\ durable' = Settled
  /\ acked' = acked \cup {word[t]}
  /\ lock' = None
  /\ Goto(t, "ok")
  /\ text' = [text EXCEPT ![t] = {}]
  /\ UNCHANGED <<word, file, temps, stale>>

(* The error return of atomic_write removes the temporary it created ...   *)
Cleanup(t) ==
  /\ pc[t] = "cleanup"
  /\ RemoveTemps({PidOf[t]})
  /\ Goto(t, "unlock")
  /\ UNCHANGED <<word, text, file, durable, lock, acked>>

(* Mutant: an error return forgets the lock. *)
ReleasedNot(t) == lock

Released(t) == None

(* ... and UserDictionaryLock is dropped.                                  *)
Unlock(t) ==
  /\ pc[t] = "unlock"
  /\ lock' = Released(t)
  /\ Goto(t, "err")
  /\ text' = [text EXCEPT ![t] = {}]
  /\ UNCHANGED <<word, file, durable, temps, stale, acked>>

-----------------------------------------------------------------------------
(* Errors, process ends and the world around                               *)

(* Every `?` of the section: the call fails and its effect is absent.  So   *)
(* does the rename of a temporary that somebody else took away.            *)
IoError(t) ==
  /\ \/ "io" \in Faults
     \/ pc[t] = "rename" /\ PidOf[t] \notin DOMAIN temps
  /\ pc[t] \in {"lock", "read", "sweep", "create", "write", "sync", "rename", "syncDir"}
  /\ Goto(t, IF pc[t] = "lock" THEN "err"
             ELSE IF pc[t] \in Holding THEN "cleanup" ELSE "unlock")
  /\ UNCHANGED <<word, text, file, durable, temps, stale, lock, acked>>

Reset(t) ==
  /\ Goto(t, "new")
  /\ word' = [word EXCEPT ![t] = AnyWord]
  /\ text' = [text EXCEPT ![t] = {}]

Exit(t) ==
  /\ pc[t] \in {"ok", "err"}
  /\ Reset(t)
  /\ UNCHANGED <<file, durable, temps, stale, lock, acked>>

(* The temporaries of processes that are gone. *)
Orphans == DOMAIN temps \ {PidOf[t] : t \in {s \in Adder : pc[s] \in Holding}}

(* The operating system releases the lock. *)
Kill(t) ==
  /\ "kill" \in Faults
  /\ pc[t] \in Steps
  /\ Cardinality(Orphans) < MaxOrphans
  /\ Reset(t)
  /\ lock' = IF lock = t THEN None ELSE lock
  /\ UNCHANGED <<file, durable, temps, stale, acked>>

PowerLoss ==
  /\ "power" \in Faults
  /\ \E entries \in durable :
       /\ file' = [words |-> entries, held |-> FALSE]
       /\ durable' = {entries}
  /\ \E pids \in SUBSET DOMAIN temps :
       /\ Cardinality(pids) <= MaxOrphans
       /\ RemoveTemps(DOMAIN temps \ pids)
  /\ lock' = None
  /\ pc' = [t \in Adder |-> "new"]
  /\ word' = [t \in Adder |-> AnyWord]
  /\ text' = [t \in Adder |-> {}]
  /\ UNCHANGED acked

(* An hour passes; a running caller's temporary gets that old only when the *)
(* caller is suspended.                                                    *)
Age(p) ==
  /\ p \in DOMAIN temps \ stale
  /\ p \in Orphans \/ "suspend" \in Faults
  /\ stale' = stale \cup {p}
  /\ UNCHANGED <<callers, file, durable, temps, lock, acked>>

-----------------------------------------------------------------------------

Step(t) ==
  \/ AcquireLock(t) \/ Read(t) \/ Insert(t)
  \/ Sweep(t) \/ Create(t) \/ Write(t) \/ Sync(t) \/ Rename(t) \/ SyncDirectory(t)
  \/ Cleanup(t) \/ Unlock(t)

Next ==
  \/ \E t \in Adder : Step(t) \/ IoError(t) \/ Exit(t) \/ Kill(t)
  \/ \E t \in Adder, w \in Word : AddWord(t, w)
  \/ PowerLoss
  \/ \E p \in DOMAIN temps : Age(p)

Spec == Init /\ [][Next]_vars

(* A running process goes on; a waiter for a lock that is released again   *)
(* and again gets it at some time.                                         *)
FairSpec == Spec /\ \A t \in Adder : WF_vars(Step(t)) /\ SF_vars(AcquireLock(t))

-----------------------------------------------------------------------------
(* Properties                                                              *)

(* A word whose addition was reported stays in words.txt, whatever other    *)
(* add-word processes do and whenever they or the machine stop: the lock    *)
(* spans the whole read-modify-write and the file is replaced only by a     *)
(* synced text.                                                            *)
AckedStay ==
  /\ acked \subseteq file.words
  /\ \A d \in durable : acked \subseteq d

(* words.txt never reads as a list that was cut short, nor does it hold a   *)
(* word that from_text would lose or read as something else.                *)
WellFormed ==
  \A d \in durable \cup {file.words} : d \cap (Invalid \cup {Torn}) = {}

(* add-word returns, although its lock may be held by a process that dies.  *)
AddReturns == \A t \in Adder : pc[t] \in Steps ~> pc[t] \in Outside

(* The set of words a user of the command sees. *)
Store == INSTANCE UserWordStore WITH
  store <- file.words,
  request <- word,
  reply <- [t \in Adder |-> IF pc[t] = "new" THEN "none"
                            ELSE IF pc[t] \in Steps THEN "busy" ELSE pc[t]]

ImplementsStore == Store!Spec
=============================================================================
