---------------------- MODULE UserDictionaryFileProofs ----------------------
(***************************************************************************)
(* Theorems about UserDictionaryFile for any number of add-word processes, *)
(* whichever pids they see and whatever faults are injected.               *)
(***************************************************************************)
EXTENDS UserDictionaryFile, TLAPS

-----------------------------------------------------------------------------
(* Types                                                                   *)

Temporary == [words: Entries, synced: BOOLEAN]

LEMMA AnyWordType == AnyWord \in Word
  BY UserDictionaryAssumption DEF AnyWord

LEMMA TypeInit == Init => TypeOK
  BY AnyWordType DEF Init, TypeOK, Entries, Outside

LEMMA RemoveTempsType ==
  ASSUME TypeOK, NEW pids, RemoveTemps(pids)
  PROVE  /\ DOMAIN temps' \subseteq Pid
         /\ temps' \in [DOMAIN temps' -> Temporary]
         /\ stale' \subseteq DOMAIN temps'
  BY DEF TypeOK, RemoveTemps, Temporary

LEMMA TypeStep ==
  ASSUME TypeOK, NEW t \in Adder, Step(t)
  PROVE  TypeOK'
<1> USE DEF Goto, Outside, Steps, InSection, Holding
<1>1. CASE AcquireLock(t)
  BY <1>1 DEF TypeOK, AcquireLock
<1>2. CASE Read(t)
  BY <1>2 DEF TypeOK, Read, EntriesRead
<1>3. CASE Insert(t)
  <2>1. text[t] \cup {word[t]} \in Entries
    BY DEF TypeOK, Entries
  <2>2. pc' \in [Adder -> Outside \cup Steps]
    BY <1>3 DEF TypeOK, Insert
  <2>3. text' \in [Adder -> Entries]
    <3>1. CASE UNCHANGED text
      BY <3>1 DEF TypeOK
    <3>2. CASE text' = [text EXCEPT ![t] = @ \cup {word[t]}]
      BY <2>1, <3>2 DEF TypeOK
    <3> QED
      BY <1>3, <3>1, <3>2 DEF Insert
  <2> QED
    BY <1>3, <2>2, <2>3 DEF TypeOK, Insert
<1>4. CASE Sweep(t)
  <2>1. PICK swept \in SUBSET stale : RemoveTemps(swept)
    BY <1>4 DEF Sweep
  <2>2. /\ DOMAIN temps' \subseteq Pid
        /\ temps' \in [DOMAIN temps' -> Temporary]
        /\ stale' \subseteq DOMAIN temps'
    BY <2>1, RemoveTempsType
  <2> QED
    BY <1>4, <2>2 DEF TypeOK, Sweep, Temporary
<1>5. CASE Create(t)
  <2>1. CASE PidOf[t] \in DOMAIN temps
    BY <1>5, <2>1 DEF TypeOK, Create
  <2>2. CASE PidOf[t] \notin DOMAIN temps
    <3>1. [words |-> {Torn}, synced |-> FALSE] \in Temporary
      BY DEF Temporary, Entries
    <3>2. temps' = [p \in DOMAIN temps \cup {PidOf[t]} |->
                      IF p = PidOf[t] THEN [words |-> {Torn}, synced |-> FALSE]
                                      ELSE temps[p]]
      BY <1>5, <2>2 DEF Create
    <3>3. DOMAIN temps' = DOMAIN temps \cup {PidOf[t]}
      BY <3>2
    <3>4. PidOf[t] \in Pid
      BY UserDictionaryAssumption
    <3>5. \A p \in DOMAIN temps' : temps'[p] \in Temporary
      BY <3>1, <3>2, <3>3 DEF TypeOK, Temporary
    <3>6. temps' \in [DOMAIN temps' -> Temporary]
      BY <3>2, <3>3, <3>5
    <3> QED
      BY <1>5, <2>2, <3>3, <3>4, <3>6 DEF TypeOK, Create, Temporary
  <2> QED
    BY <2>1, <2>2
<1>6. CASE Write(t)
  <2>1. [words |-> text[t], synced |-> FALSE] \in Temporary
    BY DEF TypeOK, Temporary
  <2>2. temps' \in [DOMAIN temps -> Temporary] /\ DOMAIN temps' = DOMAIN temps
    BY <1>6, <2>1 DEF TypeOK, Write, Temporary
  <2> QED
    BY <1>6, <2>2 DEF TypeOK, Write, Temporary
<1>7. CASE Sync(t)
  <2>1. temps' \in [DOMAIN temps -> Temporary] /\ DOMAIN temps' = DOMAIN temps
    BY <1>7 DEF TypeOK, Sync, Synced, Temporary
  <2> QED
    BY <1>7, <2>1 DEF TypeOK, Sync, Temporary
<1>8. CASE Rename(t)
  <2>1. RemoveTemps({PidOf[t]})
    BY <1>8 DEF Rename
  <2>2. temps[PidOf[t]].words \in Entries
    BY <1>8 DEF TypeOK, Rename
  <2>3. Surviving(temps[PidOf[t]]) \subseteq Entries
    BY <2>2 DEF Surviving, Entries
  <2>4. file' \in [words: Entries, held: BOOLEAN] /\ durable' \subseteq Entries
    BY <1>8, <2>2, <2>3 DEF TypeOK, Rename
  <2> QED
    BY <1>8, <2>1, <2>4, RemoveTempsType DEF TypeOK, Rename, Temporary
<1>9. CASE SyncDirectory(t)
  BY <1>9 DEF TypeOK, SyncDirectory, Settled, Entries
<1>10. CASE Cleanup(t)
  <2>1. RemoveTemps({PidOf[t]})
    BY <1>10 DEF Cleanup
  <2> QED
    BY <1>10, <2>1, RemoveTempsType DEF TypeOK, Cleanup, Temporary
<1>11. CASE Unlock(t)
  BY <1>11 DEF TypeOK, Unlock, Released, Entries
<1> QED
  BY <1>1, <1>2, <1>3, <1>4, <1>5, <1>6, <1>7, <1>8, <1>9, <1>10, <1>11 DEF Step

LEMMA TypeNext ==
  ASSUME TypeOK, [Next]_vars
  PROVE  TypeOK'
<1> USE DEF Goto, Outside, Steps, InSection, Holding
<1>1. ASSUME NEW t \in Adder, Step(t)
      PROVE  TypeOK'
  BY <1>1, TypeStep
<1>2. ASSUME NEW t \in Adder, IoError(t)
      PROVE  TypeOK'
  BY <1>2 DEF TypeOK, IoError
<1>3. ASSUME NEW t \in Adder, Exit(t)
      PROVE  TypeOK'
  BY <1>3, AnyWordType DEF TypeOK, Exit, Reset, Entries
<1>4. ASSUME NEW t \in Adder, Kill(t)
      PROVE  TypeOK'
  BY <1>4, AnyWordType DEF TypeOK, Kill, Reset, Entries
<1>5. ASSUME NEW t \in Adder, NEW w \in Word, AddWord(t, w)
      PROVE  TypeOK'
  BY <1>5 DEF TypeOK, AddWord
<1>6. CASE PowerLoss
  <2>1. PICK pids \in SUBSET DOMAIN temps : RemoveTemps(DOMAIN temps \ pids)
    BY <1>6 DEF PowerLoss
  <2>2. file' \in [words: Entries, held: BOOLEAN] /\ durable' \subseteq Entries
    BY <1>6 DEF TypeOK, PowerLoss
  <2>3. /\ pc' \in [Adder -> Outside \cup Steps] /\ word' \in [Adder -> Word]
        /\ text' \in [Adder -> Entries] /\ lock' = None /\ acked' = acked
    BY <1>6, AnyWordType DEF PowerLoss, Entries
  <2> QED
    BY <2>1, <2>2, <2>3, RemoveTempsType DEF TypeOK, Temporary
<1>7. ASSUME NEW p \in DOMAIN temps, Age(p)
      PROVE  TypeOK'
  BY <1>7 DEF TypeOK, Age, callers
<1>8. CASE UNCHANGED vars
  BY <1>8 DEF TypeOK, vars, callers
<1> QED
  BY <1>1, <1>2, <1>3, <1>4, <1>5, <1>6, <1>7, <1>8 DEF Next

(* Every variable of UserDictionaryFile keeps its type.                    *)
THEOREM TypeCorrect == Spec => []TypeOK
<1> QED
  BY TypeInit, TypeNext, PTL DEF Spec

-----------------------------------------------------------------------------
(* The inductive invariant                                                 *)

Carrying == {"sweep", "create", "write", "sync", "rename"}

(* What a caller knows at each of its steps: only the holder of the lock    *)
(* is in the section, what it will write is the list as it still is and    *)
(* its own word, and its temporary is there with what it wrote.            *)
Section(t) ==
  /\ pc[t] \in InSection => lock = t
  /\ pc[t] = "insert" => text[t] = file.words
  /\ pc[t] \in Carrying => /\ text[t] = file.words \cup {word[t]}
                           /\ word[t] \notin Invalid
  /\ pc[t] \in {"write", "sync", "rename"} => PidOf[t] \in DOMAIN temps
  /\ pc[t] \in {"sync", "rename"} => temps[PidOf[t]].words = text[t]
  /\ pc[t] = "rename" => temps[PidOf[t]].synced = TRUE
  /\ pc[t] = "syncDir" => word[t] \in file.words

(* A list that words.txt may hold, now or after a power loss.              *)
Kept(entries) ==
  entries \subseteq file.words /\ entries \subseteq Word \ Invalid /\ acked \subseteq entries

ListKept == file.words \in durable /\ \A d \in durable : Kept(d)

Inv == TypeOK /\ (\A t \in Adder : Section(t)) /\ ListKept

LEMMA InvInit == Init => Inv
<1> SUFFICES ASSUME Init
             PROVE  Inv
  OBVIOUS
<1>1. TypeOK
  BY TypeInit
<1>2. \A t \in Adder : Section(t)
  BY DEF Init, Section, InSection, Carrying, Holding
<1>3. ListKept
  BY DEF Init, ListKept, Kept
<1> QED
  BY <1>1, <1>2, <1>3 DEF Inv

(* A caller outside the section knows nothing.                             *)
LEMMA OutOfSection ==
  ASSUME NEW t, pc[t] \notin InSection
  PROVE  Section(t)
  BY DEF Section, InSection, Carrying, Holding

(* Callers that do not move, while the holder of the lock does.            *)
LEMMA OthersWait ==
  ASSUME Inv, NEW t \in Adder, lock = t, NEW step, Goto(t, step)
  PROVE  \A u \in Adder \ {t} : Section(u)'
<1> SUFFICES ASSUME NEW u \in Adder \ {t}
             PROVE  Section(u)'
  OBVIOUS
<1>1. pc[u] \notin InSection
  BY DEF Inv, Section
<1>2. pc'[u] = pc[u]
  BY DEF Goto, Inv, TypeOK
<1> QED
  BY <1>1, <1>2 DEF Section, InSection, Carrying, Holding

(* Steps that leave the list, what is durable and what was reported alone. *)
LEMMA ListUntouched ==
  ASSUME ListKept, UNCHANGED << file, durable, acked >>
  PROVE  ListKept'
  BY DEF ListKept, Kept

(* A step of the holder of the lock.                                       *)
LEMMA SectionStep ==
  ASSUME Inv, NEW t \in Adder, lock = t, NEW step, Goto(t, step), Section(t)', ListKept',
         TypeOK'
  PROVE  Inv'
<1>1. \A u \in Adder \ {t} : Section(u)'
  BY OthersWait
<1> QED
  BY <1>1 DEF Inv

-----------------------------------------------------------------------------
(* add_user_dictionary_word                                                *)

LEMMA InvStep ==
  ASSUME Inv, NEW t \in Adder, Step(t)
  PROVE  Inv'
<1>1. TypeOK'
  BY TypeStep DEF Inv
<1>2. PidOf[t] \in Pid /\ TypeOK /\ Section(t) /\ ListKept
  BY UserDictionaryAssumption DEF Inv
<1>3. CASE AcquireLock(t)
  <2>1. \A u \in Adder : pc[u] \notin InSection
    BY <1>3, UserDictionaryAssumption DEF AcquireLock, LockFree, Inv, Section
  <2>2. \A u \in Adder \ {t} : pc'[u] \notin InSection
    BY <1>3, <2>1, <1>2 DEF AcquireLock, Goto, TypeOK
  <2>3. \A u \in Adder \ {t} : Section(u)'
    BY <2>2 DEF Section, InSection, Carrying, Holding
  <2>4. Section(t)'
    BY <1>2, <1>3 DEF AcquireLock, Goto, TypeOK, Section, Carrying
  <2>5. ListKept'
    BY <1>2, <1>3, ListUntouched DEF AcquireLock
  <2> QED
    BY <1>1, <2>3, <2>4, <2>5 DEF Inv
<1>4. CASE Read(t)
  <2>1. lock = t /\ Goto(t, "insert") /\ ListKept'
    BY <1>2, <1>4, ListUntouched DEF Read, Section, InSection
  <2>2. Section(t)'
    BY <1>2, <1>4, <2>1 DEF Read, Goto, EntriesRead, TypeOK, Section, Carrying
  <2> QED
    BY <1>1, <2>1, <2>2, SectionStep
<1>5. CASE Insert(t)
  <2>1. lock = t /\ ListKept'
    BY <1>2, <1>5, ListUntouched DEF Insert, Section, InSection
  <2>2. CASE Refused(word[t])
    <3>1. Goto(t, "unlock")
      BY <1>5, <2>2 DEF Insert
    <3>2. Section(t)'
      BY <1>2, <1>5, <2>1, <3>1 DEF Insert, Goto, TypeOK, Section, Carrying
    <3> QED
      BY <1>1, <2>1, <3>1, <3>2, SectionStep
  <2>3. CASE ~Refused(word[t])
    <3>1. Goto(t, "sweep")
      BY <1>5, <2>3 DEF Insert
    <3>2. Section(t)'
      BY <1>2, <1>5, <2>1, <2>3, <3>1 DEF Insert, Refused, Goto, TypeOK, Section
    <3> QED
      BY <1>1, <2>1, <3>1, <3>2, SectionStep
  <2> QED
    BY <2>2, <2>3
<1>6. CASE Sweep(t)
  <2>1. lock = t /\ Goto(t, "create") /\ ListKept'
    BY <1>2, <1>6, ListUntouched DEF Sweep, Section, InSection
  <2>2. Section(t)'
    BY <1>2, <1>6, <2>1 DEF Sweep, Goto, TypeOK, Section, Carrying
  <2> QED
    BY <1>1, <2>1, <2>2, SectionStep
<1>7. CASE Create(t)
  <2>1. lock = t /\ ListKept'
    BY <1>2, <1>7, ListUntouched DEF Create, Section, InSection
  <2>2. CASE PidOf[t] \in DOMAIN temps
    <3>1. Goto(t, "unlock")
      BY <1>7, <2>2 DEF Create
    <3>2. Section(t)'
      BY <1>2, <1>7, <2>1, <3>1 DEF Create, Goto, TypeOK, Section, Carrying
    <3> QED
      BY <1>1, <2>1, <3>1, <3>2, SectionStep
  <2>3. CASE PidOf[t] \notin DOMAIN temps
    <3>1. Goto(t, "write") /\ PidOf[t] \in DOMAIN temps'
      BY <1>7, <2>3 DEF Create
    <3>2. Section(t)'
      BY <1>2, <1>7, <2>1, <3>1 DEF Create, Goto, TypeOK, Section, Carrying
    <3> QED
      BY <1>1, <2>1, <3>1, <3>2, SectionStep
  <2> QED
    BY <2>2, <2>3
<1>8. CASE Write(t)
  <2>1. lock = t /\ Goto(t, "sync") /\ ListKept'
    BY <1>2, <1>8, ListUntouched DEF Write, Section, InSection, Holding
  <2>2. PidOf[t] \in DOMAIN temps' /\ temps'[PidOf[t]].words = text[t]
    BY <1>2, <1>8 DEF Write, TypeOK, Section
  <2>3. Section(t)'
    BY <1>2, <1>8, <2>1, <2>2 DEF Write, Goto, TypeOK, Section, Carrying
  <2> QED
    BY <1>1, <2>1, <2>3, SectionStep
<1>9. CASE Sync(t)
  <2>1. lock = t /\ Goto(t, "rename") /\ ListKept'
    BY <1>2, <1>9, ListUntouched DEF Sync, Section, InSection, Holding
  <2>2. /\ PidOf[t] \in DOMAIN temps' /\ temps'[PidOf[t]].words = text[t]
        /\ temps'[PidOf[t]].synced = TRUE
    BY <1>2, <1>9 DEF Sync, Synced, TypeOK, Section
  <2>3. Section(t)'
    BY <1>2, <1>9, <2>1, <2>2 DEF Sync, Goto, TypeOK, Section, Carrying
  <2> QED
    BY <1>1, <2>1, <2>3, SectionStep
<1>10. CASE Rename(t)
  <2>1. lock = t /\ Goto(t, "syncDir")
    BY <1>2, <1>10 DEF Rename, Section, InSection, Holding
  <2>2. /\ file'.words = file.words \cup {word[t]} /\ word[t] \in Word \ Invalid
        /\ durable' = durable \cup {file'.words} /\ acked' = acked
    BY <1>2, <1>10 DEF Rename, Surviving, Section, Carrying, TypeOK
  <2>3. ListKept'
    BY <1>2, <2>2 DEF ListKept, Kept
  <2>4. Section(t)'
    BY <1>2, <1>10, <2>1, <2>2 DEF Rename, Goto, TypeOK, Section, Carrying
  <2> QED
    BY <1>1, <2>1, <2>3, <2>4, SectionStep
<1>11. CASE SyncDirectory(t)
  <2>1. lock = t /\ Goto(t, "ok") /\ word[t] \in file.words
    BY <1>2, <1>11 DEF SyncDirectory, Section, InSection
  <2>2. \A d \in durable : d # {Torn}
    BY <1>2, UserDictionaryAssumption DEF ListKept, Kept
  <2>3. durable' = {file.words} /\ file' = file /\ acked' = acked \cup {word[t]}
    BY <1>2, <1>11, <2>2 DEF SyncDirectory, Settled, ListKept
  <2>4. ListKept'
    BY <1>2, <2>1, <2>3 DEF ListKept, Kept
  <2>5. Section(t)'
    BY <1>2, <2>1 DEF Goto, TypeOK, Section, InSection, Carrying, Holding
  <2> QED
    BY <1>1, <2>1, <2>4, <2>5, SectionStep
<1>12. CASE Cleanup(t)
  <2>1. lock = t /\ Goto(t, "unlock") /\ ListKept'
    BY <1>2, <1>12, ListUntouched DEF Cleanup, Section, InSection, Holding
  <2>2. Section(t)'
    BY <1>2, <1>12, <2>1 DEF Cleanup, Goto, TypeOK, Section, Carrying
  <2> QED
    BY <1>1, <2>1, <2>2, SectionStep
<1>13. CASE Unlock(t)
  <2>1. lock = t /\ Goto(t, "err") /\ ListKept'
    BY <1>2, <1>13, ListUntouched DEF Unlock, Section, InSection
  <2>2. Section(t)'
    BY <1>2, <2>1 DEF Goto, TypeOK, Section, InSection, Carrying, Holding
  <2> QED
    BY <1>1, <2>1, <2>2, SectionStep
<1> QED
  BY <1>3, <1>4, <1>5, <1>6, <1>7, <1>8, <1>9, <1>10, <1>11, <1>12, <1>13 DEF Step

-----------------------------------------------------------------------------
(* Errors, process ends and the world around                               *)

(* A step of one caller outside the section, or into it no further.        *)
LEMMA OthersUndisturbed ==
  ASSUME Inv, NEW t \in Adder, NEW step, Goto(t, step),
         UNCHANGED << file, temps >>, \A u \in Adder \ {t} : word'[u] = word[u] /\ text'[u] = text[u],
         lock' \in {lock} \/ (lock = t /\ lock' = None)
  PROVE  \A u \in Adder \ {t} : Section(u)'
<1> SUFFICES ASSUME NEW u \in Adder \ {t}
             PROVE  Section(u)'
  OBVIOUS
<1>1. pc'[u] = pc[u] /\ word'[u] = word[u] /\ text'[u] = text[u] /\ Section(u)
  BY DEF Goto, Inv, TypeOK
<1>2. pc[u] \in InSection => lock' = u
  BY <1>1 DEF Section
<1> QED
  BY <1>1, <1>2 DEF Section

LEMMA InvNext ==
  ASSUME Inv, [Next]_vars
  PROVE  Inv'
<1>1. TypeOK' /\ TypeOK /\ ListKept
  BY TypeNext DEF Inv
<1>2. ASSUME NEW t \in Adder, Step(t)
      PROVE  Inv'
  BY <1>2, InvStep
<1>3. ASSUME NEW t \in Adder, IoError(t)
      PROVE  Inv'
  <2>1. PICK step \in {"err", "cleanup", "unlock"} : Goto(t, step)
    BY <1>3 DEF IoError
  <2>2. UNCHANGED << word, text, file, durable, temps, lock, acked >>
    BY <1>3 DEF IoError
  <2>3. step # "err" => pc[t] \in InSection
    BY <1>1, <1>3, <2>1 DEF IoError, Goto, TypeOK, InSection, Holding
  <2>4. Section(t) /\ pc'[t] = step
    BY <2>1, <1>1 DEF Goto, TypeOK, Inv
  <2>5. Section(t)'
    BY <2>1, <2>2, <2>3, <2>4 DEF Section, InSection, Carrying, Holding
  <2>6. ListKept'
    BY <1>1, <2>2, ListUntouched
  <2>7. \A u \in Adder \ {t} : Section(u)'
    BY <2>1, <2>2, OthersUndisturbed
  <2> QED
    BY <1>1, <2>5, <2>6, <2>7 DEF Inv
<1>4. ASSUME NEW t \in Adder, Exit(t) \/ Kill(t)
      PROVE  Inv'
  <2>1. /\ Goto(t, "new") /\ UNCHANGED << file, durable, temps, acked >>
        /\ lock' = lock \/ (lock = t /\ lock' = None)
        /\ \A u \in Adder \ {t} : word'[u] = word[u] /\ text'[u] = text[u]
    BY <1>1, <1>4 DEF Exit, Kill, Reset, TypeOK
  <2>2. pc'[t] \notin InSection
    BY <1>1, <2>1 DEF Goto, TypeOK, InSection, Holding
  <2>3. Section(t)'
    BY <2>2 DEF Section, InSection, Carrying, Holding
  <2>4. ListKept'
    BY <1>1, <2>1, ListUntouched
  <2>5. \A u \in Adder \ {t} : Section(u)'
    BY <2>1, OthersUndisturbed
  <2> QED
    BY <1>1, <2>3, <2>4, <2>5 DEF Inv
<1>5. ASSUME NEW t \in Adder, NEW w \in Word, AddWord(t, w)
      PROVE  Inv'
  <2>1. /\ Goto(t, "lock") /\ UNCHANGED << text, file, durable, temps, lock, acked >>
        /\ \A u \in Adder \ {t} : word'[u] = word[u]
    BY <1>1, <1>5 DEF AddWord, TypeOK
  <2>2. pc'[t] \notin InSection
    BY <1>1, <2>1 DEF Goto, TypeOK, InSection, Holding
  <2>3. Section(t)'
    BY <2>2 DEF Section, InSection, Carrying, Holding
  <2>4. ListKept'
    BY <1>1, <2>1, ListUntouched
  <2>5. \A u \in Adder \ {t} : Section(u)'
    BY <2>1, OthersUndisturbed
  <2> QED
    BY <1>1, <2>3, <2>4, <2>5 DEF Inv
<1>6. CASE PowerLoss
  <2>1. PICK entries \in durable : /\ file'.words = entries /\ durable' = {entries}
                                   /\ acked' = acked
    BY <1>6 DEF PowerLoss
  <2>2. ListKept'
    BY <1>1, <2>1 DEF ListKept, Kept
  <2>3. \A t \in Adder : pc'[t] \notin InSection
    BY <1>6 DEF PowerLoss, InSection, Holding
  <2>4. \A t \in Adder : Section(t)'
    BY <2>3 DEF Section, InSection, Carrying, Holding
  <2> QED
    BY <1>1, <2>2, <2>4 DEF Inv
<1>7. CASE (\E p \in DOMAIN temps : Age(p)) \/ UNCHANGED vars
  <2>1. UNCHANGED << pc, word, text, file, durable, temps, lock, acked >>
    BY <1>7 DEF Age, vars, callers
  <2>2. ListKept' /\ \A t \in Adder : Section(t)'
    BY <1>1, <2>1, ListUntouched DEF Inv, Section
  <2> QED
    BY <1>1, <2>2 DEF Inv
<1> QED
  BY <1>2, <1>3, <1>4, <1>5, <1>6, <1>7 DEF Next

LEMMA InvCorrect == Spec => []Inv
  BY InvInit, InvNext, PTL DEF Spec

(* A word whose addition was reported stays in words.txt, and would after a *)
(* power loss, for any number of processes of any pids and every fault.    *)
THEOREM AckedStayCorrect == Spec => []AckedStay
<1>1. Inv => AckedStay
  BY DEF Inv, ListKept, Kept, AckedStay
<1> QED
  BY <1>1, InvCorrect, PTL

(* words.txt never reads as cut short, nor holds a word that reading it     *)
(* back would lose or change.  (UserDictionary::normalize_word)            *)
THEOREM WellFormedCorrect == Spec => []WellFormed
<1>1. Inv => WellFormed
  BY UserDictionaryAssumption DEF Inv, ListKept, Kept, WellFormed
<1> QED
  BY <1>1, InvCorrect, PTL

-----------------------------------------------------------------------------
(* Refinement                                                              *)

Replied == [t \in Adder |-> IF pc[t] = "new" THEN "none"
                            ELSE IF pc[t] \in Steps THEN "busy" ELSE pc[t]]

LEMMA StoreInit == Init => Store!Init
  BY AnyWordType DEF Init, Store!Init

(* What a user is told of a caller that goes to another step.              *)
LEMMA Told ==
  ASSUME TypeOK, NEW t \in Adder, NEW step \in Outside \cup Steps, Goto(t, step)
  PROVE  Replied' = [Replied EXCEPT ![t] = IF step = "new" THEN "none"
                                           ELSE IF step \in Steps THEN "busy" ELSE step]
  BY DEF Replied, Goto, TypeOK

LEMMA Busy ==
  ASSUME NEW t \in Adder, pc[t] \in Steps
  PROVE  Replied[t] = "busy"
  BY DEF Replied, Steps, InSection, Holding

(* The steps of a call that its user does not see.                         *)
LEMMA Unseen ==
  ASSUME TypeOK, NEW t \in Adder, NEW step \in Steps, Goto(t, step), pc[t] \in Steps,
         UNCHANGED << word, file, acked >>
  PROVE  UNCHANGED Store!vars
<1>1. Replied' = [Replied EXCEPT ![t] = "busy"]
  BY Told DEF Steps, InSection, Holding
<1>2. Replied[t] = "busy"
  BY Busy
<1>3. Replied' = Replied
  BY <1>1, <1>2 DEF Replied
<1> QED
  BY <1>3 DEF Replied, Store!vars

(* A call that ends in an error.                                           *)
LEMMA Failed ==
  ASSUME TypeOK, NEW t \in Adder, Goto(t, "err"), pc[t] \in Steps,
         UNCHANGED << word, file, acked >>
  PROVE  Store!Fail(t)
<1>1. Replied' = [Replied EXCEPT ![t] = "err"]
  BY Told DEF Outside, Steps, InSection, Holding
<1>2. Replied[t] = "busy"
  BY Busy
<1> QED
  BY <1>1, <1>2 DEF Replied, Store!Fail

(* A process that ends.                                                    *)
LEMMA Left ==
  ASSUME TypeOK, NEW t \in Adder, Reset(t), UNCHANGED << file, acked >>
  PROVE  Store!Leave(t)
<1>1. Replied' = [Replied EXCEPT ![t] = "none"]
  BY Told DEF Reset, Outside
<1>2. word' = [word EXCEPT ![t] = AnyWord]
  BY DEF Reset
<1> QED
  BY <1>1, <1>2, AnyWordType DEF Replied, Store!Leave

LEMMA StoreStep ==
  ASSUME Inv, NEW t \in Adder, Step(t)
  PROVE  [Store!Next]_(Store!vars)
<1>1. TypeOK /\ Section(t)
  BY DEF Inv
<1>2. CASE \E step \in Steps : /\ Goto(t, step) /\ pc[t] \in Steps
                               /\ UNCHANGED << word, file, acked >>
  BY <1>1, <1>2, Unseen
<1>3. CASE Rename(t)
  <2>1. pc[t] \in Steps /\ Goto(t, "syncDir") /\ UNCHANGED << word, acked >>
    BY <1>3 DEF Rename, Steps, InSection, Holding
  <2>2. file'.words = file.words \cup {word[t]} /\ word[t] \notin Invalid
    BY <1>1, <1>3 DEF Rename, Section, Carrying
  <2>3. Replied' = [Replied EXCEPT ![t] = "busy"] /\ Replied[t] = "busy"
    BY <1>1, <2>1, Told, Busy DEF Steps, InSection
  <2>4. Replied' = Replied
    BY <2>3 DEF Replied
  <2>5. Store!Put(t)
    BY <2>1, <2>2, <2>3, <2>4 DEF Replied, Store!Put
  <2> QED
    BY <2>5 DEF Store!Next
<1>4. CASE SyncDirectory(t)
  <2>1. /\ pc[t] \in Steps /\ Goto(t, "ok") /\ UNCHANGED << word, file >>
        /\ acked' = acked \cup {word[t]}
    BY <1>4 DEF SyncDirectory, Steps, InSection
  <2>2. word[t] \in file.words
    BY <1>1, <1>4 DEF SyncDirectory, Section
  <2>3. Replied' = [Replied EXCEPT ![t] = "ok"] /\ Replied[t] = "busy"
    BY <1>1, <2>1, Told, Busy DEF Outside, Steps, InSection, Holding
  <2>4. Store!Succeed(t)
    BY <2>1, <2>2, <2>3 DEF Replied, Store!Succeed
  <2> QED
    BY <2>4 DEF Store!Next
<1>5. CASE Unlock(t)
  <2>1. Store!Fail(t)
    BY <1>1, <1>5, Failed DEF Unlock, Steps, InSection
  <2> QED
    BY <2>1 DEF Store!Next
<1>6. CASE AcquireLock(t) \/ Read(t) \/ Insert(t) \/ Sweep(t) \/ Create(t) \/ Write(t)
             \/ Sync(t) \/ Cleanup(t)
  <2>1. pc[t] \in Steps /\ UNCHANGED << word, file, acked >>
    BY <1>6 DEF AcquireLock, Read, Insert, Sweep, Create, Write, Sync, Cleanup, Steps,
                InSection, Holding
  <2>2. \E step \in Steps : Goto(t, step)
    BY <1>6 DEF AcquireLock, Read, Insert, Sweep, Create, Write, Sync, Cleanup, Steps,
                InSection, Holding
  <2> QED
    BY <1>2, <2>1, <2>2
<1> QED
  BY <1>3, <1>4, <1>5, <1>6 DEF Step

LEMMA StoreNext ==
  ASSUME Inv, [Next]_vars
  PROVE  [Store!Next]_(Store!vars)
<1>1. TypeOK /\ ListKept
  BY DEF Inv
<1>2. ASSUME NEW t \in Adder, Step(t)
      PROVE  [Store!Next]_(Store!vars)
  BY <1>2, StoreStep
<1>3. ASSUME NEW t \in Adder, IoError(t)
      PROVE  [Store!Next]_(Store!vars)
  <2>1. pc[t] \in Steps /\ UNCHANGED << word, file, acked >>
    BY <1>3 DEF IoError, Steps, InSection, Holding
  <2>2. PICK step \in {"err", "cleanup", "unlock"} : Goto(t, step)
    BY <1>3 DEF IoError
  <2>3. CASE step = "err"
    <3>1. Store!Fail(t)
      BY <1>1, <2>1, <2>2, <2>3, Failed
    <3> QED
      BY <3>1 DEF Store!Next
  <2>4. CASE step # "err"
    <3>1. step \in Steps
      BY <2>2, <2>4 DEF Steps, InSection, Holding
    <3> QED
      BY <1>1, <2>1, <2>2, <3>1, Unseen
  <2> QED
    BY <2>3, <2>4
<1>4. ASSUME NEW t \in Adder, Exit(t) \/ Kill(t)
      PROVE  [Store!Next]_(Store!vars)
  <2>1. Store!Leave(t)
    BY <1>1, <1>4, Left DEF Exit, Kill
  <2> QED
    BY <2>1 DEF Store!Next
<1>5. ASSUME NEW t \in Adder, NEW w \in Word, AddWord(t, w)
      PROVE  [Store!Next]_(Store!vars)
  <2>1. /\ pc[t] \in Outside /\ Goto(t, "lock") /\ UNCHANGED << file, acked >>
        /\ word' = [word EXCEPT ![t] = w]
    BY <1>5 DEF AddWord
  <2>2. Replied' = [Replied EXCEPT ![t] = "busy"]
    BY <1>1, <2>1, Told DEF Steps, InSection
  <2>3. Replied[t] # "busy"
    BY <2>1 DEF Replied, Outside, Steps, InSection, Holding
  <2>4. Store!Begin(t, w)
    BY <2>1, <2>2, <2>3 DEF Replied, Store!Begin
  <2> QED
    BY <2>4 DEF Store!Next
<1>6. CASE PowerLoss
  <2>1. PICK entries \in durable : file'.words = entries
    BY <1>6 DEF PowerLoss
  <2>2. file'.words \subseteq file.words /\ acked \subseteq file'.words
    BY <1>1, <2>1 DEF ListKept, Kept
  <2>3. Replied' = [t \in Adder |-> "none"]
    BY <1>6 DEF PowerLoss, Replied
  <2>4. word' \in [Adder -> Word] /\ acked' = acked
    BY <1>6, AnyWordType DEF PowerLoss
  <2>5. Store!Lose
    BY <2>2, <2>3, <2>4 DEF Replied, Store!Lose
  <2> QED
    BY <2>5 DEF Store!Next
<1>7. CASE (\E p \in DOMAIN temps : Age(p)) \/ UNCHANGED vars
  BY <1>7 DEF Age, vars, callers, Store!vars
<1> QED
  BY <1>2, <1>3, <1>4, <1>5, <1>6, <1>7 DEF Next

(* add-word implements a set of words to which concurrent callers add: the  *)
(* locked rewrite of a file by temporary, sync and rename takes effect as a *)
(* whole or not at all.                                                    *)
THEOREM StoreCorrect == Spec => ImplementsStore
  BY StoreInit, StoreNext, InvCorrect, PTL DEF Spec, ImplementsStore, Store!Spec
=============================================================================
