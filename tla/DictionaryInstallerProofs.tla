---------------------- MODULE DictionaryInstallerProofs ----------------------
(***************************************************************************)
(* Theorems about DictionaryInstaller for every set of callers, manifests  *)
(* and contents.                                                           *)
(***************************************************************************)
EXTENDS DictionaryInstaller, TLAPS

LEMMA AnyManifestType == AnyManifest \in Manifest
  BY InstallerAssumption DEF AnyManifest

LEMMA NoFileType == NoFile \in Content
  BY DEF NoFile, Content

(* What a caller's open file is set to, or a closed one, stays a file. *)
LEMMA OpenFileType ==
  ASSUME NEW t, NEW S, NEW names \in [S -> Content], NEW new \in Content
  PROVE  OpenFile(t, names, new) \in [S -> Content]
  BY DEF OpenFile

LEMMA CloseType ==
  ASSUME NEW t, NEW S, NEW names \in [S -> Content]
  PROVE  Close(t, names) \in [S -> Content]
  BY DEF Close, Content

LEMMA SurvivingType ==
  ASSUME NEW c \in Content
  PROVE  Surviving(c) \subseteq Content
<1>1. c.bytes \in Bytes \cup {Absent, Partial}
  BY DEF Content
<1>2. ASSUME NEW b \in Bytes \cup {Absent, Partial}
      PROVE  [bytes |-> b, synced |-> TRUE, writer |-> None] \in Content
  BY DEF Content
<1>3. QED
  BY <1>1, <1>2 DEF Surviving

LEMMA TypeInit == Init => TypeOK
  BY AnyManifestType, NoFileType, InstallerAssumption
  DEF Init, TypeOK, Outside, File

LEMMA RemoveTempType ==
  ASSUME TypeOK, NEW names, RemoveTemp(names)
  PROVE  /\ DOMAIN temps' \subseteq TempName
         /\ temps' \in [DOMAIN temps' -> Content]
         /\ stale' \subseteq DOMAIN temps'
  BY DEF TypeOK, RemoveTemp

LEMMA UnlockType ==
  ASSUME TypeOK, NEW t, Unlock(t)
  PROVE  lock' \in [File -> Installer \cup {None}]
  BY DEF TypeOK, Unlock

(* Type correctness of the steps of install and install_file.              *)
LEMMA TypeStep ==
  ASSUME TypeOK, NEW t \in Installer, Step(t)
  PROVE  TypeOK'
<1> USE DEF Goto, files, sweeping, Outside, Steps, Locked
<1>1. CASE DestinationExists(t)
  BY <1>1 DEF TypeOK, DestinationExists
<1>2. CASE ReuseDestination(t)
  BY <1>2 DEF TypeOK, ReuseDestination, FileInstalled, File
<1>3. CASE Fetch(t)
  <2>1. Response(t) \subseteq Bytes
    BY InstallerAssumption DEF Response, Expected, TypeOK
  <2>2. QED
    BY <1>3, <2>1 DEF TypeOK, Fetch
<1>4. CASE Sweep(t)
  <2>1. CASE FindStale(t)
    BY <2>1 DEF TypeOK, FindStale, Swept
  <2>2. CASE RemoveStale(t)
    <3>1. RemoveTemp({found[t]})
      BY <2>2 DEF RemoveStale
    <3>2. QED
      BY <2>2, <3>1, RemoveTempType DEF TypeOK, RemoveStale
  <2>3. CASE EndSweep(t)
    BY <2>3 DEF TypeOK, EndSweep
  <2>4. QED
    BY <1>4, <2>1, <2>2, <2>3 DEF Sweep
<1>5. CASE Create(t)
  <2>1. NextTemp(t) \in TempName
    BY InstallerAssumption DEF NextTemp, TempName, TypeOK
  <2>2. [bytes |-> Partial, synced |-> FALSE, writer |-> t] \in Content
    BY DEF Content
  <2>3. /\ DOMAIN temps' \subseteq TempName
        /\ temps' \in [DOMAIN temps' -> Content]
        /\ stale' \subseteq DOMAIN temps'
    <3>1. CASE NextTemp(t) \in DOMAIN temps
      BY <1>5, <3>1 DEF TypeOK, Create
    <3>2. CASE NextTemp(t) \notin DOMAIN temps
      <4>1. temps' = [n \in DOMAIN temps \cup {NextTemp(t)} |->
                        IF n = NextTemp(t)
                        THEN [bytes |-> Partial, synced |-> FALSE, writer |-> t]
                        ELSE temps[n]]
        BY <1>5, <3>2 DEF Create
      <4>2. DOMAIN temps' = DOMAIN temps \cup {NextTemp(t)}
        BY <4>1
      <4>3. \A n \in DOMAIN temps' : temps'[n] \in Content
        BY <4>1, <4>2, <2>2 DEF TypeOK
      <4>4. QED
        BY <4>1, <4>2, <4>3, <2>1, <1>5 DEF TypeOK, Create
    <3>3. QED
      BY <3>1, <3>2
  <2>4. QED
    BY <1>5, <2>1, <2>3 DEF TypeOK, Create, OwnTemp
<1>6. CASE Write(t)
  <2>1. [bytes |-> Written(t), synced |-> FALSE, writer |-> t] \in Content
    BY DEF Content, Written, TypeOK
  <2>2. /\ temps' \in [DOMAIN temps -> Content]
        /\ dest' \in [File -> Content]
    BY <1>6, <2>1, OpenFileType DEF Write, TypeOK
  <2>3. QED
    BY <1>6, <2>2 DEF TypeOK, Write
<1>7. CASE Sync(t)
  <2>1. Synced(t) \in Content
    BY DEF Content, Synced, Written, TypeOK
  <2>2. /\ temps' \in [DOMAIN temps -> Content]
        /\ dest' \in [File -> Content]
    BY <1>7, <2>1, OpenFileType DEF Sync, TypeOK
  <2>3. QED
    BY <1>7, <2>2 DEF TypeOK, Sync
<1>8. CASE Link(t)
  BY <1>8 DEF TypeOK, Link
<1>9. CASE MatchWinner(t)
  BY <1>9 DEF TypeOK, MatchWinner
<1>10. CASE Unlink(t)
  <2>1. RemoveTemp({temp[t]})
    BY <1>10 DEF Unlink
  <2>2. lock' \in [File -> Installer \cup {None}]
    BY <1>10, UnlockType DEF Unlink, TypeOK
  <2>3. QED
    BY <1>10, <2>1, <2>2, RemoveTempType DEF TypeOK, Unlink
<1>11. CASE SyncDirectory(t)
  <2>1. lock' \in [File -> Installer \cup {None}]
    BY <1>11, UnlockType DEF SyncDirectory
  <2>2. QED
    BY <1>11, <2>1 DEF TypeOK, SyncDirectory, FileInstalled, File
<1>12. CASE Cleanup(t)
  <2>1. RemoveTemp({temp[t]})
    BY <1>12 DEF Cleanup
  <2>2. QED
    BY <1>12, <2>1, RemoveTempType DEF TypeOK, Cleanup
<1>13. CASE AcquireLock(t)
  BY <1>13 DEF TypeOK, AcquireLock
<1>14. CASE LockedExists(t)
  BY <1>14 DEF TypeOK, LockedExists
<1>15. CASE LockedMatch(t)
  <2>1. lock' \in [File -> Installer \cup {None}]
    BY <1>15, UnlockType DEF LockedMatch, TypeOK
  <2>2. QED
    BY <1>15, <2>1 DEF TypeOK, LockedMatch
<1>16. CASE Rename(t)
  <2>1. lock' \in [File -> Installer \cup {None}]
    BY <1>16, UnlockType DEF Rename, TypeOK
  <2>2. /\ DOMAIN temps' \subseteq TempName
        /\ temps' \in [DOMAIN temps' -> Content]
        /\ stale' \subseteq DOMAIN temps'
    BY <1>16, RemoveTempType DEF Rename, TypeOK
  <2>3. QED
    BY <1>16, <2>1, <2>2 DEF TypeOK, Rename
<1>17. CASE RenameMatch(t)
  <2>1. lock' \in [File -> Installer \cup {None}]
    BY <1>17, UnlockType DEF RenameMatch, TypeOK
  <2>2. QED
    BY <1>17, <2>1 DEF TypeOK, RenameMatch
<1>18. QED
  BY <1>1, <1>2, <1>3, <1>4, <1>5, <1>6, <1>7, <1>8, <1>9, <1>10, <1>11,
     <1>12, <1>13, <1>14, <1>15, <1>16, <1>17 DEF Step

(* Type correctness of the steps the environment takes.                    *)
LEMMA TypeEnvironment ==
  ASSUME TypeOK, [Next]_vars, ~\E t \in Installer : Step(t)
  PROVE  TypeOK'
<1> USE DEF Goto, files, sweeping, callers, Outside, Steps, Locked
<1>1. CASE \E t \in Installer : IoError(t)
  <2>1. PICK t \in Installer : IoError(t)
    BY <1>1
  <2>2. /\ temps' \in [DOMAIN temps -> Content]
        /\ dest' \in [File -> Content]
        /\ lock' \in [File -> Installer \cup {None}]
    BY <2>1, CloseType, UnlockType DEF IoError, TypeOK
  <2>3. QED
    BY <2>1, <2>2 DEF TypeOK, IoError
<1>2. CASE \E t \in Installer : Exit(t)
  BY <1>2, AnyManifestType DEF TypeOK, Exit, Reset, File
<1>3. CASE \E t \in Installer : Kill(t)
  <2>1. PICK t \in Installer : Kill(t)
    BY <1>3
  <2>2. /\ temps' \in [DOMAIN temps -> Content]
        /\ dest' \in [File -> Content]
        /\ lock' \in [File -> Installer \cup {None}]
    BY <2>1, CloseType, UnlockType DEF Kill, TypeOK
  <2>3. QED
    BY <2>1, <2>2, AnyManifestType DEF TypeOK, Kill, Reset, File
<1>4. CASE \E t \in Installer, m \in Manifest : Install(t, m)
  BY <1>4 DEF TypeOK, Install, File
<1>5. CASE PowerLoss
  <2>1. /\ dest["aff"] \in Content /\ disk["aff"] \in Content
        /\ dest["dic"] \in Content /\ disk["dic"] \in Content
    BY DEF TypeOK, File
  <2>2. /\ dest' \in [File -> Content]
        /\ disk' \in [File -> Content]
    BY <1>5, <2>1, SurvivingType DEF PowerLoss
  <2>3. /\ DOMAIN temps' \subseteq TempName
        /\ temps' \in [DOMAIN temps' -> Content]
        /\ stale' \subseteq DOMAIN temps'
    <3>1. PICK names \in SUBSET DOMAIN temps, torn \in SUBSET DOMAIN temps :
            /\ temps' = [n \in names |->
                          [bytes |-> IF n \in torn /\ ~temps[n].synced
                                     THEN Partial ELSE temps[n].bytes,
                           synced |-> TRUE,
                           writer |-> None]]
            /\ stale' = stale \cap names
      BY <1>5 DEF PowerLoss
    <3>2. \A n \in names : temps[n].bytes \in Bytes \cup {Absent, Partial}
      BY DEF TypeOK, Content
    <3>3. QED
      BY <3>1, <3>2 DEF TypeOK, Content
  <2>4. QED
    BY <1>5, <2>2, <2>3, AnyManifestType DEF TypeOK, PowerLoss, File
<1>6. CASE \E n \in DOMAIN temps : Age(n)
  BY <1>6 DEF TypeOK, Age
<1>7. CASE \E f \in File : ForeignWrite(f)
  <2>1. PICK f \in File : ForeignWrite(f)
    BY <1>7
  <2>2. PICK b \in ForeignBytes :
          dest' = [dest EXCEPT ![f] = [bytes |-> b, synced |-> TRUE, writer |-> None]]
    BY <2>1 DEF ForeignWrite
  <2>3. [bytes |-> b, synced |-> TRUE, writer |-> None] \in Content
    BY InstallerAssumption DEF Content
  <2>4. QED
    BY <2>1, <2>2, <2>3 DEF TypeOK, ForeignWrite
<1>8. CASE UNCHANGED vars
  BY <1>8 DEF TypeOK, vars
<1>9. QED
  BY <1>1, <1>2, <1>3, <1>4, <1>5, <1>6, <1>7, <1>8 DEF Next

(* Every variable keeps its type, whatever faults are injected. *)
THEOREM TypeCorrect == Spec => []TypeOK
<1>1. TypeOK /\ [Next]_vars => TypeOK'
  BY TypeStep, TypeEnvironment
<1>2. QED
  BY TypeInit, <1>1, PTL DEF Spec

-----------------------------------------------------------------------------
(* VerifiedOnly, when no two callers share a pid                           *)

LEMMA VerifiedInit == Init => VerifiedInv
  BY DEF Init, VerifiedInv, HoldsName, HoldsVerified, WriterHolds, TempProgress,
     FinalFiles, VerifiedOnly, NoFile, NeedsTemp

(* The part of the state the other callers see unchanged when t moves.     *)
OthersWait(t) ==
  \A s \in Installer \ {t} :
    /\ pc'[s] = pc[s] /\ temp'[s] = temp[s] /\ data'[s] = data[s]
    /\ manifest'[s] = manifest[s] /\ file'[s] = file[s]

LEMMA StepLocal ==
  ASSUME TypeOK, NEW t \in Installer, Step(t)
  PROVE  OthersWait(t)
<1> USE DEF TypeOK, OthersWait, Goto, files
<1>1. CASE DestinationExists(t) \/ ReuseDestination(t) \/ Fetch(t) \/ Sweep(t)
  BY <1>1 DEF DestinationExists, ReuseDestination, FileInstalled, Fetch, Sweep,
     FindStale, RemoveStale, EndSweep
<1>2. CASE Create(t) \/ Write(t) \/ Sync(t) \/ Link(t)
  BY <1>2 DEF Create, Write, Sync, Link
<1>3. CASE MatchWinner(t) \/ Unlink(t) \/ SyncDirectory(t) \/ Cleanup(t)
  BY <1>3 DEF MatchWinner, Unlink, SyncDirectory, FileInstalled, Cleanup
<1>4. CASE AcquireLock(t) \/ LockedExists(t) \/ LockedMatch(t)
  BY <1>4 DEF AcquireLock, LockedExists, LockedMatch
<1>5. CASE Rename(t) \/ RenameMatch(t)
  BY <1>5 DEF Rename, RenameMatch
<1>6. QED
  BY <1>1, <1>2, <1>3, <1>4, <1>5 DEF Step

(* A step of a caller that has no file open keeps the others' files theirs. *)
LEMMA WriterFrame ==
  ASSUME TypeOK, WriterHolds, NEW t \in Installer, OthersWait(t),
         pc[t] \notin {"write", "sync"},
         DOMAIN temps' \subseteq DOMAIN temps,
         \A n \in DOMAIN temps' : temps'[n] = temps[n]
  PROVE  WriterHolds'
<1>1. ASSUME NEW n \in DOMAIN temps', temps'[n].writer # None
      PROVE  /\ pc'[temps'[n].writer] \in {"write", "sync"}
             /\ temp'[temps'[n].writer] = n
  <2>1. n \in DOMAIN temps /\ temps'[n] = temps[n]
    OBVIOUS
  <2>2. /\ pc[temps[n].writer] \in {"write", "sync"}
        /\ temp[temps[n].writer] = n
    BY <1>1, <2>1 DEF WriterHolds
  <2>3. temps[n].writer \in Installer \ {t}
    BY <1>1, <2>1, <2>2 DEF TypeOK, Content
  <2>4. QED
    BY <2>1, <2>2, <2>3 DEF OthersWait
<1>2. QED
  BY <1>1 DEF WriterHolds

(* The same for how far temporaries are, when t itself needs none next.    *)
LEMMA ProgressFrame ==
  ASSUME TypeOK, TempProgress, NEW t \in Installer, OthersWait(t),
         pc'[t] \notin NeedsTemp,
         DOMAIN temps' \subseteq DOMAIN temps,
         \A n \in DOMAIN temps' : temps'[n] = temps[n]
  PROVE  TempProgress'
<1>1. ASSUME NEW s \in Installer, pc'[s] \in NeedsTemp, temp'[s] \in DOMAIN temps'
      PROVE  /\ s \in Installer \ {t}
             /\ temp[s] \in DOMAIN temps
             /\ temps'[temp'[s]] = temps[temp[s]]
             /\ pc'[s] = pc[s] /\ data'[s] = data[s] /\ temp'[s] = temp[s]
  BY <1>1 DEF OthersWait
<1>2. QED
  BY <1>1 DEF TempProgress

(* A temporary its holder has synced is closed, complete and verified.     *)
LEMMA SyncedTemp ==
  ASSUME PidsDistinct, TypeOK, VerifiedInv, NEW t \in Installer,
         pc[t] \in NeedsTemp \ {"write", "sync"}, temp[t] \in DOMAIN temps
  PROVE  /\ temps[temp[t]].bytes = Expected(t)
         /\ temps[temp[t]].synced
         /\ temps[temp[t]].writer = None
<1>1. /\ temps[temp[t]].bytes = Expected(t)
      /\ temps[temp[t]].synced
  BY DEF VerifiedInv, TempProgress, HoldsVerified, NeedsTemp
<1>2. ASSUME temps[temp[t]].writer # None
      PROVE  FALSE
  <2> DEFINE s == temps[temp[t]].writer
  <2>1. pc[s] \in {"write", "sync"} /\ temp[s] = temp[t]
    BY <1>2 DEF VerifiedInv, WriterHolds
  <2>2. s \in Installer
    BY <1>2 DEF TypeOK, Content
  <2>3. PidOf[s] = PidOf[t]
    BY <2>1, <2>2 DEF VerifiedInv, HoldsName, NeedsTemp
  <2>4. QED
    BY <2>1, <2>2, <2>3 DEF PidsDistinct
<1>3. QED
  BY <1>1, <1>2

(* The final name t is about to give its temporary gets verified bytes.    *)
LEMMA PublishVerified ==
  ASSUME PidsDistinct, TypeOK, VerifiedInv, NEW t \in Installer,
         pc[t] \in NeedsTemp \ {"write", "sync"}, temp[t] \in DOMAIN temps,
         dest' = [dest EXCEPT ![file[t]] = temps[temp[t]]], disk' = disk
  PROVE  FinalFiles' /\ VerifiedOnly'
<1>1. /\ temps[temp[t]].bytes = Expected(t)
      /\ temps[temp[t]].synced
      /\ temps[temp[t]].writer = None
  BY SyncedTemp
<1>2. file[t] \in File /\ manifest[t] \in Manifest /\ dest \in [File -> Content]
  BY DEF TypeOK
<1>3. FinalFiles'
  BY <1>1, <1>2 DEF VerifiedInv, FinalFiles
<1>4. VerifiedOnly'
  BY <1>1, <1>2 DEF VerifiedInv, VerifiedOnly, Expected
<1>5. QED
  BY <1>3, <1>4

(* What a step of a sweep leaves alone. *)
LEMMA SweepFrame ==
  ASSUME NEW t \in Installer, Sweep(t)
  PROVE  /\ pc[t] = "sweep" /\ pc' \in {pc, [pc EXCEPT ![t] = "create"]}
         /\ UNCHANGED <<manifest, file, data, temp, counter, dest, disk, lock>>
         /\ DOMAIN temps' \subseteq DOMAIN temps
         /\ \A n \in DOMAIN temps' : temps'[n] = temps[n]
  BY DEF Sweep, FindStale, RemoveStale, EndSweep, RemoveTemp, Goto, files

LEMMA VerifiedStep ==
  ASSUME PidsDistinct, TypeOK, VerifiedInv, NEW t \in Installer, Step(t)
  PROVE  VerifiedInv'
<1> USE InstallerAssumption DEF Goto, files, Expected, NeedsTemp, VerifiedInv
<1>0. /\ pc \in [Installer -> Outside \cup Steps]
      /\ file \in [Installer -> File] /\ dest \in [File -> Content]
  BY DEF TypeOK
<1>1. CASE DestinationExists(t)
  <2>1. HoldsName'
    BY <1>1 DEF DestinationExists, HoldsName
  <2>2. HoldsVerified'
    BY <1>1 DEF DestinationExists, HoldsVerified
  <2>3. WriterHolds'
    BY <1>1 DEF DestinationExists, WriterHolds
  <2>4. TempProgress'
    BY <1>1 DEF DestinationExists, TempProgress
  <2>5. FinalFiles'
    BY <1>1 DEF DestinationExists, FinalFiles
  <2>6. VerifiedOnly'
    BY <1>1 DEF DestinationExists, VerifiedOnly
  <2>7. QED
    BY <2>1, <2>2, <2>3, <2>4, <2>5, <2>6
<1>2. CASE ReuseDestination(t)
  <2>1. HoldsName'
    <3>1. temp'[t] \in {temp[t], None} /\ pc'[t] \in {"exists", "ok", "cleanup"}
      BY <1>2 DEF ReuseDestination, FileInstalled, TypeOK
    <3>2. QED
      BY <3>1, StepLocal DEF HoldsName, OthersWait
  <2>2. HoldsVerified'
    <3>1. pc'[t] \in {"exists", "ok", "cleanup"}
      BY <1>2 DEF ReuseDestination, FileInstalled, TypeOK
    <3>2. QED
      BY <3>1, StepLocal DEF HoldsVerified, OthersWait
  <2>3. WriterHolds'
    BY <1>2, StepLocal, WriterFrame DEF ReuseDestination, VerifiedInv
  <2>4. TempProgress'
    BY <1>2 DEF TypeOK, ReuseDestination, FileInstalled, TempProgress
  <2>5. FinalFiles'
    BY <1>2 DEF ReuseDestination, FileInstalled, FinalFiles
  <2>6. VerifiedOnly'
    BY <1>2 DEF ReuseDestination, FileInstalled, VerifiedOnly
  <2>7. QED
    BY <2>1, <2>2, <2>3, <2>4, <2>5, <2>6
<1>3. CASE Fetch(t)
  <2>1. HoldsName'
    BY <1>3 DEF TypeOK, Fetch, Verified, HoldsName
  <2>2. HoldsVerified'
    <3>1. PICK b \in Response(t) :
            \/ Verified(t, b) /\ data' = [data EXCEPT ![t] = b]
            \/ data' = data /\ pc' = [pc EXCEPT ![t] = "cleanup"]
      BY <1>3 DEF Fetch
    <3>2. pc'[t] \in {"sweep", "create"} \cup NeedsTemp => data'[t] = Expected(t)
      BY <1>3, <3>1 DEF Fetch, Verified, TypeOK
    <3>3. QED
      BY <1>3, <3>2, StepLocal DEF HoldsVerified, OthersWait, Fetch
  <2>3. WriterHolds'
    BY <1>3, StepLocal, WriterFrame DEF Fetch, VerifiedInv
  <2>4. TempProgress'
    <3>1. pc'[t] \in {"sweep", "cleanup"} /\ temps' = temps
      BY <1>3 DEF Fetch, TypeOK
    <3>2. QED
      BY <3>1, StepLocal, ProgressFrame
  <2>5. FinalFiles'
    BY <1>3 DEF Fetch, Verified, FinalFiles
  <2>6. VerifiedOnly'
    BY <1>3 DEF Fetch, Verified, VerifiedOnly
  <2>7. QED
    BY <2>1, <2>2, <2>3, <2>4, <2>5, <2>6
<1>4. CASE Sweep(t)
  <2>1. HoldsName'
    BY <1>4, SweepFrame DEF TypeOK, HoldsName
  <2>2. HoldsVerified'
    BY <1>4, SweepFrame DEF TypeOK, HoldsVerified
  <2>3. WriterHolds'
    BY <1>4, SweepFrame, StepLocal, WriterFrame DEF VerifiedInv
  <2>4. TempProgress'
    BY <1>4, SweepFrame DEF TypeOK, TempProgress
  <2>5. FinalFiles'
    BY <1>4, SweepFrame DEF FinalFiles
  <2>6. VerifiedOnly'
    BY <1>4, SweepFrame DEF VerifiedOnly
  <2>7. QED
    BY <2>1, <2>2, <2>3, <2>4, <2>5, <2>6
<1>5. CASE Create(t)
  <2>1. HoldsName'
    <3>1. pc'[t] \in NeedsTemp => temp'[t] # None
      BY <1>5 DEF Create, OwnTemp, NextTemp, TempName, TypeOK
    <3>2. temp'[t] # None => temp'[t][2] = PidOf[t]
      BY <1>5 DEF Create, OwnTemp, NextTemp, TypeOK
    <3>3. QED
      BY <3>1, <3>2, StepLocal DEF HoldsName, OthersWait
  <2>2. HoldsVerified'
    BY <1>5 DEF TypeOK, Create, OwnTemp, NextTemp, HoldsVerified
  <2>3. WriterHolds'
    <3>1. CASE NextTemp(t) \in DOMAIN temps
      BY <1>5, <3>1, StepLocal, WriterFrame DEF Create
    <3>2. CASE NextTemp(t) \notin DOMAIN temps
      <4>1. /\ temp'[t] = NextTemp(t) /\ pc'[t] = "write"
            /\ DOMAIN temps' = DOMAIN temps \cup {NextTemp(t)}
            /\ temps'[NextTemp(t)].writer = t
            /\ \A n \in DOMAIN temps : temps'[n] = temps[n]
        BY <1>5, <3>2 DEF Create, OwnTemp, TypeOK
      <4>2. ASSUME NEW n \in DOMAIN temps, temps[n].writer # None
            PROVE  /\ temps[n].writer \in Installer \ {t}
                   /\ pc[temps[n].writer] \in {"write", "sync"}
                   /\ temp[temps[n].writer] = n
        BY <1>5, <4>2 DEF WriterHolds, TypeOK, Content, Create
      <4>3. QED
        BY <4>1, <4>2, StepLocal DEF WriterHolds, OthersWait
    <3>3. QED
      BY <3>1, <3>2
  <2>4. TempProgress'
    <3>1. CASE NextTemp(t) \in DOMAIN temps
      BY <1>5, <3>1, StepLocal, ProgressFrame DEF Create, TypeOK
    <3>2. CASE NextTemp(t) \notin DOMAIN temps
      <4>1. /\ temp'[t] = NextTemp(t) /\ pc'[t] = "write"
            /\ DOMAIN temps' = DOMAIN temps \cup {NextTemp(t)}
            /\ temps'[NextTemp(t)].writer = t
            /\ \A n \in DOMAIN temps : temps'[n] = temps[n]
        BY <1>5, <3>2 DEF Create, OwnTemp, TypeOK
      <4>2. NextTemp(t)[2] = PidOf[t]
        BY DEF NextTemp
      <4>3. ASSUME NEW s \in Installer \ {t}, pc[s] \in NeedsTemp
            PROVE  temp[s] # NextTemp(t)
        BY <4>2, <4>3 DEF HoldsName, PidsDistinct
      <4>4. QED
        BY <4>1, <4>3, StepLocal DEF TempProgress, OthersWait
    <3>3. QED
      BY <3>1, <3>2
  <2>5. FinalFiles'
    BY <1>5 DEF Create, OwnTemp, NextTemp, FinalFiles
  <2>6. VerifiedOnly'
    BY <1>5 DEF Create, OwnTemp, NextTemp, VerifiedOnly
  <2>7. QED
    BY <2>1, <2>2, <2>3, <2>4, <2>5, <2>6
<1>6. CASE Write(t)
  <2>1. HoldsName'
    BY <1>6 DEF Write, OpenFile, Written, HoldsName
  <2>2. HoldsVerified'
    BY <1>6 DEF Write, OpenFile, Written, HoldsVerified
  <2>3. WriterHolds'
    BY <1>6 DEF Write, OpenFile, Written, WriterHolds
  <2>4. TempProgress'
    <3>1. /\ pc'[t] = "sync" /\ temp'[t] = temp[t] /\ data'[t] = data[t]
          /\ DOMAIN temps' = DOMAIN temps
          /\ \A n \in DOMAIN temps : temps'[n] =
               IF temps[n].writer = t
               THEN [bytes |-> data[t], synced |-> FALSE, writer |-> t]
               ELSE temps[n]
      BY <1>6 DEF Write, OpenFile, Written, TypeOK
    <3>2. temp[t] \in DOMAIN temps => temps[temp[t]].writer = t
      BY <1>6 DEF Write, TempProgress
    <3>3. ASSUME NEW s \in Installer \ {t}, pc[s] \in NeedsTemp, temp[s] \in DOMAIN temps
          PROVE  temps'[temp[s]] = temps[temp[s]]
      <4>1. temps[temp[s]].writer = t => temp[t] = temp[s]
        BY <3>3 DEF WriterHolds
      <4>2. temp[t] # temp[s]
        BY <1>6, <3>3 DEF HoldsName, PidsDistinct, Write
      <4>3. QED
        BY <3>1, <3>3, <4>1, <4>2
    <3>4. QED
      BY <3>1, <3>2, <3>3, StepLocal DEF TempProgress, OthersWait
  <2>5. FinalFiles'
    BY <1>6 DEF TypeOK, Write, OpenFile, Written, FinalFiles
  <2>6. VerifiedOnly'
    BY <1>6 DEF TypeOK, Write, OpenFile, Written, FinalFiles, VerifiedOnly
  <2>7. QED
    BY <2>1, <2>2, <2>3, <2>4, <2>5, <2>6
<1>7. CASE Sync(t)
  <2>1. HoldsName'
    BY <1>7 DEF Sync, OpenFile, Synced, Written, HoldsName
  <2>2. HoldsVerified'
    BY <1>7 DEF Sync, OpenFile, Synced, Written, HoldsVerified
  <2>3. WriterHolds'
    BY <1>7 DEF Sync, OpenFile, Synced, Written, WriterHolds
  <2>4. TempProgress'
    BY <1>7 DEF TypeOK, Sync, OpenFile, Synced, Written, HoldsName, HoldsVerified, WriterHolds, TempProgress
  <2>5. FinalFiles'
    BY <1>7 DEF TypeOK, Sync, OpenFile, Synced, Written, FinalFiles
  <2>6. VerifiedOnly'
    BY <1>7 DEF TypeOK, Sync, OpenFile, Synced, Written, FinalFiles, VerifiedOnly
  <2>7. QED
    BY <2>1, <2>2, <2>3, <2>4, <2>5, <2>6
<1>8. CASE Link(t)
  <2>1. HoldsName'
    BY <1>8 DEF TypeOK, Link, HoldsName
  <2>2. HoldsVerified'
    BY <1>8 DEF TypeOK, Link, HoldsVerified
  <2>3. WriterHolds'
    BY <1>8, StepLocal, WriterFrame DEF Link, VerifiedInv
  <2>4. TempProgress'
    BY <1>8 DEF TypeOK, Link, TempProgress
  <2>5. FinalFiles'
    <3>1. CASE dest' = dest
      BY <1>8, <3>1 DEF Link, FinalFiles
    <3>2. CASE dest' # dest
      BY <1>8, <3>2, PublishVerified DEF Link
    <3>3. QED
      BY <3>1, <3>2
  <2>6. VerifiedOnly'
    <3>1. CASE dest' = dest
      BY <1>8, <3>1 DEF Link, VerifiedOnly
    <3>2. CASE dest' # dest
      BY <1>8, <3>2, PublishVerified DEF Link
    <3>3. QED
      BY <3>1, <3>2
  <2>7. QED
    BY <2>1, <2>2, <2>3, <2>4, <2>5, <2>6
<1>9. CASE MatchWinner(t)
  <2>1. HoldsName'
    BY <1>9 DEF MatchWinner, HoldsName
  <2>2. HoldsVerified'
    BY <1>9 DEF MatchWinner, HoldsVerified
  <2>3. WriterHolds'
    BY <1>9 DEF MatchWinner, WriterHolds
  <2>4. TempProgress'
    BY <1>9 DEF MatchWinner, TempProgress
  <2>5. FinalFiles'
    BY <1>9 DEF MatchWinner, FinalFiles
  <2>6. VerifiedOnly'
    BY <1>9 DEF MatchWinner, VerifiedOnly
  <2>7. QED
    BY <2>1, <2>2, <2>3, <2>4, <2>5, <2>6
<1>10. CASE Unlink(t)
  <2>1. HoldsName'
    BY <1>10 DEF TypeOK, Unlink, RemoveTemp, Unlock, HoldsName
  <2>2. HoldsVerified'
    BY <1>10 DEF TypeOK, Unlink, RemoveTemp, Unlock, HoldsVerified
  <2>3. WriterHolds'
    BY <1>10, StepLocal, WriterFrame DEF Unlink, RemoveTemp, VerifiedInv
  <2>4. TempProgress'
    BY <1>10 DEF TypeOK, Unlink, RemoveTemp, Unlock, TempProgress, WriterHolds
  <2>5. FinalFiles'
    BY <1>10 DEF Unlink, RemoveTemp, Unlock, FinalFiles
  <2>6. VerifiedOnly'
    BY <1>10 DEF Unlink, RemoveTemp, Unlock, VerifiedOnly
  <2>7. QED
    BY <2>1, <2>2, <2>3, <2>4, <2>5, <2>6
<1>11. CASE SyncDirectory(t)
  <2>1. HoldsName'
    BY <1>11 DEF TypeOK, SyncDirectory, FileInstalled, Unlock, HoldsName
  <2>2. HoldsVerified'
    BY <1>11 DEF TypeOK, SyncDirectory, FileInstalled, Unlock, HoldsVerified
  <2>3. WriterHolds'
    BY <1>11, StepLocal, WriterFrame DEF SyncDirectory, VerifiedInv
  <2>4. TempProgress'
    BY <1>11 DEF TypeOK, SyncDirectory, FileInstalled, Unlock, TempProgress
  <2>5. FinalFiles'
    BY <1>11 DEF SyncDirectory, FileInstalled, Unlock, FinalFiles
  <2>6. VerifiedOnly'
    BY <1>11 DEF SyncDirectory, FileInstalled, Unlock, VerifiedOnly
  <2>7. QED
    BY <2>1, <2>2, <2>3, <2>4, <2>5, <2>6
<1>12. CASE Cleanup(t)
  <2>1. HoldsName'
    BY <1>12 DEF Cleanup, RemoveTemp, HoldsName
  <2>2. HoldsVerified'
    BY <1>12 DEF Cleanup, RemoveTemp, HoldsVerified
  <2>3. WriterHolds'
    BY <1>12 DEF Cleanup, RemoveTemp, WriterHolds
  <2>4. TempProgress'
    BY <1>12 DEF Cleanup, RemoveTemp, TempProgress
  <2>5. FinalFiles'
    BY <1>12 DEF Cleanup, RemoveTemp, FinalFiles
  <2>6. VerifiedOnly'
    BY <1>12 DEF Cleanup, RemoveTemp, VerifiedOnly
  <2>7. QED
    BY <2>1, <2>2, <2>3, <2>4, <2>5, <2>6
<1>13. CASE AcquireLock(t)
  <2>1. HoldsName'
    BY <1>13 DEF AcquireLock, HoldsName
  <2>2. HoldsVerified'
    BY <1>13 DEF AcquireLock, HoldsVerified
  <2>3. WriterHolds'
    BY <1>13 DEF AcquireLock, WriterHolds
  <2>4. TempProgress'
    BY <1>13 DEF AcquireLock, TempProgress
  <2>5. FinalFiles'
    BY <1>13 DEF AcquireLock, FinalFiles
  <2>6. VerifiedOnly'
    BY <1>13 DEF AcquireLock, VerifiedOnly
  <2>7. QED
    BY <2>1, <2>2, <2>3, <2>4, <2>5, <2>6
<1>14. CASE LockedExists(t)
  <2>1. HoldsName'
    BY <1>14 DEF LockedExists, HoldsName
  <2>2. HoldsVerified'
    BY <1>14 DEF LockedExists, HoldsVerified
  <2>3. WriterHolds'
    BY <1>14 DEF LockedExists, WriterHolds
  <2>4. TempProgress'
    BY <1>14 DEF LockedExists, TempProgress
  <2>5. FinalFiles'
    BY <1>14 DEF LockedExists, FinalFiles
  <2>6. VerifiedOnly'
    BY <1>14 DEF LockedExists, VerifiedOnly
  <2>7. QED
    BY <2>1, <2>2, <2>3, <2>4, <2>5, <2>6
<1>15. CASE LockedMatch(t)
  <2>1. HoldsName'
    BY <1>15 DEF TypeOK, LockedMatch, Unlock, HoldsName
  <2>2. HoldsVerified'
    BY <1>15 DEF TypeOK, LockedMatch, Unlock, HoldsVerified
  <2>3. WriterHolds'
    BY <1>15, StepLocal, WriterFrame DEF LockedMatch, VerifiedInv
  <2>4. TempProgress'
    BY <1>0, <1>15 DEF LockedMatch, Unlock, TempProgress
  <2>5. FinalFiles'
    BY <1>15 DEF LockedMatch, Unlock, FinalFiles
  <2>6. VerifiedOnly'
    BY <1>15 DEF LockedMatch, Unlock, VerifiedOnly
  <2>7. QED
    BY <2>1, <2>2, <2>3, <2>4, <2>5, <2>6
<1>16. CASE Rename(t)
  <2>1. HoldsName'
    BY <1>16 DEF TypeOK, Rename, RemoveTemp, Unlock, HoldsName
  <2>2. HoldsVerified'
    BY <1>16 DEF TypeOK, Rename, RemoveTemp, Unlock, HoldsVerified
  <2>3. WriterHolds'
    BY <1>16, StepLocal, WriterFrame DEF Rename, RemoveTemp, VerifiedInv
  <2>4. TempProgress'
    <3>1. /\ pc'[t] \notin NeedsTemp /\ DOMAIN temps' \subseteq DOMAIN temps
          /\ \A n \in DOMAIN temps' : temps'[n] = temps[n]
      BY <1>0, <1>16 DEF Rename, RemoveTemp
    <3>2. QED
      BY <3>1, StepLocal, ProgressFrame DEF VerifiedInv
  <2>5. FinalFiles'
    <3>1. CASE dest' = dest
      BY <1>16, <3>1 DEF Rename, FinalFiles
    <3>2. CASE dest' # dest
      BY <1>16, <3>2, PublishVerified DEF Rename
    <3>3. QED
      BY <3>1, <3>2
  <2>6. VerifiedOnly'
    <3>1. CASE dest' = dest
      BY <1>16, <3>1 DEF Rename, VerifiedOnly
    <3>2. CASE dest' # dest
      BY <1>16, <3>2, PublishVerified DEF Rename
    <3>3. QED
      BY <3>1, <3>2
  <2>7. QED
    BY <2>1, <2>2, <2>3, <2>4, <2>5, <2>6
<1>17. CASE RenameMatch(t)
  <2>1. HoldsName'
    BY <1>17 DEF TypeOK, RenameMatch, Unlock, HoldsName
  <2>2. HoldsVerified'
    BY <1>17 DEF TypeOK, RenameMatch, Unlock, HoldsVerified
  <2>3. WriterHolds'
    BY <1>17, StepLocal, WriterFrame DEF RenameMatch, VerifiedInv
  <2>4. TempProgress'
    BY <1>17, StepLocal, ProgressFrame DEF RenameMatch, TypeOK
  <2>5. FinalFiles'
    BY <1>17 DEF RenameMatch, Unlock, FinalFiles
  <2>6. VerifiedOnly'
    BY <1>17 DEF RenameMatch, Unlock, VerifiedOnly
  <2>7. QED
    BY <2>1, <2>2, <2>3, <2>4, <2>5, <2>6
<1>18. QED
  BY <1>1, <1>2, <1>3, <1>4, <1>5, <1>6, <1>7, <1>8, <1>9, <1>10, <1>11, <1>12, <1>13, <1>14, <1>15, <1>16, <1>17 DEF Step

(* What a power loss leaves of a verified file is one. *)
LEMMA SurvivingVerified ==
  ASSUME NEW c \in Content, c.synced, NEW d \in Surviving(c)
  PROVE  d.bytes = c.bytes /\ d.synced /\ d.writer = None
  BY DEF Surviving

(* A process that goes away closes its files and holds no name any more.    *)
LEMMA CloseVerified ==
  ASSUME PidsDistinct, TypeOK, VerifiedInv, NEW t \in Installer,
         temps' = Close(t, temps), dest' = Close(t, dest), disk' = disk,
         pc' \in [Installer -> Outside \cup Steps], pc'[t] \in {"new", "cleanup"},
         OthersWait(t), temp'[t] \in {temp[t], None}
  PROVE  VerifiedInv'
<1> USE InstallerAssumption
<1>1. \A n \in DOMAIN temps : temps[n] = [bytes |-> temps[n].bytes,
                                          synced |-> temps[n].synced,
                                          writer |-> temps[n].writer]
  BY DEF TypeOK, Content
<1>2. /\ DOMAIN temps' = DOMAIN temps
      /\ \A n \in DOMAIN temps :
           /\ temps'[n].bytes = temps[n].bytes
           /\ temps'[n].synced = temps[n].synced
           /\ temps'[n].writer = IF temps[n].writer = t THEN None ELSE temps[n].writer
  BY <1>1 DEF Close
<1>3. dest' = dest
  BY DEF Close, VerifiedInv, FinalFiles, TypeOK
<1>4. HoldsName'
  BY DEF HoldsName, VerifiedInv, OthersWait, NeedsTemp
<1>5. HoldsVerified'
  BY DEF HoldsVerified, VerifiedInv, OthersWait, NeedsTemp, Expected
<1>6. WriterHolds'
  <2>1. ASSUME NEW n \in DOMAIN temps, temps'[n].writer # None
        PROVE  /\ temps'[n].writer = temps[n].writer
               /\ temps[n].writer \in Installer \ {t}
               /\ pc[temps[n].writer] \in {"write", "sync"}
               /\ temp[temps[n].writer] = n
    BY <1>2, <2>1 DEF WriterHolds, VerifiedInv, TypeOK, Content
  <2>2. QED
    BY <1>2, <2>1 DEF WriterHolds, OthersWait
<1>7. TempProgress'
  <2>1. ASSUME NEW s \in Installer, pc'[s] \in NeedsTemp, temp'[s] \in DOMAIN temps'
        PROVE  /\ pc'[s] \in {"write", "sync"} => temps'[temp'[s]].writer = s
               /\ pc'[s] # "write" => temps'[temp'[s]].bytes = data'[s]
               /\ pc'[s] \notin {"write", "sync"} => temps'[temp'[s]].synced
    <3>1. s \in Installer \ {t}
      BY <2>1 DEF NeedsTemp
    <3>2. pc'[s] = pc[s] /\ temp'[s] = temp[s] /\ data'[s] = data[s]
      BY <3>1 DEF OthersWait
    <3>3. temp[s] \in DOMAIN temps
      BY <1>2, <2>1, <3>2
    <3>4. QED
      BY <1>2, <2>1, <3>1, <3>2, <3>3 DEF TempProgress, VerifiedInv
  <2>2. QED
    BY <2>1 DEF TempProgress
<1>8. FinalFiles' /\ VerifiedOnly'
  BY <1>3 DEF FinalFiles, VerifiedOnly, VerifiedInv
<1>9. QED
  BY <1>4, <1>5, <1>6, <1>7, <1>8 DEF VerifiedInv

LEMMA VerifiedEnvironment ==
  ASSUME PidsDistinct, TypeOK, VerifiedInv, [Next]_vars, ~\E t \in Installer : Step(t)
  PROVE  VerifiedInv'
<1> USE InstallerAssumption DEF Goto, files, callers, sweeping
<1>0. TypeOK'
  BY TypeEnvironment
<1>1. CASE \E t \in Installer : IoError(t)
  <2>1. PICK t \in Installer : IoError(t)
    BY <1>1
  <2>2. OthersWait(t)
    BY <2>1 DEF IoError, OthersWait, TypeOK
  <2>3. pc'[t] = "cleanup" /\ temp'[t] = temp[t] /\ disk' = disk
        /\ temps' = Close(t, temps) /\ dest' = Close(t, dest)
    BY <2>1 DEF IoError, TypeOK
  <2>4. QED
    BY <1>0, <2>2, <2>3, CloseVerified DEF TypeOK
<1>2. CASE \E t \in Installer : Exit(t)
  <2>1. PICK t \in Installer : Exit(t)
    BY <1>2
  <2>2. OthersWait(t) /\ pc'[t] = "new" /\ temp'[t] = None
    BY <2>1 DEF Exit, Reset, OthersWait, TypeOK
  <2>3. temps' = temps /\ dest' = dest /\ disk' = disk
    BY <2>1 DEF Exit
  <2>4. WriterHolds'
    BY <2>1, <2>2, <2>3, WriterFrame DEF Exit, VerifiedInv
  <2>5. TempProgress'
    BY <2>1, <2>2, <2>3, ProgressFrame DEF Exit, VerifiedInv, NeedsTemp
  <2>6. HoldsName' /\ HoldsVerified'
    BY <2>2 DEF VerifiedInv, HoldsName, HoldsVerified, OthersWait, NeedsTemp, Expected
  <2>7. QED
    BY <2>3, <2>4, <2>5, <2>6 DEF VerifiedInv, FinalFiles, VerifiedOnly
<1>3. CASE \E t \in Installer : Kill(t)
  <2>1. PICK t \in Installer : Kill(t)
    BY <1>3
  <2>2. OthersWait(t)
    BY <2>1 DEF Kill, Reset, OthersWait, TypeOK
  <2>3. pc'[t] = "new" /\ temp'[t] = None /\ disk' = disk
        /\ temps' = Close(t, temps) /\ dest' = Close(t, dest)
    BY <2>1 DEF Kill, Reset, TypeOK
  <2>4. QED
    BY <1>0, <2>2, <2>3, CloseVerified DEF TypeOK
<1>4. CASE \E t \in Installer, m \in Manifest : Install(t, m)
  <2>1. PICK t \in Installer, m \in Manifest : Install(t, m)
    BY <1>4
  <2>2. OthersWait(t) /\ pc'[t] = "exists" /\ temp'[t] = temp[t]
    BY <2>1 DEF Install, OthersWait, TypeOK
  <2>3. temps' = temps /\ dest' = dest /\ disk' = disk
    BY <2>1 DEF Install
  <2>4. WriterHolds'
    BY <2>1, <2>2, <2>3, WriterFrame DEF Install, VerifiedInv, Outside
  <2>5. TempProgress'
    BY <2>1, <2>2, <2>3, ProgressFrame DEF Install, VerifiedInv, NeedsTemp
  <2>6. HoldsName' /\ HoldsVerified'
    BY <2>2 DEF VerifiedInv, HoldsName, HoldsVerified, OthersWait, NeedsTemp, Expected
  <2>7. QED
    BY <2>3, <2>4, <2>5, <2>6 DEF VerifiedInv, FinalFiles, VerifiedOnly
<1>5. CASE PowerLoss
  <2>1. /\ \A f \in File : dest[f] \in Content /\ dest[f].synced
        /\ \A f \in File : disk[f] \in Content /\ disk[f].synced
    BY DEF TypeOK, VerifiedInv, FinalFiles
  <2>2. /\ disk' = dest'
        /\ dest'["aff"] \in Surviving(dest["aff"]) \cup Surviving(disk["aff"])
        /\ dest'["dic"] \in Surviving(dest["dic"]) \cup Surviving(disk["dic"])
    BY <1>5 DEF PowerLoss, File
  <2>3. \A f \in File : \E c \in {dest[f], disk[f]} :
          dest'[f].bytes = c.bytes /\ dest'[f].synced /\ dest'[f].writer = None
    BY <2>1, <2>2, SurvivingVerified DEF File
  <2>4. FinalFiles' /\ VerifiedOnly'
    BY <2>2, <2>3 DEF FinalFiles, VerifiedOnly, VerifiedInv
  <2>5. \A n \in DOMAIN temps' : temps'[n].writer = None
    BY <1>5 DEF PowerLoss
  <2>6. \A t \in Installer : pc'[t] = "new" /\ temp'[t] = None
    BY <1>5 DEF PowerLoss
  <2>7. QED
    BY <2>4, <2>5, <2>6 DEF VerifiedInv, HoldsName, HoldsVerified, WriterHolds,
       TempProgress, NeedsTemp
<1>6. CASE \E n \in DOMAIN temps : Age(n)
  BY <1>6 DEF Age, VerifiedInv, HoldsName, HoldsVerified, WriterHolds, TempProgress,
     FinalFiles, VerifiedOnly, Expected
<1>7. CASE \E f \in File : ForeignWrite(f)
  <2>1. FinalFiles' /\ VerifiedOnly'
    BY <1>7 DEF ForeignWrite, VerifiedInv, FinalFiles, VerifiedOnly, TypeOK
  <2>2. QED
    BY <1>7, <2>1 DEF ForeignWrite, VerifiedInv, HoldsName, HoldsVerified, WriterHolds,
       TempProgress, Expected
<1>8. CASE UNCHANGED vars
  BY <1>8 DEF vars, VerifiedInv, HoldsName, HoldsVerified, WriterHolds, TempProgress,
     FinalFiles, VerifiedOnly, Expected
<1>9. QED
  BY <1>1, <1>2, <1>3, <1>4, <1>5, <1>6, <1>7, <1>8 DEF Next

(* When no two callers have the same pid, a final name holds complete       *)
(* verified bytes, those of another program, or nothing, after every step   *)
(* of every caller, kill, power loss, suspension and failing operation.     *)
THEOREM VerifiedOnlyCorrect == PidsDistinct /\ Spec => []VerifiedOnly
<1> SUFFICES ASSUME PidsDistinct PROVE Spec => []VerifiedOnly
  OBVIOUS
<1>1. TypeOK /\ [Next]_vars => TypeOK'
  BY TypeStep, TypeEnvironment
<1>2. TypeOK /\ VerifiedInv /\ [Next]_vars => VerifiedInv'
  BY VerifiedStep, VerifiedEnvironment
<1>3. VerifiedInv => VerifiedOnly
  BY DEF VerifiedInv
<1>4. QED
  BY TypeInit, VerifiedInit, <1>1, <1>2, <1>3, PTL DEF Spec

-----------------------------------------------------------------------------
(* With hard links everywhere or nowhere: write-once, in order             *)

(* All of the invariant, as one predicate. *)
Inv == TypeOK /\ VerifiedInv /\ UniformInv

LEMMA UniformInit == Init => UniformInv
  BY DEF Init, UniformInv, NothingToRename, OneRenames, InOrder, NoMixedPair,
     NoFile, File, Locked, InPlace

(* A step leaves the final names alone, or gives one that did not exist its *)
(* temporary, with the bytes the caller expects: a rename under the lock is *)
(* as good as a link.                                                      *)
LEMMA FinalNames ==
  ASSUME PidsDistinct, Uniform, Inv, NEW t \in Installer, Step(t)
  PROVE  \/ dest' = dest
         \/ /\ pc[t] \in {"link", "rename"}
            /\ dest[file[t]].bytes = Absent
            /\ dest' = [dest EXCEPT ![file[t]] = temps[temp[t]]]
            /\ temps[temp[t]].bytes = Expected(t)
<1> USE DEF Goto, files, Inv
<1>1. CASE Link(t) \/ Rename(t)
  <2>1. CASE dest' = dest
    BY <2>1
  <2>2. CASE dest' # dest
    <3>1. /\ pc[t] \in {"link", "rename"} /\ temp[t] \in DOMAIN temps
          /\ dest' = [dest EXCEPT ![file[t]] = temps[temp[t]]]
      BY <1>1, <2>2 DEF Link, Rename
    <3>2. dest[file[t]].bytes = Absent
      <4>1. CASE Link(t)
        BY <2>2, <4>1 DEF Link, Exists
      <4>2. CASE Rename(t)
        <5>1. pc[t] = "rename"
          BY <4>2 DEF Rename
        <5>2. ~AllLink
          BY <3>1, <5>1 DEF UniformInv, NothingToRename
        <5>3. QED
          BY <5>1, <5>2 DEF Uniform, UniformInv, OneRenames, Exists
      <4>3. QED
        BY <1>1, <4>1, <4>2
    <3>3. temps[temp[t]].bytes = Expected(t)
      BY <3>1, SyncedTemp DEF NeedsTemp
    <3>4. QED
      BY <3>1, <3>2, <3>3
  <2>3. QED
    BY <2>1, <2>2
<1>3. CASE Write(t)
  BY <1>3, InstallerAssumption DEF Write, OpenFile, VerifiedInv, FinalFiles, TypeOK
<1>4. CASE Sync(t)
  BY <1>4, InstallerAssumption DEF Sync, OpenFile, VerifiedInv, FinalFiles, TypeOK
<1>5. CASE DestinationExists(t) \/ ReuseDestination(t) \/ Fetch(t) \/ Sweep(t) \/ Create(t)
  BY <1>5 DEF DestinationExists, ReuseDestination, Fetch, Sweep, FindStale,
     RemoveStale, EndSweep, Create
<1>6. CASE MatchWinner(t) \/ Unlink(t) \/ SyncDirectory(t) \/ Cleanup(t)
  BY <1>6 DEF MatchWinner, Unlink, SyncDirectory, Cleanup
<1>7. CASE AcquireLock(t) \/ LockedExists(t) \/ LockedMatch(t) \/ RenameMatch(t)
  BY <1>7 DEF AcquireLock, LockedExists, LockedMatch, RenameMatch
<1>8. QED
  BY <1>1, <1>3, <1>4, <1>5, <1>6, <1>7 DEF Step

(* The environment adds a foreign file at most. *)
LEMMA FinalNamesEnvironment ==
  ASSUME PidsDistinct, Uniform, Inv, [Next]_vars, ~\E t \in Installer : Step(t)
  PROVE  \/ dest' = dest
         \/ \E f \in File : ForeignWrite(f)
<1> USE DEF files, callers, sweeping, Inv
<1>1. ASSUME NEW t \in Installer
      PROVE  Close(t, dest) = dest
  BY InstallerAssumption DEF Close, VerifiedInv, FinalFiles, TypeOK
<1>2. CASE \E t \in Installer : IoError(t) \/ Kill(t)
  BY <1>1, <1>2 DEF IoError, Kill
<1>3. CASE \E t \in Installer : Exit(t)
  BY <1>3 DEF Exit
<1>4. CASE \E t \in Installer, m \in Manifest : Install(t, m)
  BY <1>4 DEF Install
<1>5. CASE PowerLoss
  BY <1>5 DEF PowerLoss, Uniform, AllLink, AllRename
<1>6. CASE \E n \in DOMAIN temps : Age(n)
  BY <1>6 DEF Age
<1>7. CASE UNCHANGED vars
  BY <1>7 DEF vars
<1>8. QED
  BY <1>2, <1>3, <1>4, <1>5, <1>6, <1>7 DEF Next

(* Bytes under a final name stay. *)
LEMMA BytesStay ==
  ASSUME PidsDistinct, Uniform, Inv, [Next]_vars,
         NEW f \in File, dest[f].bytes # Absent
  PROVE  dest'[f].bytes = dest[f].bytes
<1>1. CASE \E t \in Installer : Step(t)
  BY <1>1, FinalNames DEF Inv, TypeOK
<1>2. CASE ~\E t \in Installer : Step(t)
  BY <1>2, FinalNamesEnvironment DEF ForeignWrite, Inv, TypeOK
<1>3. QED
  BY <1>1, <1>2

(* A swept temporary does not come back: its name has the pid of t.         *)
LEMMA NothingToRenameStep ==
  ASSUME PidsDistinct, AllLink, Inv, NEW t \in Installer, Step(t)
  PROVE  NothingToRename'
<1> USE DEF Goto, files, Inv, UniformInv, NothingToRename
<1> DEFINE Late == {"lock", "lockedExists", "lockedMatch", "lockedUnlink", "rename"}
<1>1. \A n \in DOMAIN temps' : n \in DOMAIN temps \/ n[2] = PidOf[t]
  <2>1. CASE Create(t)
    BY <2>1 DEF Create, NextTemp
  <2>2. CASE ~Create(t)
    BY <2>2 DEF Step, DestinationExists, ReuseDestination, Fetch, Sweep,
       FindStale, RemoveStale, EndSweep, RemoveTemp,
       Write, Sync, OpenFile, Link, MatchWinner, Unlink, SyncDirectory, Cleanup,
       AcquireLock, LockedExists, LockedMatch, Rename, RenameMatch
  <2>3. QED
    BY <2>1, <2>2
<1>2. ASSUME NEW s \in Installer \ {t}, pc'[s] \in Late
      PROVE  temp'[s] \notin DOMAIN temps'
  <2>1. pc[s] \in Late /\ temp'[s] = temp[s]
    BY <1>2, StepLocal DEF OthersWait
  <2>2. temp[s][2] = PidOf[s] /\ temp[s] \notin DOMAIN temps
    BY <2>1 DEF VerifiedInv, HoldsName, NeedsTemp
  <2>3. QED
    BY <1>1, <2>1, <2>2 DEF PidsDistinct
<1>3. /\ pc'[t] \in Late => temp'[t] \notin DOMAIN temps'
      /\ pc'[t] \notin {"renameMatch", "lockedSync"}
  <2>1. CASE DestinationExists(t) \/ ReuseDestination(t) \/ Fetch(t) \/ Sweep(t)
    BY <2>1 DEF DestinationExists, ReuseDestination, FileInstalled, Fetch, Sweep,
       FindStale, RemoveStale, EndSweep, TypeOK
  <2>2. CASE Create(t) \/ Write(t) \/ Sync(t)
    BY <2>2 DEF Create, Write, Sync, TypeOK
  <2>3. CASE Link(t)
    BY <2>3 DEF Link, TypeOK, AllLink
  <2>4. CASE MatchWinner(t) \/ Unlink(t) \/ SyncDirectory(t) \/ Cleanup(t)
    BY <2>4 DEF MatchWinner, Unlink, SyncDirectory, FileInstalled, Cleanup, TypeOK
  <2>5. CASE AcquireLock(t) \/ LockedExists(t) \/ LockedMatch(t)
    BY <2>5 DEF AcquireLock, LockedExists, LockedMatch, TypeOK
  <2>6. CASE Rename(t) \/ RenameMatch(t)
    BY <2>6 DEF Rename, RenameMatch, TypeOK
  <2>7. QED
    BY <2>1, <2>2, <2>3, <2>4, <2>5, <2>6 DEF Step
<1>4. \A s \in Installer \ {t} : pc'[s] \notin {"renameMatch", "lockedSync"}
  BY StepLocal DEF OthersWait
<1>5. QED
  BY <1>2, <1>3, <1>4

(* Who holds the lock of a file keeps it until it leaves the section.       *)
LEMMA OneRenamesStep ==
  ASSUME PidsDistinct, AllRename, Inv, NEW t \in Installer, Step(t)
  PROVE  OneRenames'
<1> USE InstallerAssumption DEF Goto, files, Inv, Locked
<1>0. OneRenames
  BY DEF UniformInv
<1>1. \A f \in File : lock[f] # None /\ lock[f] # t => lock'[f] = lock[f]
  <2>1. CASE DestinationExists(t) \/ ReuseDestination(t) \/ Fetch(t) \/ Sweep(t)
    BY <2>1 DEF DestinationExists, ReuseDestination, Fetch, Sweep, FindStale,
       RemoveStale, EndSweep
  <2>2. CASE Create(t) \/ Write(t) \/ Sync(t) \/ Link(t)
    BY <2>2 DEF Create, Write, Sync, Link
  <2>3. CASE MatchWinner(t) \/ Unlink(t) \/ SyncDirectory(t) \/ Cleanup(t)
    BY <2>3 DEF MatchWinner, Unlink, SyncDirectory, Cleanup, Unlock
  <2>4. CASE AcquireLock(t) \/ LockedExists(t) \/ LockedMatch(t)
    BY <2>4 DEF AcquireLock, LockFree, LockedExists, LockedMatch, Unlock, TypeOK
  <2>5. CASE Rename(t) \/ RenameMatch(t)
    BY <2>5 DEF Rename, RenameMatch, Unlock
  <2>6. QED
    BY <2>1, <2>2, <2>3, <2>4, <2>5 DEF Step
<1>2. ASSUME NEW s \in Installer \ {t}
      PROVE  /\ pc'[s] \in Locked => lock'[file'[s]] = s
             /\ pc'[s] = "rename" => ~Exists(file[s])'
             /\ pc'[s] \notin {"linkMatch", "unlink", "syncDir"}
  <2>1. pc'[s] = pc[s] /\ file'[s] = file[s] /\ file[s] \in File /\ s # None
    BY StepLocal DEF OthersWait, TypeOK
  <2>2. pc[s] \in Locked => lock[file[s]] = s
    BY <1>0 DEF OneRenames
  <2>3. pc[s] \in Locked => lock'[file[s]] = s
    BY <1>1, <2>1, <2>2
  <2>4. pc[s] = "rename" => dest'[file[s]] = dest[file[s]]
    <3>1. ASSUME pc[s] = "rename", dest' # dest, file[t] = file[s]
          PROVE  FALSE
      <4>1. pc[t] \in {"link", "rename"}
        BY <3>1, FinalNames DEF Uniform
      <4>2. dest' = [dest EXCEPT ![file[t]] = temps[temp[t]]]
        BY <3>1, FinalNames DEF Uniform
      <4>3. pc[t] # "link"
        <5>1. ASSUME pc[t] = "link"
              PROVE  FALSE
          <6>1. Link(t)
            BY <5>1 DEF Step, DestinationExists, ReuseDestination, Fetch, Sweep,
               FindStale, RemoveStale, EndSweep, Create,
               Write, Sync, MatchWinner, Unlink, SyncDirectory, Cleanup,
               AcquireLock, LockedExists, LockedMatch, Rename, RenameMatch
          <6>2. QED
            BY <3>1, <6>1 DEF Link, AllRename
        <5>2. QED
          BY <5>1
      <4>4. lock[file[t]] = t
        BY <1>0, <4>1, <4>3 DEF OneRenames
      <4>5. QED
        BY <2>2, <3>1, <4>4
    <3>2. ASSUME pc[s] = "rename", dest' # dest, file[t] # file[s]
          PROVE  dest'[file[s]] = dest[file[s]]
      BY <2>1, <3>2, FinalNames DEF Uniform, TypeOK
    <3>3. QED
      BY <3>1, <3>2
  <2>5. QED
    BY <1>0, <2>1, <2>3, <2>4 DEF OneRenames, Exists
<1>3. /\ pc'[t] \in Locked => lock'[file'[t]] = t
      /\ pc'[t] = "rename" => ~Exists(file[t])'
      /\ pc'[t] \notin {"linkMatch", "unlink", "syncDir"}
  <2>0. /\ pc[t] \in Locked => lock[file[t]] = t
        /\ pc[t] \notin {"linkMatch", "unlink", "syncDir"}
        /\ file[t] \in File
    BY <1>0 DEF OneRenames, TypeOK
  <2>1. CASE DestinationExists(t) \/ ReuseDestination(t) \/ Fetch(t) \/ Sweep(t)
    BY <2>1 DEF DestinationExists, ReuseDestination, FileInstalled, Fetch, Sweep,
       FindStale, RemoveStale, EndSweep, TypeOK
  <2>2. CASE Create(t) \/ Write(t) \/ Sync(t) \/ Link(t)
    BY <2>2 DEF Create, Write, Sync, Link, AllRename, TypeOK
  <2>3. CASE MatchWinner(t) \/ Unlink(t) \/ SyncDirectory(t) \/ Cleanup(t)
    BY <2>0, <2>3 DEF MatchWinner, Unlink, SyncDirectory, FileInstalled, Cleanup, TypeOK
  <2>4. CASE AcquireLock(t)
    BY <2>0, <2>4 DEF AcquireLock, TypeOK
  <2>5. CASE LockedExists(t)
    <3>1. pc'[t] \in {"lockedMatch", "rename"} /\ file' = file /\ lock' = lock /\ dest' = dest
          /\ (pc'[t] = "rename" => ~Exists(file[t])) /\ pc[t] = "lockedExists"
      BY <2>5 DEF LockedExists, TypeOK
    <3>2. QED
      BY <2>0, <3>1 DEF Exists
  <2>6. CASE LockedMatch(t)
    BY <2>0, <2>6 DEF LockedMatch, TypeOK
  <2>7. CASE Rename(t) \/ RenameMatch(t)
    BY <2>0, <2>7 DEF Rename, RenameMatch, TypeOK
  <2>8. QED
    BY <2>1, <2>2, <2>3, <2>4, <2>5, <2>6, <2>7 DEF Step
<1>4. QED
  BY <1>2, <1>3 DEF OneRenames

LEMMA InOrderStep ==
  ASSUME PidsDistinct, Uniform, Inv, NEW t \in Installer, Step(t)
  PROVE  InOrder'
<1> USE DEF Goto, files, Inv, UniformInv, InOrder, InPlace
<1> DEFINE Order(s) ==
      /\ file'[s] = "dic" => dest'["aff"].bytes = manifest'[s]["aff"]
      /\ pc'[s] \in InPlace =>
           dest'[file'[s]].bytes = manifest'[s][file'[s]]
      /\ pc'[s] = "ok" => file'[s] = "dic" /\ dest'["dic"].bytes = manifest'[s]["dic"]
<1>1. \A f \in File : dest[f].bytes # Absent => dest'[f].bytes = dest[f].bytes
  BY BytesStay DEF Next
<1>2. \A s \in Installer, f \in File : manifest[s][f] # Absent
  BY InstallerAssumption DEF TypeOK
<1>3. "aff" \in File /\ "dic" \in File /\ \A s \in Installer : file[s] \in File
  BY DEF File, TypeOK
<1>4. ASSUME NEW s \in Installer \ {t}
      PROVE  Order(s)
  BY <1>1, <1>2, <1>3, StepLocal DEF OthersWait, Expected
<1>5. Order(t)
  <2>1. CASE DestinationExists(t) \/ Fetch(t) \/ Sweep(t) \/ Create(t) \/ Write(t) \/ Sync(t)
    <3>1. /\ file' = file /\ manifest' = manifest
          /\ pc'[t] \notin InPlace \cup {"ok"}
      BY <2>1 DEF DestinationExists, Fetch, Sweep, FindStale, RemoveStale,
         EndSweep, Create, Write, Sync, TypeOK
    <3>2. QED
      BY <1>1, <1>2, <1>3, <3>1
  <2>2. CASE ReuseDestination(t)
    BY <1>1, <1>2, <1>3, <2>2
    DEF ReuseDestination, FileInstalled, Matches, Expected, TypeOK, File
  <2>3. CASE Link(t)
    <3>1. /\ file' = file /\ manifest' = manifest
          /\ pc'[t] \in {"unlink", "linkMatch", "lock"}
      BY <2>3 DEF Link, TypeOK
    <3>2. pc'[t] = "unlink" => dest'[file[t]].bytes = Expected(t)
      <4>1. CASE dest' = dest
        <5>1. pc'[t] = "unlink" => dest[file[t]] = temps[temp[t]] /\ ~Exists(file[t])
          BY <1>3, <2>3, <4>1 DEF Link, TypeOK
        <5>2. pc'[t] = "unlink" => temps[temp[t]].bytes = Expected(t)
          BY <2>3, SyncedTemp DEF Link, NeedsTemp, TypeOK
        <5>3. QED
          BY <4>1, <5>1, <5>2
      <4>2. CASE dest' # dest
        BY <1>3, <4>2, FinalNames DEF TypeOK
      <4>3. QED
        BY <4>1, <4>2
    <3>3. QED
      BY <1>1, <1>2, <1>3, <3>1, <3>2 DEF Expected
  <2>4. CASE MatchWinner(t)
    BY <1>1, <1>2, <1>3, <2>4 DEF MatchWinner, Matches, Expected, TypeOK
  <2>5. CASE Unlink(t)
    <3>1. /\ file' = file /\ manifest' = manifest /\ pc'[t] # "ok"
          /\ pc'[t] \in InPlace => pc[t] \in InPlace
      BY <2>5 DEF Unlink, TypeOK
    <3>2. QED
      BY <1>1, <1>2, <1>3, <3>1 DEF Expected
  <2>6. CASE SyncDirectory(t)
    <3>1. dest[file[t]].bytes = manifest[t][file[t]]
      BY <2>6 DEF SyncDirectory, Expected
    <3>2. QED
      BY <1>1, <1>2, <1>3, <2>6, <3>1 DEF SyncDirectory, FileInstalled, TypeOK, File
  <2>7. CASE Cleanup(t) \/ AcquireLock(t) \/ LockedExists(t)
    <3>1. /\ file' = file /\ manifest' = manifest
          /\ pc'[t] \notin InPlace \cup {"ok"}
      BY <2>7 DEF Cleanup, AcquireLock, LockedExists, TypeOK
    <3>2. QED
      BY <1>1, <1>2, <1>3, <3>1
  <2>8. CASE LockedMatch(t) \/ RenameMatch(t)
    <3>1. /\ file' = file /\ manifest' = manifest /\ dest' = dest /\ pc'[t] # "ok"
          /\ pc'[t] \in InPlace => Matches(t)
      BY <2>8 DEF LockedMatch, RenameMatch, TypeOK
    <3>2. QED
      BY <1>1, <1>2, <1>3, <3>1 DEF Matches, Expected
  <2>9. CASE Rename(t)
    <3>1. /\ file' = file /\ manifest' = manifest
          /\ pc'[t] \in {"renameMatch", "cleanup"}
      BY <2>9 DEF Rename, TypeOK
    <3>2. pc'[t] = "renameMatch" => dest'[file[t]].bytes = Expected(t)
      <4>1. pc'[t] = "renameMatch" =>
              temp[t] \in DOMAIN temps /\ dest'[file[t]] = temps[temp[t]]
        BY <1>3, <2>9 DEF Rename, TypeOK
      <4>2. pc[t] = "rename"
        BY <2>9 DEF Rename
      <4>3. QED
        BY <4>1, <4>2, SyncedTemp DEF NeedsTemp
    <3>3. QED
      BY <1>1, <1>2, <1>3, <3>1, <3>2 DEF Expected
  <2>10. QED
    BY <2>1, <2>2, <2>3, <2>4, <2>5, <2>6, <2>7, <2>8, <2>9 DEF Step
<1>6. QED
  BY <1>4, <1>5 DEF Expected

(* The words t publishes stand beside the affixes of its own manifest. *)
LEMMA NoMixedPairStep ==
  ASSUME PidsDistinct, Uniform, Inv, NEW t \in Installer, Step(t)
  PROVE  NoMixedPair'
<1> USE DEF Inv, UniformInv
<1>1. CASE dest' = dest
  BY <1>1 DEF NoMixedPair
<1>2. CASE dest' # dest
  <2>1. /\ dest[file[t]].bytes = Absent
        /\ dest' = [dest EXCEPT ![file[t]] = temps[temp[t]]]
        /\ temps[temp[t]].bytes = Expected(t)
    BY <1>2, FinalNames
  <2>2. /\ manifest[t] \in Manifest /\ dest \in [File -> Content]
        /\ file[t] \in File /\ File = {"aff", "dic"}
    BY DEF TypeOK, File
  <2>3. \A m \in Manifest, f \in File : m[f] # Absent
    BY InstallerAssumption
  <2>4. CASE file[t] = "dic"
    <3>1. \A f \in File : dest'[f].bytes = manifest[t][f]
      BY <2>1, <2>2, <2>4 DEF InOrder, Expected
    <3>2. QED
      BY <2>2, <3>1 DEF NoMixedPair
  <2>5. CASE file[t] = "aff"
    <3>1. dest'["dic"] = dest["dic"] /\ dest["aff"].bytes = Absent
      BY <2>1, <2>2, <2>5
    <3>2. dest["dic"].bytes \in {Absent} \cup ForeignBytes
      BY <2>2, <2>3, <3>1 DEF NoMixedPair
    <3>3. QED
      BY <3>1, <3>2 DEF NoMixedPair
  <2>6. QED
    BY <2>2, <2>4, <2>5
<1>3. QED
  BY <1>1, <1>2

LEMMA UniformEnvironment ==
  ASSUME PidsDistinct, Uniform, Inv, [Next]_vars, ~\E t \in Installer : Step(t)
  PROVE  UniformInv'
<1> USE InstallerAssumption DEF Goto, files, callers, sweeping, Inv, UniformInv
<1>0. AllRename => dest' = dest
  BY FinalNamesEnvironment DEF AllRename, ForeignWrite
<1>1. \A f \in File : dest[f].bytes # Absent => dest'[f].bytes = dest[f].bytes
  BY BytesStay
<1>2. \A s \in Installer, f \in File : manifest[s][f] # Absent
  BY DEF TypeOK
<1>3. "aff" \in File /\ "dic" \in File /\ \A s \in Installer : file[s] \in File
  BY DEF File, TypeOK
<1>4. NoMixedPair'
  <2>1. CASE dest' = dest
    BY <2>1 DEF NoMixedPair
  <2>2. CASE \E f \in File : ForeignWrite(f)
    <3>1. PICK f \in File : ForeignWrite(f)
      BY <2>2
    <3>2. /\ dest[f].bytes = Absent
          /\ dest'[f].bytes \in ForeignBytes
          /\ \A g \in File \ {f} : dest'[g] = dest[g]
      BY <3>1 DEF ForeignWrite, TypeOK
    <3>3. \A m \in Manifest, g \in File : m[g] # Absent
      OBVIOUS
    <3>4. CASE f = "dic"
      BY <3>2, <3>4 DEF NoMixedPair
    <3>5. CASE f = "aff"
      <4>1. dest["dic"].bytes \in {Absent} \cup ForeignBytes
        BY <1>3, <3>2, <3>3, <3>5 DEF NoMixedPair
      <4>2. dest'["dic"] = dest["dic"]
        BY <1>3, <3>2, <3>5
      <4>3. QED
        BY <4>1, <4>2 DEF NoMixedPair
    <3>6. QED
      BY <3>4, <3>5 DEF File
  <2>3. QED
    BY <2>1, <2>2, FinalNamesEnvironment
<1>5. CASE \E t \in Installer : IoError(t) \/ Kill(t) \/ Exit(t)
  <2>1. PICK t \in Installer : IoError(t) \/ Kill(t) \/ Exit(t)
    BY <1>5
  <2>2. /\ OthersWait(t) /\ pc'[t] \in {"cleanup", "new"}
        /\ DOMAIN temps' = DOMAIN temps
        /\ lock' = lock \/ Unlock(t)
    BY <2>1 DEF IoError, Kill, Exit, Reset, Close, OthersWait, TypeOK
  <2>3. \/ file'[t] = "aff"
        \/ file'[t] = file[t] /\ manifest'[t] = manifest[t]
    BY <2>1 DEF IoError, Kill, Exit, Reset, TypeOK
  <2>4. AllLink => NothingToRename'
    BY <2>2 DEF NothingToRename, OthersWait
  <2>5. AllRename => OneRenames'
    <3>1. ASSUME AllRename
          PROVE  /\ \A f \in File : lock[f] # t => lock'[f] = lock[f]
                 /\ dest' = dest
      BY <1>0, <2>2, <3>1 DEF Unlock
    <3>2. QED
      BY <1>3, <2>2, <3>1 DEF OneRenames, OthersWait, Exists, Locked
  <2>6. InOrder'
    BY <1>1, <1>2, <1>3, <2>2, <2>3 DEF InOrder, InPlace, OthersWait, Expected
  <2>7. QED
    BY <1>4, <2>4, <2>5, <2>6
<1>6. CASE \E t \in Installer, m \in Manifest : Install(t, m)
  <2>1. PICK t \in Installer, m \in Manifest : Install(t, m)
    BY <1>6
  <2>2. /\ OthersWait(t) /\ pc'[t] = "exists" /\ file'[t] = "aff"
        /\ temps' = temps /\ lock' = lock /\ dest' = dest
    BY <2>1 DEF Install, OthersWait, TypeOK
  <2>3. AllLink => NothingToRename'
    BY <2>2 DEF NothingToRename, OthersWait
  <2>4. AllRename => OneRenames'
    BY <2>2 DEF OneRenames, OthersWait, Exists, Locked
  <2>5. InOrder'
    BY <1>1, <1>2, <1>3, <2>2 DEF InOrder, InPlace, OthersWait, Expected
  <2>6. QED
    BY <1>4, <2>3, <2>4, <2>5
<1>7. CASE PowerLoss
  BY <1>7 DEF PowerLoss, Uniform, AllLink, AllRename
<1>8. CASE UNCHANGED <<callers, temps, lock>>
  <2>1. AllLink => NothingToRename'
    BY <1>8 DEF NothingToRename
  <2>2. AllRename => OneRenames'
    BY <1>0, <1>8 DEF OneRenames, Exists
  <2>3. InOrder'
    BY <1>1, <1>2, <1>3, <1>8 DEF InOrder, InPlace, Expected
  <2>4. QED
    BY <1>4, <2>1, <2>2, <2>3
<1>9. CASE \E n \in DOMAIN temps : Age(n)
  BY <1>8, <1>9 DEF Age
<1>10. CASE \E f \in File : ForeignWrite(f)
  BY <1>8, <1>10 DEF ForeignWrite
<1>11. CASE UNCHANGED vars
  BY <1>8, <1>11 DEF vars
<1>12. QED
  BY <1>5, <1>6, <1>7, <1>9, <1>10, <1>11 DEF Next

LEMMA InvInductive ==
  ASSUME PidsDistinct, Uniform
  PROVE  /\ Init => Inv
         /\ Inv /\ [Next]_vars => Inv'
<1>1. Init => Inv
  BY TypeInit, VerifiedInit, UniformInit DEF Inv
<1>2. ASSUME Inv, [Next]_vars, \E t \in Installer : Step(t)
      PROVE  Inv'
  BY <1>2, TypeStep, VerifiedStep, NothingToRenameStep, OneRenamesStep, InOrderStep,
     NoMixedPairStep
  DEF Inv, UniformInv
<1>3. ASSUME Inv, [Next]_vars, ~\E t \in Installer : Step(t)
      PROVE  Inv'
  BY <1>3, TypeEnvironment, VerifiedEnvironment, UniformEnvironment DEF Inv
<1>4. QED
  BY <1>1, <1>2, <1>3

(* With hard links everywhere or nowhere and distinct pids the words of one revision never stand  *)
(* beside the affixes of another.                                          *)
THEOREM NoMixedPairCorrect == PidsDistinct /\ Uniform /\ Spec => []NoMixedPair
<1> SUFFICES ASSUME PidsDistinct, Uniform PROVE Spec => []NoMixedPair
  OBVIOUS
<1>1. Inv => NoMixedPair
  BY DEF Inv, UniformInv
<1>2. QED
  BY InvInductive, <1>1, PTL DEF Spec

(* There, Ok means that both files are the caller's, for as long as it      *)
(* remembers the answer.                                                   *)
THEOREM SuccessCorrect == PidsDistinct /\ Uniform /\ Spec => []SuccessMeansInstalled
<1> SUFFICES ASSUME PidsDistinct, Uniform PROVE Spec => []SuccessMeansInstalled
  OBVIOUS
<1>1. Inv => SuccessMeansInstalled
  BY DEF Inv, UniformInv, InOrder, SuccessMeansInstalled, File
<1>2. QED
  BY InvInductive, <1>1, PTL DEF Spec

(* There, no step ever replaces the bytes of a final name.                  *)
THEOREM NeverReplacedCorrect == PidsDistinct /\ Uniform /\ Spec => NeverReplaced
<1> SUFFICES ASSUME PidsDistinct, Uniform PROVE Spec => NeverReplaced
  OBVIOUS
<1>1. Inv /\ [Next]_vars =>
        [\A f \in File : dest[f].bytes # Absent =>
                         dest'[f].bytes = dest[f].bytes]_vars
  BY BytesStay
<1>2. QED
  BY InvInductive, <1>1, PTL DEF Spec, NeverReplaced

-----------------------------------------------------------------------------
(* Temporaries                                                             *)

(* The temporary a caller needs carries its pid: no other caller names it.  *)
LEMMA NeededDistinct ==
  ASSUME PidsDistinct, TypeOK, HoldsName, NEW s \in Installer, NEW t \in Installer,
         pc[t] \in NeedsTemp, temp[s] = temp[t]
  PROVE  s = t
<1>1. temp[t] # None /\ PidOf[s] = PidOf[t]
  BY DEF HoldsName
<1>2. QED
  BY <1>1 DEF PidsDistinct

LEMMA FoundOldInit == Init => FoundOld
  BY DEF Init, FoundOld

LEMMA FoundOldStep ==
  ASSUME TypeOK, FoundOld, NEW t \in Installer, Step(t)
  PROVE  FoundOld'
<1> USE DEF sweeping, files
<1>1. CASE FindStale(t)
  <2>1. PICK n \in Swept(t) :
          found' = [found EXCEPT ![t] = n] /\ sawOld' = [sawOld EXCEPT ![t] = n \in stale]
    BY <1>1 DEF FindStale
  <2>2. n \in stale
    BY DEF Swept
  <2>3. QED
    BY <2>1, <2>2 DEF TypeOK, FoundOld
<1>2. CASE RemoveStale(t)
  BY <1>2 DEF RemoveStale, TypeOK, FoundOld
<1>3. CASE UNCHANGED sweeping
  BY <1>3 DEF FoundOld
<1>4. QED
  BY <1>1, <1>2, <1>3 DEF Step, Sweep, EndSweep, DestinationExists,
     ReuseDestination,
     FileInstalled, Fetch, Create, Write, Sync, Link, MatchWinner, Unlink,
        SyncDirectory,
     Cleanup, AcquireLock, LockedExists, LockedMatch, Rename, RenameMatch

LEMMA FoundOldEnvironment ==
  ASSUME TypeOK, FoundOld, [Next]_vars, ~\E t \in Installer : Step(t)
  PROVE  FoundOld'
<1> USE DEF sweeping, files, callers
<1>1. CASE \E t \in Installer : Exit(t) \/ Kill(t)
  BY <1>1 DEF Exit, Kill, Reset, TypeOK, FoundOld
<1>2. CASE PowerLoss
  BY <1>2 DEF PowerLoss, FoundOld
<1>3. CASE UNCHANGED sweeping
  BY <1>3 DEF FoundOld
<1>4. QED
  BY <1>1, <1>2, <1>3 DEF Next, IoError, Install, Age, ForeignWrite, vars

(* Of the files of other callers a step takes only what a sweep found. *)
LEMMA StepSpares ==
  ASSUME PidsDistinct, TypeOK, HoldsName, FoundOld, NEW s \in Installer, Step(s),
         NEW t \in Installer \ {s}, pc[t] \in NeedsTemp,
         temp[t] \in DOMAIN temps, ~BeingSwept(temp[t])
  PROVE  temp[t] \in DOMAIN temps'
<1> USE DEF files
<1>1. temp[s] # temp[t]
  BY NeededDistinct
<1>2. CASE DestinationExists(s) \/ ReuseDestination(s) \/ Fetch(s) \/ Create(s)
  BY <1>2 DEF DestinationExists, ReuseDestination, Fetch, Create
<1>3. CASE Sweep(s)
  BY <1>3 DEF Sweep, FindStale, RemoveStale, EndSweep, RemoveTemp, BeingSwept,
     FoundOld
<1>4. CASE Write(s) \/ Sync(s) \/ Link(s)
  BY <1>4 DEF Write, Sync, Link, OpenFile
<1>5. CASE MatchWinner(s) \/ SyncDirectory(s)
  BY <1>5 DEF MatchWinner, SyncDirectory
<1>6. CASE Unlink(s) \/ Cleanup(s) \/ Rename(s)
  BY <1>1, <1>6 DEF Unlink, Cleanup, Rename, RemoveTemp
<1>7. CASE AcquireLock(s) \/ LockedExists(s) \/ LockedMatch(s) \/ RenameMatch(s)
  BY <1>7 DEF AcquireLock, LockedExists, LockedMatch, RenameMatch
<1>8. QED
  BY <1>2, <1>3, <1>4, <1>5, <1>6, <1>7 DEF Step

(* A caller that uses its temporary goes on, so it was not waiting for it.  *)
LEMMA NeedsTempMoves ==
  ASSUME TypeOK, NEW t \in Installer, Step(t), pc[t] \in NeedsTemp
  PROVE  pc'[t] # pc[t]
<1> USE DEF NeedsTemp, Goto, TypeOK
<1>1. CASE DestinationExists(t) \/ ReuseDestination(t) \/ Fetch(t) \/ Sweep(t) \/ Create(t)
  BY <1>1 DEF DestinationExists, ReuseDestination, Fetch, Sweep, FindStale,
     RemoveStale, EndSweep, Create
<1>2. CASE Write(t) \/ Sync(t) \/ Link(t) \/ MatchWinner(t)
  BY <1>2 DEF Write, Sync, Link, MatchWinner
<1>3. CASE Unlink(t) \/ SyncDirectory(t) \/ Cleanup(t)
  BY <1>3 DEF Unlink, SyncDirectory, Cleanup
<1>4. CASE AcquireLock(t) \/ LockedExists(t) \/ LockedMatch(t) \/ Rename(t) \/ RenameMatch(t)
  BY <1>4 DEF AcquireLock, LockedExists, LockedMatch, Rename, RenameMatch
<1>5. QED
  BY <1>1, <1>2, <1>3, <1>4 DEF Step

LEMMA EnvironmentSpares ==
  ASSUME TypeOK, [Next]_vars, ~\E t \in Installer : Step(t),
         NEW t \in Installer, pc[t] \in NeedsTemp, pc'[t] = pc[t],
         temp[t] \in DOMAIN temps
  PROVE  temp[t] \in DOMAIN temps'
<1> USE DEF files, callers, sweeping
<1>1. CASE \E s \in Installer : IoError(s) \/ Exit(s) \/ Kill(s)
  BY <1>1 DEF IoError, Exit, Kill, Close
<1>2. CASE \E s \in Installer, m \in Manifest : Install(s, m)
  BY <1>2 DEF Install
<1>3. CASE PowerLoss
  BY <1>3 DEF PowerLoss, NeedsTemp
<1>4. CASE \E n \in DOMAIN temps : Age(n)
  BY <1>4 DEF Age
<1>5. CASE \E f \in File : ForeignWrite(f)
  BY <1>5 DEF ForeignWrite
<1>6. CASE UNCHANGED vars
  BY <1>6 DEF vars
<1>7. QED
  BY <1>1, <1>2, <1>3, <1>4, <1>5, <1>6 DEF Next

(* Nobody takes away the temporary of a running caller, unless a sweep that *)
(* is under way has seen it an hour old, whatever fails, when no two        *)
(* callers share a pid.                                                     *)
THEOREM RunningTempsKeptCorrect == PidsDistinct /\ Spec => RunningTempsKept
<1> SUFFICES ASSUME PidsDistinct PROVE Spec => RunningTempsKept
  OBVIOUS
<1>1. TypeOK /\ VerifiedInv /\ FoundOld /\ [Next]_vars
        => TypeOK' /\ VerifiedInv' /\ FoundOld'
  BY TypeStep, TypeEnvironment, VerifiedStep, VerifiedEnvironment,
     FoundOldStep, FoundOldEnvironment
<1>2. ASSUME TypeOK, VerifiedInv, FoundOld, [Next]_vars, NEW t \in Installer,
             temp[t] \in DOMAIN temps, ~BeingSwept(temp[t]),
             pc[t] \in NeedsTemp, pc'[t] = pc[t]
      PROVE  temp[t] \in DOMAIN temps'
  <2>1. HoldsName
    BY <1>2 DEF VerifiedInv
  <2>2. CASE \E s \in Installer : Step(s)
    BY <1>2, <2>1, <2>2, StepSpares, NeedsTempMoves
  <2>3. CASE ~\E s \in Installer : Step(s)
    BY <1>2, <2>3, EnvironmentSpares
  <2>4. QED
    BY <2>2, <2>3
<1>3. TypeOK /\ VerifiedInv /\ FoundOld /\ [Next]_vars =>
        [\A t \in Installer :
           /\ temp[t] \in DOMAIN temps
           /\ ~BeingSwept(temp[t])
           /\ pc[t] \in NeedsTemp
           /\ pc'[t] = pc[t]
           => temp[t] \in DOMAIN temps']_vars
  BY <1>2
<1>4. QED
  BY TypeInit, VerifiedInit, FoundOldInit, <1>1, <1>3, PTL DEF Spec,
     RunningTempsKept

(* What t leaves behind is gone or still to be removed. *)
LEMMA HeldStep ==
  ASSUME TypeOK, TempsHeld, NEW t \in Installer, Step(t)
  PROVE  TempsHeld'
<1> USE DEF Goto, files
<1> DEFINE Holding == NeedsTemp \cup {"cleanup"}
<1>1. ASSUME DOMAIN temps' \subseteq DOMAIN temps,
             pc[t] \in Holding /\ temp[t] \in DOMAIN temps' =>
               pc'[t] \in Holding /\ temp'[t] = temp[t]
      PROVE  TempsHeld'
  <2> SUFFICES ASSUME NEW n \in DOMAIN temps'
               PROVE  \E s \in Installer : temp'[s] = n /\ pc'[s] \in Holding
    BY DEF TempsHeld
  <2>1. PICK s \in Installer : temp[s] = n /\ pc[s] \in Holding
    BY <1>1 DEF TempsHeld
  <2>2. QED
    BY <1>1, <2>1, StepLocal DEF OthersWait
<1> USE DEF TypeOK, NeedsTemp
<1>2. CASE DestinationExists(t) \/ ReuseDestination(t) \/ Fetch(t)
  BY <1>1, <1>2 DEF DestinationExists, ReuseDestination, FileInstalled, Fetch
<1>3. CASE Sweep(t)
  BY <1>1, <1>3 DEF Sweep, FindStale, RemoveStale, EndSweep, RemoveTemp
<1>4. CASE Create(t)
  <2>1. CASE NextTemp(t) \in DOMAIN temps
    BY <1>1, <1>4, <2>1 DEF Create
  <2>2. CASE NextTemp(t) \notin DOMAIN temps
    <3>1. /\ DOMAIN temps' = DOMAIN temps \cup {NextTemp(t)}
          /\ temp'[t] = NextTemp(t) /\ pc'[t] = "write" /\ pc[t] = "create"
      BY <1>4, <2>2 DEF Create, OwnTemp
    <3>2. ASSUME NEW n \in DOMAIN temps
          PROVE  \E s \in Installer : temp'[s] = n /\ pc'[s] \in Holding
      <4>1. PICK s \in Installer : temp[s] = n /\ pc[s] \in Holding
        BY DEF TempsHeld
      <4>2. QED
        BY <3>1, <4>1, StepLocal DEF OthersWait
    <3>3. QED
      BY <3>1, <3>2 DEF TempsHeld
  <2>3. QED
    BY <2>1, <2>2
<1>5. CASE Write(t) \/ Sync(t) \/ Link(t)
  BY <1>1, <1>5 DEF Write, Sync, Link, OpenFile
<1>6. CASE MatchWinner(t)
  BY <1>1, <1>6 DEF MatchWinner
<1>7. CASE Unlink(t)
  BY <1>1, <1>7 DEF Unlink, RemoveTemp
<1>8. CASE SyncDirectory(t)
  BY <1>1, <1>8 DEF SyncDirectory
<1>9. CASE Cleanup(t)
  BY <1>1, <1>9 DEF Cleanup, RemoveTemp
<1>10. CASE AcquireLock(t) \/ LockedExists(t) \/ LockedMatch(t)
  BY <1>1, <1>10 DEF AcquireLock, LockedExists, LockedMatch
<1>11. CASE Rename(t)
  BY <1>1, <1>11 DEF Rename, RemoveTemp
<1>12. CASE RenameMatch(t)
  BY <1>1, <1>12 DEF RenameMatch
<1>13. QED
  BY <1>2, <1>3, <1>4, <1>5, <1>6, <1>7, <1>8, <1>9, <1>10, <1>11, <1>12 DEF Step

LEMMA HeldEnvironment ==
  ASSUME {"kill", "power"} \cap Faults = {},
         TypeOK, TempsHeld, [Next]_vars, ~\E t \in Installer : Step(t)
  PROVE  TempsHeld'
<1> USE DEF Goto, files, callers, sweeping
<1> DEFINE Holding == NeedsTemp \cup {"cleanup"}
<1>1. CASE \E t \in Installer : IoError(t)
  <2>1. PICK t \in Installer : IoError(t)
    BY <1>1
  <2>2. /\ DOMAIN temps' = DOMAIN temps /\ temp' = temp
        /\ pc' = [pc EXCEPT ![t] = "cleanup"]
    BY <2>1 DEF IoError, Close
  <2>3. \A s \in Installer : pc[s] \in Holding => pc'[s] \in Holding
    BY <2>2 DEF TypeOK
  <2>4. QED
    BY <2>2, <2>3 DEF TempsHeld
<1>2. CASE \E t \in Installer : Exit(t)
  <2>1. PICK t \in Installer : Exit(t)
    BY <1>2
  <2>2. /\ temps' = temps /\ pc[t] \notin Holding
        /\ \A s \in Installer \ {t} : temp'[s] = temp[s] /\ pc'[s] = pc[s]
    BY <2>1 DEF Exit, Reset, NeedsTemp, TypeOK
  <2>3. QED
    BY <2>2 DEF TempsHeld
<1>3. CASE \E t \in Installer : Kill(t)
  BY <1>3 DEF Kill
<1>4. CASE \E t \in Installer, m \in Manifest : Install(t, m)
  <2>1. PICK t \in Installer, m \in Manifest : Install(t, m)
    BY <1>4
  <2>2. /\ temps' = temps /\ temp' = temp /\ pc[t] \notin Holding
        /\ \A s \in Installer \ {t} : pc'[s] = pc[s]
    BY <2>1 DEF Install, Outside, NeedsTemp, TypeOK
  <2>3. QED
    BY <2>2 DEF TempsHeld
<1>5. CASE PowerLoss
  BY <1>5 DEF PowerLoss
<1>6. CASE UNCHANGED <<callers, temps>>
  BY <1>6 DEF TempsHeld
<1>7. QED
  BY <1>1, <1>2, <1>3, <1>4, <1>5, <1>6 DEF Next, Age, ForeignWrite, vars

(* Unless a process or the machine stops, no return path of install leaves  *)
(* a temporary: file operations and downloads may fail, callers may sleep,  *)
(* and it does not matter who shares a pid or has hard links.               *)
THEOREM NoLeftoversCorrect ==
  {"kill", "power"} \cap Faults = {} /\ Spec => []NoLeftovers
<1> SUFFICES ASSUME {"kill", "power"} \cap Faults = {} PROVE Spec => []NoLeftovers
  OBVIOUS
<1>1. Init => TempsHeld
  BY DEF Init, TempsHeld
<1>2. TypeOK /\ TempsHeld /\ [Next]_vars => TypeOK' /\ TempsHeld'
  BY TypeStep, TypeEnvironment, HeldStep, HeldEnvironment
<1>3. TempsHeld => NoLeftovers
  BY DEF TempsHeld, NoLeftovers, NeedsTemp, Steps, Locked
<1>4. QED
  BY TypeInit, <1>1, <1>2, <1>3, PTL DEF Spec

-----------------------------------------------------------------------------
(* Races                                                                   *)

(* Nothing underneath fails: then temporaries are lost to nobody, and a     *)
(* caller that gives up has seen the bytes of another revision, which stay. *)
LEMMA CalmStep ==
  ASSUME PidsDistinct, Uniform, Calm, Inv, CalmInv, NEW t \in Installer, Step(t)
  PROVE  CalmInv'
<1> USE DEF Goto, files, Inv
<1> DEFINE Looking == {"match", "linkMatch", "lockedMatch"}
           Stopped == {"cleanup", "err"}
           Beaten(s) == \E f \in File : dest[f].bytes \notin {Absent,
              manifest[s][f]}
<1>1. HoldsName /\ TempsHeld /\ stale = {} /\ \A s \in Installer : found[s] = None
  BY DEF VerifiedInv, CalmInv
<1>2. /\ pc[t] \in NeedsTemp => temp[t] \in DOMAIN temps
      /\ pc[t] \in Looking => Exists(file[t])
      /\ pc[t] \in Stopped => Beaten(t)
      /\ file[t] \in File
  BY DEF CalmInv, TypeOK
<1>3. \A f \in File : dest[f].bytes # Absent => dest'[f].bytes = dest[f].bytes
  BY BytesStay DEF Next
<1>4. TempsHeld'
  BY <1>1, HeldStep
<1>5. stale' = {}
  <2>1. CASE DestinationExists(t) \/ ReuseDestination(t) \/ Fetch(t) \/ Create(t)
    BY <1>1, <2>1 DEF DestinationExists, ReuseDestination, Fetch, Create
  <2>2. CASE Sweep(t) \/ Unlink(t) \/ Cleanup(t) \/ Rename(t)
    BY <1>1, <2>2 DEF Sweep, FindStale, RemoveStale, EndSweep, Unlink, Cleanup,
       Rename, RemoveTemp
  <2>3. CASE Write(t) \/ Sync(t) \/ Link(t) \/ MatchWinner(t) \/ SyncDirectory(t)
    BY <1>1, <2>3 DEF Write, Sync, Link, MatchWinner, SyncDirectory
  <2>4. CASE AcquireLock(t) \/ LockedExists(t) \/ LockedMatch(t) \/ RenameMatch(t)
    BY <1>1, <2>4 DEF AcquireLock, LockedExists, LockedMatch, RenameMatch
  <2>5. QED
    BY <2>1, <2>2, <2>3, <2>4 DEF Step
<1>6. ASSUME NEW s \in Installer \ {t}
      PROVE  /\ pc'[s] \in NeedsTemp => temp'[s] \in DOMAIN temps'
             /\ pc'[s] \in Looking => Exists(file[s])'
             /\ pc'[s] \in Stopped => Beaten(s)'
  <2>1. /\ pc'[s] = pc[s] /\ temp'[s] = temp[s]
        /\ file'[s] = file[s] /\ manifest'[s] = manifest[s] /\ file[s] \in File
    BY StepLocal DEF OthersWait, TypeOK
  <2>2. pc[s] \in NeedsTemp => temp[s] \in DOMAIN temps'
    <3>1. FoundOld
      BY <1>1 DEF FoundOld
    <3>2. pc[s] \in NeedsTemp => ~BeingSwept(temp[s])
      BY <1>1 DEF HoldsName, BeingSwept
    <3>3. QED
      BY <1>1, <3>1, <3>2, StepSpares DEF CalmInv
  <2>3. pc[s] \in Looking => dest'[file[s]].bytes # Absent
    BY <1>3, <2>1 DEF CalmInv, Exists
  <2>4. pc[s] \in Stopped => \E f \in File : dest'[f].bytes \notin {Absent, manifest[s][f]}
    BY <1>3 DEF CalmInv
  <2>5. QED
    BY <2>1, <2>2, <2>3, <2>4 DEF Exists
(* Where t goes, and what it has seen when it gives up.                    *)
<1>7. ASSUME pc[t] \in Looking, ~Matches(t)
      PROVE  Beaten(t)
  BY <1>2, <1>7 DEF Matches, Exists, Expected
<1>8. /\ pc'[t] \in NeedsTemp => temp'[t] \in DOMAIN temps'
      /\ pc'[t] \in Looking => Exists(file[t])'
      /\ pc'[t] \in Stopped => Beaten(t) /\ manifest'[t] = manifest[t]
  <2> USE DEF NeedsTemp, TypeOK
  <2>1. CASE DestinationExists(t)
    BY <1>2, <2>1 DEF DestinationExists, Exists
  <2>2. CASE ReuseDestination(t)
    BY <1>2, <1>7, <2>2 DEF ReuseDestination, FileInstalled
  <2>3. CASE Fetch(t)
    <3>1. Response(t) = {Expected(t)}
      BY DEF Calm, Response
    <3>2. pc'[t] = "sweep"
      BY <2>3, <3>1 DEF Fetch, Verified
    <3>3. QED
      BY <3>2
  <2>4. CASE Sweep(t)
    BY <2>4 DEF Sweep, FindStale, RemoveStale, EndSweep
  <2>5. CASE Create(t)
    <3>1. NextTemp(t) \notin DOMAIN temps
      <4>1. ASSUME NextTemp(t) \in DOMAIN temps
            PROVE  FALSE
        <5>1. PICK s \in Installer : temp[s] = NextTemp(t) /\ pc[s] \in NeedsTemp \cup {"cleanup"}
          BY <1>1, <4>1 DEF TempsHeld
        <5>2. temp[s] # None /\ temp[s][2] = PidOf[t]
          <6>1. NextTemp(t) # None
            <7>1. NextTemp(t) \in TempName
              BY <4>1
            <7>2. None \notin TempName
              BY InstallerAssumption
            <7>3. QED
              BY <7>1, <7>2
          <6>2. NextTemp(t)[2] = PidOf[t]
            BY DEF NextTemp
          <6>3. QED
            BY <5>1, <6>1, <6>2
        <5>3. s = t
          BY <1>1, <5>2 DEF HoldsName, PidsDistinct
        <5>4. QED
          BY <2>5, <5>1, <5>3 DEF Create
      <4>2. QED
        BY <4>1
    <3>2. pc'[t] = "write" /\ temp'[t] \in DOMAIN temps'
      BY <2>5, <3>1 DEF Create, OwnTemp
    <3>3. QED
      BY <3>2
  <2>6. CASE Write(t) \/ Sync(t)
    BY <1>2, <2>6 DEF Write, Sync, OpenFile
  <2>7. CASE Link(t)
    BY <1>2, <2>7 DEF Link, Exists
  <2>8. CASE MatchWinner(t)
    BY <1>2, <1>7, <2>8 DEF MatchWinner
  <2>9. CASE Unlink(t)
    BY <1>2, <2>9 DEF Unlink
  <2>10. CASE SyncDirectory(t)
    BY <2>10 DEF SyncDirectory, FileInstalled
  <2>11. CASE Cleanup(t)
    BY <1>2, <2>11 DEF Cleanup
  <2>12. CASE AcquireLock(t)
    BY <1>2, <2>12 DEF AcquireLock
  <2>13. CASE LockedExists(t)
    BY <1>2, <2>13 DEF LockedExists, Exists
  <2>14. CASE LockedMatch(t)
    BY <1>2, <1>7, <2>14 DEF LockedMatch
  <2>15. CASE Rename(t)
    BY <1>2, <2>15 DEF Rename
  <2>16. CASE RenameMatch(t)
    <3>1. Matches(t)
      BY <2>16 DEF RenameMatch, UniformInv, InOrder, InPlace, Matches
    <3>2. QED
      BY <2>16, <3>1 DEF RenameMatch
  <2>17. QED
    BY <2>1, <2>2, <2>3, <2>4, <2>5, <2>6, <2>7, <2>8, <2>9, <2>10, <2>11, <2>12,
       <2>13, <2>14, <2>15, <2>16 DEF Step
<1>9. pc'[t] \in Stopped => Beaten(t)'
  BY <1>3, <1>8
<1>10. \A s \in Installer : found'[s] = None
  <2>1. CASE Sweep(t)
    BY <1>1, <2>1 DEF Sweep, FindStale, RemoveStale, EndSweep, Swept, sweeping
  <2>2. CASE UNCHANGED sweeping
    BY <1>1, <2>2 DEF sweeping
  <2>3. QED
    BY <2>1, <2>2 DEF Step, DestinationExists, ReuseDestination, FileInstalled,
       Fetch,
       Create, Write, Sync, Link, MatchWinner, Unlink, SyncDirectory, Cleanup,
       AcquireLock, LockedExists, LockedMatch, Rename, RenameMatch
<1>11. QED
  BY <1>4, <1>5, <1>6, <1>8, <1>9, <1>10 DEF CalmInv

(* No temporary gets old: all of them are held. *)
LEMMA CalmEnvironment ==
  ASSUME PidsDistinct, Uniform, Calm, Inv, CalmInv, [Next]_vars,
         ~\E t \in Installer : Step(t)
  PROVE  CalmInv'
<1> USE DEF Goto, files, callers, sweeping, Inv
<1>1. TempsHeld'
  BY HeldEnvironment DEF Calm, CalmInv
<1>2. \A f \in File : dest[f].bytes # Absent => dest'[f].bytes = dest[f].bytes
  BY BytesStay
<1>3. \A t \in Installer : file[t] \in File
  BY DEF TypeOK
<1>4. CASE \E t \in Installer : IoError(t) \/ Kill(t)
  BY <1>4 DEF IoError, Kill, Calm
<1>5. CASE \E t \in Installer : Exit(t)
  <2>1. PICK t \in Installer : Exit(t)
    BY <1>5
  <2>2. /\ UNCHANGED files /\ pc'[t] = "new" /\ found'[t] = None
        /\ \A s \in Installer \ {t} :
             /\ pc'[s] = pc[s] /\ temp'[s] = temp[s] /\ found'[s] = found[s]
             /\ file'[s] = file[s] /\ manifest'[s] = manifest[s]
    BY <2>1 DEF Exit, Reset, TypeOK
  <2>3. QED
    BY <1>1, <2>2 DEF CalmInv, Exists, NeedsTemp
<1>6. CASE \E t \in Installer, m \in Manifest : Install(t, m)
  <2>1. PICK t \in Installer, m \in Manifest : Install(t, m)
    BY <1>6
  <2>2. /\ UNCHANGED files /\ pc'[t] = "exists" /\ found'[t] = found[t]
        /\ \A s \in Installer \ {t} :
             /\ pc'[s] = pc[s] /\ temp'[s] = temp[s] /\ found'[s] = found[s]
             /\ file'[s] = file[s] /\ manifest'[s] = manifest[s]
    BY <2>1 DEF Install, TypeOK
  <2>3. QED
    BY <1>1, <2>2 DEF CalmInv, Exists, NeedsTemp
<1>7. CASE PowerLoss
  BY <1>7 DEF PowerLoss, Calm
<1>8. CASE \E n \in DOMAIN temps : Age(n)
  <2>1. PICK n \in DOMAIN temps : Age(n)
    BY <1>8
  <2>2. \E t \in Installer : temp[t] = n
    BY DEF CalmInv, TempsHeld
  <2>3. QED
    BY <2>1, <2>2 DEF Age, Calm
<1>9. CASE UNCHANGED <<callers, temps, stale>>
  <2>1. \A t \in Installer : Exists(file[t]) => Exists(file[t])'
    BY <1>2, <1>3, <1>9 DEF Exists
  <2>2. QED
    BY <1>1, <1>2, <1>9, <2>1 DEF CalmInv
<1>10. QED
  BY <1>4, <1>5, <1>6, <1>7, <1>8, <1>9 DEF Next, ForeignWrite, vars

(* Callers of one revision never make each other fail: when nothing         *)
(* underneath fails, Err means that another revision or a foreign file is   *)
(* in place.                                                                *)
THEOREM RacesSucceedCorrect ==
  PidsDistinct /\ Uniform /\ Calm /\ Spec => []RacesSucceed
<1> SUFFICES ASSUME PidsDistinct, Uniform, Calm PROVE Spec => []RacesSucceed
  OBVIOUS
<1>1. Init => CalmInv
  BY DEF Init, CalmInv, TempsHeld, NeedsTemp
<1>2. Inv /\ CalmInv /\ [Next]_vars => CalmInv'
  BY CalmStep, CalmEnvironment
<1>3. CalmInv => RacesSucceed
  BY DEF CalmInv, RacesSucceed
<1>4. QED
  BY InvInductive, <1>1, <1>2, <1>3, PTL DEF Spec

-----------------------------------------------------------------------------
(* The installer implements VerifiedStore                                  *)

(* The reply of every caller, as the store sees it. *)
Replied == [t \in Installer |-> IF pc[t] = "new" THEN "none"
                                ELSE IF pc[t] \in Steps THEN "busy" ELSE pc[t]]

Contents == [f \in File |-> dest[f].bytes]

LEMMA StoreInit == Init => Store!Init
<1> SUFFICES ASSUME Init PROVE Store!Init
  OBVIOUS
<1>1. Contents = [f \in File |-> Absent]
  BY DEF Init, Contents, NoFile
<1>2. manifest \in [Installer -> Manifest]
  BY AnyManifestType DEF Init
<1>3. Replied = [t \in Installer |-> "none"]
  BY DEF Init, Replied
<1>4. QED
  BY <1>1, <1>2, <1>3 DEF Store!Init, Contents, Replied

(* A caller that goes to another place tells the store what that place says. *)
LEMMA RepliedGoto ==
  ASSUME TypeOK, NEW t \in Installer, NEW step \in Outside \cup Steps, Goto(t, step)
  PROVE  Replied' = [Replied EXCEPT ![t] = IF step = "new" THEN "none"
                                           ELSE IF step \in Steps THEN "busy" ELSE step]
  BY DEF Replied, Goto, TypeOK

LEMMA RepliedBusy ==
  ASSUME NEW t \in Installer, pc[t] \in Steps
  PROVE  Replied[t] = "busy"
  BY DEF Replied, Steps, Locked

(* Inside install, with the final names as they are. *)
LEMMA StoreStutter ==
  ASSUME TypeOK, NEW t \in Installer, NEW step \in Steps,
         pc[t] \in Steps, Goto(t, step), UNCHANGED <<dest, manifest>>
  PROVE  UNCHANGED Store!vars
<1>1. Replied' = [Replied EXCEPT ![t] = "busy"]
  BY RepliedGoto DEF Steps, Locked
<1>2. Replied[t] = "busy"
  BY RepliedBusy
<1>3. Replied' = Replied
  BY <1>1, <1>2 DEF Replied
<1>4. QED
  BY <1>3 DEF Replied, Store!vars

(* t publishes its file: the words only beside the affixes of its manifest. *)
LEMMA StorePut ==
  ASSUME TypeOK, InOrder, NEW t \in Installer, NEW f \in File, f = file[t],
         NEW step \in Steps, pc[t] \in Steps, Goto(t, step), UNCHANGED manifest,
         dest[f].bytes = Absent,
         dest' = [dest EXCEPT ![f] = temps[temp[t]]],
         temps[temp[t]].bytes = Expected(t)
  PROVE  Store!Put(t, f)
<1>1. Replied' = [Replied EXCEPT ![t] = "busy"] /\ Replied[t] = "busy"
  BY RepliedGoto, RepliedBusy DEF Steps, Locked
<1>2. Replied' = Replied
  BY <1>1 DEF Replied
<1>3. "aff" \in File /\ dest \in [File -> Content]
  BY DEF TypeOK, File
<1>4. Contents[f] = Absent
  BY DEF Contents
<1>5. f = "dic" => Contents["aff"] = manifest[t]["aff"]
  BY <1>3 DEF InOrder, Contents
<1>6. Contents' = [Contents EXCEPT ![f] = manifest[t][f]]
  BY <1>3 DEF Contents, Expected
<1>7. QED
  BY <1>1, <1>2, <1>4, <1>5, <1>6 DEF Store!Put, Replied, Contents

(* One file is in place: another follows, or the caller is told Ok.         *)
LEMMA StoreInstalled ==
  ASSUME TypeOK, InOrder, NEW t \in Installer, pc[t] \in Steps, FileInstalled(t),
         UNCHANGED dest, dest[file[t]].bytes = Expected(t)
  PROVE  UNCHANGED Store!vars \/ Store!Succeed(t)
<1>1. CASE file[t] = "aff"
  <2>1. Goto(t, "exists") /\ manifest' = manifest
    BY <1>1 DEF FileInstalled
  <2>2. "exists" \in Steps
    BY DEF Steps
  <2>3. UNCHANGED Store!vars
    BY <2>1, <2>2, StoreStutter
  <2>4. QED
    BY <2>3
<1>2. CASE file[t] # "aff"
  <2>1. Goto(t, "ok") /\ manifest' = manifest
    BY <1>2 DEF FileInstalled
  <2>2. Replied' = [Replied EXCEPT ![t] = "ok"] /\ Replied[t] = "busy"
    BY <2>1, RepliedGoto, RepliedBusy DEF Steps, Locked, Outside
  <2>3. file[t] = "dic" /\ dest["aff"].bytes = manifest[t]["aff"]
        /\ dest["dic"].bytes = manifest[t]["dic"]
    BY <1>2 DEF TypeOK, File, InOrder, Expected
  <2>4. Contents = manifest[t]
    <3>1. manifest[t] \in [File -> Bytes]
      BY InstallerAssumption DEF TypeOK
    <3>2. \A f \in File : dest[f].bytes = manifest[t][f]
      BY <2>3 DEF File
    <3>3. QED
      BY <3>1, <3>2 DEF Contents
  <2>5. Store!Succeed(t)
    BY <2>1, <2>2, <2>4 DEF Store!Succeed, Replied, Contents
  <2>6. QED
    BY <2>5
<1>3. QED
  BY <1>1, <1>2

LEMMA StoreStep ==
  ASSUME PidsDistinct, Uniform, Inv, NEW t \in Installer, Step(t)
  PROVE  [Store!Next]_(Store!vars)
<1> USE DEF Inv, UniformInv
<1> DEFINE Idle(step) == /\ step \in Steps /\ pc[t] \in Steps /\ Goto(t, step)
                         /\ UNCHANGED <<dest, manifest>>
<1>1. ASSUME NEW step, Idle(step)
      PROVE  [Store!Next]_(Store!vars)
  BY <1>1, StoreStutter
<1>2. CASE \E step \in Steps : Idle(step)
  BY <1>1, <1>2
<1>3. CASE DestinationExists(t) \/ Fetch(t) \/ Sweep(t) \/ Create(t)
           \/ MatchWinner(t) \/ Unlink(t)
  <2>1. \E step \in Steps : Idle(step)
    <3>1. CASE Sweep(t)
      BY <3>1, SweepFrame DEF TypeOK, Goto, Steps
    <3>2. QED
      BY <1>3, <3>1 DEF DestinationExists, Fetch, Create, MatchWinner, Unlink,
         Goto, files, Steps, Locked
  <2>2. QED
    BY <1>2, <2>1
<1>4. CASE AcquireLock(t) \/ LockedExists(t) \/ LockedMatch(t) \/ RenameMatch(t)
  <2>1. \E step \in Steps : Idle(step)
    BY <1>4 DEF AcquireLock, LockedExists, LockedMatch, RenameMatch,
       Goto, files, Steps, Locked
  <2>2. QED
    BY <1>2, <2>1
<1>5. CASE Write(t) \/ Sync(t) \/ Link(t) \/ Rename(t)
  <2>1. PICK step \in Steps : pc[t] \in Steps /\ Goto(t, step) /\ UNCHANGED manifest
    BY <1>5 DEF Write, Sync, Link, Rename, Goto, Steps, Locked
  <2>2. CASE dest' = dest
    BY <1>2, <2>1, <2>2
  <2>3. CASE dest' # dest
    <3>1. /\ dest[file[t]].bytes = Absent
          /\ dest' = [dest EXCEPT ![file[t]] = temps[temp[t]]]
          /\ temps[temp[t]].bytes = Expected(t)
      BY <2>3, FinalNames
    <3>2. PICK f \in File : f = file[t]
      BY DEF TypeOK
    <3>3. Store!Put(t, f)
      BY <2>1, <3>1, <3>2, StorePut
    <3>4. QED
      BY <3>3 DEF Store!Next
  <2>4. QED
    BY <2>2, <2>3
<1>6. CASE ReuseDestination(t)
  <2>1. CASE Matches(t)
    <3>1. /\ pc[t] \in Steps /\ FileInstalled(t) /\ dest' = dest
          /\ dest[file[t]].bytes = Expected(t)
      BY <1>6, <2>1 DEF ReuseDestination, Matches, Steps, files
    <3>2. QED
      BY <3>1, StoreInstalled DEF Store!Next
  <2>2. CASE ~Matches(t)
    <3>1. Idle("cleanup")
      BY <1>6, <2>2 DEF ReuseDestination, Steps, files
    <3>2. QED
      BY <1>1, <3>1
  <2>3. QED
    BY <2>1, <2>2
<1>7. CASE SyncDirectory(t)
  <2>1. /\ pc[t] \in Steps /\ FileInstalled(t) /\ dest' = dest
        /\ dest[file[t]].bytes = Expected(t)
    BY <1>7 DEF SyncDirectory, Steps, Locked, InOrder, InPlace
  <2>2. QED
    BY <2>1, StoreInstalled DEF Store!Next
<1>8. CASE Cleanup(t)
  <2>1. /\ pc[t] \in Steps /\ Goto(t, "err") /\ UNCHANGED <<dest, manifest>>
    BY <1>8 DEF Cleanup, Steps
  <2>2. Replied' = [Replied EXCEPT ![t] = "err"] /\ Replied[t] = "busy"
    BY <2>1, RepliedGoto, RepliedBusy DEF Steps, Locked, Outside
  <2>3. Store!Fail(t)
    BY <2>1, <2>2 DEF Store!Fail, Replied
  <2>4. QED
    BY <2>3 DEF Store!Next
<1>9. QED
  BY <1>3, <1>4, <1>5, <1>6, <1>7, <1>8 DEF Step

LEMMA StoreEnvironment ==
  ASSUME PidsDistinct, Uniform, Inv, [Next]_vars, ~\E t \in Installer : Step(t)
  PROVE  [Store!Next]_(Store!vars)
<1> USE DEF Inv, UniformInv
<1>1. CASE \E t \in Installer : IoError(t)
  <2>1. PICK t \in Installer : IoError(t)
    BY <1>1
  <2>2. dest' = dest
    BY <2>1, FinalNamesEnvironment DEF IoError, ForeignWrite, callers, Goto, Steps, Locked,
       Outside, TypeOK
  <2>3. pc[t] \in Steps /\ "cleanup" \in Steps /\ Goto(t, "cleanup") /\ UNCHANGED manifest
    BY <2>1 DEF IoError, Steps
  <2>4. QED
    BY <2>2, <2>3, StoreStutter
<1>2. CASE \E t \in Installer : Exit(t) \/ Kill(t)
  <2>1. PICK t \in Installer : Exit(t) \/ Kill(t)
    BY <1>2
  <2>2. dest' = dest
    <3>1. CASE Exit(t)
      BY <3>1 DEF Exit, files
    <3>2. CASE Kill(t)
      BY <3>2, InstallerAssumption DEF Kill, Close, VerifiedInv, FinalFiles, TypeOK
    <3>3. QED
      BY <2>1, <3>1, <3>2
  <2>3. Goto(t, "new") /\ manifest' = [manifest EXCEPT ![t] = AnyManifest]
    BY <2>1 DEF Exit, Kill, Reset
  <2>4. Replied' = [Replied EXCEPT ![t] = "none"]
    BY <2>3, RepliedGoto DEF Outside
  <2>5. Store!Leave(t)
    BY <2>2, <2>3, <2>4, AnyManifestType DEF Store!Leave, Replied
  <2>6. QED
    BY <2>5 DEF Store!Next
<1>3. CASE \E t \in Installer, m \in Manifest : Install(t, m)
  <2>1. PICK t \in Installer, m \in Manifest : Install(t, m)
    BY <1>3
  <2>2. /\ Goto(t, "exists") /\ pc[t] \in Outside /\ dest' = dest
        /\ manifest' = [manifest EXCEPT ![t] = m]
    BY <2>1 DEF Install, files
  <2>3. Replied' = [Replied EXCEPT ![t] = "busy"]
    BY <2>2, RepliedGoto DEF Steps
  <2>4. Replied[t] # "busy"
    BY <2>2 DEF Replied, Outside, Steps, Locked
  <2>5. Store!Begin(t, m)
    BY <2>2, <2>3, <2>4 DEF Store!Begin, Replied
  <2>6. QED
    BY <2>5 DEF Store!Next
<1>4. CASE PowerLoss
  BY <1>4 DEF PowerLoss, Uniform, AllLink, AllRename
<1>5. CASE \E n \in DOMAIN temps : Age(n)
  BY <1>5 DEF Age, callers, Store!vars
<1>6. CASE \E f \in File : ForeignWrite(f)
  <2>1. PICK f \in File : ForeignWrite(f)
    BY <1>6
  <2>2. PICK b \in ForeignBytes :
          dest' = [dest EXCEPT ![f] = [bytes |-> b, synced |-> TRUE, writer |-> None]]
    BY <2>1 DEF ForeignWrite
  <2>3. Contents[f] = Absent /\ Contents' = [Contents EXCEPT ![f] = b]
    BY <2>1, <2>2 DEF ForeignWrite, Contents, TypeOK
  <2>4. UNCHANGED <<manifest, pc>>
    BY <2>1 DEF ForeignWrite, callers
  <2>5. Store!PutForeign(f)
    BY <2>3, <2>4 DEF Store!PutForeign, Contents
  <2>6. QED
    BY <2>5 DEF Store!Next
<1>7. CASE UNCHANGED vars
  BY <1>7 DEF vars, Store!vars
<1>8. QED
  BY <1>1, <1>2, <1>3, <1>4, <1>5, <1>6, <1>7 DEF Next

(* Every step of the installer is one of a store that is written once,      *)
(* affixes first, or none of it: for callers with distinct pids, while the  *)
(* power stays, wherever all link and no link fails, or where all rename    *)
(* and only installers write.                                               *)
THEOREM StoreCorrect == PidsDistinct /\ Uniform /\ Spec => ImplementsStore
<1> SUFFICES ASSUME PidsDistinct, Uniform PROVE Spec => ImplementsStore
  OBVIOUS
<1>1. Inv /\ [Next]_vars => [Store!Next]_(Store!vars)
  BY StoreStep, StoreEnvironment
<1>2. QED
  BY StoreInit, InvInductive, <1>1, PTL DEF Spec, ImplementsStore, Store!Spec
=============================================================================
