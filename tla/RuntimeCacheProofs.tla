------------------------- MODULE RuntimeCacheProofs -------------------------
(***************************************************************************)
(* Theorems about RuntimeCache for any number of installs, loads, program  *)
(* versions and removals, under every fault.                               *)
(***************************************************************************)
EXTENDS RuntimeCache, TLAPS

-----------------------------------------------------------------------------
(* The inductive invariant                                                 *)

AfterImport == Compiling \ {"readAff", "readDic"}

SourceType ==
  /\ store \in [File -> Bytes \cup {Absent}]
  /\ request \in [Installer -> Manifest]
  /\ reply \in [Installer -> {"none", "busy", "ok", "err"}]

PcType ==
  /\ pc \in [Process -> {"idle", "fetch", "loadDic", "loadCache"} \cup Compiling]
  /\ \A i \in Installer : pc[i] \in {"idle", "fetch"} \cup Compiling
  /\ \A r \in Reader : pc[r] \in {"idle", "loadDic", "loadCache"}
  /\ \A i \in Installer : pc[i] = "fetch" <=> reply[i] = "busy"

PairType == pair \in [Process -> [File -> Bytes \cup {Absent}]]

FileType ==
  /\ cache \in Dictionary \cup {Absent, Torn} /\ cache \in durable
  /\ durable \subseteq Dictionary \cup {Absent, Torn}
  /\ temps \in [DOMAIN temps -> [content: Dictionary \cup {Torn}, synced: BOOLEAN]]
  /\ DOMAIN temps \subseteq Installer
  /\ stale \subseteq DOMAIN temps

HistoryType ==
  /\ loaded \in [Reader -> Dictionary \cup {Absent, Failed}]
  /\ ready \in Dictionary \cup {Absent}
  /\ overtaken \subseteq {i \in Installer : pc[i] \in Compiling}
  /\ expected \in [Reader -> {Absent, ready}]

(* What a process has read is of the right kind, and what an install has    *)
(* read is what is still there unless it was overtaken.                    *)
ReadInv ==
  /\ \A i \in Installer : pc[i] \in AfterImport => Imported(i, Encodings) \in Dictionary
  /\ \A i \in Installer \ overtaken : \A f \in File : pair[i][f] \in {Absent, store[f]}
  /\ \A r \in Reader : pc[r] = "loadDic" => pair[r]["aff"] \in Bytes
  /\ \A r \in Reader : pc[r] = "loadCache" => \A f \in File : pair[r][f] \in Bytes

(* A command that has read nothing holds nothing.                          *)
IdleInv == \A i \in Installer : pc[i] \notin Compiling => pair[i] = Nothing

(* A temporary that is synced and renamed holds what its install read.     *)
TempInv ==
  \A i \in DOMAIN temps :
    /\ pc[i] \in {"sync", "rename"} => temps[i].content = Imported(i, Encodings)
    /\ pc[i] = "rename" => temps[i].synced

(* What "ready" promised is on disk and will stay: every install that could *)
(* replace it has read the same pair.                                      *)
ReadyInv ==
  ready # Absent =>
    /\ cache = ready /\ durable = {ready} /\ overtaken = {}
    /\ ready.encodings = Policy
    /\ store["aff"] = ready.aff /\ store["dic"] = ready.dic

(* A load that may count on it reads just this pair.                       *)
ExpectedInv ==
  \A r \in Reader : expected[r] # Absent =>
    /\ expected[r] = ready
    /\ pc[r] = "loadDic" => pair[r]["aff"] = store["aff"]
    /\ pc[r] = "loadCache" => \A f \in File : pair[r][f] = store[f]
    /\ pc[r] = "idle" /\ SemanticsOf[r] = ready.semantics => loaded[r] = ready

IInv ==
  /\ SourceType /\ PcType /\ PairType /\ FileType /\ HistoryType
  /\ IdleInv /\ ReadInv /\ TempInv /\ CacheWhole
  /\ ReadyInv /\ ExpectedInv /\ LoadedIsRead

-----------------------------------------------------------------------------
(* Facts used in several steps                                             *)

(* The two files of a locale.                                             *)
LEMMA Files == File = {"aff", "dic"} /\ "aff" \in File /\ "dic" \in File
  BY RuntimeCacheAssumption

(* A process installs or loads, never both.                               *)
LEMMA Disjoint == \A i \in Installer, r \in Reader : i # r
  BY RuntimeCacheAssumption

(* What a dictionary is made of, and that it is no outcome of a failure.  *)
LEMMA Dictionaries ==
  ASSUME NEW d \in Dictionary
  PROVE  /\ d.aff \in Bytes /\ d.dic \in Bytes
         /\ d.encodings \in {Policy, Declared} /\ d.semantics \in Semantics
         /\ d # Absent /\ d # Torn /\ d # Failed
         /\ d = [aff |-> d.aff, dic |-> d.dic, encodings |-> d.encodings,
                 semantics |-> d.semantics]
  BY RuntimeCacheAssumption DEF Dictionary

(* The import of two files of the right kind is a dictionary.             *)
LEMMA ImportedType ==
  ASSUME NEW p \in Process, NEW e \in {Policy, Declared},
         pair[p]["aff"] \in Bytes, pair[p]["dic"] \in Bytes
  PROVE  Imported(p, e) \in Dictionary
  BY RuntimeCacheAssumption DEF Imported, Dictionary

(* The sources of a cache that was reported ready are in place.           *)
LEMMA ReadyStored ==
  ASSUME HistoryType, ReadyInv, ready # Absent, NEW f \in File
  PROVE  store[f] # Absent /\ store[f] \in Bytes
<1>1. ready \in Dictionary
  BY DEF HistoryType
<1>2. store["aff"] \in Bytes /\ store["dic"] \in Bytes
  BY <1>1, Dictionaries DEF ReadyInv
<1>3. QED
  BY <1>2, RuntimeCacheAssumption

(* An install asks for bytes of a reviewed manifest.                      *)
LEMMA RequestedBytes ==
  ASSUME SourceType, NEW i \in Installer, NEW f \in File
  PROVE  request[i][f] \in Bytes
<1>1. request[i] \in Manifest
  BY DEF SourceType
<1>2. {request[i][g] : g \in File} \subseteq Bytes
  BY <1>1 DEF Bytes
<1>3. QED
  BY <1>2

(* A command that ends holds nothing.                                      *)
LEMMA EndReads ==
  ASSUME IInv, NEW i \in Installer, End(i)
  PROVE  ReadInv'
<1>1. UNCHANGED store /\ pc'[i] = "idle" /\ pair'[i] = Nothing
  BY DEF IInv, PcType, PairType, End, Sources!Leave, Goto, Process
<1>2. \A p \in Process \ {i} : pc'[p] = pc[p] /\ pair'[p] = pair[p]
  BY DEF IInv, PcType, PairType, End, Goto
<1>3. \A j \in Installer : pc'[j] \in AfterImport => Imported(j, Encodings)' \in Dictionary
  BY <1>1, <1>2 DEF IInv, ReadInv, AfterImport, Compiling, Imported, Encodings,
     Process
<1>4. \A j \in Installer \ overtaken', f \in File : pair'[j][f] \in {Absent, store[f]}
  BY <1>1, <1>2 DEF IInv, ReadInv, End, Nothing, Process
<1>5. QED
  BY <1>1, <1>2, <1>3, <1>4, Disjoint DEF IInv, ReadInv, Process

(* A step of an install that reads nothing and does not leap over the      *)
(* import keeps what is known of what was read.                            *)
LEMMA KeepReads ==
  ASSUME IInv, NEW i \in Installer, NEW step, Goto(i, step),
         step \in AfterImport => pc[i] \in AfterImport,
         UNCHANGED <<store, pair, overtaken>>
  PROVE  ReadInv'
<1>1. \A p \in Process \ {i} : pc'[p] = pc[p]
  BY DEF IInv, PcType, Goto
<1>2. pc'[i] = step
  BY DEF IInv, PcType, Goto, Process
<1>3. \A j \in Installer : pc'[j] \in AfterImport => pc[j] \in AfterImport
  BY <1>1, <1>2 DEF Process
<1>4. \A r \in Reader : pc'[r] = pc[r]
  BY <1>1, Disjoint DEF Process
<1>5. QED
  BY <1>3, <1>4 DEF IInv, ReadInv, Imported, Encodings

-----------------------------------------------------------------------------
(* Every step preserves the invariant                                      *)

(* A command starts; it has read nothing yet.                             *)
LEMMA InstallStep ==
  ASSUME IInv, NEW i \in Installer, NEW m \in Manifest, Install(i, m)
  PROVE  IInv'
<1>1. SourceType'
  BY DEF IInv, SourceType, Install, Sources!Begin
<1>2. PcType'
  BY RuntimeCacheAssumption DEF IInv, PcType, SourceType, Install, Sources!Begin,
     Goto, Process
<1>3. PairType'
  BY DEF IInv, PairType, Install
<1>4. FileType'
  BY DEF IInv, FileType, Install, files
<1>5. HistoryType'
  BY DEF IInv, HistoryType, Compiling, Install, Goto, history, loads
<1>6. IdleInv'
  BY DEF IInv, IdleInv, Compiling, Install, Goto
<1>7. ReadInv'
  BY DEF IInv, ReadInv, AfterImport, Compiling, Install, Sources!Begin, Goto,
     history, Imported
<1>8. TempInv'
  BY DEF IInv, TempInv, Install, Goto, files, Imported
<1>9. CacheWhole'
  BY DEF IInv, CacheWhole, Install, files
<1>10. ReadyInv'
  BY DEF IInv, ReadyInv, Install, Sources!Begin, files, history
<1>11. ExpectedInv'
  BY DEF IInv, ExpectedInv, Install, Sources!Begin, Goto, history, loads
<1>12. LoadedIsRead'
  BY DEF IInv, LoadedIsRead, Install, loads, Imported
<1>13. QED
  BY <1>1, <1>2, <1>3, <1>4, <1>5, <1>6, <1>7, <1>8, <1>9, <1>10, <1>11, <1>12
     DEF IInv

(* A source is put in place where there was none, so nothing read         *)
(* changes.                                                               *)
LEMMA StoreFileStep ==
  ASSUME IInv, NEW i \in Installer, NEW f \in File, StoreFile(i, f)
  PROVE  IInv'
<1>1. SourceType'
  BY RequestedBytes DEF IInv, SourceType, StoreFile, Sources!Put
<1>2. PcType'
  BY DEF IInv, PcType, StoreFile, Sources!Put
<1>3. PairType'
  BY DEF IInv, PairType, StoreFile
<1>4. FileType'
  BY DEF IInv, FileType, StoreFile, files
<1>5. HistoryType'
  BY DEF IInv, HistoryType, StoreFile, history, loads
<1>6. IdleInv'
  BY DEF IInv, IdleInv, StoreFile
<1>7. ReadInv'
  BY DEF IInv, ReadInv, Compiling, StoreFile, Sources!Put, history, Imported
<1>8. TempInv'
  BY DEF IInv, TempInv, StoreFile, files, Imported
<1>9. CacheWhole'
  BY DEF IInv, CacheWhole, StoreFile, files
<1>10. ReadyInv'
  BY ReadyStored DEF IInv, ReadyInv, StoreFile, Sources!Put, files, history
<1>11. ExpectedInv'
  <2>1. store[f] = Absent
    BY DEF StoreFile, Sources!Put
  <2>2. ready = Absent
    BY <2>1, ReadyStored DEF IInv
  <2>3. expected = [r \in Reader |-> Absent]
    BY <2>2 DEF IInv, HistoryType
  <2>4. QED
    BY <2>3 DEF ExpectedInv, StoreFile, loads
<1>12. LoadedIsRead'
  BY DEF IInv, LoadedIsRead, StoreFile, loads, Imported
<1>13. QED
  BY <1>1, <1>2, <1>3, <1>4, <1>5, <1>6, <1>7, <1>8, <1>9, <1>10, <1>11, <1>12
     DEF IInv

(* The sources are in place and the compilation starts.                   *)
LEMMA FetchedStep ==
  ASSUME IInv, NEW i \in Installer, Fetched(i)
  PROVE  IInv'
<1>1. SourceType'
  BY DEF IInv, SourceType, Fetched, Sources!Succeed
<1>2. PcType'
  BY DEF IInv, PcType, SourceType, Compiling, Fetched, Sources!Succeed, Goto,
     Process
<1>3. PairType'
  BY DEF IInv, PairType, Fetched
<1>4. FileType'
  BY DEF IInv, FileType, Fetched, files
<1>5. HistoryType'
  BY DEF IInv, HistoryType, Compiling, Fetched, Goto, history, loads
<1>6. IdleInv'
  BY DEF IInv, IdleInv, Compiling, Fetched, Goto
<1>7. ReadInv'
  BY DEF IInv, ReadInv, AfterImport, Compiling, Fetched, Sources!Succeed, Goto,
     history, Imported
<1>8. TempInv'
  BY DEF IInv, TempInv, Fetched, Goto, files, Imported
<1>9. CacheWhole'
  BY DEF IInv, CacheWhole, Fetched, files
<1>10. ReadyInv'
  BY DEF IInv, ReadyInv, Fetched, Sources!Succeed, files, history
<1>11. ExpectedInv'
  BY DEF IInv, ExpectedInv, Fetched, Sources!Succeed, Goto, history, loads
<1>12. LoadedIsRead'
  BY DEF IInv, LoadedIsRead, Fetched, loads, Imported
<1>13. QED
  BY <1>1, <1>2, <1>3, <1>4, <1>5, <1>6, <1>7, <1>8, <1>9, <1>10, <1>11, <1>12
     DEF IInv

(* An install whose fetch fails touches no file.                          *)
LEMMA FetchFailsStep ==
  ASSUME IInv, NEW i \in Installer, FetchFails(i)
  PROVE  IInv'
<1>1. SourceType'
  BY DEF IInv, SourceType, FetchFails, End, Sources!Leave
<1>2. PcType'
  BY DEF IInv, PcType, SourceType, FetchFails, End, Sources!Leave, Goto, Process
<1>3. PairType'
  BY DEF IInv, PairType, FetchFails, End, Nothing
<1>4. FileType'
  BY DEF IInv, FileType, FetchFails, files
<1>5. HistoryType'
  BY DEF IInv, HistoryType, FetchFails, End, Goto, loads
<1>6. IdleInv'
  BY DEF IInv, IdleInv, PcType, PairType, FetchFails, End, Goto
<1>7. ReadInv'
  BY DEF IInv, ReadInv, AfterImport, HistoryType, Compiling, FetchFails, End,
     Sources!Leave, Goto, files, loads, Imported, Nothing
<1>8. TempInv'
  BY DEF IInv, TempInv, FetchFails, End, Goto, files, Process, Imported
<1>9. CacheWhole'
  BY DEF IInv, CacheWhole, FetchFails, files
<1>10. ReadyInv'
  BY DEF IInv, ReadyInv, FetchFails, End, Sources!Leave, files
<1>11. ExpectedInv'
  BY DEF IInv, ExpectedInv, PcType, FetchFails, End, Sources!Leave, Goto, loads
<1>12. LoadedIsRead'
  BY DEF IInv, LoadedIsRead, PcType, FetchFails, End, loads, Imported
<1>13. QED
  BY <1>1, <1>2, <1>3, <1>4, <1>5, <1>6, <1>7, <1>8, <1>9, <1>10, <1>11, <1>12
     DEF IInv

(* An install reads the affixes, or ends where there are none.            *)
LEMMA ReadAffStep ==
  ASSUME IInv, NEW i \in Installer, ReadAff(i)
  PROVE  IInv'
<1>1. SourceType'
  BY DEF IInv, SourceType, ReadAff, End, Sources!Leave, sources
<1>2. PcType'
  BY DEF IInv, PcType, SourceType, Compiling, ReadAff, End, Sources!Leave, Goto,
     sources, Process
<1>3. PairType'
  <2>1. CASE End(i)
    BY <2>1 DEF IInv, PairType, End, Nothing, Process
  <2>2. CASE pair' = [pair EXCEPT ![i]["aff"] = store["aff"]]
    BY <2>2, Files DEF IInv, PairType, SourceType, Process
  <2>3. QED
    BY <2>1, <2>2 DEF ReadAff
<1>4. FileType'
  BY DEF IInv, FileType, ReadAff, files
<1>5. HistoryType'
  BY DEF IInv, HistoryType, PcType, Compiling, ReadAff, End, Goto, loads, Process
<1>6. IdleInv'
  BY DEF IInv, IdleInv, PcType, PairType, Compiling, ReadAff, End, Goto, Process
<1>7. ReadInv'
  <2>1. CASE store["aff"] = Absent
    BY <2>1, EndReads DEF ReadAff
  <2>2. CASE store["aff"] # Absent
    <3>1. pair' = [pair EXCEPT ![i]["aff"] = store["aff"]] /\ Goto(i, "readDic")
          /\ UNCHANGED <<store, overtaken>>
      BY <2>2 DEF ReadAff, sources
    <3>2. \A j \in Installer : pc'[j] \in AfterImport => Imported(j, Encodings)' \in Dictionary
      BY <3>1 DEF IInv, ReadInv, PcType, PairType, Goto, Process, AfterImport,
         Compiling,
         Imported, Encodings
    <3>3. \A j \in Installer \ overtaken, g \in File : pair'[j][g] \in {Absent, store[g]}
      BY <3>1, Files DEF IInv, ReadInv, PairType, Process
    <3>4. QED
      BY <3>1, <3>2, <3>3, Disjoint DEF IInv, ReadInv, PcType, PairType, Goto,
         Process
  <2>3. QED
    BY <2>1, <2>2
<1>8. TempInv'
  BY DEF IInv, TempInv, PcType, PairType, FileType, ReadAff, End, Goto, files,
     Process, Imported
<1>9. CacheWhole'
  BY DEF IInv, CacheWhole, ReadAff, files
<1>10. ReadyInv'
  BY DEF IInv, ReadyInv, ReadAff, End, Sources!Leave, sources, files
<1>11. ExpectedInv'
  BY DEF IInv, ExpectedInv, PcType, PairType, ReadAff, End, Sources!Leave, Goto,
     sources, loads, Process
<1>12. LoadedIsRead'
  <2>1. \A r \in Reader : pair'[r] = pair[r]
    BY Disjoint DEF IInv, PairType, ReadAff, End, Process
  <2>2. QED
    BY <2>1 DEF IInv, LoadedIsRead, ReadAff, Imported, loads
<1>13. QED
  BY <1>1, <1>2, <1>3, <1>4, <1>5, <1>6, <1>7, <1>8, <1>9, <1>10, <1>11, <1>12
     DEF IInv

(* It reads the words; what it goes on with is a dictionary.              *)
LEMMA ImportStep ==
  ASSUME IInv, NEW i \in Installer, Import(i)
  PROVE  IInv'
<1>1. SourceType'
  BY DEF IInv, SourceType, Import, End, Sources!Leave, sources
<1>2. PcType'
  BY DEF IInv, PcType, SourceType, Compiling, Import, End, Sources!Leave, Goto,
     sources, Process
<1>3. PairType'
  <2>1. CASE End(i)
    BY <2>1 DEF IInv, PairType, End, Process, Nothing
  <2>2. CASE pair' = [pair EXCEPT ![i]["dic"] = store["dic"]]
    BY <2>2, Files DEF IInv, PairType, SourceType, Process
  <2>3. QED
    BY <2>1, <2>2 DEF Import
<1>4. FileType'
  BY DEF IInv, FileType, Import, files
<1>5. HistoryType'
  BY DEF IInv, HistoryType, PcType, Compiling, Import, End, Goto, loads, Process
<1>6. IdleInv'
  BY DEF IInv, IdleInv, PcType, PairType, Compiling, Import, End, Goto, Process
<1>7. ReadInv'
  <2>1. CASE End(i)
    BY <2>1, EndReads
  <2>2. CASE Goto(i, "sweep")
    <3>1. /\ [aff |-> pair[i]["aff"], dic |-> store["dic"], encodings |-> Encodings]
               \in Importable
          /\ pair' = [pair EXCEPT ![i]["dic"] = store["dic"]]
          /\ UNCHANGED <<store, overtaken>>
      BY <2>2 DEF IInv, PcType, Import, End, Goto, Process, sources
    <3>2. pair'[i]["aff"] \in Bytes /\ pair'[i]["dic"] \in Bytes
      <4>1. pair[i]["aff"] \in Bytes /\ store["dic"] \in Bytes
        BY <3>1, RuntimeCacheAssumption
      <4>2. QED
        BY <3>1, <4>1, Files DEF IInv, PairType, Process
    <3>3. Imported(i, Encodings)' \in Dictionary
      BY <3>2, RuntimeCacheAssumption DEF Imported, Dictionary, Encodings, Process
    <3>4. \A j \in Installer : pc'[j] \in AfterImport => Imported(j, Encodings)' \in Dictionary
      BY <2>2, <3>1, <3>3 DEF IInv, ReadInv, PcType, PairType, Goto, Process,
         Imported, Encodings
    <3>5. \A j \in Installer \ overtaken, g \in File : pair'[j][g] \in {Absent, store[g]}
      BY <3>1, Files DEF IInv, ReadInv, PairType, Process
    <3>6. QED
      BY <2>2, <3>1, <3>4, <3>5, Disjoint DEF IInv, ReadInv, PcType, PairType, Goto,
         Process
  <2>3. QED
    BY <2>1, <2>2 DEF Import
<1>8. TempInv'
  BY DEF IInv, TempInv, PcType, PairType, FileType, Import, End, Goto, files,
     Process, Imported, Nothing
<1>9. CacheWhole'
  BY DEF IInv, CacheWhole, Import, files
<1>10. ReadyInv'
  BY DEF IInv, ReadyInv, Import, End, Sources!Leave, sources, files
<1>11. ExpectedInv'
  BY DEF IInv, ExpectedInv, PcType, PairType, Import, End, Sources!Leave, Goto,
     sources, loads, Process
<1>12. LoadedIsRead'
  BY DEF IInv, LoadedIsRead, PcType, PairType, Import, End, loads, Process, Imported
<1>13. QED
  BY <1>1, <1>2, <1>3, <1>4, <1>5, <1>6, <1>7, <1>8, <1>9, <1>10, <1>11, <1>12
     DEF IInv

(* What a step of a sweep leaves alone. *)
LEMMA SweepFrame ==
  ASSUME NEW i \in Installer, Sweep(i)
  PROVE  /\ pc[i] = "sweep"
         /\ pc' = pc \/ pc' = [pc EXCEPT ![i] = "create"]
         /\ UNCHANGED <<store, request, reply, pair, cache, durable, loaded,
                       expected, removals, ready, overtaken>>
         /\ DOMAIN temps' \subseteq DOMAIN temps
         /\ \A n \in DOMAIN temps' : temps'[n] = temps[n]
         /\ stale \subseteq DOMAIN temps => stale' \subseteq DOMAIN temps'
  BY DEF Sweep, FindStale, RemoveStale, EndSweep, RemoveTemps, Goto, files, sources,
     history, loads

(* Old temporaries are swept; they are nobody's promise.                  *)
LEMMA SweepStep ==
  ASSUME IInv, NEW i \in Installer, Sweep(i)
  PROVE  IInv'
<1>0. /\ pc' \in [Process -> {"idle", "fetch", "loadDic", "loadCache"} \cup Compiling]
      /\ i \in Process /\ i \notin Reader
      /\ pc[i] = "sweep" /\ pc'[i] \in {"sweep", "create"}
      /\ \A p \in Process \ {i} : pc'[p] = pc[p]
  BY SweepFrame, RuntimeCacheAssumption DEF IInv, PcType, Process, Compiling
<1>1. SourceType'
  BY <1>0, SweepFrame DEF IInv, SourceType
<1>2. PcType'
  BY <1>0, SweepFrame DEF IInv, PcType, Compiling, Process
<1>3. PairType'
  BY <1>0, SweepFrame DEF IInv, PairType
<1>4. FileType'
  <2>1. /\ DOMAIN temps' \subseteq DOMAIN temps
        /\ temps' = temps \/ temps' = [n \in DOMAIN temps' |-> temps[n]]
        /\ stale' \subseteq DOMAIN temps'
        /\ UNCHANGED <<cache, durable>>
    BY SweepFrame DEF IInv, FileType, Sweep, FindStale, RemoveStale, EndSweep,
       RemoveTemps, files
  <2>2. QED
    BY <2>1 DEF IInv, FileType
<1>5. HistoryType'
  BY <1>0, SweepFrame DEF IInv, HistoryType, Compiling, Process
<1>6. IdleInv'
  BY <1>0, SweepFrame DEF IInv, IdleInv, Compiling, Process
<1>7. ReadInv'
  BY <1>0, SweepFrame DEF IInv, ReadInv, AfterImport, Compiling, Process, Imported
<1>8. TempInv'
  BY <1>0, SweepFrame DEF IInv, FileType, TempInv, Process, Imported
<1>9. CacheWhole'
  BY <1>0, SweepFrame DEF IInv, CacheWhole
<1>10. ReadyInv'
  BY <1>0, SweepFrame DEF IInv, ReadyInv
<1>11. ExpectedInv'
  BY <1>0, SweepFrame DEF IInv, ExpectedInv, Process
<1>12. LoadedIsRead'
  BY <1>0, SweepFrame DEF IInv, LoadedIsRead, Imported
<1>13. QED
  BY <1>1, <1>2, <1>3, <1>4, <1>5, <1>6, <1>7, <1>8, <1>9, <1>10, <1>11, <1>12
     DEF IInv

(* A temporary is created, or its name is taken and the command ends.     *)
LEMMA CreateStep ==
  ASSUME IInv, NEW i \in Installer, Create(i)
  PROVE  IInv'
<1>1. SourceType'
  BY DEF IInv, SourceType, Create, End, Sources!Leave, sources
<1>2. PcType'
  BY DEF IInv, PcType, SourceType, Compiling, Create, End, Sources!Leave, Goto,
     sources, Process
<1>3. PairType'
  BY DEF IInv, PairType, Create, End, Nothing
<1>4. FileType'
  <2>1. CASE i \in DOMAIN temps
    BY <2>1 DEF IInv, FileType, Create
  <2>2. CASE i \notin DOMAIN temps
    <3>1. DOMAIN temps' = DOMAIN temps \cup {i}
      BY <2>2 DEF Create
    <3>2. temps' \in [DOMAIN temps \cup {i} ->
                       [content: Dictionary \cup {Torn}, synced: BOOLEAN]]
      <4> DEFINE empty == [content |-> Torn, synced |-> FALSE]
      <4>1. temps' = [n \in DOMAIN temps \cup {i} |-> IF n = i THEN empty ELSE temps[n]]
        BY <2>2 DEF Create
      <4>2. empty \in [content: Dictionary \cup {Torn}, synced: BOOLEAN]
        OBVIOUS
      <4>3. \A n \in DOMAIN temps :
              temps[n] \in [content: Dictionary \cup {Torn}, synced: BOOLEAN]
        BY DEF IInv, FileType
      <4> HIDE DEF empty
      <4>4. QED
        BY <4>1, <4>2, <4>3
    <3>3. DOMAIN temps \cup {i} \subseteq Installer /\ UNCHANGED <<cache, durable, stale>>
      BY <2>2 DEF IInv, FileType, Create
    <3>4. stale \subseteq DOMAIN temps
      BY DEF IInv, FileType
    <3>5. QED
      BY <3>1, <3>2, <3>3, <3>4 DEF IInv, FileType
  <2>3. QED
    BY <2>1, <2>2
<1>5. HistoryType'
  <2>1. CASE Goto(i, "idle")
    BY <2>1 DEF IInv, HistoryType, PcType, Create, End, Goto, Process, Compiling,
       loads
  <2>2. CASE Goto(i, "write")
    BY <2>2 DEF IInv, HistoryType, PcType, Create, End, Goto, Process, Compiling,
       loads
  <2>3. QED
    BY <2>1, <2>2 DEF Create, End
<1>6. IdleInv'
  BY DEF IInv, IdleInv, PcType, PairType, Compiling, Create, End, Goto, Process
<1>7. ReadInv'
  <2>1. CASE i \in DOMAIN temps
    BY <2>1, EndReads DEF Create
  <2>2. CASE i \notin DOMAIN temps
    <3>1. Goto(i, "write") /\ pc[i] = "create" /\ UNCHANGED <<store, pair, overtaken>>
      BY <2>2 DEF Create, sources
    <3>2. QED
      BY <3>1, KeepReads DEF AfterImport, Compiling
  <2>3. QED
    BY <2>1, <2>2
<1>8. TempInv'
  BY DEF IInv, TempInv, PcType, PairType, FileType, Create, End, Goto, Process,
     Imported
<1>9. CacheWhole'
  BY DEF IInv, CacheWhole, Create
<1>10. ReadyInv'
  BY DEF IInv, ReadyInv, Create, End, Sources!Leave, sources
<1>11. ExpectedInv'
  BY DEF IInv, ExpectedInv, PcType, PairType, Create, End, Sources!Leave, Goto,
     sources, loads, Process
<1>12. LoadedIsRead'
  BY DEF IInv, LoadedIsRead, PcType, PairType, Create, End, loads, Process, Imported
<1>13. QED
  BY <1>1, <1>2, <1>3, <1>4, <1>5, <1>6, <1>7, <1>8, <1>9, <1>10, <1>11, <1>12
     DEF IInv

(* The temporary gets the import of what was read.                        *)
LEMMA WriteStep ==
  ASSUME IInv, NEW i \in Installer, Write(i)
  PROVE  IInv'
<1>1. SourceType'
  BY DEF IInv, SourceType, Write, sources
<1>2. PcType'
  BY DEF IInv, PcType, Compiling, Write, Goto, sources, Process
<1>3. PairType'
  BY DEF IInv, PairType, Write
<1>4. FileType'
  BY DEF IInv, FileType, ReadInv, AfterImport, Compiling, Write
<1>5. HistoryType'
  BY DEF IInv, HistoryType, Compiling, Write, Goto, history, loads
<1>6. IdleInv'
  BY DEF IInv, IdleInv, Compiling, Write, Goto
<1>7. ReadInv'
  BY DEF IInv, ReadInv, PcType, AfterImport, Write, Goto, sources, history, Process,
     Imported
<1>8. TempInv'
  BY DEF IInv, TempInv, FileType, Write, Goto, Process, Imported
<1>9. CacheWhole'
  BY DEF IInv, CacheWhole, Write
<1>10. ReadyInv'
  BY DEF IInv, ReadyInv, Write, sources, history
<1>11. ExpectedInv'
  BY DEF IInv, ExpectedInv, Write, Goto, sources, history, loads
<1>12. LoadedIsRead'
  BY DEF IInv, LoadedIsRead, Write, loads, Imported
<1>13. QED
  BY <1>1, <1>2, <1>3, <1>4, <1>5, <1>6, <1>7, <1>8, <1>9, <1>10, <1>11, <1>12
     DEF IInv

(* It is synced, so that a rename cannot tear it.                         *)
LEMMA SyncStep ==
  ASSUME IInv, NEW i \in Installer, Sync(i)
  PROVE  IInv'
<1>1. SourceType'
  BY DEF IInv, SourceType, Sync, sources
<1>2. PcType'
  BY DEF IInv, PcType, Compiling, Sync, Goto, sources, Process
<1>3. PairType'
  BY DEF IInv, PairType, Sync
<1>4. FileType'
  <2>1. DOMAIN temps' = DOMAIN temps
    BY DEF Sync
  <2>2. ASSUME NEW n \in DOMAIN temps
        PROVE  temps'[n] \in [content: Dictionary \cup {Torn}, synced: BOOLEAN]
    <3>1. temps[n] \in [content: Dictionary \cup {Torn}, synced: BOOLEAN]
      BY DEF IInv, FileType
    <3>2. temps'[n] = IF n = i THEN [temps[n] EXCEPT !.synced = TRUE] ELSE temps[n]
      BY DEF Sync, Synced
    <3>3. QED
      BY <3>1, <3>2
  <2>3. temps' \in [DOMAIN temps' -> [content: Dictionary \cup {Torn}, synced: BOOLEAN]]
    BY <2>1, <2>2 DEF Sync
  <2>4. QED
    BY <2>1, <2>3 DEF IInv, FileType, Sync
<1>5. HistoryType'
  BY DEF IInv, HistoryType, Compiling, Sync, Goto, history, loads
<1>6. IdleInv'
  BY DEF IInv, IdleInv, Compiling, Sync, Goto
<1>7. ReadInv'
  BY DEF IInv, ReadInv, AfterImport, SourceType, Compiling, Sync, Goto, sources,
     history, Imported
<1>8. TempInv'
  BY DEF IInv, TempInv, Sync, Synced, Goto, Imported
<1>9. CacheWhole'
  BY DEF IInv, CacheWhole, Sync
<1>10. ReadyInv'
  BY DEF IInv, ReadyInv, Sync, sources, history
<1>11. ExpectedInv'
  BY DEF IInv, ExpectedInv, Sync, Goto, sources, history, loads
<1>12. LoadedIsRead'
  BY DEF IInv, LoadedIsRead, Sync, loads, Imported
<1>13. QED
  BY <1>1, <1>2, <1>3, <1>4, <1>5, <1>6, <1>7, <1>8, <1>9, <1>10, <1>11, <1>12
     DEF IInv

(* A cache is replaced: by the same contents if one was reported ready    *)
(* and its installer was not overtaken.                                   *)
LEMMA RenameStep ==
  ASSUME IInv, NEW i \in Installer, Rename(i)
  PROVE  IInv'
<1>1. SourceType'
  BY DEF IInv, SourceType, Rename, sources
<1>2. PcType'
  BY DEF IInv, PcType, Compiling, Rename, Goto, sources, Process
<1>3. PairType'
  BY DEF IInv, PairType, Rename
<1>4. FileType'
  BY DEF IInv, FileType, Rename, RemoveTemps, Surviving
<1>5. HistoryType'
  BY DEF IInv, HistoryType, Compiling, Rename, Void, Goto
<1>6. IdleInv'
  BY DEF IInv, IdleInv, Compiling, Rename, Goto
<1>7. ReadInv'
  BY DEF IInv, ReadInv, AfterImport, Compiling, Rename, Void, Goto, sources,
     Imported
<1>8. TempInv'
  BY DEF IInv, TempInv, Rename, RemoveTemps, Goto, Imported
<1>9. CacheWhole'
  <2>1. temps[i].content # Torn /\ Surviving(temps[i]) = {temps[i].content}
    <3>1. Imported(i, Encodings) \in Dictionary
      BY DEF IInv, ReadInv, AfterImport, Compiling, Rename
    <3>2. temps[i].content = Imported(i, Encodings) /\ temps[i].synced
      BY DEF IInv, TempInv, Rename
    <3>3. QED
      BY <3>1, <3>2, Dictionaries DEF Surviving
  <2>2. QED
    BY <2>1 DEF IInv, CacheWhole, Rename
<1>10. ReadyInv'
  <2>1. CASE ready' # Absent
    <3>1. ready' = ready /\ ready # Absent /\ SemanticsOf[i] = ready.semantics
          /\ i \notin overtaken
      BY <2>1 DEF Rename, Void
    <3>2. temps[i].content = Imported(i, Encodings) /\ temps[i].synced
          /\ Imported(i, Encodings) \in Dictionary
      BY DEF IInv, ReadInv, TempInv, AfterImport, Compiling, Rename
    <3>3. pair[i]["aff"] \in Bytes /\ pair[i]["dic"] \in Bytes
      BY <3>2 DEF Imported, Dictionary
    <3>4. pair[i]["aff"] = store["aff"] /\ pair[i]["dic"] = store["dic"]
      BY <3>1, <3>3, Files, RuntimeCacheAssumption DEF IInv, ReadInv
    <3>5. ready \in Dictionary
      BY <3>1 DEF IInv, HistoryType
    <3>6. Imported(i, Encodings) = ready
      BY <3>1, <3>4, <3>5, Dictionaries DEF IInv, ReadyInv, Imported, Encodings
    <3>7. cache' = ready /\ durable' = {ready}
      BY <3>1, <3>2, <3>6 DEF IInv, ReadyInv, Rename, Surviving
    <3>8. QED
      BY <3>1, <3>7 DEF IInv, ReadyInv, Rename, sources
  <2>2. QED
    BY <2>1 DEF ReadyInv
<1>11. ExpectedInv'
  BY DEF IInv, ExpectedInv, Rename, Void, Goto, sources
<1>12. LoadedIsRead'
  BY DEF IInv, LoadedIsRead, Rename, Imported
<1>13. QED
  BY <1>1, <1>2, <1>3, <1>4, <1>5, <1>6, <1>7, <1>8, <1>9, <1>10, <1>11, <1>12
     DEF IInv

(* After the directory is synced the cache is the only content a power    *)
(* loss can leave.                                                        *)
LEMMA ReadyStep ==
  ASSUME IInv, NEW i \in Installer, Ready(i)
  PROVE  IInv'
<1>1. SourceType'
  BY DEF IInv, SourceType, Ready, End, Sources!Leave
<1>2. PcType'
  BY DEF IInv, PcType, Ready, End, Sources!Leave, Goto, Process
<1>3. PairType'
  BY DEF IInv, PairType, Ready, End, Nothing
<1>4. FileType'
  BY DEF IInv, FileType, Ready
<1>5. HistoryType'
  <2>1. ready' \in Dictionary \cup {Absent}
    <3>1. Imported(i, Encodings) \in Dictionary
      BY DEF IInv, ReadInv, AfterImport, Compiling, Ready
    <3>2. QED
      BY <3>1 DEF IInv, HistoryType, Ready
  <2>2. expected' \in [Reader -> {Absent, ready'}]
    BY DEF IInv, HistoryType, Ready
  <2>3. overtaken' \subseteq {j \in Installer : pc'[j] \in Compiling}
    BY DEF IInv, HistoryType, PcType, Process, Ready, End, Goto
  <2>4. QED
    BY <2>1, <2>2, <2>3 DEF IInv, HistoryType, Ready
<1>6. IdleInv'
  BY DEF IInv, IdleInv, PcType, PairType, Ready, End, Goto
<1>7. ReadInv'
  BY DEF IInv, ReadInv, PcType, PairType, AfterImport, Compiling, Ready, End,
     Sources!Leave, Goto, Process, Imported, Nothing
<1>8. TempInv'
  BY DEF IInv, TempInv, Ready, End, Goto, Process, Imported
<1>9. CacheWhole'
  BY DEF IInv, CacheWhole, Ready
<1>10. ReadyInv'
  <2>1. store' = store
    BY DEF Ready, End, Sources!Leave
  <2>2. CASE ready' = ready
    BY <2>1, <2>2 DEF IInv, ReadyInv, CacheWhole, Ready, End
  <2>3. CASE ready' # ready
    <3>1. ready' = cache /\ cache = Imported(i, Encodings) /\ overtaken = {}
      BY <2>3 DEF Ready
    <3>2. Imported(i, Encodings) \in Dictionary
      BY DEF IInv, ReadInv, AfterImport, Compiling, Ready
    <3>3. pair[i]["aff"] \in Bytes /\ pair[i]["dic"] \in Bytes
      BY <3>2 DEF Imported, Dictionary
    <3>4. pair[i]["aff"] = store["aff"] /\ pair[i]["dic"] = store["dic"]
      BY <3>1, <3>3, Files, RuntimeCacheAssumption DEF IInv, ReadInv
    <3>5. durable' = {cache}
      BY DEF IInv, CacheWhole, FileType, Ready
    <3>6. QED
      BY <2>1, <3>1, <3>4, <3>5 DEF ReadyInv, Ready, End, Imported, Encodings
  <2>4. QED
    BY <2>2, <2>3
<1>11. ExpectedInv'
  BY DEF IInv, ExpectedInv, PcType, Ready, End, Sources!Leave, Goto
<1>12. LoadedIsRead'
  BY DEF IInv, LoadedIsRead, PcType, Ready, End, Imported
<1>13. QED
  BY <1>1, <1>2, <1>3, <1>4, <1>5, <1>6, <1>7, <1>8, <1>9, <1>10, <1>11, <1>12
     DEF IInv

(* A temporary is removed on the way out.                                 *)
LEMMA CleanupStep ==
  ASSUME IInv, NEW i \in Installer, Cleanup(i)
  PROVE  IInv'
<1>1. SourceType'
  BY DEF IInv, SourceType, Cleanup, End, Sources!Leave
<1>2. PcType'
  BY DEF IInv, PcType, Cleanup, End, Sources!Leave, Goto, Process
<1>3. PairType'
  BY DEF IInv, PairType, Cleanup, End, Nothing
<1>4. FileType'
  BY DEF IInv, FileType, Cleanup, RemoveTemps
<1>5. HistoryType'
  BY DEF IInv, HistoryType, Cleanup, End, Goto, loads
<1>6. IdleInv'
  BY DEF IInv, IdleInv, PcType, PairType, Cleanup, End, Goto
<1>7. ReadInv'
  BY DEF IInv, ReadInv, PcType, PairType, AfterImport, Compiling, Cleanup, End,
     Sources!Leave, Goto, Process, Imported, Nothing
<1>8. TempInv'
  BY DEF IInv, TempInv, Cleanup, RemoveTemps, End, Goto, Process, Imported
<1>9. CacheWhole'
  BY DEF IInv, CacheWhole, Cleanup
<1>10. ReadyInv'
  BY DEF IInv, ReadyInv, Cleanup, End, Sources!Leave
<1>11. ExpectedInv'
  BY DEF IInv, ExpectedInv, PcType, Cleanup, End, Sources!Leave, Goto, loads
<1>12. LoadedIsRead'
  BY DEF IInv, LoadedIsRead, PcType, Cleanup, End, loads, Imported
<1>13. QED
  BY <1>1, <1>2, <1>3, <1>4, <1>5, <1>6, <1>7, <1>8, <1>9, <1>10, <1>11, <1>12
     DEF IInv

(* A failing call ends the command or sends it to the cleanup.            *)
LEMMA IoErrorStep ==
  ASSUME IInv, NEW i \in Installer, IoError(i)
  PROVE  IInv'
<1>1. SourceType'
  BY DEF IInv, SourceType, IoError, End, Sources!Leave, sources
<1>2. PcType'
  BY DEF IInv, PcType, SourceType, Compiling, IoError, End, Sources!Leave, Goto,
     sources, Process
<1>3. PairType'
  BY DEF IInv, PairType, IoError, End, Nothing
<1>4. FileType'
  BY DEF IInv, FileType, IoError, files
<1>5. HistoryType'
  BY DEF IInv, HistoryType, PcType, Compiling, IoError, End, Sources!Leave, Goto,
     loads, Process, Nothing
<1>6. IdleInv'
  BY DEF IInv, IdleInv, PcType, PairType, Compiling, IoError, End, Goto, Process
<1>7. ReadInv'
  <2>1. CASE pc[i] \in Holding
    <3>1. Goto(i, "cleanup") /\ UNCHANGED <<store, pair, overtaken>>
      BY <2>1 DEF IoError, sources
    <3>2. QED
      BY <2>1, <3>1, KeepReads DEF Holding, AfterImport, Compiling
  <2>2. CASE pc[i] \notin Holding
    BY <2>2, EndReads DEF IoError
  <2>3. QED
    BY <2>1, <2>2
<1>8. TempInv'
  BY DEF IInv, TempInv, PcType, PairType, FileType, IoError, End, Goto, files,
     Process, Imported
<1>9. CacheWhole'
  BY DEF IInv, CacheWhole, IoError, files
<1>10. ReadyInv'
  BY DEF IInv, ReadyInv, IoError, End, Sources!Leave, sources, files
<1>11. ExpectedInv'
  BY RuntimeCacheAssumption DEF IInv, ExpectedInv, PcType, PairType, IoError, End,
     Sources!Leave, Goto, sources, loads, Process
<1>12. LoadedIsRead'
  BY RuntimeCacheAssumption DEF IInv, LoadedIsRead, PairType, IoError, End, loads,
     Imported, Process
<1>13. QED
  BY <1>1, <1>2, <1>3, <1>4, <1>5, <1>6, <1>7, <1>8, <1>9, <1>10, <1>11, <1>12
     DEF IInv

(* A killed command leaves its files as they are.                         *)
LEMMA KillStep ==
  ASSUME IInv, NEW i \in Installer, Kill(i)
  PROVE  IInv'
<1>1. SourceType'
  BY DEF IInv, SourceType, Kill, End, Sources!Leave
<1>2. PcType'
  BY DEF IInv, PcType, SourceType, Kill, End, Sources!Leave, Goto, Process
<1>3. PairType'
  BY DEF IInv, PairType, Kill, End, Nothing
<1>4. FileType'
  BY DEF IInv, FileType, Kill, files
<1>5. HistoryType'
  BY DEF IInv, HistoryType, Kill, End, Goto, loads
<1>6. IdleInv'
  BY DEF IInv, IdleInv, PcType, PairType, Kill, End, Goto
<1>7. ReadInv'
  BY DEF IInv, ReadInv, PcType, PairType, AfterImport, Compiling, Kill, End,
     Sources!Leave, Goto, Process, Imported, Nothing
<1>8. TempInv'
  BY DEF IInv, TempInv, PcType, Kill, End, Goto, files, Process, Imported
<1>9. CacheWhole'
  BY DEF IInv, CacheWhole, Kill, files
<1>10. ReadyInv'
  BY DEF IInv, ReadyInv, Kill, End, Sources!Leave, files
<1>11. ExpectedInv'
  BY RuntimeCacheAssumption DEF IInv, ExpectedInv, Kill, End, Sources!Leave, Goto,
     loads
<1>12. LoadedIsRead'
  BY RuntimeCacheAssumption DEF IInv, LoadedIsRead, Kill, End, loads, Imported
<1>13. QED
  BY <1>1, <1>2, <1>3, <1>4, <1>5, <1>6, <1>7, <1>8, <1>9, <1>10, <1>11, <1>12
     DEF IInv

(* A temporary grows old.                                                 *)
LEMMA AgeStep ==
  ASSUME IInv, NEW i \in Installer, Age(i)
  PROVE  IInv'
<1>1. SourceType'
  BY DEF IInv, SourceType, Age, sources
<1>2. PcType'
  BY DEF IInv, PcType, Age, sources
<1>3. PairType'
  BY DEF IInv, PairType, Age
<1>4. FileType'
  BY DEF IInv, FileType, Age
<1>5. HistoryType'
  BY DEF IInv, HistoryType, Age, history, loads
<1>6. IdleInv'
  BY DEF IInv, IdleInv, Age
<1>7. ReadInv'
  BY DEF IInv, ReadInv, Age, sources, history, Imported
<1>8. TempInv'
  BY DEF IInv, TempInv, Age, Imported
<1>9. CacheWhole'
  BY DEF IInv, CacheWhole, Age
<1>10. ReadyInv'
  BY DEF IInv, ReadyInv, Age, sources, history
<1>11. ExpectedInv'
  BY DEF IInv, ExpectedInv, Age, sources, history, loads
<1>12. LoadedIsRead'
  BY DEF IInv, LoadedIsRead, Age, loads, Imported
<1>13. QED
  BY <1>1, <1>2, <1>3, <1>4, <1>5, <1>6, <1>7, <1>8, <1>9, <1>10, <1>11, <1>12
     DEF IInv

(* A load reads one source; what it counts on is what is stored.          *)
LEMMA LoadSourceStep ==
  ASSUME IInv, NEW r \in Reader, NEW f \in File, LoadSource(r, f)
  PROVE  IInv'
<1>1. SourceType'
  BY DEF IInv, SourceType, LoadSource, sources
<1>2. PcType'
  BY RuntimeCacheAssumption DEF IInv, PcType, LoadSource, Finish, Goto, sources,
     Process
<1>3. PairType'
  BY DEF IInv, PairType, SourceType, LoadSource, Finish, Nothing
<1>4. FileType'
  BY DEF IInv, FileType, LoadSource, files
<1>5. HistoryType'
  <2>1. loaded' \in [Reader -> Dictionary \cup {Absent, Failed}]
    BY DEF IInv, HistoryType, LoadSource, Finish
  <2>2. expected' \in [Reader -> {Absent, ready}]
    BY DEF IInv, HistoryType, LoadSource
  <2>3. overtaken' \subseteq {i \in Installer : pc'[i] \in Compiling}
    BY Disjoint DEF IInv, HistoryType, PcType, Process, LoadSource, Finish, Goto,
       history
  <2>4. QED
    BY <2>1, <2>2, <2>3 DEF IInv, HistoryType, LoadSource, history
<1>6. IdleInv'
  BY RuntimeCacheAssumption DEF IInv, IdleInv, PcType, PairType, LoadSource, Finish,
     Goto, Process
<1>7. ReadInv'
  <2>1. UNCHANGED <<store, overtaken>> /\ \A i \in Installer : pc'[i] = pc[i] /\ pair'[i] = pair[i]
    BY Disjoint DEF IInv, PcType, PairType, Process, LoadSource, Finish, Goto,
       sources, history
  <2>2. \A s \in Reader \ {r} : pc'[s] = pc[s] /\ pair'[s] = pair[s]
    BY DEF IInv, PcType, PairType, Process, LoadSource, Finish, Goto
  <2>3. pc'[r] = "loadDic" => pair'[r]["aff"] \in Bytes
    BY Files DEF IInv, PcType, PairType, SourceType, Process, LoadSource, Finish,
       Goto, Nothing
  <2>4. pc'[r] = "loadCache" => \A g \in File : pair'[r][g] \in Bytes
    <3>1. SUFFICES ASSUME pc'[r] = "loadCache"
                   PROVE  \A g \in File : pair'[r][g] \in Bytes
      OBVIOUS
    <3>2. f = "dic" /\ store[f] # Absent
      BY <3>1, Files DEF IInv, PcType, Process, LoadSource, Finish, Goto
    <3>3. pc[r] = "loadDic" /\ pair' = [pair EXCEPT ![r] = [@ EXCEPT ![f] = store[f]]]
      BY <3>2 DEF LoadSource
    <3>4. pair[r]["aff"] \in Bytes /\ store[f] \in Bytes
      BY <3>2, <3>3 DEF IInv, ReadInv, SourceType
    <3>5. QED
      BY <3>2, <3>3, <3>4, Files DEF IInv, PairType, Process
  <2>5. QED
    BY <2>1, <2>2, <2>3, <2>4 DEF IInv, ReadInv, Imported
<1>8. TempInv'
  BY DEF IInv, TempInv, PcType, PairType, FileType, LoadSource, Finish, Goto, files,
     Imported, Process
<1>9. CacheWhole'
  BY DEF IInv, CacheWhole, LoadSource, files
<1>10. ReadyInv'
  BY DEF IInv, ReadyInv, LoadSource, sources, files, history
<1>11. ExpectedInv'
  <2>1. UNCHANGED <<store, ready>>
    BY DEF LoadSource, sources, history
  <2>2. ASSUME NEW s \in Reader \ {r}
        PROVE  pc'[s] = pc[s] /\ pair'[s] = pair[s] /\ loaded'[s] = loaded[s]
               /\ expected'[s] = expected[s]
    BY DEF IInv, PcType, PairType, HistoryType, Process, LoadSource, Finish, Goto
  <2>3. ASSUME expected'[r] # Absent
        PROVE  /\ expected'[r] = ready
               /\ pc'[r] = "loadDic" => pair'[r]["aff"] = store["aff"]
               /\ pc'[r] = "loadCache" => \A g \in File : pair'[r][g] = store[g]
               /\ pc'[r] # "idle"
    <3>1. expected'[r] = ready
      BY <2>3 DEF IInv, HistoryType, ExpectedInv, LoadSource
    <3>2. store[f] # Absent
      BY <2>3, <3>1, ReadyStored DEF IInv
    <3>3. CASE f = "aff"
      BY <3>1, <3>2, <3>3, Files DEF IInv, PcType, PairType, Process, LoadSource,
         Goto, Nothing
    <3>4. CASE f = "dic"
      <4>1. pc[r] = "loadDic" /\ expected[r] # Absent
        BY <2>3, <3>4 DEF LoadSource
      <4>2. pair[r]["aff"] = store["aff"]
        BY <4>1 DEF IInv, ExpectedInv
      <4>3. pair' = [pair EXCEPT ![r] = [@ EXCEPT !["dic"] = store["dic"]]]
        BY <3>2, <3>4 DEF LoadSource
      <4>4. pc'[r] = "loadCache"
        BY <3>2, <3>4 DEF IInv, PcType, Process, LoadSource, Goto
      <4>5. QED
        BY <3>1, <4>2, <4>3, <4>4, Files DEF IInv, PairType, Process
    <3>5. QED
      BY <3>3, <3>4, Files
  <2>4. QED
    BY <2>1, <2>2, <2>3 DEF IInv, ExpectedInv
<1>12. LoadedIsRead'
  BY DEF IInv, LoadedIsRead, PairType, HistoryType, LoadSource, Finish, Process,
     Imported
<1>13. QED
  BY <1>1, <1>2, <1>3, <1>4, <1>5, <1>6, <1>7, <1>8, <1>9, <1>10, <1>11, <1>12
     DEF IInv

(* A load accepts the cache of the bytes it has read, or imports them.    *)
LEMMA LoadCacheStep ==
  ASSUME IInv, NEW r \in Reader, LoadCache(r)
  PROVE  IInv'
<1>1. SourceType'
  BY DEF IInv, SourceType, LoadCache, sources
<1>2. PcType'
  BY DEF IInv, PcType, LoadCache, Finish, Goto, sources, Process
<1>3. PairType'
  BY DEF IInv, PairType, LoadCache, Finish, Nothing
<1>4. FileType'
  BY DEF IInv, FileType, LoadCache, files
<1>5. HistoryType'
  <2>1. ASSUME cache = Absent
        PROVE  Imported(r, Declared) \in Dictionary
    BY ImportedType, Files DEF IInv, ReadInv, LoadCache, Process
  <2>2. loaded' \in [Reader -> Dictionary \cup {Absent, Failed}]
    BY <2>1 DEF IInv, HistoryType, FileType, LoadCache, Finish, Accepted
  <2>3. overtaken' \subseteq {i \in Installer : pc'[i] \in Compiling}
    BY Disjoint DEF IInv, HistoryType, PcType, Process, LoadCache, Finish, Goto,
       history
  <2>4. QED
    BY <2>2, <2>3 DEF IInv, HistoryType, LoadCache, history
<1>6. IdleInv'
  BY DEF IInv, IdleInv, PcType, PairType, Compiling, LoadCache, Finish, Goto,
     Process
<1>7. ReadInv'
  <2>1. UNCHANGED <<store, overtaken>> /\ \A i \in Installer : pc'[i] = pc[i] /\ pair'[i] = pair[i]
    BY Disjoint DEF IInv, PcType, PairType, Process, LoadCache, Finish, Goto,
       sources, history
  <2>2. \A s \in Reader \ {r} : pc'[s] = pc[s] /\ pair'[s] = pair[s]
    BY DEF IInv, PcType, PairType, Process, LoadCache, Finish, Goto
  <2>3. pc'[r] = "idle"
    BY DEF IInv, PcType, Process, LoadCache, Finish, Goto
  <2>4. QED
    BY <2>1, <2>2, <2>3 DEF IInv, ReadInv, Imported
<1>8. TempInv'
  BY DEF IInv, TempInv, PcType, PairType, FileType, LoadCache, Finish, Goto, files,
     Process, Imported
<1>9. CacheWhole'
  BY DEF IInv, CacheWhole, LoadCache, files
<1>10. ReadyInv'
  BY DEF IInv, ReadyInv, LoadCache, sources, files, history
<1>11. ExpectedInv'
  BY RuntimeCacheAssumption DEF IInv, ExpectedInv, ReadyInv, PcType, PairType,
     HistoryType, LoadCache, Finish, Accepted, Goto, sources, history, Process
<1>12. LoadedIsRead'
  <2>1. \A s \in Reader \ {r} : loaded'[s] = loaded[s] /\ pair'[s] = pair[s]
    BY DEF IInv, PairType, HistoryType, Process, LoadCache, Finish
  <2>2. ASSUME loaded'[r] # Failed
        PROVE  /\ pair' = pair
               /\ loaded'[r] \in {Imported(r, Policy), Imported(r, Declared)}
    <3>1. CASE cache = Absent
      BY <2>2, <3>1 DEF IInv, HistoryType, LoadCache, Finish
    <3>2. CASE cache # Absent
      <4>1. loaded'[r] = cache /\ Accepted(r) /\ pair' = pair
        BY <2>2, <3>2 DEF IInv, HistoryType, LoadCache, Finish
      <4>2. cache \in Dictionary
        BY <3>2, <4>1 DEF IInv, FileType, Accepted
      <4>3. cache = Imported(r, cache.encodings)
        BY <4>1, <4>2, Dictionaries DEF Accepted, Imported
      <4>4. QED
        BY <4>1, <4>2, <4>3, Dictionaries
    <3>3. QED
      BY <3>1, <3>2
  <2>3. QED
    BY <2>1, <2>2 DEF IInv, LoadedIsRead, Imported
<1>13. QED
  BY <1>1, <1>2, <1>3, <1>4, <1>5, <1>6, <1>7, <1>8, <1>9, <1>10, <1>11, <1>12
     DEF IInv

(* A load that fails counts on nothing any more.                          *)
LEMMA LoadFailsStep ==
  ASSUME IInv, NEW r \in Reader, LoadFails(r)
  PROVE  IInv'
<1>1. SourceType'
  BY DEF IInv, SourceType, LoadFails, sources
<1>2. PcType'
  BY DEF IInv, PcType, LoadFails, Finish, Goto, sources, Process
<1>3. PairType'
  BY DEF IInv, PairType, LoadFails, Finish, Nothing
<1>4. FileType'
  BY DEF IInv, FileType, LoadFails, files
<1>5. HistoryType'
  BY DEF IInv, HistoryType, Compiling, LoadFails, Finish, Goto, history
<1>6. IdleInv'
  BY DEF IInv, IdleInv, PcType, PairType, LoadFails, Finish, Goto
<1>7. ReadInv'
  BY DEF IInv, ReadInv, PcType, PairType, Compiling, LoadFails, Finish, Goto,
     sources, history, Imported
<1>8. TempInv'
  BY DEF IInv, TempInv, LoadFails, Finish, Goto, files, Process, Imported
<1>9. CacheWhole'
  BY DEF IInv, CacheWhole, LoadFails, files
<1>10. ReadyInv'
  BY DEF IInv, ReadyInv, LoadFails, sources, files, history
<1>11. ExpectedInv'
  BY DEF IInv, ExpectedInv, HistoryType, LoadFails, Finish, Goto, sources, history
<1>12. LoadedIsRead'
  BY DEF IInv, LoadedIsRead, HistoryType, LoadFails, Finish, Imported
<1>13. QED
  BY <1>1, <1>2, <1>3, <1>4, <1>5, <1>6, <1>7, <1>8, <1>9, <1>10, <1>11, <1>12
     DEF IInv

(* A source is taken away: whoever has read it is overtaken.              *)
LEMMA RemoveSourceStep ==
  ASSUME IInv, NEW f \in File, RemoveSource(f)
  PROVE  IInv'
<1>1. SourceType'
  BY DEF IInv, SourceType, RemoveSource, TakeAway
<1>2. PcType'
  BY DEF IInv, PcType, RemoveSource, TakeAway
<1>3. PairType'
  BY DEF IInv, PairType, RemoveSource, TakeAway
<1>4. FileType'
  BY DEF IInv, FileType, RemoveSource, TakeAway
<1>5. HistoryType'
  BY DEF IInv, HistoryType, RemoveSource, TakeAway, Void
<1>6. IdleInv'
  BY DEF IInv, IdleInv, RemoveSource, TakeAway
<1>7. ReadInv'
  <2>1. UNCHANGED <<pc, pair>> /\ overtaken' = {i \in Installer : pc[i] \in Compiling}
    BY DEF RemoveSource, TakeAway
  <2>2. ASSUME NEW i \in Installer \ overtaken', NEW g \in File
        PROVE  pair[i][g] = Absent
    BY <2>1 DEF IInv, IdleInv, PcType, RemoveSource, TakeAway, Nothing
  <2>3. QED
    BY <2>1, <2>2 DEF IInv, ReadInv, Imported, Encodings
<1>8. TempInv'
  BY DEF IInv, TempInv, RemoveSource, TakeAway, Imported
<1>9. CacheWhole'
  BY DEF IInv, CacheWhole, RemoveSource
<1>10. ReadyInv'
  BY DEF IInv, ReadyInv, RemoveSource, TakeAway, Void
<1>11. ExpectedInv'
  BY DEF IInv, ExpectedInv, RemoveSource, TakeAway, Void
<1>12. LoadedIsRead'
  BY DEF IInv, LoadedIsRead, RemoveSource, TakeAway, Imported
<1>13. QED
  BY <1>1, <1>2, <1>3, <1>4, <1>5, <1>6, <1>7, <1>8, <1>9, <1>10, <1>11, <1>12
     DEF IInv

(* The cache is taken away, and no load counts on it.                     *)
LEMMA RemoveCacheStep ==
  ASSUME IInv, RemoveCache
  PROVE  IInv'
<1>1. SourceType'
  BY DEF IInv, SourceType, RemoveCache, TakeAway
<1>2. PcType'
  BY DEF IInv, PcType, RemoveCache, TakeAway
<1>3. PairType'
  BY DEF IInv, PairType, RemoveCache, TakeAway
<1>4. FileType'
  BY DEF IInv, FileType, RemoveCache, TakeAway
<1>5. HistoryType'
  BY DEF IInv, HistoryType, RemoveCache, TakeAway, Void
<1>6. IdleInv'
  BY DEF IInv, IdleInv, RemoveCache, TakeAway
<1>7. ReadInv'
  BY DEF IInv, ReadInv, HistoryType, RemoveCache, TakeAway, Imported
<1>8. TempInv'
  BY DEF IInv, TempInv, RemoveCache, TakeAway, Imported
<1>9. CacheWhole'
  BY RuntimeCacheAssumption DEF IInv, CacheWhole, RemoveCache
<1>10. ReadyInv'
  BY DEF IInv, ReadyInv, RemoveCache, TakeAway, Void
<1>11. ExpectedInv'
  BY DEF IInv, ExpectedInv, RemoveCache, TakeAway, Void
<1>12. LoadedIsRead'
  BY DEF IInv, LoadedIsRead, RemoveCache, TakeAway, Imported
<1>13. QED
  BY <1>1, <1>2, <1>3, <1>4, <1>5, <1>6, <1>7, <1>8, <1>9, <1>10, <1>11, <1>12
     DEF IInv

(* A user puts a file of his own where there is none.                     *)
LEMMA ForeignSourceStep ==
  ASSUME IInv, NEW f \in File, ForeignSource(f)
  PROVE  IInv'
<1>1. SourceType'
  <2>1. PICK b \in ForeignBytes : store' = [store EXCEPT ![f] = b]
    BY DEF ForeignSource, Sources!PutForeign
  <2>2. b \in Bytes
    BY DEF Bytes
  <2>3. QED
    BY <2>1, <2>2 DEF IInv, SourceType, ForeignSource, Sources!PutForeign
<1>2. PcType'
  BY DEF IInv, PcType, ForeignSource, Sources!PutForeign
<1>3. PairType'
  BY DEF IInv, PairType, ForeignSource
<1>4. FileType'
  BY DEF IInv, FileType, ForeignSource, files
<1>5. HistoryType'
  BY DEF IInv, HistoryType, ForeignSource, history, loads
<1>6. IdleInv'
  BY DEF IInv, IdleInv, ForeignSource
<1>7. ReadInv'
  BY DEF IInv, ReadInv, Compiling, ForeignSource, Sources!PutForeign, history,
     Imported
<1>8. TempInv'
  BY DEF IInv, TempInv, ForeignSource, files, Imported
<1>9. CacheWhole'
  BY DEF IInv, CacheWhole, ForeignSource, files
<1>10. ReadyInv'
  BY ReadyStored DEF IInv, ReadyInv, ForeignSource, Sources!PutForeign, files,
     history
<1>11. ExpectedInv'
  <2>1. store[f] = Absent
    BY DEF ForeignSource, Sources!PutForeign
  <2>2. ready = Absent
    BY <2>1, ReadyStored DEF IInv
  <2>3. expected = [r \in Reader |-> Absent]
    BY <2>2 DEF IInv, HistoryType
  <2>4. QED
    BY <2>3 DEF ExpectedInv, ForeignSource, loads
<1>12. LoadedIsRead'
  BY DEF IInv, LoadedIsRead, ForeignSource, loads, Imported
<1>13. QED
  BY <1>1, <1>2, <1>3, <1>4, <1>5, <1>6, <1>7, <1>8, <1>9, <1>10, <1>11, <1>12
     DEF IInv

(* Every process ends; the cache is one of its durable contents.          *)
LEMMA PowerLossStep ==
  ASSUME IInv, PowerLoss
  PROVE  IInv'
<1>1. SourceType'
  BY DEF IInv, SourceType, PowerLoss
<1>2. PcType'
  BY DEF IInv, PcType, PowerLoss, Process
<1>3. PairType'
  BY DEF IInv, PairType, PowerLoss, Nothing
<1>4. FileType'
  BY DEF IInv, FileType, PowerLoss
<1>5. HistoryType'
  BY DEF IInv, HistoryType, PowerLoss
<1>6. IdleInv'
  BY DEF IInv, IdleInv, PowerLoss, Process
<1>7. ReadInv'
  BY DEF IInv, ReadInv, AfterImport, Compiling, PowerLoss, Process, Nothing
<1>8. TempInv'
  BY DEF IInv, TempInv, PowerLoss
<1>9. CacheWhole'
  BY DEF IInv, CacheWhole, PowerLoss
<1>10. ReadyInv'
  BY DEF IInv, ReadyInv, PowerLoss
<1>11. ExpectedInv'
  BY DEF IInv, ExpectedInv, PowerLoss
<1>12. LoadedIsRead'
  BY DEF IInv, LoadedIsRead, PowerLoss
<1>13. QED
  BY <1>1, <1>2, <1>3, <1>4, <1>5, <1>6, <1>7, <1>8, <1>9, <1>10, <1>11, <1>12
     DEF IInv

(* What changes nothing keeps the invariant.                              *)
LEMMA StutterStep ==
  ASSUME IInv, UNCHANGED vars
  PROVE  IInv'
<1> USE DEF vars, sources, files, history, loads
<1>1. SourceType' /\ PcType' /\ PairType' /\ FileType' /\ HistoryType'
  BY DEF IInv, SourceType, PcType, PairType, FileType, HistoryType
<1>2. IdleInv' /\ ReadInv' /\ TempInv' /\ CacheWhole'
  BY DEF IInv, IdleInv, ReadInv, TempInv, CacheWhole, Imported, Encodings
<1>3. ReadyInv' /\ ExpectedInv' /\ LoadedIsRead'
  BY DEF IInv, ReadyInv, ExpectedInv, LoadedIsRead, Imported
<1>4. QED
  BY <1>1, <1>2, <1>3 DEF IInv

-----------------------------------------------------------------------------

(* IInv holds in every reachable state: one lemma per action.             *)
LEMMA Invariant == Spec => []IInv
<1>1. Init => IInv
  <2> SUFFICES ASSUME Init PROVE IInv
    OBVIOUS
  <2>2. SourceType /\ PcType /\ PairType
    BY DEF Init, Sources!Init, SourceType, PcType, PairType, Nothing, Process
  <2>3. FileType /\ HistoryType
    BY DEF Init, FileType, HistoryType
  <2>4. IdleInv /\ ReadInv /\ TempInv /\ CacheWhole
    BY RuntimeCacheAssumption DEF Init, IdleInv, ReadInv, TempInv, CacheWhole,
       Nothing,
       Process, AfterImport, Compiling
  <2>5. ReadyInv /\ ExpectedInv /\ LoadedIsRead
    BY DEF Init, ReadyInv, ExpectedInv, LoadedIsRead
  <2>6. QED
    BY <2>2, <2>3, <2>4, <2>5 DEF IInv
<1>2. IInv /\ [Next]_vars => IInv'
  <2> SUFFICES ASSUME IInv, [Next]_vars PROVE IInv'
    OBVIOUS
  <2>1. ASSUME NEW i \in Installer, NEW m \in Manifest, Install(i, m)
        PROVE  IInv'
    BY <2>1, InstallStep
  <2>2. ASSUME NEW i \in Installer, NEW f \in File, StoreFile(i, f)
        PROVE  IInv'
    BY <2>2, StoreFileStep
  <2>3. ASSUME NEW i \in Installer, Fetched(i) \/ FetchFails(i)
        PROVE  IInv'
    BY <2>3, FetchedStep, FetchFailsStep
  <2>4. ASSUME NEW i \in Installer, Compile(i)
        PROVE  IInv'
    BY <2>4, ReadAffStep, ImportStep, SweepStep, CreateStep, WriteStep, SyncStep,
       RenameStep, ReadyStep, CleanupStep DEF Compile
  <2>5. ASSUME NEW i \in Installer, IoError(i) \/ Kill(i) \/ Age(i)
        PROVE  IInv'
    BY <2>5, IoErrorStep, KillStep, AgeStep
  <2>6. ASSUME NEW r \in Reader, NEW f \in File, LoadSource(r, f)
        PROVE  IInv'
    BY <2>6, LoadSourceStep
  <2>7. ASSUME NEW r \in Reader, LoadCache(r) \/ LoadFails(r)
        PROVE  IInv'
    BY <2>7, LoadCacheStep, LoadFailsStep
  <2>8. ASSUME NEW f \in Replaceable, RemoveSource(f) \/ ForeignSource(f)
        PROVE  IInv'
    <3>1. f \in File
      BY RuntimeCacheAssumption
    <3>2. QED
      BY <2>8, <3>1, RemoveSourceStep, ForeignSourceStep
  <2>9. CASE RemoveCache
    BY <2>9, RemoveCacheStep
  <2>10. CASE PowerLoss
    BY <2>10, PowerLossStep
  <2>11. CASE UNCHANGED vars
    BY <2>11, StutterStep
  <2>12. QED
    BY <2>1, <2>2, <2>3, <2>4, <2>5, <2>6, <2>7, <2>8, <2>9, <2>10, <2>11 DEF Next
<1>3. QED
  BY <1>1, <1>2, PTL DEF Spec

-----------------------------------------------------------------------------
(* Theorems                                                                *)

(* A sweep finds the temporary of an install.                             *)
FoundType == found \in [Installer -> Installer \cup {Absent}]

LEMMA FoundStep ==
  ASSUME IInv, FoundType, [Next]_vars
  PROVE  FoundType'
<1>1. CASE \E i \in Installer : FindStale(i)
  BY <1>1 DEF FindStale, FoundType, IInv, FileType
<1>2. CASE \E i \in Installer : found' = [found EXCEPT ![i] = Absent]
  BY <1>2 DEF FoundType
<1>3. CASE PowerLoss
  BY <1>3 DEF PowerLoss, FoundType
<1>4. CASE UNCHANGED found
  BY <1>4 DEF FoundType
<1>5. QED
  BY <1>1, <1>2, <1>3, <1>4
     DEF Next, Compile, Sweep, RemoveStale, EndSweep, Install, StoreFile, Fetched,
     FetchFails, ReadAff, Import, Create, Write, Sync, Rename, Ready, Cleanup, End,
     IoError, Kill, Age, LoadSource, LoadCache, LoadFails, RemoveSource,
        ForeignSource,
     RemoveCache, TakeAway, vars

(* Every process is where the commands can be, and has read bytes or        *)
(* nothing; a temporary belongs to an install, and the cache is one of the  *)
(* contents that can outlast a power loss.                                 *)
THEOREM TypeCorrect == Spec => []TypeOK
<1>1. IInv /\ FoundType => TypeOK
  <2>1. SUFFICES ASSUME IInv, FoundType PROVE TypeOK
    OBVIOUS
  <2>2. QED
    BY <2>1 DEF IInv, TypeOK, SourceType, PcType, PairType, FileType, HistoryType,
       FoundType
<1>2. Init => FoundType
  BY DEF Init, FoundType
<1>3. QED
  BY <1>1, <1>2, Invariant, FoundStep, PTL DEF Spec

(* No interleaving of installs, no failure and no power loss between the    *)
(* temporary's sync, its rename and the directory's sync in                *)
(* atomic_write_runtime_cache leaves a cache that was cut short.           *)
THEOREM CacheWholeCorrect == Spec => []CacheWhole
<1>1. IInv => CacheWhole
  BY DEF IInv
<1>2. QED
  BY <1>1, Invariant, PTL

(* load_installed_hunspell_dictionary returns what the very bytes it read   *)
(* are imported to under its own semantics, or an error.                   *)
THEOREM LoadedIsReadCorrect == Spec => []LoadedIsRead
<1>1. IInv => LoadedIsRead
  BY DEF IInv
<1>2. QED
  BY <1>1, Invariant, PTL

(* After `dictionary install` printed "ready", every load gets the pair     *)
(* under the catalog's encodings until a user takes a file away or another  *)
(* version installs, whatever other installs do and wherever they stop.    *)
THEOREM ReadyLoadsCorrect == Spec => []ReadyLoads
<1>1. IInv => ReadyLoads
  <2>1. SUFFICES ASSUME IInv, NEW r \in Reader, expected[r] # Absent,
                        expected[r].semantics = SemanticsOf[r], pc[r] = "idle"
                 PROVE  loaded[r] = [expected[r] EXCEPT !.encodings = Policy]
    BY DEF ReadyLoads
  <2>2. expected[r] = ready /\ loaded[r] = ready
    BY <2>1 DEF IInv, ExpectedInv
  <2>3. ready.encodings = Policy
    BY <2>1, <2>2 DEF IInv, ReadyInv
  <2>4. ready \in Dictionary
    BY <2>1, <2>2 DEF IInv, HistoryType
  <2>5. QED
    BY <2>2, <2>3, <2>4 DEF Dictionary
<1>2. QED
  BY <1>1, Invariant, PTL
=============================================================================
