--------------------------- MODULE AppStoreProofs ---------------------------
(***************************************************************************)
(* Proofs about AppStore, for every set of packages and APKs and any       *)
(* number of installations, updates and failures.                          *)
(***************************************************************************)
EXTENDS AppStore, TLAPS

\* Until something fails, deleting has left only the files still to visit, ...
DeletedSoFar == pc = "delete" =>
  /\ unpacked[pkg] = None
  /\ ~flawed => \A e \in Entries \ todo : dir[pkg][e] = Absent

\* ... and unpacking has written each entry of the APK except those still to come.
UnpackedSoFar == pc = "unpack" =>
  /\ unpacked[pkg] = None
  /\ todo \subseteq Apk[known[pkg]] /\ open \in Apk[known[pkg]] \cup {None}
  /\ ~flawed => \A e \in Entries \ (todo \cup {open}) : dir[pkg][e] = Exactly(known[pkg])[e]
  /\ ~flawed => \A e \in todo : e \in Apk[known[pkg]]

\* saveString writes what it read, and leaves a torn file only when it is cut short.
SaveSoFar ==
  /\ listFile = Torn /\ ~lost => pc = "write"
  /\ pc \in {"truncate", "write"} /\ ~lost => saved \subseteq loaded

IInv == TypeOK /\ DeletedSoFar /\ UnpackedSoFar /\ SaveSoFar /\ InstallIsExact /\ SavedStays

-----------------------------------------------------------------------------
\* The initial states satisfy the invariant.
LEMMA InitIInv == Init => IInv
<1> SUFFICES ASSUME Init PROVE IInv
  OBVIOUS
<1> USE BoundsAssumption, NamesAssumption DEF Init
<1>1. TypeOK
  <2>1. dir \in [Packages -> [Entries -> Versions \cup {Torn, Absent}]]
    BY DEF Empty
  <2>2. flawed \in BOOLEAN /\ lost \in BOOLEAN
    OBVIOUS
  <2>3. unpacked \in [Packages -> Versions \cup {None}]
    OBVIOUS
  <2>4. version \in [Packages -> Versions] /\ known \in [Packages -> Versions]
    OBVIOUS
  <2> QED
    BY <2>1, <2>2, <2>3, <2>4 DEF TypeOK
<1>2. DeletedSoFar /\ UnpackedSoFar /\ SaveSoFar /\ InstallIsExact /\ SavedStays
  BY DEF DeletedSoFar, UnpackedSoFar, SaveSoFar, InstallIsExact, SavedStays
<1> QED
  BY <1>1, <1>2 DEF IInv

\* The specification keeps the types.
LEMMA TypeStep == TypeOK /\ [Next]_vars => TypeOK'
<1> SUFFICES ASSUME TypeOK, [Next]_vars PROVE TypeOK'
  OBVIOUS
<1> USE BoundsAssumption, ApkAssumption, NamesAssumption DEF TypeOK, Fail
<1>1. ASSUME NEW p \in Packages, ClickInstall(p) PROVE TypeOK'
  <2>1. flawed' \in BOOLEAN /\ lost' \in BOOLEAN
    BY <1>1 DEF ClickInstall, Install
  <2>2. Files(dir[p]) \subseteq Entries
    BY DEF Files
  <2> QED
    BY <1>1, <2>1, <2>2 DEF ClickInstall, Install, disk
<1>2. CASE DeleteFile
  <2>1. PICK e \in todo :
          \/ dir' = [dir EXCEPT ![pkg][e] = Absent] /\ UNCHANGED <<failures, flawed>>
          \/ Fail /\ flawed' = TRUE /\ UNCHANGED dir
    BY <1>2 DEF DeleteFile
  <2>2. CASE dir' = [dir EXCEPT ![pkg][e] = Absent] /\ UNCHANGED <<failures, flawed>>
    BY <1>2, <2>2 DEF DeleteFile
  <2>3. CASE Fail /\ flawed' = TRUE /\ UNCHANGED dir
    BY <1>2, <2>3 DEF DeleteFile
  <2> QED
    BY <2>1, <2>2, <2>3
<1>3. CASE OpenApk
  <2>1. CASE /\ pc' = "unpack" /\ todo' = Apk[version[pkg]]
             /\ UNCHANGED <<open, failures, flawed>>
    BY <1>3, <2>1 DEF OpenApk, disk
  <2>2. CASE GiveUp /\ UNCHANGED failures
    BY <1>3, <2>2 DEF OpenApk, GiveUp, disk
  <2>3. CASE Fail /\ GiveUp
    BY <1>3, <2>3 DEF OpenApk, GiveUp, disk
  <2> QED
    BY <1>3, <2>1, <2>2, <2>3 DEF OpenApk
<1>4. CASE OpenEntry
  BY <1>4 DEF OpenEntry, counts, history
<1>5. CASE CopyEntry
  <2>1. CASE /\ dir' = [dir EXCEPT ![pkg][open] = known[pkg]]
             /\ open' = None
             /\ UNCHANGED <<pc, todo, failures, flawed>>
    BY <1>5, <2>1 DEF CopyEntry
  <2>2. CASE Fail /\ GiveUp /\ UNCHANGED dir
    BY <1>5, <2>2 DEF CopyEntry, GiveUp
  <2> QED
    BY <1>5, <2>1, <2>2 DEF CopyEntry
<1>6. CASE FinishUnpack
  BY <1>6 DEF FinishUnpack, disk, counts
<1>7. CASE LoadList
  <2>1. ASSUME NEW list \in SUBSET Packages, NEW unread \in BOOLEAN, LoadAs(list, unread),
               failures' \in 0..MaxFailures
        PROVE  TypeOK'
    <3>1. lost' \in BOOLEAN
      BY <2>1 DEF LoadAs
    <3>2. CASE pkg \in list
      BY <2>1, <3>1, <3>2 DEF LoadAs, Return, disk
    <3>3. CASE pkg \notin list
      BY <2>1, <3>1, <3>3 DEF LoadAs, disk
    <3> QED
      BY <3>2, <3>3
  <2>2. (IF listFile \in {Torn, Absent} THEN {} ELSE listFile) \in SUBSET Packages
    OBVIOUS
  <2>3. failures' \in 0..MaxFailures
    <3>1. failures' = failures \/ (failures < MaxFailures /\ failures' = failures + 1)
      BY <1>7, Zenon DEF LoadList
    <3> QED
      BY <3>1
  <2>4. {} \in SUBSET Packages /\ FALSE \in BOOLEAN /\ TRUE \in BOOLEAN
    OBVIOUS
  <2> QED
    BY <1>7, <2>1, <2>2, <2>3, <2>4, Zenon DEF LoadList
<1>8. CASE TruncateList
  BY <1>8 DEF TruncateList, counts, history
<1>9. CASE WriteList
  <2>1. CASE /\ listFile' = loaded \cup {pkg}
             /\ saved' = saved \cup {pkg}
             /\ UNCHANGED <<failures, lost>>
    BY <1>9, <2>1 DEF WriteList, Return
  <2>2. CASE Fail /\ lost' = TRUE /\ UNCHANGED <<listFile, saved>>
    BY <1>9, <2>2 DEF WriteList, Return
  <2> QED
    BY <1>9, <2>1, <2>2 DEF WriteList
<1>10. CASE UpdateApp
  BY <1>10 DEF UpdateApp, disk, control, history
<1>11. CASE ShowApps
  BY <1>11 DEF ShowApps, disk, control, counts, history
<1>12. CASE Crash
  BY <1>12 DEF Crash, disk
<1>13. CASE UNCHANGED vars
  BY <1>13 DEF vars, disk, control, counts, history
<1> QED
  BY <1>1, <1>2, <1>3, <1>4, <1>5, <1>6, <1>7, <1>8, <1>9, <1>10, <1>11, <1>12, <1>13
     DEF Next, Idle

-----------------------------------------------------------------------------
(* Steps that touch the plugin's directory *)

\* Other packages' directories are as they were.
LEMMA OthersExact ==
  ASSUME TypeOK, InstallIsExact, NEW p \in Packages, unpacked[p] = None,
         NEW d \in [Entries -> Versions \cup {Torn, Absent}],
         dir' = [dir EXCEPT ![p] = d], unpacked' = unpacked
  PROVE  InstallIsExact'
<1> SUFFICES ASSUME NEW q \in Packages, unpacked[q] # None
             PROVE  dir'[q] = Exactly(unpacked[q])
  BY DEF InstallIsExact
<1>1. q # p /\ dir'[q] = dir[q]
  BY DEF TypeOK
<1> QED
  BY <1>1 DEF InstallIsExact

\* A click begins a new history for the package.
LEMMA ClickStep ==
  ASSUME IInv, NEW p \in Packages, ClickInstall(p)
  PROVE  DeletedSoFar' /\ UnpackedSoFar' /\ SaveSoFar' /\ InstallIsExact' /\ SavedStays'
<1> USE NamesAssumption DEF IInv
<1>1. /\ pc = "idle" /\ pc' = "delete" /\ pkg' = p /\ todo' = Files(dir[p])
      /\ unpacked' = [unpacked EXCEPT ![p] = None] /\ dir' = dir /\ listFile' = listFile
      /\ saved' = saved /\ lost' = lost
  BY DEF ClickInstall, Install, disk
<1>2. \A e \in Entries \ Files(dir[p]) : dir[p][e] = Absent
  BY DEF Files
<1>3. DeletedSoFar'
  BY <1>1, <1>2 DEF DeletedSoFar, TypeOK
<1>4. InstallIsExact'
  BY <1>1 DEF InstallIsExact, TypeOK
<1>5. UnpackedSoFar'
  BY <1>1 DEF UnpackedSoFar
<1>6. SaveSoFar' /\ SavedStays'
  <2>1. ~lost' => ~lost
    BY <1>1, Zenon
  <2> QED
    BY <1>1, <2>1 DEF SaveSoFar, SavedStays, Listed
<1> QED
  BY <1>3, <1>4, <1>5, <1>6

\* One file deleted, or not.
LEMMA DeleteStep ==
  ASSUME IInv, DeleteFile
  PROVE  DeletedSoFar' /\ UnpackedSoFar' /\ SaveSoFar' /\ InstallIsExact' /\ SavedStays'
<1> USE NamesAssumption DEF IInv
<1>1. PICK e \in todo :
        /\ pc = "delete" /\ todo' = todo \ {e}
        /\ \/ dir' = [dir EXCEPT ![pkg][e] = Absent] /\ UNCHANGED <<failures, flawed>>
           \/ Fail /\ flawed' = TRUE /\ UNCHANGED dir
  BY DEF DeleteFile
<1>2. /\ pc' = pc /\ pkg' = pkg /\ unpacked' = unpacked /\ listFile' = listFile
      /\ saved' = saved /\ lost' = lost
  BY DEF DeleteFile
<1>3. pkg \in Packages /\ unpacked[pkg] = None /\ e \in Entries
  BY <1>1 DEF TypeOK, DeletedSoFar
<1>4. UnpackedSoFar' /\ SaveSoFar' /\ SavedStays'
  <2>1. ~lost' => ~lost
    BY <1>2, Zenon
  <2> QED
    BY <1>1, <1>2, <2>1 DEF UnpackedSoFar, SaveSoFar, SavedStays, Listed
<1>5. CASE dir' = [dir EXCEPT ![pkg][e] = Absent] /\ UNCHANGED <<failures, flawed>>
  <2> DEFINE d == [dir[pkg] EXCEPT ![e] = Absent]
  <2>1. d \in [Entries -> Versions \cup {Torn, Absent}] /\ dir' = [dir EXCEPT ![pkg] = d]
    BY <1>3, <1>5 DEF TypeOK
  <2>2. ~flawed' => ~flawed
    BY <1>5, Zenon
  <2>3. dir'[pkg] = d /\ \A f \in Entries : d[f] = IF f = e THEN Absent ELSE dir[pkg][f]
    BY <1>3, <1>5 DEF TypeOK
  <2> HIDE DEF d
  <2>4. InstallIsExact'
    BY <1>2, <1>3, <2>1, OthersExact
  <2>5. DeletedSoFar'
    BY <1>1, <1>2, <2>2, <2>3 DEF DeletedSoFar
  <2> QED
    BY <1>4, <2>4, <2>5
<1>6. CASE Fail /\ flawed' = TRUE /\ UNCHANGED dir
  BY <1>1, <1>2, <1>3, <1>4, <1>6 DEF DeletedSoFar, InstallIsExact
<1> QED
  BY <1>1, <1>5, <1>6

\* The APK opens with nothing left in the directory.
LEMMA OpenApkStep ==
  ASSUME IInv, OpenApk
  PROVE  DeletedSoFar' /\ UnpackedSoFar' /\ SaveSoFar' /\ InstallIsExact' /\ SavedStays'
<1> USE NamesAssumption, ApkAssumption DEF IInv
<1>1. /\ pc = "delete" /\ todo = {} /\ dir' = dir /\ listFile' = listFile /\ pkg' = pkg
      /\ known' = known /\ unpacked' = unpacked /\ saved' = saved /\ lost' = lost
      /\ pc' \in {"unpack", "load"}
  BY DEF OpenApk, GiveUp, disk
<1>2. SaveSoFar' /\ SavedStays' /\ DeletedSoFar' /\ InstallIsExact'
  <2>1. ~lost' => ~lost
    BY <1>1, Zenon
  <2> QED
    BY <1>1, <2>1 DEF SaveSoFar, SavedStays, Listed, DeletedSoFar, InstallIsExact
<1>3. CASE pc' = "unpack"
  <2>1. /\ todo' = Apk[known[pkg]] /\ open' = open
        /\ flawed' = flawed
    BY <1>3 DEF OpenApk, GiveUp
  <2>2. ~flawed' => ~flawed
    BY <2>1, Zenon
  <2>3. open' = None /\ pkg \in Packages
    BY <1>1, <2>1 DEF TypeOK
  <2>4. ~flawed' => \A e \in Entries \ (todo' \cup {open'}) : dir'[pkg'][e] = Exactly(known'[pkg'])[e]
    BY <1>1, <2>1, <2>2 DEF DeletedSoFar, Exactly
  <2> QED
    BY <1>1, <1>2, <2>1, <2>3, <2>4 DEF UnpackedSoFar, DeletedSoFar
<1>4. CASE pc' = "load"
  BY <1>2, <1>4 DEF UnpackedSoFar
<1> QED
  BY <1>1, <1>3, <1>4

\* An entry's file is created, and belongs to the APK.
LEMMA OpenEntryStep ==
  ASSUME IInv, OpenEntry
  PROVE  DeletedSoFar' /\ UnpackedSoFar' /\ SaveSoFar' /\ InstallIsExact' /\ SavedStays'
<1> USE NamesAssumption, ApkAssumption DEF IInv
<1>1. PICK e \in todo : /\ pc = "unpack" /\ open = None
                        /\ open' = e /\ todo' = todo \ {e}
                        /\ dir' = [dir EXCEPT ![pkg][e] = Torn]
  BY DEF OpenEntry
<1>2. /\ pc' = pc /\ pkg' = pkg /\ unpacked' = unpacked /\ listFile' = listFile
      /\ known' = known /\ saved' = saved /\ lost' = lost /\ flawed' = flawed /\ loaded' = loaded
  BY DEF OpenEntry, history
<1>3. pkg \in Packages /\ unpacked[pkg] = None /\ e \in Entries
  BY <1>1 DEF TypeOK, UnpackedSoFar
<1>4. (~lost' => ~lost) /\ (~flawed' => ~flawed)
  BY <1>2, Zenon
<1>5. DeletedSoFar' /\ SaveSoFar' /\ SavedStays'
  BY <1>1, <1>2, <1>4 DEF DeletedSoFar, SaveSoFar, SavedStays, Listed
<1> DEFINE d == [dir[pkg] EXCEPT ![e] = Torn]
<1>6. d \in [Entries -> Versions \cup {Torn, Absent}] /\ dir' = [dir EXCEPT ![pkg] = d]
  BY <1>1, <1>3 DEF TypeOK
<1>7. dir'[pkg] = d /\ \A f \in Entries : f # e => d[f] = dir[pkg][f]
  BY <1>1, <1>3 DEF TypeOK
<1> HIDE DEF d
<1>8. InstallIsExact'
  BY <1>2, <1>3, <1>6, OthersExact
<1>9. UnpackedSoFar'
  BY <1>1, <1>2, <1>3, <1>4, <1>7 DEF UnpackedSoFar
<1> QED
  BY <1>5, <1>8, <1>9

\* An entry is copied, or unpacking ends with an exception.
LEMMA CopyEntryStep ==
  ASSUME IInv, CopyEntry
  PROVE  DeletedSoFar' /\ UnpackedSoFar' /\ SaveSoFar' /\ InstallIsExact' /\ SavedStays'
<1> USE NamesAssumption, ApkAssumption DEF IInv
<1>1. /\ pc = "unpack" /\ open # None
      /\ pkg' = pkg /\ unpacked' = unpacked /\ listFile' = listFile
      /\ known' = known /\ saved' = saved /\ lost' = lost /\ loaded' = loaded
  BY DEF CopyEntry
<1>2. pkg \in Packages /\ unpacked[pkg] = None /\ open \in Entries /\ open \in Apk[known[pkg]]
  BY <1>1 DEF TypeOK, UnpackedSoFar
<1>3. ~lost' => ~lost
  BY <1>1, Zenon
<1>4. CASE /\ dir' = [dir EXCEPT ![pkg][open] = known[pkg]]
           /\ open' = None
           /\ UNCHANGED <<pc, todo, failures, flawed>>
  <2> DEFINE d == [dir[pkg] EXCEPT ![open] = known[pkg]]
  <2>1. d \in [Entries -> Versions \cup {Torn, Absent}] /\ dir' = [dir EXCEPT ![pkg] = d]
    BY <1>2, <1>4 DEF TypeOK
  <2>2. dir'[pkg] = d /\ \A f \in Entries : d[f] = IF f = open THEN known[pkg] ELSE dir[pkg][f]
    BY <1>2, <1>4 DEF TypeOK
  <2>3. ~flawed' => ~flawed
    BY <1>4, Zenon
  <2> HIDE DEF d
  <2>4. InstallIsExact'
    BY <1>1, <1>2, <2>1, OthersExact
  <2>5. UnpackedSoFar'
    <3>1. ASSUME ~flawed', NEW e \in Entries \ (todo' \cup {open'})
          PROVE  dir'[pkg'][e] = Exactly(known'[pkg'])[e]
      <4>1. dir'[pkg'][e] = IF e = open THEN known[pkg] ELSE dir[pkg][e]
        BY <1>1, <2>2, <3>1
      <4>2. CASE e = open
        BY <1>1, <1>2, <4>1, <4>2 DEF Exactly
      <4>3. CASE e # open
        BY <1>1, <1>4, <2>3, <3>1, <4>1, <4>3 DEF UnpackedSoFar
      <4> QED
        BY <4>2, <4>3
    <3> QED
      BY <1>1, <1>4, <2>3, <3>1 DEF UnpackedSoFar
  <2>6. DeletedSoFar' /\ SaveSoFar' /\ SavedStays'
    BY <1>1, <1>3, <1>4 DEF DeletedSoFar, SaveSoFar, SavedStays, Listed
  <2> QED
    BY <2>4, <2>5, <2>6
<1>5. CASE Fail /\ GiveUp /\ UNCHANGED dir
  BY <1>1, <1>3, <1>5 DEF GiveUp, DeletedSoFar, UnpackedSoFar, SaveSoFar, InstallIsExact, SavedStays, Listed
<1> QED
  BY <1>4, <1>5 DEF CopyEntry

\* With every entry copied the directory is exactly the APK.
LEMMA FinishStep ==
  ASSUME IInv, FinishUnpack
  PROVE  DeletedSoFar' /\ UnpackedSoFar' /\ SaveSoFar' /\ InstallIsExact' /\ SavedStays'
<1> USE NamesAssumption DEF IInv
<1>1. /\ pc = "unpack" /\ open = None /\ todo = {} /\ pc' = "load"
      /\ dir' = dir /\ listFile' = listFile /\ known' = known /\ saved' = saved /\ lost' = lost
      /\ unpacked' = [unpacked EXCEPT ![pkg] = IF flawed THEN None ELSE known[pkg]]
  BY DEF FinishUnpack, disk
<1>2. ~lost' => ~lost
  BY <1>1, Zenon
<1>3. DeletedSoFar' /\ UnpackedSoFar' /\ SaveSoFar' /\ SavedStays'
  BY <1>1, <1>2 DEF DeletedSoFar, UnpackedSoFar, SaveSoFar, SavedStays, Listed
<1>4. pkg \in Packages /\ pkg \in DOMAIN unpacked
  BY <1>1 DEF TypeOK
<1>5. ~flawed => dir[pkg] = Exactly(known[pkg])
  <2> SUFFICES ASSUME ~flawed PROVE dir[pkg] = Exactly(known[pkg])
    OBVIOUS
  <2>1. \A e \in Entries : dir[pkg][e] = Exactly(known[pkg])[e]
    BY <1>1 DEF UnpackedSoFar, TypeOK
  <2>2. dir[pkg] = [e \in Entries |-> dir[pkg][e]]
    BY <1>4 DEF TypeOK
  <2> QED
    BY <2>1, <2>2 DEF Exactly
<1>6. InstallIsExact'
  <2> SUFFICES ASSUME NEW p \in Packages, unpacked'[p] # None
               PROVE  dir'[p] = Exactly(unpacked'[p])
    BY DEF InstallIsExact
  <2>1. CASE p = pkg
    <3>1. unpacked'[p] = IF flawed THEN None ELSE known[pkg]
      BY <1>1, <1>4, <2>1
    <3>2. ~flawed
      BY <3>1, Zenon
    <3> QED
      BY <1>1, <1>5, <2>1, <3>1, <3>2
  <2>2. CASE p # pkg
    BY <1>1, <2>2 DEF InstallIsExact, TypeOK
  <2> QED
    BY <2>1, <2>2
<1> QED
  BY <1>3, <1>6

-----------------------------------------------------------------------------
(* Steps of saveString, and the world around *)

\* What saveString read is the list, unless it failed or the list was lost before.
LEMMA LoadStep ==
  ASSUME IInv, LoadList
  PROVE  DeletedSoFar' /\ UnpackedSoFar' /\ SaveSoFar' /\ InstallIsExact' /\ SavedStays'
<1> USE NamesAssumption DEF IInv
<1>1. ASSUME NEW list \in SUBSET Packages, NEW unread \in BOOLEAN, LoadAs(list, unread),
             unread \/ list = Listed
      PROVE  DeletedSoFar' /\ UnpackedSoFar' /\ SaveSoFar' /\ InstallIsExact' /\ SavedStays'
  <2>1. /\ pc = "load" /\ pc' \in {"idle", "truncate"} /\ loaded' = list
        /\ dir' = dir /\ listFile' = listFile /\ unpacked' = unpacked
        /\ \/ saved' = saved
           \/ saved' = saved \cup {pkg} /\ pkg \in list
    BY <1>1 DEF LoadAs, Return, disk
  <2>2. ~lost' => ~lost /\ ~unread
    BY <1>1, Zenon DEF LoadAs
  <2>3. ~lost => saved \subseteq Listed
    BY <2>1 DEF SavedStays
  <2> QED
    BY <1>1, <2>1, <2>2, <2>3
       DEF DeletedSoFar, UnpackedSoFar, SaveSoFar, InstallIsExact, SavedStays, Listed
<1>2. Listed \in SUBSET Packages /\ {} \in SUBSET Packages
  BY DEF Listed, TypeOK
<1>3. FALSE \in BOOLEAN /\ TRUE \in BOOLEAN
  OBVIOUS
<1>4. LoadAs(Listed, FALSE) \/ LoadAs({}, TRUE)
  BY Zenon DEF LoadList, Listed
<1> QED
  BY <1>1, <1>2, <1>3, <1>4, Zenon

LEMMA TruncateStep ==
  ASSUME IInv, TruncateList
  PROVE  DeletedSoFar' /\ UnpackedSoFar' /\ SaveSoFar' /\ InstallIsExact' /\ SavedStays'
<1> USE DEF IInv
<1>1. /\ pc = "truncate" /\ pc' = "write" /\ dir' = dir /\ loaded' = loaded
      /\ unpacked' = unpacked /\ saved' = saved /\ lost' = lost
  BY DEF TruncateList, history
<1>2. ~lost' => ~lost
  BY <1>1, Zenon
<1> QED
  BY <1>1, <1>2 DEF DeletedSoFar, UnpackedSoFar, SaveSoFar, InstallIsExact, SavedStays

LEMMA WriteStep ==
  ASSUME IInv, WriteList
  PROVE  DeletedSoFar' /\ UnpackedSoFar' /\ SaveSoFar' /\ InstallIsExact' /\ SavedStays'
<1> USE NamesAssumption DEF IInv
<1>1. /\ pc = "write" /\ pc' = "idle" /\ dir' = dir /\ unpacked' = unpacked
  BY DEF WriteList, Return
<1>2. DeletedSoFar' /\ UnpackedSoFar' /\ InstallIsExact'
  BY <1>1 DEF DeletedSoFar, UnpackedSoFar, InstallIsExact
<1>3. CASE /\ listFile' = loaded \cup {pkg} /\ saved' = saved \cup {pkg}
           /\ UNCHANGED <<failures, lost>>
  <2>1. ~lost' => ~lost
    BY <1>3, Zenon
  <2>2. listFile' \in SUBSET Packages
    BY <1>1, <1>3 DEF TypeOK
  <2> QED
    BY <1>1, <1>2, <1>3, <2>1, <2>2 DEF SaveSoFar, SavedStays, Listed
<1>4. CASE Fail /\ lost' = TRUE /\ UNCHANGED <<listFile, saved>>
  BY <1>1, <1>2, <1>4 DEF SaveSoFar, SavedStays
<1> QED
  BY <1>3, <1>4 DEF WriteList

\* Updates, a new list of apps, and a death that spares the disk.
LEMMA WorldSteps ==
  ASSUME IInv, UpdateApp \/ ShowApps \/ Crash \/ UNCHANGED vars
  PROVE  DeletedSoFar' /\ UnpackedSoFar' /\ SaveSoFar' /\ InstallIsExact' /\ SavedStays'
<1> USE DEF IInv
<1>1. CASE Crash
  <2>1. /\ pc' = "idle" /\ dir' = dir /\ listFile' = listFile /\ unpacked' = unpacked
        /\ saved' = saved
    BY <1>1 DEF Crash, disk
  <2>2. ~lost' => ~lost /\ pc # "write"
    BY <1>1, Zenon DEF Crash
  <2> QED
    BY <2>1, <2>2 DEF DeletedSoFar, UnpackedSoFar, SaveSoFar, InstallIsExact, SavedStays, Listed
<1>2. CASE UpdateApp \/ ShowApps \/ UNCHANGED vars
  <2>1. /\ disk' = disk /\ control' = control /\ history' = history
        /\ known' = known \/ pc = "idle"
    BY <1>2 DEF UpdateApp, ShowApps, vars
  <2>2. (~lost' => ~lost) /\ (~flawed' => ~flawed)
    <3>1. lost' = lost /\ flawed' = flawed
      BY <2>1 DEF history
    <3> QED
      BY <3>1, Zenon
  <2> QED
    BY <2>1, <2>2 DEF DeletedSoFar, UnpackedSoFar, SaveSoFar, InstallIsExact, SavedStays,
       Listed, disk, control, history
<1> QED
  BY <1>1, <1>2

\* Every step preserves the invariant.
LEMMA StepIInv == IInv /\ [Next]_vars => IInv'
<1> SUFFICES ASSUME IInv, [Next]_vars PROVE IInv'
  OBVIOUS
<1>1. TypeOK'
  BY TypeStep DEF IInv
<1> QED
  BY <1>1, ClickStep, DeleteStep, OpenApkStep, OpenEntryStep, CopyEntryStep, FinishStep,
     LoadStep, TruncateStep, WriteStep, WorldSteps DEF Next, Idle, IInv

-----------------------------------------------------------------------------
(* Theorems *)

\* The inductive invariant holds in every reachable state.
THEOREM Invariance == Spec => []IInv
<1>1. Init => IInv
  BY InitIInv
<1>2. IInv /\ [Next]_vars => IInv'
  BY StepIInv
<1> QED
  BY <1>1, <1>2, PTL DEF Spec

\* Every variable keeps its type.
THEOREM TypeCorrect == Spec => []TypeOK
<1>1. IInv => TypeOK
  BY DEF IInv
<1> QED
  BY <1>1, Invariance, PTL

\* An installation that met no failure leaves exactly the APK in the directory.
THEOREM InstallExact == Spec => []InstallIsExact
<1>1. IInv => InstallIsExact
  BY DEF IInv
<1> QED
  BY <1>1, Invariance, PTL

\* A saved package stays listed unless a save was cut short or a read failed.
THEOREM SavedStay == Spec => []SavedStays
<1>1. IInv => SavedStays
  BY DEF IInv
<1> QED
  BY <1>1, Invariance, PTL
=============================================================================
