--------------------------- MODULE LSPlantProofs ---------------------------
(***************************************************************************)
(* Proofs about LSPlant, for any methods, classes, backups and threads.    *)
(***************************************************************************)
EXTENDS LSPlant, TLAPS

\* The two keys of a pair.
TargetEntry(b) == [ref |-> TRUE, other |-> b]
BackupEntry(m) == [ref |-> FALSE, other |-> m]

\* The pair in progress: how far Hook has recorded or UnHook has erased it.
PairInProgress ==
  hookPC # "Idle" =>
    /\ origin[backup] # None
    /\ hooked_methods_[target] =
         IF hookPC \in {"RecordBackup", "RecordDeoptimizedClass", "EmplaceDeoptimized",
                        "RecordDeoptimizedMethod"}
         THEN TargetEntry(backup) ELSE NoEntry
    /\ hooked_methods_[backup] =
         IF hookPC \in {"RecordDeoptimizedClass", "EmplaceDeoptimized",
                        "RecordDeoptimizedMethod", "EraseBackup"}
         THEN BackupEntry(target) ELSE NoEntry
    /\ target \in hooked_classes_[ClassOf[target]]
         <=> hookPC \notin {"DoHook", "RecordClass", "DoUnHook"}

\* All other pairs are recorded completely or not at all.
TargetsPaired ==
  \A m \in Methods : (hookPC # "Idle" => m # target) =>
    /\ Registered(m) <=> m \in hooked_classes_[ClassOf[m]]
    /\ Registered(m) => /\ hooked_methods_[m].other \in Backups
                        /\ hooked_methods_[hooked_methods_[m].other] = BackupEntry(m)
    /\ ~Registered(m) => hooked_methods_[m] = NoEntry

BackupsPaired ==
  \A b \in Backups :
    (hookPC # "Idle" => b # backup) /\ hooked_methods_[b] # NoEntry =>
      /\ origin[b] # None
      /\ hooked_methods_[b].other \in Methods
      /\ hooked_methods_[hooked_methods_[b].other] = TargetEntry(b)

Pairing == PairInProgress /\ TargetsPaired /\ BackupsPaired

-----------------------------------------------------------------------------
\* The two steps of an emplace keep the types of what they write.
LEMMA SubscriptType ==
  ASSUME TypeOK, NEW x \in Emplacers, NEW c \in AllClasses, Subscript(x, c)
  PROVE  /\ keys' \in SUBSET AllClasses /\ exposed' \in SUBSET Emplacers
         /\ UNCHANGED <<deoptimized_methods_set_, deoptimized_classes_, lost>>
BY DEF Subscript, TypeOK

LEMMA EmplaceType ==
  ASSUME TypeOK, NEW x \in Emplacers, NEW c \in AllClasses, NEW a \in ArtMethods, Emplace(x, c, a)
  PROVE  /\ deoptimized_classes_' \in [AllClasses -> SUBSET ArtMethods]
         /\ exposed' \in SUBSET Emplacers /\ lost' \in SUBSET Racing
         /\ UNCHANGED <<deoptimized_methods_set_, keys>>
BY DEF Emplace, Lose, TypeOK

\* emplace adds one record, and what it loses it marks.
LEMMA EmplaceKeeps ==
  ASSUME TypeOK, NEW x, NEW c \in AllClasses, NEW a, Emplace(x, c, a)
  PROVE  /\ \A d \in AllClasses : \A r \in deoptimized_classes_'[d] :
              r \in deoptimized_classes_[d] \/ (d = c /\ r = a)
         /\ \A d \in AllClasses : \A r \in deoptimized_classes_[d] :
              r \in deoptimized_classes_'[d] \/ MethodOf(r) \in lost'
         /\ a \in deoptimized_classes_'[c] \/ MethodOf(a) \in lost'
         /\ lost \subseteq lost' /\ UNCHANGED deoptimized_methods_set_
BY DEF Emplace, Lose, TypeOK

-----------------------------------------------------------------------------
\* The initial states have the types and no pair.
LEMMA InitType == Init => TypeOK
<1> SUFFICES ASSUME Init PROVE TypeOK
  OBVIOUS
<1> USE MethodsAssumption, NamesAssumption DEF Init
<1>1. NoEntry \in [ref : BOOLEAN, other : ArtMethods \cup {None}]
  BY DEF NoEntry
<1>2. entry \in [ArtMethods -> EntryPoints]
  BY DEF EntryPoints, Code
<1>3. /\ deoptimized_methods_set_ \in SUBSET ArtMethods
      /\ backup_methods_ \in SUBSET [thread : Threads, class : AllClasses,
                                     method : ArtMethods, entry : EntryPoints]
      /\ initialized \in SUBSET AllClasses /\ overlap \in SUBSET Methods
      /\ keys \in SUBSET AllClasses /\ exposed \in SUBSET Emplacers /\ lost \in SUBSET Racing
  OBVIOUS
<1>4. \A t \in Threads :
        /\ pc[t] \in InitPC <=> cls[t] # None
        /\ pc[t] = "Restore" <=> todo[t] # {}
        /\ pc[t] \in DeoptimizePC <=> mth[t] # None
        /\ pc[t] = "SetInterpreter" <=> art[t] # None
  BY DEF InitPC, DeoptimizePC
<1> QED
  BY <1>1, <1>2, <1>3, <1>4 DEF TypeOK

\* Every step of Hook and UnHook keeps the types.
LEMMA HookStepType ==
  ASSUME TypeOK, Pairing, HookStep PROVE TypeOK'
<1> USE MethodsAssumption, NamesAssumption DEF TypeOK
<1>0. ASSUME NoteOverlap PROVE overlap' \in SUBSET Methods
  BY <1>0 DEF NoteOverlap
<1>a. Backups \subseteq EntryPoints /\ Backups \subseteq ArtMethods
      /\ Methods \subseteq ArtMethods /\ Backups \subseteq AllClasses
      /\ "Resolution" \in EntryPoints /\ "Code" \in EntryPoints
      /\ NoEntry \in [ref : BOOLEAN, other : ArtMethods \cup {None}]
      /\ None \notin Methods /\ None \notin Backups
  BY DEF EntryPoints, Code, ArtMethods, AllClasses, NoEntry
<1>b. \A m \in Methods : ClassOf[m] \in AllClasses
  BY DEF AllClasses
<1> USE <1>0, <1>a, <1>b
<1> USE DEF HookFrame, records, sets, deoptimized, threads, HookPC, UnHookPC
<1>1. ASSUME NEW m \in Methods, Hook(m) PROVE TypeOK'
  BY <1>1 DEF Hook
<1>2. ASSUME NEW m \in Methods, UnHook(m) PROVE TypeOK'
  <2>1. hooked_methods_[m].other \in Backups
    BY <1>2 DEF UnHook, Pairing, TargetsPaired, Registered
  <2> QED
    BY <1>2, <2>1 DEF UnHook
<1>3. CASE HookFails
  BY <1>3 DEF HookFails, Return
<1>4. CASE DoHook
  BY <1>4 DEF DoHook, Advance
<1>5. CASE RecordClass
  BY <1>5 DEF RecordClass, Advance
<1>6. CASE RecordTarget
  BY <1>6 DEF RecordTarget, Insert, Advance
<1>7. CASE RecordBackup
  BY <1>7 DEF RecordBackup, Insert, Advance
<1>8. CASE RecordDeoptimizedClass
  <2>1. "Hook" \in Emplacers /\ HookerClass \in AllClasses
    BY <1>8 DEF RecordDeoptimizedClass, Advance, Emplacers, HookerClass
  <2>2. /\ keys' \in SUBSET AllClasses /\ exposed' \in SUBSET Emplacers
        /\ UNCHANGED <<deoptimized_methods_set_, deoptimized_classes_, lost>>
    BY <1>8, <2>1, SubscriptType DEF RecordDeoptimizedClass
  <2> QED
    BY <1>8, <2>2 DEF RecordDeoptimizedClass, Advance
<1>13. CASE EmplaceDeoptimized
  <2>1. "Hook" \in Emplacers /\ HookerClass \in AllClasses /\ backup \in ArtMethods
    BY <1>13 DEF EmplaceDeoptimized, Advance, Emplacers, HookerClass
  <2>2. /\ deoptimized_classes_' \in [AllClasses -> SUBSET ArtMethods]
        /\ exposed' \in SUBSET Emplacers /\ lost' \in SUBSET Racing
        /\ UNCHANGED <<deoptimized_methods_set_, keys>>
    BY <1>13, <2>1, EmplaceType DEF EmplaceDeoptimized
  <2> QED
    BY <1>13, <2>2 DEF EmplaceDeoptimized, Advance
<1>9. CASE RecordDeoptimizedMethod
  BY <1>9 DEF RecordDeoptimizedMethod, Return
<1>10. CASE EraseBackup
  BY <1>10 DEF EraseBackup, Advance
<1>11. CASE EraseClass
  BY <1>11 DEF EraseClass, Advance
<1>12. CASE DoUnHook
  BY <1>12 DEF DoUnHook, Return
<1> QED
  BY <1>1, <1>2, <1>3, <1>4, <1>5, <1>6, <1>7, <1>8, <1>9, <1>10, <1>11, <1>12, <1>13 DEF HookStep

\* So does every step of a thread.
LEMMA ThreadStepType ==
  ASSUME TypeOK, NEW t \in Threads, ThreadStep(t) PROVE TypeOK'
<1> USE MethodsAssumption, NamesAssumption DEF TypeOK
<1>0. ASSUME NoteOverlap PROVE overlap' \in SUBSET Methods
  BY <1>0 DEF NoteOverlap
<1>a. /\ Methods \subseteq ArtMethods /\ Backups \subseteq ArtMethods
      /\ None \notin ArtMethods /\ None \notin Methods
      /\ \A m \in Methods : ClassOf[m] \in AllClasses
      /\ {"Interpreter", "Code", "Stub"} \subseteq EntryPoints
  BY DEF ArtMethods, AllClasses, EntryPoints, Code
<1> USE <1>0, <1>a
<1> USE DEF ThreadFrame, records, sets, deoptimized, caller, InitPC, DeoptimizePC
<1>b. t \in Emplacers
  BY DEF Emplacers
<1>1. ASSUME NEW m \in Methods, Deoptimize(t, m) PROVE TypeOK'
  <2>1. /\ keys' \in SUBSET AllClasses /\ exposed' \in SUBSET Emplacers
        /\ UNCHANGED <<deoptimized_methods_set_, deoptimized_classes_, lost>>
    BY <1>1, <1>b, SubscriptType DEF Deoptimize
  <2> QED
    BY <1>1, <2>1 DEF Deoptimize, DeoptimizeFrame, Go
<1>10. CASE EmplaceMethod(t)
  <2>1. mth[t] \in Methods
    BY <1>10 DEF EmplaceMethod, Go
  <2>2. /\ deoptimized_classes_' \in [AllClasses -> SUBSET ArtMethods]
        /\ exposed' \in SUBSET Emplacers /\ lost' \in SUBSET Racing
        /\ UNCHANGED <<deoptimized_methods_set_, keys>>
    BY <1>10, <1>b, <2>1, EmplaceType DEF EmplaceMethod
  <2> QED
    BY <1>10, <2>1, <2>2 DEF EmplaceMethod, DeoptimizeFrame, Go
<1>2. CASE RecordDeoptimized(t)
  BY <1>2 DEF RecordDeoptimized, DeoptimizeFrame, Go
<1>3. CASE FindBackup(t)
  <2> DEFINE b == IsHooked(mth[t], FALSE)
             a == IF b # None THEN b ELSE mth[t]
  <2>1. mth[t] \in Methods
    BY <1>3 DEF FindBackup, Find, Go
  <2>2. b \in ArtMethods \cup {None}
    BY <2>1 DEF IsHooked
  <2>3. a \in ArtMethods
    BY <2>1, <2>2
  <2>4. Find(t, a)
    BY <1>3 DEF FindBackup
  <2> HIDE DEF a, b
  <2> QED
    BY <2>3, <2>4 DEF Find, DeoptimizeFrame, Go
<1>4. CASE SetInterpreter(t)
  BY <1>4 DEF SetInterpreter, DeoptimizeFrame, Go
<1>5. ASSUME NEW c \in AllClasses, SetStatus(t, c) PROVE TypeOK'
  <2>1. \A seen \in SUBSET deoptimized_classes_[c] : ToBackup(c, seen) \subseteq ArtMethods
    BY DEF ToBackup
  <2>2. backup_methods_' \in SUBSET [thread : Threads, class : AllClasses,
                                     method : ArtMethods, entry : EntryPoints]
    BY <1>5, <2>1 DEF SetStatus
  <2>4. lost' \in SUBSET Racing
    BY <1>5 DEF SetStatus, Lose
  <2>3. c # None
    BY <1>5 DEF SetStatus, AllClasses
  <2> QED
    BY <1>5, <2>2, <2>3, <2>4 DEF SetStatus, Go
<1>6. CASE Fixup(t)
  <2>1. entry' \in [ArtMethods -> EntryPoints]
    BY <1>6 DEF Fixup
  <2> QED
    BY <1>6, <2>1 DEF Fixup, InitFrame, Go
<1>7. ASSUME NEW left \in SUBSET Saved, RestoreLeft(t, left), pc[t] \in {"PopBackup", "Restore"},
             backup_methods_' \subseteq backup_methods_, entry' \in [ArtMethods -> EntryPoints]
      PROVE  TypeOK'
  BY <1>7 DEF RestoreLeft, InitFrame
<1>8. CASE PopBackup(t)
  <2>1. {[method |-> s.method, entry |-> s.entry] : s \in {s \in backup_methods_ : s.class = cls[t]}}
          \in SUBSET Saved
    BY DEF Saved
  <2> QED
    BY <1>7, <1>8, <2>1 DEF PopBackup
<1>9. CASE RestoreBackup(t)
  <2>1. PICK s \in todo[t] :
          LET new == entry[s.method]
              isDeoptimized == s.method \in deoptimized_methods_set_
              b == IsHooked(s.method, FALSE)
              restored == [entry EXCEPT ![s.method] = s.entry]
          IN /\ entry' = IF b # None
                         THEN IF ~isDeoptimized /\ new # s.entry
                              THEN [restored EXCEPT ![b] = new] ELSE restored
                         ELSE IF isDeoptimized /\ new # "Interpreter"
                              THEN [entry EXCEPT ![s.method] = "Interpreter"] ELSE restored
             /\ UNCHANGED backup_methods_
             /\ RestoreLeft(t, todo[t] \ {s})
    BY <1>9 DEF RestoreBackup
  <2>2. s \in Saved /\ todo[t] \ {s} \in SUBSET Saved
    BY <2>1
  <2>3. s.method \in ArtMethods /\ s.entry \in EntryPoints /\ entry[s.method] \in EntryPoints
    BY <2>2 DEF Saved
  <2>4. entry' \in [ArtMethods -> EntryPoints]
    BY <2>1, <2>3
  <2>5. RestoreLeft(t, todo[t] \ {s}) /\ backup_methods_' = backup_methods_
    BY <2>1
  <2>6. pc[t] = "Restore"
    BY <1>9 DEF RestoreBackup
  <2> QED
    BY <1>7, <2>2, <2>4, <2>5, <2>6
<1> QED
  BY <1>1, <1>2, <1>3, <1>4, <1>5, <1>6, <1>8, <1>9, <1>10 DEF ThreadStep

\* The instrumentation too.
LEMMA UpdateCodeType ==
  ASSUME TypeOK, NEW a \in ArtMethods, NEW code \in {"Code", "Interpreter"}, UpdateCode(a, code)
  PROVE  TypeOK'
<1>1. code \in EntryPoints
  BY DEF EntryPoints, Code
<1>2. entry' \in [ArtMethods -> EntryPoints]
  BY <1>1 DEF UpdateCode, TypeOK
<1>3. overlap' \in SUBSET Methods
  BY MethodsAssumption DEF UpdateCode
<1> QED
  BY <1>2, <1>3 DEF UpdateCode, TypeOK, records, sets, deoptimized, caller, threads

-----------------------------------------------------------------------------
\* The initial states have no pair, and idle steps keep every pair.
LEMMA InitPairing == Init => Pairing
<1> SUFFICES ASSUME Init PROVE Pairing
  OBVIOUS
<1> USE MethodsAssumption DEF Init
<1>1. \A a \in ArtMethods : hooked_methods_[a] = NoEntry
  OBVIOUS
<1>2. \A m \in Methods : hooked_classes_[ClassOf[m]] = {}
  BY DEF AllClasses
<1> QED
  BY <1>1, <1>2 DEF Pairing, PairInProgress, TargetsPaired, BackupsPaired, Registered,
                    NoEntry, ArtMethods

LEMMA PairingFrame ==
  ASSUME Pairing, UNCHANGED <<records, origin, caller>> PROVE Pairing'
BY DEF Pairing, PairInProgress, TargetsPaired, BackupsPaired, Registered, records, caller

\* A new pair: its backup is fresh, so nothing names it.
LEMMA HookPairing ==
  ASSUME TypeOK, Pairing, NEW m \in Methods, Hook(m) PROVE Pairing'
<1> USE MethodsAssumption, NamesAssumption DEF TypeOK
<1>1. PICK b \in Backups :
        /\ origin[b] = None
        /\ origin' = [origin EXCEPT ![b] = m]
        /\ target' = m /\ backup' = b
  BY DEF Hook
<1>2. /\ hookPC = "Idle" /\ hookPC' = "DoHook" /\ IsHooked(m, TRUE) = None
      /\ UNCHANGED records
  BY DEF Hook
<1>3. UNCHANGED <<hooked_methods_, hooked_classes_>>
  BY <1>2 DEF records
<1>4. m \notin hooked_classes_[ClassOf[m]] /\ hooked_methods_[m] = NoEntry
  BY <1>2 DEF Pairing, TargetsPaired, Registered, IsHooked
<1>5. hooked_methods_[b] = NoEntry
  BY <1>1, <1>2 DEF Pairing, BackupsPaired
<1>6. PairInProgress'
  BY <1>1, <1>2, <1>3, <1>4, <1>5 DEF PairInProgress
<1>7. TargetsPaired'
  BY <1>1, <1>2, <1>3 DEF Pairing, TargetsPaired, Registered
<1>8. BackupsPaired'
  BY <1>1, <1>2, <1>3 DEF Pairing, BackupsPaired
<1> QED
  BY <1>6, <1>7, <1>8 DEF Pairing

\* Erasing a pair begins: no other pair shares its method or its backup.
LEMMA UnHookPairing ==
  ASSUME TypeOK, Pairing, NEW m \in Methods, UnHook(m) PROVE Pairing'
<1> USE MethodsAssumption, NamesAssumption DEF TypeOK
<1> DEFINE b == hooked_methods_[m].other
<1>1. /\ hookPC = "Idle" /\ hookPC' = "EraseBackup" /\ Registered(m)
      /\ target' = m /\ backup' = b
      /\ hooked_methods_' = [hooked_methods_ EXCEPT ![m] = NoEntry]
      /\ UNCHANGED <<hooked_classes_, origin>>
  BY DEF UnHook, Registered
<1>2. b \in Backups /\ hooked_methods_[b] = BackupEntry(m) /\ m \in hooked_classes_[ClassOf[m]]
  BY <1>1 DEF Pairing, TargetsPaired
<1>3. hooked_methods_[b] # NoEntry
  BY <1>2 DEF NoEntry, BackupEntry
<1>4. origin[b] # None
  BY <1>1, <1>2, <1>3 DEF Pairing, BackupsPaired
<1>5. m \in ArtMethods /\ b \in ArtMethods /\ b # m
  BY <1>2 DEF ArtMethods
<1>6. PairInProgress'
  BY <1>1, <1>2, <1>4, <1>5 DEF PairInProgress
<1>7. TargetsPaired'
  <2> SUFFICES ASSUME NEW n \in Methods, n # m
               PROVE  /\ Registered(n)' <=> (n \in hooked_classes_[ClassOf[n]])'
                      /\ Registered(n)' => /\ hooked_methods_'[n].other \in Backups
                                           /\ hooked_methods_'[hooked_methods_'[n].other]
                                                = BackupEntry(n)
                      /\ ~Registered(n)' => hooked_methods_'[n] = NoEntry
    BY <1>1 DEF TargetsPaired
  <2>1. hooked_methods_'[n] = hooked_methods_[n] /\ n \in ArtMethods
    BY <1>1 DEF ArtMethods
  <2>2. ASSUME Registered(n)
        PROVE  hooked_methods_[n].other \in Backups /\ hooked_methods_[n].other # m
    BY <1>1, <2>2 DEF Pairing, TargetsPaired
  <2> QED
    BY <1>1, <2>1, <2>2 DEF Pairing, TargetsPaired, Registered, ArtMethods
<1>8. BackupsPaired'
  <2> SUFFICES ASSUME NEW x \in Backups, x # b, hooked_methods_'[x] # NoEntry
               PROVE  /\ origin'[x] # None
                      /\ hooked_methods_'[x].other \in Methods
                      /\ hooked_methods_'[hooked_methods_'[x].other] = TargetEntry(x)
    BY <1>1 DEF BackupsPaired
  <2>1. hooked_methods_'[x] = hooked_methods_[x]
    BY <1>1 DEF ArtMethods
  <2>2. /\ origin[x] # None /\ hooked_methods_[x].other \in Methods
        /\ hooked_methods_[hooked_methods_[x].other] = TargetEntry(x)
    BY <1>1, <2>1 DEF Pairing, BackupsPaired
  <2>3. hooked_methods_[x].other # m
    BY <2>2 DEF TargetEntry
  <2> QED
    BY <1>1, <2>1, <2>2, <2>3 DEF ArtMethods
<1> QED
  BY <1>6, <1>7, <1>8 DEF Pairing

\* One key of the pair in progress is written: all other pairs stay.
LEMMA KeyPairing ==
  ASSUME TypeOK, Pairing, hookPC # "Idle", hookPC' # "Idle",
         UNCHANGED <<target, backup, origin>>,
         NEW k \in {target, backup},
         NEW r, hooked_methods_' = [hooked_methods_ EXCEPT ![k] = r],
         \A m \in Methods \ {target} :
           m \in hooked_classes_'[ClassOf[m]] <=> m \in hooked_classes_[ClassOf[m]],
         PairInProgress'
  PROVE  Pairing'
<1> USE MethodsAssumption, NamesAssumption DEF TypeOK
<1>1. target \in Methods /\ backup \in Backups
  OBVIOUS
<1>2. \A a \in ArtMethods \ {target, backup} : hooked_methods_'[a] = hooked_methods_[a]
  BY <1>1
<1>3. TargetsPaired'
  <2> SUFFICES ASSUME NEW n \in Methods, n # target
               PROVE  /\ Registered(n)' <=> n \in hooked_classes_'[ClassOf[n]]
                      /\ Registered(n)' => /\ hooked_methods_'[n].other \in Backups
                                           /\ hooked_methods_'[hooked_methods_'[n].other]
                                                = BackupEntry(n)
                      /\ ~Registered(n)' => hooked_methods_'[n] = NoEntry
    BY DEF TargetsPaired
  <2>1. hooked_methods_'[n] = hooked_methods_[n]
    BY <1>1, <1>2 DEF ArtMethods
  <2>2. ASSUME Registered(n)
        PROVE  /\ hooked_methods_[n].other \in Backups
               /\ hooked_methods_[n].other # backup /\ hooked_methods_[n].other # target
               /\ hooked_methods_[hooked_methods_[n].other] = BackupEntry(n)
    <3>1. /\ hooked_methods_[n].other \in Backups
          /\ hooked_methods_[hooked_methods_[n].other] = BackupEntry(n)
      BY <2>2 DEF Pairing, TargetsPaired
    <3>2. hooked_methods_[backup] \in {NoEntry, BackupEntry(target)}
      BY DEF Pairing, PairInProgress
    <3>3. hooked_methods_[backup] # BackupEntry(n)
      BY <1>1, <3>2 DEF NoEntry, BackupEntry
    <3> QED
      BY <1>1, <3>1, <3>3
  <2> QED
    BY <1>2, <2>1, <2>2 DEF Pairing, TargetsPaired, Registered, ArtMethods
<1>4. BackupsPaired'
  <2> SUFFICES ASSUME NEW x \in Backups, x # backup, hooked_methods_'[x] # NoEntry
               PROVE  /\ origin[x] # None
                      /\ hooked_methods_'[x].other \in Methods
                      /\ hooked_methods_'[hooked_methods_'[x].other] = TargetEntry(x)
    BY DEF BackupsPaired
  <2>1. hooked_methods_'[x] = hooked_methods_[x]
    BY <1>1, <1>2 DEF ArtMethods
  <2>2. /\ origin[x] # None /\ hooked_methods_[x].other \in Methods
        /\ hooked_methods_[hooked_methods_[x].other] = TargetEntry(x)
    BY <2>1 DEF Pairing, BackupsPaired
  <2>3. hooked_methods_[target] \in {NoEntry, TargetEntry(backup)}
    BY DEF Pairing, PairInProgress
  <2>4. hooked_methods_[x].other # target
    BY <2>2, <2>3 DEF NoEntry, TargetEntry
  <2> QED
    BY <1>1, <1>2, <2>1, <2>2, <2>4 DEF ArtMethods
<1> QED
  BY <1>3, <1>4 DEF Pairing

\* The pair is recorded completely, or erased completely: it is one of the others.
LEMMA ReturnPairing ==
  ASSUME TypeOK, Pairing, NEW p, Return(p), UNCHANGED <<records, origin>>,
         p \in {"DoHook", "RecordDeoptimizedMethod", "DoUnHook"}
  PROVE  Pairing'
<1> USE MethodsAssumption, NamesAssumption DEF TypeOK
<1>1. /\ hookPC = p /\ hookPC' = "Idle" /\ target \in Methods /\ backup \in Backups
      /\ UNCHANGED <<hooked_methods_, hooked_classes_, origin>>
  BY DEF Return, records
<1>2. PairInProgress
  BY DEF Pairing
<1>3. TargetsPaired'
  <2>1. CASE p = "RecordDeoptimizedMethod"
    <3>1. /\ hooked_methods_[target] = TargetEntry(backup)
          /\ hooked_methods_[backup] = BackupEntry(target)
          /\ target \in hooked_classes_[ClassOf[target]]
      BY <1>1, <1>2, <2>1 DEF PairInProgress
    <3> QED
      BY <1>1, <3>1 DEF Pairing, TargetsPaired, Registered, TargetEntry
  <2>2. CASE p # "RecordDeoptimizedMethod"
    <3>1. hooked_methods_[target] = NoEntry /\ target \notin hooked_classes_[ClassOf[target]]
      BY <1>1, <1>2, <2>2 DEF PairInProgress
    <3>2. ~Registered(target)
      BY <3>1 DEF Registered, NoEntry
    <3> QED
      BY <1>1, <3>1, <3>2 DEF Pairing, TargetsPaired, Registered
  <2> QED
    BY <2>1, <2>2
<1>4. BackupsPaired'
  <2>1. CASE p = "RecordDeoptimizedMethod"
    <3>1. /\ hooked_methods_[target] = TargetEntry(backup)
          /\ hooked_methods_[backup] = BackupEntry(target)
          /\ origin[backup] # None
      BY <1>1, <1>2, <2>1 DEF PairInProgress
    <3> QED
      BY <1>1, <3>1 DEF Pairing, BackupsPaired, BackupEntry
  <2>2. CASE p # "RecordDeoptimizedMethod"
    <3>1. hooked_methods_[backup] = NoEntry
      BY <1>1, <1>2, <2>2 DEF PairInProgress
    <3> QED
      BY <1>1, <3>1 DEF Pairing, BackupsPaired
  <2> QED
    BY <2>1, <2>2
<1> QED
  BY <1>1, <1>3, <1>4 DEF Pairing, PairInProgress

\* Every step of Hook and UnHook keeps the pairing.
LEMMA HookStepPairing ==
  ASSUME TypeOK, Pairing, HookStep PROVE Pairing'
<1> USE MethodsAssumption, NamesAssumption DEF TypeOK
<1>0. /\ Methods \subseteq ArtMethods /\ Backups \subseteq ArtMethods
      /\ \A m \in Methods : ClassOf[m] \in AllClasses
      /\ \A m \in Methods : m \notin Backups
  BY DEF ArtMethods, AllClasses
<1>a. PairInProgress
  BY DEF Pairing
<1>1. ASSUME NEW m \in Methods, Hook(m) \/ UnHook(m) PROVE Pairing'
  BY <1>1, HookPairing, UnHookPairing
<1>2. CASE HookFails
  BY <1>2, ReturnPairing DEF HookFails
<1>3. CASE DoUnHook
  BY <1>3, ReturnPairing DEF DoUnHook
<1>4. CASE RecordDeoptimizedMethod
  BY <1>4, ReturnPairing DEF RecordDeoptimizedMethod
<1>5. CASE DoHook \/ RecordDeoptimizedClass \/ EmplaceDeoptimized
  <2>1. UNCHANGED <<hooked_methods_, hooked_classes_, origin, target, backup>>
    BY <1>5 DEF DoHook, RecordDeoptimizedClass, EmplaceDeoptimized, Advance, records
  <2>2. \/ hookPC = "DoHook" /\ hookPC' = "RecordClass"
        \/ hookPC = "RecordDeoptimizedClass" /\ hookPC' = "EmplaceDeoptimized"
        \/ hookPC = "EmplaceDeoptimized" /\ hookPC' = "RecordDeoptimizedMethod"
    BY <1>5 DEF DoHook, RecordDeoptimizedClass, EmplaceDeoptimized, Advance
  <2> QED
    BY <1>a, <2>1, <2>2 DEF Pairing, PairInProgress, TargetsPaired, BackupsPaired, Registered
<1>6. CASE RecordClass \/ EraseClass
  <2>1. /\ UNCHANGED <<hooked_methods_, origin, target, backup>>
        /\ hookPC # "Idle" /\ hookPC' # "Idle" /\ target \in Methods
    BY <1>6 DEF RecordClass, EraseClass, Advance
  <2>2. \A m \in Methods \ {target} :
          m \in hooked_classes_'[ClassOf[m]] <=> m \in hooked_classes_[ClassOf[m]]
    BY <1>0, <1>6, <2>1 DEF RecordClass, EraseClass, Advance
  <2>3. target \in hooked_classes_'[ClassOf[target]] <=> RecordClass
    BY <1>0, <1>6, <2>1 DEF RecordClass, EraseClass, Advance
  <2>4. PairInProgress'
    <3>1. CASE RecordClass
      BY <1>a, <2>1, <2>3, <3>1 DEF RecordClass, Advance, PairInProgress
    <3>2. CASE EraseClass
      <4>1. hookPC = "EraseClass" /\ hookPC' = "DoUnHook"
        BY <3>2 DEF EraseClass, Advance
      <4>2. ~RecordClass
        BY <4>1 DEF RecordClass, Advance
      <4> QED
        BY <1>a, <2>1, <2>3, <4>1, <4>2 DEF PairInProgress
    <3> QED
      BY <1>6, <3>1, <3>2
  <2>5. hooked_methods_' = [hooked_methods_ EXCEPT ![target] = hooked_methods_[target]]
    BY <1>0, <2>1
  <2> QED
    BY <2>1, <2>2, <2>4, <2>5, KeyPairing
<1>7. CASE RecordTarget
  <2>1. /\ UNCHANGED <<hooked_classes_, origin, target, backup>>
        /\ hookPC = "RecordTarget" /\ hookPC' = "RecordBackup"
        /\ target \in Methods /\ backup \in Backups
    BY <1>7 DEF RecordTarget, Advance
  <2>2. hooked_methods_' = [hooked_methods_ EXCEPT ![target] = TargetEntry(backup)]
    BY <1>a, <1>7, <2>1 DEF RecordTarget, Insert, PairInProgress, TargetEntry
  <2>3. PairInProgress'
    BY <1>0, <1>a, <2>1, <2>2 DEF PairInProgress
  <2> QED
    BY <2>1, <2>2, <2>3, KeyPairing
<1>8. CASE RecordBackup
  <2>1. /\ UNCHANGED <<hooked_classes_, origin, target, backup>>
        /\ hookPC = "RecordBackup" /\ hookPC' = "RecordDeoptimizedClass"
        /\ target \in Methods /\ backup \in Backups
    BY <1>8 DEF RecordBackup, Advance
  <2>2. hooked_methods_' = [hooked_methods_ EXCEPT ![backup] = BackupEntry(target)]
    BY <1>a, <1>8, <2>1 DEF RecordBackup, Insert, PairInProgress, BackupEntry
  <2>3. PairInProgress'
    BY <1>0, <1>a, <2>1, <2>2 DEF PairInProgress
  <2> QED
    BY <2>1, <2>2, <2>3, KeyPairing
<1>9. CASE EraseBackup
  <2>1. /\ UNCHANGED <<hooked_classes_, origin, target, backup>>
        /\ hookPC = "EraseBackup" /\ hookPC' = "EraseClass"
        /\ target \in Methods /\ backup \in Backups
        /\ hooked_methods_' = [hooked_methods_ EXCEPT ![backup] = NoEntry]
    BY <1>9 DEF EraseBackup, Advance
  <2>2. PairInProgress'
    BY <1>0, <1>a, <2>1 DEF PairInProgress
  <2> QED
    BY <2>1, <2>2, KeyPairing
<1> QED
  BY <1>1, <1>2, <1>3, <1>4, <1>5, <1>6, <1>7, <1>8, <1>9 DEF HookStep

-----------------------------------------------------------------------------
IInv == TypeOK /\ Pairing

\* Types and pairing are inductive together.
THEOREM Invariance == Spec => []IInv
<1>1. Init => IInv
  BY InitType, InitPairing DEF IInv
<1>2. ASSUME IInv, [Next]_vars PROVE IInv'
  <2>1. CASE HookStep
    BY <1>2, <2>1, HookStepType, HookStepPairing DEF IInv
  <2>2. ASSUME NEW t \in Threads, ThreadStep(t) PROVE IInv'
    <3>1. UNCHANGED <<records, origin, caller>>
      BY <2>2 DEF ThreadStep, Deoptimize, EmplaceMethod, RecordDeoptimized, FindBackup, Find, SetInterpreter,
                  SetStatus, Fixup, PopBackup, RestoreBackup, RestoreLeft,
                  DeoptimizeFrame, InitFrame, ThreadFrame
    <3> QED
      BY <1>2, <2>2, <3>1, ThreadStepType, PairingFrame DEF IInv
  <2>3. ASSUME NEW a \in ArtMethods, NEW code \in {"Code", "Interpreter"}, UpdateCode(a, code)
        PROVE  IInv'
    <3>1. UNCHANGED <<records, origin, caller>>
      BY <2>3 DEF UpdateCode
    <3> QED
      BY <1>2, <2>3, <3>1, UpdateCodeType, PairingFrame DEF IInv
  <2>4. CASE UNCHANGED vars
    <3>1. TypeOK'
      BY <1>2, <2>4 DEF IInv, TypeOK, vars, records, sets, deoptimized, caller, threads
    <3>2. UNCHANGED <<records, origin, caller>>
      BY <2>4 DEF vars
    <3> QED
      BY <1>2, <3>1, <3>2, PairingFrame DEF IInv
  <2> QED
    BY <1>2, <2>1, <2>2, <2>3, <2>4 DEF Next
<1> QED
  BY <1>1, <1>2, PTL DEF Spec

\* Every variable of the engine keeps its type.
THEOREM TypeCorrect == Spec => []TypeOK
BY Invariance, PTL DEF IInv

\* Between two calls of Hook and UnHook the records agree with each other,
\* although both write them one by one.
THEOREM RecordsAgree == Spec => []RegistryPaired
<1>1. IInv => RegistryPaired
  BY DEF IInv, Pairing, TargetsPaired, BackupsPaired, RegistryPaired, TargetEntry, BackupEntry
<1> QED
  BY <1>1, Invariance, PTL

-----------------------------------------------------------------------------
(* What the threads and the records of deoptimized methods keep *)

\* A class is initialised once, by one thread; a generated class has its hook.
InitsUnique ==
  /\ \A t \in Threads : pc[t] \in InitPC =>
       cls[t] \in initialized /\ (cls[t] \in Backups => origin[cls[t]] # None)
  /\ \A t, u \in Threads : pc[t] \in InitPC /\ pc[u] \in InitPC /\ cls[t] = cls[u] => t = u

\* What is saved is of the class that its thread is initialising.
SavedLive ==
  /\ \A s \in backup_methods_ :
       /\ Location(s.method) = s.class /\ IsStatic(s.method)
       /\ \E t \in Threads : cls[t] = s.class /\ pc[t] \in {"Fixup", "PopBackup"}
  /\ \A t \in Threads : \A s \in todo[t] : Location(s.method) = cls[t] /\ IsStatic(s.method)

\* The lists of a class have methods of the class.
ClassLists ==
  /\ \A c \in AllClasses : \A a \in hooked_classes_[c] : ClassOf[a] = c
  /\ \A c \in AllClasses : \A a \in deoptimized_classes_[c] : Location(a) = c

\* The records, and the method Deoptimize has found, lead from a method to a
\* backup that was built for it, and back.
Families ==
  /\ \A m \in Methods : hooked_methods_[m].other # None =>
       hooked_methods_[m].other \in Backups /\ origin[hooked_methods_[m].other] = m
  /\ \A b \in Backups : hooked_methods_[b].other # None => hooked_methods_[b].other = origin[b]
  /\ hookPC # "Idle" => origin[backup] = target
  /\ \A t \in Threads : pc[t] = "SetInterpreter" =>
       art[t] = mth[t] \/ (art[t] \in Backups /\ origin[art[t]] = mth[t])

\* A method is in both records of deoptimized methods, or on its way there, or
\* marked as lost.
DeoptRecorded ==
  /\ \A t \in Threads : pc[t] \in DeoptimizePC \ {"Emplace"} =>
       mth[t] \in deoptimized_classes_[ClassOf[mth[t]]] \/ mth[t] \in lost
  /\ \A t \in Threads : pc[t] \in {"FindBackup", "SetInterpreter"} =>
       mth[t] \in deoptimized_methods_set_
  /\ \A m \in Methods : m \in deoptimized_methods_set_ =>
       m \in deoptimized_classes_[ClassOf[m]] \/ m \in lost
  /\ \A m \in Methods : m \in deoptimized_classes_[ClassOf[m]] =>
       m \in deoptimized_methods_set_ \/ \E t \in Threads : DeoptimizeActive(t, m)

\* The backup of a hooked method counts as deoptimized, and so the interceptors
\* leave its entry point alone.
Shielded(m, b) ==
  b \in deoptimized_methods_set_ /\ (b \in deoptimized_classes_[b] \/ m \in lost)

BackupsShielded ==
  /\ \A m \in Methods : Registered(m) /\ ~(target = m /\ hookPC \in HookPC) =>
       Shielded(m, hooked_methods_[m].other)
  /\ hookPC \in UnHookPC => Shielded(target, backup)
  /\ hookPC = "RecordDeoptimizedMethod" =>
       backup \in deoptimized_classes_[backup] \/ target \in lost

\* Contention leaves its mark.
Exclusive == \A m \in Methods \ overlap : ~Contended(m)

Structure == InitsUnique /\ SavedLive /\ ClassLists /\ Families /\ DeoptRecorded
             /\ BackupsShielded /\ Exclusive

-----------------------------------------------------------------------------
\* The initial states: nothing is saved, recorded or at work.
LEMMA InitStructure == Init => Structure
<1> SUFFICES ASSUME Init PROVE Structure
  OBVIOUS
<1> USE MethodsAssumption, NamesAssumption DEF Init
<1>1. InitsUnique /\ SavedLive /\ ClassLists
  BY DEF InitsUnique, SavedLive, ClassLists, InitPC
<1>2. \A a \in ArtMethods : hooked_methods_[a] = NoEntry
  OBVIOUS
<1>3. Families /\ BackupsShielded
  BY <1>2 DEF Families, BackupsShielded, Registered, NoEntry, ArtMethods, UnHookPC
<1>4. \A m \in Methods : m \notin deoptimized_classes_[ClassOf[m]]
  BY DEF AllClasses
<1>5. DeoptRecorded
  BY <1>4 DEF DeoptRecorded, DeoptimizePC
<1>6. Exclusive
  BY DEF Exclusive, Contended, HookActive, InitActive, HookPC, UnHookPC, InitPC
<1> QED
  BY <1>1, <1>3, <1>5, <1>6 DEF Structure

\* Marks are never removed, and every step of the hook engine leaves its own.
LEMMA NoteKeeps ==
  ASSUME NoteOverlap PROVE Exclusive' /\ overlap \subseteq overlap'
BY DEF NoteOverlap, Exclusive

\* The steps of Hook and UnHook change nothing of the threads, and origin for
\* a fresh backup only.
LEMMA HookStepFrame ==
  ASSUME HookStep
  PROVE  /\ UNCHANGED <<backup_methods_, initialized, pc, cls, todo, mth, art>>
         /\ NoteOverlap
         /\ \/ UNCHANGED origin
            \/ \E m \in Methods : Hook(m)
BY DEF HookStep, Hook, UnHook, HookFails, DoHook, RecordClass, RecordTarget, RecordBackup,
       RecordDeoptimizedClass, EmplaceDeoptimized, RecordDeoptimizedMethod, EraseBackup, EraseClass,
       DoUnHook, HookFrame, threads

\* A backup keeps its method.
LEMMA OriginGrows ==
  ASSUME TypeOK, HookStep
  PROVE  /\ \A b \in Backups : origin[b] # None => origin'[b] = origin[b]
         /\ \A a \in ArtMethods : IsStatic(a) => IsStatic(a)'
<1> USE MethodsAssumption, NamesAssumption DEF TypeOK
<1>1. \A b \in Backups : origin[b] # None => origin'[b] = origin[b]
  BY HookStepFrame DEF Hook
<1> QED
  BY <1>1 DEF IsStatic

\* What Hook adds to the records of deoptimized methods, and what is lost.
LEMMA HookRecords ==
  ASSUME TypeOK, HookStep
  PROVE  /\ \A d \in AllClasses : \A a \in deoptimized_classes_'[d] :
              a \in deoptimized_classes_[d] \/ (EmplaceDeoptimized /\ d = backup /\ a = backup)
         /\ \A d \in AllClasses : \A a \in deoptimized_classes_[d] :
              a \in deoptimized_classes_'[d] \/ MethodOf(a) \in lost'
         /\ lost \subseteq lost'
         /\ \/ UNCHANGED deoptimized_methods_set_
            \/ /\ RecordDeoptimizedMethod
               /\ deoptimized_methods_set_' = deoptimized_methods_set_ \cup {backup}
<1>1. CASE EmplaceDeoptimized
  <2>1. backup \in AllClasses /\ Emplace("Hook", backup, backup)
    BY <1>1 DEF EmplaceDeoptimized, Advance, TypeOK, AllClasses, HookerClass
  <2> QED
    BY <1>1, <2>1, EmplaceKeeps
<1>2. CASE UNCHANGED <<deoptimized_classes_, lost>>
  BY <1>2 DEF HookStep, Hook, UnHook, HookFails, DoHook, RecordClass, RecordTarget, RecordBackup,
       RecordDeoptimizedClass, Subscript, EmplaceDeoptimized, Emplace, RecordDeoptimizedMethod,
       EraseBackup, EraseClass, DoUnHook, sets, deoptimized
<1> QED
  BY <1>1, <1>2 DEF HookStep, Hook, UnHook, HookFails, DoHook, RecordClass, RecordTarget,
       RecordBackup, RecordDeoptimizedClass, Subscript, RecordDeoptimizedMethod,
       EraseBackup, EraseClass, DoUnHook, sets, deoptimized

LEMMA HookInits ==
  ASSUME TypeOK, InitsUnique, HookStep PROVE InitsUnique'
BY HookStepFrame, OriginGrows DEF InitsUnique, TypeOK, InitPC

LEMMA HookSaved ==
  ASSUME TypeOK, SavedLive, HookStep PROVE SavedLive'
<1>1. UNCHANGED <<backup_methods_, pc, cls, todo>>
  BY HookStepFrame
<1>2. /\ \A s \in backup_methods_ : s.method \in ArtMethods
      /\ \A t \in Threads : \A s \in todo[t] : s.method \in ArtMethods
  BY DEF TypeOK, Saved
<1> QED
  BY <1>1, <1>2, OriginGrows DEF SavedLive, Location

LEMMA HookLists ==
  ASSUME TypeOK, ClassLists, HookStep PROVE ClassLists'
<1> USE MethodsAssumption, NamesAssumption DEF TypeOK
<1>0. \A b \in Backups : Location(b) = b
  BY DEF Location
<1>1. \A c \in AllClasses : \A a \in hooked_classes_'[c] : ClassOf[a] = c
  <2>1. CASE RecordClass \/ EraseClass
    BY <2>1 DEF RecordClass, EraseClass, ClassLists, Advance
  <2>2. CASE UNCHANGED hooked_classes_
    BY <2>2 DEF ClassLists
  <2> QED
    BY <2>1, <2>2 DEF HookStep, Hook, UnHook, HookFails, DoHook, RecordTarget, RecordBackup,
       RecordDeoptimizedClass, EmplaceDeoptimized, RecordDeoptimizedMethod, EraseBackup, DoUnHook,
       records
<1>2. EmplaceDeoptimized => backup \in Backups
  BY DEF EmplaceDeoptimized, Advance
<1>3. \A c \in AllClasses : \A a \in deoptimized_classes_'[c] : Location(a) = c
  BY <1>0, <1>2, HookRecords DEF ClassLists
<1> QED
  BY <1>1, <1>3 DEF ClassLists, Location

LEMMA HookFamilies ==
  ASSUME TypeOK, Pairing, Families, HookStep PROVE Families'
<1> USE MethodsAssumption, NamesAssumption DEF TypeOK
<1>0. /\ Methods \subseteq ArtMethods /\ Backups \subseteq ArtMethods
      /\ \A m \in Methods : m \notin Backups /\ m # None
      /\ None \notin Backups /\ None \notin Methods /\ NoEntry.other = None
  BY DEF ArtMethods, NoEntry
<1>1. ASSUME NEW m \in Methods, Hook(m) PROVE Families'
  <2>1. PICK b \in Backups : /\ origin[b] = None /\ origin' = [origin EXCEPT ![b] = m]
                             /\ target' = m /\ backup' = b
    BY <1>1 DEF Hook
  <2>2. UNCHANGED <<hooked_methods_, pc, mth, art>>
    BY <1>1 DEF Hook, records, HookFrame, threads
  <2>3. \A n \in Methods : hooked_methods_[n].other # b
    BY <1>0, <2>1 DEF Families
  <2>4. hooked_methods_[b].other = None
    BY <1>0, <2>1 DEF Families
  <2>5. \A t \in Threads : pc[t] = "SetInterpreter" => art[t] # b
    BY <1>0, <2>1 DEF Families, DeoptimizePC
  <2> QED
    BY <1>0, <2>1, <2>2, <2>3, <2>4, <2>5 DEF Families
<1>2. ASSUME NEW m \in Methods, UnHook(m) PROVE Families'
  <2>1. /\ hooked_methods_' = [hooked_methods_ EXCEPT ![m] = NoEntry]
        /\ target' = m /\ backup' = hooked_methods_[m].other
        /\ UNCHANGED <<origin, pc, mth, art>>
    BY <1>2 DEF UnHook, HookFrame, threads
  <2>2. hooked_methods_[m].other \in Backups
    BY <1>2 DEF UnHook, Pairing, TargetsPaired, Registered
  <2> QED
    BY <1>0, <2>1, <2>2 DEF Families
<1>3. CASE RecordTarget \/ RecordBackup \/ EraseBackup
  <2>1. /\ UNCHANGED <<origin, pc, mth, art, target, backup>>
        /\ target \in Methods /\ backup \in Backups /\ origin[backup] = target
    BY <1>3, HookStepFrame DEF RecordTarget, RecordBackup, EraseBackup, Advance, Families
  <2>2. CASE RecordTarget
    <3>1. hooked_methods_' \in {hooked_methods_,
                                [hooked_methods_ EXCEPT ![target] = TargetEntry(backup)]}
      BY <2>2 DEF RecordTarget, Insert, TargetEntry
    <3> QED
      BY <1>0, <2>1, <2>2, <3>1 DEF Families, RecordTarget, Advance, TargetEntry
  <2>3. CASE RecordBackup
    <3>1. hooked_methods_' \in {hooked_methods_,
                                [hooked_methods_ EXCEPT ![backup] = BackupEntry(target)]}
      BY <2>3 DEF RecordBackup, Insert, BackupEntry
    <3> QED
      BY <1>0, <2>1, <2>3, <3>1, SMTT(60) DEF Families, RecordBackup, Advance, BackupEntry
  <2>4. CASE EraseBackup
    BY <1>0, <2>1, <2>4 DEF Families, EraseBackup, Advance
  <2> QED
    BY <1>3, <2>2, <2>3, <2>4
<1>4. CASE UNCHANGED <<hooked_methods_, origin>> /\ (hookPC' # "Idle" => hookPC # "Idle"
                         /\ UNCHANGED <<target, backup>>)
  <2>1. UNCHANGED <<pc, mth, art>>
    BY HookStepFrame
  <2> QED
    BY <1>4, <2>1 DEF Families
<1> QED
  BY <1>1, <1>2, <1>3, <1>4 DEF HookStep, HookFails, DoHook, RecordClass,
       RecordDeoptimizedClass, EmplaceDeoptimized, RecordDeoptimizedMethod, EraseClass, DoUnHook,
       records, Advance, Return

LEMMA HookDeopt ==
  ASSUME TypeOK, DeoptRecorded, HookStep PROVE DeoptRecorded'
<1> USE MethodsAssumption, NamesAssumption DEF TypeOK
<1>1. UNCHANGED <<pc, mth>>
  BY HookStepFrame
<1>2. \A m \in Methods : m \in ArtMethods /\ m \notin Backups /\ ClassOf[m] \in AllClasses
                         /\ ClassOf[m] \notin Backups
  BY DEF ArtMethods, AllClasses
<1>5. RecordDeoptimizedMethod \/ EmplaceDeoptimized => backup \in Backups
  BY DEF RecordDeoptimizedMethod, EmplaceDeoptimized, Advance, Return
<1>3. \A m \in Methods :
        /\ m \in deoptimized_methods_set_' <=> m \in deoptimized_methods_set_
        /\ m \in deoptimized_classes_'[ClassOf[m]] => m \in deoptimized_classes_[ClassOf[m]]
        /\ m \in deoptimized_classes_[ClassOf[m]] =>
             m \in deoptimized_classes_'[ClassOf[m]] \/ m \in lost'
        /\ m \in lost => m \in lost'
  BY <1>2, <1>5, HookRecords DEF MethodOf
<1>4. \A t \in Threads : pc[t] \in DeoptimizePC => mth[t] \in Methods
  OBVIOUS
<1> QED
  BY <1>1, <1>3, <1>4 DEF DeoptRecorded, DeoptimizeActive, DeoptimizePC

LEMMA HookShielded ==
  ASSUME TypeOK, Pairing, Families, BackupsShielded, HookStep PROVE BackupsShielded'
<1> USE MethodsAssumption, NamesAssumption DEF TypeOK
<1>0. /\ Methods \subseteq ArtMethods /\ Backups \subseteq ArtMethods
      /\ Backups \subseteq AllClasses
      /\ \A m \in Methods : m \notin Backups /\ m # None
  BY DEF ArtMethods, AllClasses
<1>1. \A m \in Methods, b \in Backups : origin[b] = m /\ Shielded(m, b) => Shielded(m, b)'
  <2>1. \A b \in Backups : b \in AllClasses /\ MethodOf(b) = origin[b]
    BY <1>0 DEF MethodOf
  <2> QED
    BY <2>1, HookRecords DEF Shielded
<1>2. \A m \in Methods : Registered(m) =>
        hooked_methods_[m].other \in Backups /\ origin[hooked_methods_[m].other] = m
  <2>1. \A m \in Methods : Registered(m) => hooked_methods_[m].other \in Backups
    BY DEF Pairing, PairInProgress, TargetsPaired, Registered, TargetEntry, NoEntry
  <2> QED
    BY <2>1 DEF Families
<1>10. hookPC # "Idle" => target \in Methods /\ backup \in Backups /\ origin[backup] = target
  BY DEF Families
<1>3. ASSUME NEW m \in Methods, Hook(m) PROVE BackupsShielded'
  BY <1>0, <1>1, <1>2, <1>10, <1>3 DEF Hook, BackupsShielded, Registered, records, HookPC, UnHookPC
<1>4. ASSUME NEW m \in Methods, UnHook(m) PROVE BackupsShielded'
  <2>1. /\ hooked_methods_' = [hooked_methods_ EXCEPT ![m] = NoEntry]
        /\ target' = m /\ backup' = hooked_methods_[m].other /\ hookPC = "Idle" /\ hookPC' = "EraseBackup"
        /\ Registered(m)
    BY <1>4 DEF UnHook, Registered
  <2>2. \A n \in Methods : Registered(n)' => Registered(n) /\ hooked_methods_'[n] = hooked_methods_[n]
    BY <1>0, <2>1 DEF Registered, NoEntry
  <2> QED
    BY <1>0, <1>1, <1>2, <1>10, <2>1, <2>2 DEF BackupsShielded, HookPC, UnHookPC
<1>5. CASE RecordTarget
  <2>1. /\ hooked_methods_' \in {hooked_methods_,
                                 [hooked_methods_ EXCEPT ![target] = TargetEntry(backup)]}
        /\ hookPC = "RecordTarget" /\ hookPC' = "RecordBackup" /\ UNCHANGED <<target, backup>>
    BY <1>5 DEF RecordTarget, Insert, TargetEntry, Advance
  <2> QED
    BY <1>0, <1>1, <1>2, <1>10, <2>1 DEF BackupsShielded, HookPC, UnHookPC, Registered
<1>6. CASE RecordBackup \/ EraseBackup
  <2>1. /\ \E r : hooked_methods_' \in {hooked_methods_, [hooked_methods_ EXCEPT ![backup] = r]}
        /\ \/ hookPC = "RecordBackup" /\ hookPC' = "RecordDeoptimizedClass"
           \/ hookPC = "EraseBackup" /\ hookPC' = "EraseClass"
        /\ UNCHANGED <<target, backup>>
    BY <1>6 DEF RecordBackup, EraseBackup, Insert, Advance
  <2>2. \A n \in Methods : hooked_methods_'[n] = hooked_methods_[n]
    BY <1>0, <2>1
  <2> QED
    BY <1>0, <1>1, <1>2, <1>10, <2>1, <2>2 DEF BackupsShielded, HookPC, UnHookPC, Registered
<1>7. CASE RecordDeoptimizedClass
  <2>1. /\ UNCHANGED <<hooked_methods_, target, backup>>
        /\ hookPC = "RecordDeoptimizedClass" /\ hookPC' = "EmplaceDeoptimized"
    BY <1>7 DEF RecordDeoptimizedClass, Advance, records
  <2> QED
    BY <1>0, <1>1, <1>2, <1>10, <2>1 DEF BackupsShielded, HookPC, UnHookPC, Registered
<1>11. CASE EmplaceDeoptimized
  <2>1. /\ UNCHANGED <<hooked_methods_, target, backup>>
        /\ hookPC = "EmplaceDeoptimized" /\ hookPC' = "RecordDeoptimizedMethod"
        /\ Emplace("Hook", backup, backup)
    BY <1>11 DEF EmplaceDeoptimized, Advance, records, HookerClass
  <2>2. MethodOf(backup) = target /\ backup \in AllClasses
    BY <1>0, <1>10, <2>1 DEF MethodOf
  <2>3. backup \in deoptimized_classes_'[backup] \/ target \in lost'
    BY <2>1, <2>2, EmplaceKeeps
  <2> QED
    BY <1>0, <1>1, <1>2, <1>10, <2>1, <2>3 DEF BackupsShielded, HookPC, UnHookPC, Registered
<1>8. CASE RecordDeoptimizedMethod
  <2>1. /\ UNCHANGED hooked_methods_ /\ hookPC = "RecordDeoptimizedMethod" /\ hookPC' = "Idle"
        /\ backup \in deoptimized_methods_set_'
        /\ backup \in deoptimized_classes_'[backup] \/ target \in lost'
        /\ backup \in Backups /\ hooked_methods_[target].other = backup
    BY <1>0, <1>8 DEF RecordDeoptimizedMethod, Return, records, BackupsShielded,
                      Pairing, PairInProgress, TargetEntry
  <2> QED
    BY <1>0, <1>1, <1>2, <1>10, <2>1 DEF BackupsShielded, Shielded, HookPC, UnHookPC, Registered
<1>9. CASE HookFails \/ DoHook \/ RecordClass \/ EraseClass \/ DoUnHook
  <2>1. /\ UNCHANGED hooked_methods_
        /\ hookPC' \in UnHookPC => hookPC \in UnHookPC /\ UNCHANGED <<target, backup>>
        /\ hookPC' # "RecordDeoptimizedMethod"
        /\ target \in Methods
        /\ hookPC \in HookPC => hookPC' \in HookPC /\ UNCHANGED target
        /\ hookPC = "DoHook" => ~Registered(target)
    BY <1>9 DEF HookFails, DoHook, RecordClass, EraseClass, DoUnHook, Advance, Return, records,
                UnHookPC, HookPC, Pairing, PairInProgress, Registered, NoEntry
  <2> QED
    BY <1>0, <1>1, <1>2, <1>10, <2>1 DEF BackupsShielded, Registered
<1> QED
  BY <1>3, <1>4, <1>5, <1>6, <1>7, <1>8, <1>9, <1>11 DEF HookStep

\* Every step of Hook and UnHook keeps the structure.
LEMMA HookStructure ==
  ASSUME TypeOK, Pairing, Structure, HookStep PROVE Structure'
BY HookInits, HookSaved, HookLists, HookFamilies, HookDeopt, HookShielded, HookStepFrame, NoteKeeps
   DEF Structure

-----------------------------------------------------------------------------
\* What the steps of the threads leave alone.
LEMMA ThreadStepFrame ==
  ASSUME NEW t \in Threads, ThreadStep(t)
  PROVE  /\ UNCHANGED <<hooked_methods_, hooked_classes_, origin, hookPC, target, backup>>
         /\ NoteOverlap
BY DEF ThreadStep, Deoptimize, EmplaceMethod, RecordDeoptimized, FindBackup, Find, SetInterpreter, SetStatus,
       Fixup, PopBackup, RestoreBackup, RestoreLeft, DeoptimizeFrame, InitFrame, ThreadFrame,
       records, caller

\* The steps of Deoptimize, and those of an initialisation.
DeoptimizeStep(t) ==
  \/ \E m \in Methods : Deoptimize(t, m)
  \/ EmplaceMethod(t) \/ RecordDeoptimized(t) \/ FindBackup(t) \/ SetInterpreter(t)
InitStep(t) == (\E c \in AllClasses : SetStatus(t, c)) \/ Fixup(t) \/ PopBackup(t) \/ RestoreBackup(t)

LEMMA ThreadInits ==
  ASSUME TypeOK, InitsUnique, NEW t \in Threads, ThreadStep(t) PROVE InitsUnique'
<1> USE DEF TypeOK
<1>0. UNCHANGED origin
  BY ThreadStepFrame
<1>1. CASE DeoptimizeStep(t)
  <2>1. UNCHANGED <<initialized, cls>>
    BY <1>1 DEF DeoptimizeStep, Deoptimize, EmplaceMethod, RecordDeoptimized, FindBackup, Find,
       SetInterpreter, DeoptimizeFrame
  <2>2. \A u \in Threads : pc'[u] \in InitPC <=> pc[u] \in InitPC
    BY <1>1, ZenonT(60) DEF DeoptimizeStep, Deoptimize, EmplaceMethod, RecordDeoptimized, FindBackup, Find,
       SetInterpreter, Go, InitPC
  <2> QED
    BY <1>0, <2>1, <2>2 DEF InitsUnique
<1>2. ASSUME NEW c \in AllClasses, SetStatus(t, c) PROVE InitsUnique'
  BY <1>0, <1>2 DEF SetStatus, Go, InitsUnique, InitPC
<1>3. CASE Fixup(t)
  BY <1>0, <1>3 DEF Fixup, Go, InitsUnique, InitPC
<1>4. ASSUME NEW left, RestoreLeft(t, left), pc[t] \in InitPC PROVE InitsUnique'
  BY <1>0, <1>4 DEF RestoreLeft, InitsUnique, InitPC
<1>5. CASE PopBackup(t) \/ RestoreBackup(t)
  BY <1>4, <1>5 DEF PopBackup, RestoreBackup, InitPC
<1> QED
  BY <1>1, <1>2, <1>3, <1>5 DEF ThreadStep, DeoptimizeStep

LEMMA ThreadSaved ==
  ASSUME TypeOK, InitsUnique, ClassLists, SavedLive, NEW t \in Threads, ThreadStep(t) PROVE SavedLive'
<1> USE DEF TypeOK
<1>0. \A a : (Location(a) = Location(a)') /\ (IsStatic(a) = IsStatic(a)')
  BY ThreadStepFrame DEF Location, IsStatic
<1>1. CASE DeoptimizeStep(t)
  <2>1. UNCHANGED <<backup_methods_, cls, todo>>
    BY <1>1 DEF DeoptimizeStep, Deoptimize, EmplaceMethod, RecordDeoptimized, FindBackup, Find,
       SetInterpreter, DeoptimizeFrame
  <2>2. \A u \in Threads : pc[u] \in {"Fixup", "PopBackup"} => pc'[u] = pc[u]
    BY <1>1 DEF DeoptimizeStep, Deoptimize, EmplaceMethod, RecordDeoptimized, FindBackup, Find,
       SetInterpreter, Go
  <2> QED
    BY <1>0, <2>1, <2>2 DEF SavedLive
<1>2. ASSUME NEW c \in AllClasses, SetStatus(t, c) PROVE SavedLive'
  <2>1. PICK seen \in SUBSET deoptimized_classes_[c] :
        /\ pc[t] = "Idle" /\ pc' = [pc EXCEPT ![t] = "Fixup"] /\ cls' = [cls EXCEPT ![t] = c]
        /\ UNCHANGED todo
        /\ backup_methods_' = backup_methods_ \cup
             {[thread |-> t, class |-> c, method |-> a, entry |-> entry[a]] : a \in ToBackup(c, seen)}
    BY <1>2 DEF SetStatus, Go
  <2>2. \A a \in ToBackup(c, seen) : IsStatic(a) /\ Location(a) = c
    BY <1>2 DEF ToBackup, ClassLists, Location
  <2>3. \A s \in backup_methods_' \ backup_methods_ :
          s.class = c /\ Location(s.method) = c /\ IsStatic(s.method)
    BY <2>1, <2>2
  <2>4. \A u \in Threads : pc[u] \in InitPC =>
          u # t /\ pc'[u] = pc[u] /\ cls'[u] = cls[u]
    BY <2>1 DEF InitPC
  <2>5. \A u \in Threads : \A s \in todo'[u] : u # t /\ cls'[u] = cls[u] /\ s \in todo[u]
    BY <2>1
  <2>6. pc'[t] = "Fixup" /\ cls'[t] = c
    BY <2>1
  <2> QED
    BY <1>0, <2>3, <2>4, <2>5, <2>6 DEF SavedLive, InitPC
<1>3. CASE Fixup(t)
  BY <1>0, <1>3 DEF Fixup, Go, SavedLive
<1>4. CASE PopBackup(t)
  <2> DEFINE found == {s \in backup_methods_ : s.class = cls[t]}
             left == {[method |-> s.method, entry |-> s.entry] : s \in found}
  <2>1. /\ pc[t] = "PopBackup" /\ backup_methods_' = backup_methods_ \ found
        /\ RestoreLeft(t, left)
    BY <1>4 DEF PopBackup
  <2>2. \A s \in left : Location(s.method) = cls[t] /\ IsStatic(s.method)
    BY DEF SavedLive
  <2>3. \A s \in backup_methods_' : s \in backup_methods_ /\ s.class # cls[t]
    BY <2>1
  <2> HIDE DEF left, found
  <2>4. /\ todo' = [todo EXCEPT ![t] = left]
        /\ pc' = [pc EXCEPT ![t] = IF left = {} THEN "Idle" ELSE "Restore"]
        /\ cls' = [cls EXCEPT ![t] = IF left = {} THEN None ELSE @]
    BY <2>1 DEF RestoreLeft
  <2> QED
    BY <1>0, <2>1, <2>2, <2>3, <2>4 DEF SavedLive
<1>5. CASE RestoreBackup(t)
  <2>1. PICK s \in todo[t] : RestoreLeft(t, todo[t] \ {s})
    BY <1>5 DEF RestoreBackup
  <2>2. pc[t] = "Restore" /\ UNCHANGED backup_methods_
    BY <1>5 DEF RestoreBackup
  <2> QED
    BY <1>0, <2>1, <2>2 DEF SavedLive, RestoreLeft
<1> QED
  BY <1>1, <1>2, <1>3, <1>4, <1>5 DEF ThreadStep, DeoptimizeStep

\* What Deoptimize adds to the records, and what is lost.
LEMMA ThreadRecords ==
  ASSUME TypeOK, NEW t \in Threads, ThreadStep(t)
  PROVE  /\ \A d \in AllClasses : \A a \in deoptimized_classes_'[d] :
              \/ a \in deoptimized_classes_[d]
              \/ EmplaceMethod(t) /\ d = ClassOf[mth[t]] /\ a = mth[t]
         /\ \A d \in AllClasses : \A a \in deoptimized_classes_[d] :
              a \in deoptimized_classes_'[d] \/ MethodOf(a) \in lost'
         /\ lost \subseteq lost'
         /\ \/ UNCHANGED deoptimized_methods_set_
            \/ /\ RecordDeoptimized(t)
               /\ deoptimized_methods_set_' = deoptimized_methods_set_ \cup {mth[t]}
<1>1. CASE EmplaceMethod(t)
  <2>1. ClassOf[mth[t]] \in AllClasses
    BY <1>1, MethodsAssumption DEF EmplaceMethod, Go, TypeOK, AllClasses, DeoptimizePC
  <2> QED
    BY <1>1, <2>1, EmplaceKeeps DEF EmplaceMethod
<1>2. ASSUME NEW c \in AllClasses, SetStatus(t, c)
      PROVE  /\ UNCHANGED <<deoptimized_classes_, deoptimized_methods_set_>>
             /\ lost \subseteq lost'
  BY <1>2 DEF SetStatus, sets, Lose
<1>3. ASSUME ~EmplaceMethod(t), \A c \in AllClasses : ~SetStatus(t, c)
      PROVE  UNCHANGED <<deoptimized_classes_, lost>>
  BY <1>3 DEF ThreadStep, Deoptimize, Subscript, RecordDeoptimized, FindBackup, Find, SetInterpreter,
       Fixup, PopBackup, RestoreBackup, RestoreLeft, InitFrame, sets, deoptimized
<1>4. ASSUME ~EmplaceMethod(t), \A c \in AllClasses : ~SetStatus(t, c), ~RecordDeoptimized(t)
      PROVE  UNCHANGED deoptimized_methods_set_
  BY <1>4 DEF ThreadStep, Deoptimize, Subscript, FindBackup, Find, SetInterpreter,
       Fixup, PopBackup, RestoreBackup, RestoreLeft, InitFrame, sets, deoptimized
<1>5. RecordDeoptimized(t) => deoptimized_methods_set_' = deoptimized_methods_set_ \cup {mth[t]}
  BY DEF RecordDeoptimized
<1>6. CASE \E c \in AllClasses : SetStatus(t, c)
  BY <1>2, <1>6
<1>7. CASE ~EmplaceMethod(t) /\ \A c \in AllClasses : ~SetStatus(t, c)
  BY <1>3, <1>4, <1>5, <1>7
<1> QED
  BY <1>1, <1>6, <1>7

LEMMA ThreadLists ==
  ASSUME TypeOK, ClassLists, NEW t \in Threads, ThreadStep(t) PROVE ClassLists'
<1>1. hooked_classes_' = hooked_classes_
  BY ThreadStepFrame
<1>2. EmplaceMethod(t) => mth[t] \in Methods
  BY DEF EmplaceMethod, Go, TypeOK, DeoptimizePC
<1>3. \A c \in AllClasses : \A a \in deoptimized_classes_'[c] : Location(a) = c
  BY <1>2, ThreadRecords DEF ClassLists, Location
<1> QED
  BY <1>1, <1>3 DEF ClassLists, Location

\* An initialisation changes nothing of a thread in Deoptimize, and the other
\* way round.
LEMMA InitStepFrame ==
  ASSUME TypeOK, NEW t \in Threads, InitStep(t)
  PROVE  /\ UNCHANGED <<mth, art, deoptimized_methods_set_, deoptimized_classes_>>
         /\ pc[t] \notin DeoptimizePC /\ pc'[t] \notin DeoptimizePC
         /\ \A u \in Threads : u # t => pc'[u] = pc[u] /\ cls'[u] = cls[u] /\ todo'[u] = todo[u]
<1> USE DEF TypeOK, InitFrame, sets, deoptimized, DeoptimizePC
<1>1. ASSUME NEW left, RestoreLeft(t, left), pc[t] \in {"PopBackup", "Restore"}
      PROVE  /\ UNCHANGED <<mth, art, deoptimized_methods_set_, deoptimized_classes_>>
             /\ pc[t] \notin DeoptimizePC /\ pc'[t] \notin DeoptimizePC
             /\ \A u \in Threads : u # t => pc'[u] = pc[u] /\ cls'[u] = cls[u] /\ todo'[u] = todo[u]
  BY <1>1 DEF RestoreLeft
<1>2. CASE PopBackup(t) \/ RestoreBackup(t)
  <2>1. \E left : RestoreLeft(t, left)
    BY <1>2 DEF PopBackup, RestoreBackup
  <2>2. pc[t] \in {"PopBackup", "Restore"}
    BY <1>2 DEF PopBackup, RestoreBackup
  <2> QED
    BY <1>1, <2>1, <2>2
<1>3. CASE (\E c \in AllClasses : SetStatus(t, c)) \/ Fixup(t)
  BY <1>3 DEF SetStatus, Fixup, Go
<1> QED
  BY <1>2, <1>3 DEF InitStep

LEMMA DeoptimizeStepFrame ==
  ASSUME TypeOK, NEW t \in Threads, DeoptimizeStep(t)
  PROVE  /\ UNCHANGED <<backup_methods_, initialized, cls, todo>>
         /\ pc[t] \notin InitPC /\ pc'[t] \notin InitPC
         /\ \A u \in Threads : u # t => pc'[u] = pc[u] /\ mth'[u] = mth[u] /\ art'[u] = art[u]
BY ZenonT(60) DEF TypeOK, DeoptimizeStep, Deoptimize, EmplaceMethod, RecordDeoptimized, FindBackup, Find, SetInterpreter,
       DeoptimizeFrame, Go, InitPC

LEMMA ThreadFamilies ==
  ASSUME TypeOK, Families, NEW t \in Threads, ThreadStep(t) PROVE Families'
<1> USE DEF TypeOK
<1>0. UNCHANGED <<hooked_methods_, origin, hookPC, target, backup>>
  BY ThreadStepFrame
<1>1. \A u \in Threads : pc'[u] = "SetInterpreter" =>
        art'[u] = mth'[u] \/ (art'[u] \in Backups /\ origin[art'[u]] = mth'[u])
  <2>1. CASE InitStep(t)
    BY <2>1, InitStepFrame DEF Families, DeoptimizePC
  <2>2. CASE FindBackup(t)
    <3>1. /\ pc[t] = "FindBackup" /\ pc' = [pc EXCEPT ![t] = "SetInterpreter"] /\ mth' = mth
          /\ art' = [art EXCEPT ![t] = IF hooked_methods_[mth[t]].other # None
                                       THEN hooked_methods_[mth[t]].other ELSE mth[t]]
      BY <2>2 DEF FindBackup, Find, Go, IsHooked
    <3>2. mth[t] \in Methods
      BY <3>1 DEF DeoptimizePC
    <3> QED
      BY <3>1, <3>2 DEF Families
  <2>3. CASE \/ \E m \in Methods : Deoptimize(t, m)
             \/ EmplaceMethod(t) \/ RecordDeoptimized(t) \/ SetInterpreter(t)
    <3>1. pc'[t] # "SetInterpreter"
      BY <2>3 DEF Deoptimize, EmplaceMethod, RecordDeoptimized, SetInterpreter, Go
    <3> QED
      BY <2>3, <3>1, DeoptimizeStepFrame DEF Families, DeoptimizeStep
  <2> QED
    BY <2>1, <2>2, <2>3 DEF ThreadStep, InitStep
<1> QED
  BY <1>0, <1>1 DEF Families

LEMMA ThreadDeopt ==
  ASSUME TypeOK, DeoptRecorded, NEW t \in Threads, ThreadStep(t) PROVE DeoptRecorded'
<1> USE MethodsAssumption, NamesAssumption DEF TypeOK
<1>0. \A m \in Methods : ClassOf[m] \in AllClasses /\ m # None /\ MethodOf(m) = m
  BY DEF AllClasses, MethodOf
<1>a. /\ \A m \in Methods : m \in deoptimized_classes_[ClassOf[m]] \/ m \in lost
                              => m \in deoptimized_classes_'[ClassOf[m]] \/ m \in lost'
      /\ \A m \in Methods : m \in deoptimized_classes_'[ClassOf[m]] =>
           m \in deoptimized_classes_[ClassOf[m]] \/ (EmplaceMethod(t) /\ m = mth[t])
  BY <1>0, ThreadRecords
<1>b. \A u \in Threads : pc[u] \in DeoptimizePC => mth[u] \in Methods
  OBVIOUS
<1>1. CASE InitStep(t)
  <2>1. ~EmplaceMethod(t)
    BY <1>1, InitStepFrame DEF EmplaceMethod, Go, DeoptimizePC
  <2>2. \A u \in Threads : pc'[u] \in DeoptimizePC \/ pc[u] \in DeoptimizePC => pc'[u] = pc[u]
    BY <1>1, InitStepFrame
  <2>3. UNCHANGED <<mth, deoptimized_methods_set_>>
    BY <1>1, InitStepFrame
  <2>4. \A n \in Methods, u \in Threads : DeoptimizeActive(u, n) => DeoptimizeActive(u, n)'
    BY <2>2, <2>3 DEF DeoptimizeActive
  <2> QED
    BY <1>a, <1>b, <2>1, <2>2, <2>3, <2>4 DEF DeoptRecorded, DeoptimizePC
<1>2. ASSUME NEW m \in Methods, Deoptimize(t, m) PROVE DeoptRecorded'
  <2>1. /\ pc[t] = "Idle" /\ pc' = [pc EXCEPT ![t] = "Emplace"]
        /\ mth' = [mth EXCEPT ![t] = m] /\ UNCHANGED deoptimized_methods_set_
    BY <1>2 DEF Deoptimize, Subscript, Go
  <2>2. ~EmplaceMethod(t)
    BY <2>1 DEF EmplaceMethod, Go
  <2>3. \A n \in Methods, u \in Threads : DeoptimizeActive(u, n) => DeoptimizeActive(u, n)'
    BY <2>1 DEF DeoptimizeActive, DeoptimizePC
  <2>5. \A u \in Threads : u # t => pc'[u] = pc[u] /\ mth'[u] = mth[u]
    BY <2>1
  <2> QED
    BY <1>a, <1>b, <2>1, <2>2, <2>3, <2>5 DEF DeoptRecorded, DeoptimizePC
<1>6. CASE EmplaceMethod(t)
  <2>1. /\ pc[t] = "Emplace" /\ pc' = [pc EXCEPT ![t] = "RecordDeoptimized"]
        /\ UNCHANGED <<mth, deoptimized_methods_set_>>
        /\ Emplace(t, ClassOf[mth[t]], mth[t])
    BY <1>6 DEF EmplaceMethod, Emplace, Go
  <2>2. mth[t] \in Methods
    BY <2>1 DEF DeoptimizePC
  <2>3. mth[t] \in deoptimized_classes_'[ClassOf[mth[t]]] \/ mth[t] \in lost'
    BY <1>0, <2>1, <2>2, EmplaceKeeps
  <2>4. \A n \in Methods, u \in Threads : DeoptimizeActive(u, n) => DeoptimizeActive(u, n)'
    BY <2>1 DEF DeoptimizeActive, DeoptimizePC
  <2>5. DeoptimizeActive(t, mth[t])'
    BY <2>1 DEF DeoptimizeActive, DeoptimizePC
  <2> QED
    BY <1>a, <1>b, <2>1, <2>3, <2>4, <2>5 DEF DeoptRecorded, DeoptimizePC
<1>3. CASE RecordDeoptimized(t)
  <2>1. /\ pc[t] = "RecordDeoptimized" /\ pc' = [pc EXCEPT ![t] = "FindBackup"]
        /\ UNCHANGED mth
        /\ deoptimized_methods_set_' = deoptimized_methods_set_ \cup {mth[t]}
    BY <1>3 DEF RecordDeoptimized, Go
  <2>2. \A n \in Methods, u \in Threads : DeoptimizeActive(u, n) => DeoptimizeActive(u, n)'
    BY <2>1 DEF DeoptimizeActive, DeoptimizePC
  <2>3. ~EmplaceMethod(t)
    BY <2>1 DEF EmplaceMethod, Go
  <2> QED
    BY <1>a, <1>b, <2>1, <2>2, <2>3 DEF DeoptRecorded, DeoptimizePC
<1>4. CASE FindBackup(t)
  <2>1. /\ pc[t] = "FindBackup" /\ pc' = [pc EXCEPT ![t] = "SetInterpreter"]
        /\ UNCHANGED <<mth, deoptimized_methods_set_>>
    BY <1>4 DEF FindBackup, Find, Go, sets, deoptimized
  <2>2. \A n \in Methods, u \in Threads : DeoptimizeActive(u, n) => DeoptimizeActive(u, n)'
    BY <2>1 DEF DeoptimizeActive, DeoptimizePC
  <2>3. ~EmplaceMethod(t)
    BY <2>1 DEF EmplaceMethod, Go
  <2> QED
    BY <1>a, <1>b, <2>1, <2>2, <2>3 DEF DeoptRecorded, DeoptimizePC
<1>5. CASE SetInterpreter(t)
  <2>1. /\ pc[t] = "SetInterpreter" /\ pc' = [pc EXCEPT ![t] = "Idle"]
        /\ mth' = [mth EXCEPT ![t] = None]
        /\ UNCHANGED deoptimized_methods_set_
    BY <1>5 DEF SetInterpreter, Go, sets, deoptimized
  <2>2. mth[t] \in deoptimized_methods_set_
    BY <2>1 DEF DeoptRecorded
  <2>3. \A n \in Methods, u \in Threads :
          DeoptimizeActive(u, n) => DeoptimizeActive(u, n)' \/ n = mth[t]
    BY <2>1 DEF DeoptimizeActive, DeoptimizePC
  <2>4. ~EmplaceMethod(t)
    BY <2>1 DEF EmplaceMethod, Go
  <2> QED
    BY <1>a, <1>b, <2>1, <2>2, <2>3, <2>4 DEF DeoptRecorded, DeoptimizePC
<1> QED
  BY <1>1, <1>2, <1>3, <1>4, <1>5, <1>6 DEF ThreadStep, InitStep

LEMMA ThreadShielded ==
  ASSUME TypeOK, Pairing, Families, BackupsShielded, NEW t \in Threads, ThreadStep(t)
  PROVE  BackupsShielded'
<1>0. \A b \in Backups : b \in AllClasses /\ MethodOf(b) = origin[b]
  BY NamesAssumption DEF AllClasses, MethodOf
<1>1. \A b \in Backups : b \in deoptimized_classes_[b] \/ origin[b] \in lost
                          => b \in deoptimized_classes_'[b] \/ origin[b] \in lost'
  BY <1>0, ThreadRecords
<1>2. \A b \in Backups : Shielded(origin[b], b) =>
         b \in deoptimized_methods_set_' /\ (b \in deoptimized_classes_'[b] \/ origin[b] \in lost')
  BY <1>1, ThreadRecords DEF Shielded
<1>3. \A m \in Methods : Registered(m) =>
        hooked_methods_[m].other \in Backups /\ origin[hooked_methods_[m].other] = m
  <2>1. \A m \in Methods : Registered(m) => hooked_methods_[m].other \in Backups
    BY DEF Pairing, PairInProgress, TargetsPaired, Registered, TargetEntry, NoEntry, TypeOK
  <2> QED
    BY <2>1, NamesAssumption DEF Families
<1>4. hookPC # "Idle" => backup \in Backups /\ origin[backup] = target
  BY DEF TypeOK, Families
<1> QED
  BY <1>1, <1>2, <1>3, <1>4, ThreadStepFrame DEF BackupsShielded, Shielded, Registered, UnHookPC

\* Every step of a thread keeps the structure.
LEMMA ThreadStructure ==
  ASSUME TypeOK, Pairing, Structure, NEW t \in Threads, ThreadStep(t) PROVE Structure'
BY ThreadInits, ThreadSaved, ThreadLists, ThreadFamilies, ThreadDeopt, ThreadShielded,
   ThreadStepFrame, NoteKeeps DEF Structure

\* So do steps that leave alone what it is about.
LEMMA StructureFrame ==
  ASSUME Structure, overlap \subseteq overlap',
         UNCHANGED <<hooked_methods_, hooked_classes_, deoptimized_methods_set_,
                     deoptimized_classes_, lost, backup_methods_, initialized, origin, hookPC,
                     target, backup, pc, cls, todo, mth, art>>
  PROVE  Structure'
<1>1. InitsUnique' /\ SavedLive' /\ ClassLists' /\ Families'
  BY DEF Structure, InitsUnique, SavedLive, ClassLists, Families, Location, IsStatic
<1>2. DeoptRecorded' /\ BackupsShielded'
  BY DEF Structure, DeoptRecorded, DeoptimizeActive, BackupsShielded, Shielded, Registered
<1>3. \A m \in Methods : Contended(m)' <=> Contended(m)
  BY DEF Contended, HookActive, InitActive, DeoptimizeActive
<1>4. Exclusive'
  BY <1>3 DEF Structure, Exclusive
<1> QED
  BY <1>1, <1>2, <1>4 DEF Structure

-----------------------------------------------------------------------------
(* Where the entry points lead *)

Deoptimized(m) == m \in deoptimized_methods_set_ /\ m \notin lost

\* All that is known once a race has lost a record: that it is no trampoline.
Unknown(m, e) == m \in lost /\ e \in Code

\* An entry point at which the method runs; the stub only until its class is
\* initialised, and the interpreter once it is deoptimized.
Runs(m, e) ==
  \/ e \in {"Code", "Interpreter"} \/ Unknown(m, e)
  \/ e = "Resolution" /\ m \in Static /\ ClassOf[m] \notin initialized
RunsAsRecorded(m, e) == Runs(m, e) /\ (Deoptimized(m) => e = "Interpreter")

\* The same, while an initialisation has still to give it its code.
RunsOrResolves(m, e) ==
  e \in {"Code", "Interpreter"} \/ Unknown(m, e) \/ (e = "Resolution" /\ m \in Static)

\* An initialisation of the class of a is to come to the step that gives the
\* static methods their code.
Before(a) == \E t \in Threads : pc[t] = "Fixup" /\ cls[t] = Location(a)

\* Entry point e is saved for a, and has not come back yet.
Kept(a, e) ==
  \/ \E s \in backup_methods_ : s.method = a /\ s.entry = e
  \/ \E t \in Threads : \E s \in todo[t] : s.method = a /\ s.entry = e
AnyKept(a) == \E e \in EntryPoints : Kept(a, e)

\* ART has set the entry point of a, and what was saved has still to come back.
Displaced(a) == AnyKept(a) /\ ~Before(a)

\* A thread is about to send m to the interpreter.
Working(m) == \E t \in Threads : mth[t] = m /\ pc[t] \in {"FindBackup", "SetInterpreter"}

\* A hooked method m with its backup b.
HookedEntries(m, b) ==
  /\ \A e \in EntryPoints : Kept(m, e) => e = b
  /\ entry[m] = IF Displaced(m) THEN "Code" ELSE b
  /\ m \in Static /\ Before(m) => AnyKept(m)
  /\ m \in Static /\ Before(b) => AnyKept(b) \/ m \in lost
  /\ \A e \in EntryPoints : Kept(b, e) => RunsAsRecorded(m, e)
  /\ ~Displaced(b) =>
       /\ IF AnyKept(m) THEN RunsOrResolves(m, entry[b]) ELSE Runs(m, entry[b])
       /\ Deoptimized(m) => entry[b] = "Interpreter" \/ Working(m)

\* A method that is not hooked.
UnhookedEntries(m) ==
  /\ \A e \in EntryPoints :
       Kept(m, e) => m \in deoptimized_methods_set_ /\ RunsAsRecorded(m, e)
  /\ \A e, f \in EntryPoints : Kept(m, e) /\ Kept(m, f) => e = f
  /\ m \in Static /\ Before(m) /\ Deoptimized(m) => AnyKept(m)
  /\ Displaced(m) => entry[m] = "Code"
  /\ ~Displaced(m) =>
       /\ IF Before(m) THEN RunsOrResolves(m, entry[m]) ELSE Runs(m, entry[m])
       /\ Deoptimized(m) => entry[m] = "Interpreter" \/ Working(m)

\* A method that Hook or UnHook is at work on.
ContestedEntries(m) ==
  /\ RunsAsRecorded(m, entry[backup])
  /\ hookPC \in HookPC => entry[m] = backup

\* Which of the two ArtMethods has the code of m.
Holder(m) == IF Registered(m) THEN hooked_methods_[m].other ELSE m

EntriesOf(m) ==
  /\ HookActive(m) => ContestedEntries(m)
  /\ ~HookActive(m) /\ Registered(m) => HookedEntries(m, hooked_methods_[m].other)
  /\ ~HookActive(m) /\ ~Registered(m) => UnhookedEntries(m)
  /\ \A t \in Threads : mth[t] = m /\ pc[t] = "SetInterpreter" => art[t] = Holder(m)

Entries == \A m \in Methods \ overlap : EntriesOf(m)

Family(m) == {m} \cup {b \in Backups : origin[b] = m}

\* A step that does not deoptimize m; it may lose a record of it.
RecordsKept(m) ==
  /\ m \in deoptimized_methods_set_' <=> m \in deoptimized_methods_set_
  /\ m \in lost => m \in lost'

\* What m could run at, it still can.
LEMMA RunsKept ==
  ASSUME NEW m \in Methods, RecordsKept(m),
         m \in Static => (ClassOf[m] \in initialized' <=> ClassOf[m] \in initialized)
  PROVE  /\ \A e : Runs(m, e) => Runs(m, e)'
         /\ \A e : RunsOrResolves(m, e) => RunsOrResolves(m, e)'
         /\ \A e : RunsAsRecorded(m, e) => RunsAsRecorded(m, e)'
         /\ Deoptimized(m)' => Deoptimized(m)
BY DEF RecordsKept, Runs, RunsOrResolves, RunsAsRecorded, Unknown, Deoptimized

-----------------------------------------------------------------------------
\* The initial states: each method has its own entry point.
LEMMA InitEntries == Init => Entries
<1> SUFFICES ASSUME Init PROVE Entries
  OBVIOUS
<1> USE MethodsAssumption, NamesAssumption DEF Init
<1>1. ASSUME NEW m \in Methods PROVE EntriesOf(m)
  <2>1. ~HookActive(m) /\ ~Registered(m)
    BY DEF HookActive, HookPC, UnHookPC, Registered, NoEntry, ArtMethods
  <2>2. (\A a, e : ~Kept(a, e)) /\ ~Before(m)
    BY DEF Kept, Before
  <2>3. Runs(m, entry[m]) /\ ~Deoptimized(m)
    BY DEF Runs, ArtMethods, Deoptimized
  <2>4. UnhookedEntries(m)
    BY <2>2, <2>3 DEF UnhookedEntries, Displaced, AnyKept
  <2> QED
    BY <2>1, <2>4 DEF EntriesOf
<1> QED
  BY <1>1, Zenon DEF Entries

\* The backup of a hooked method is one of its own.
LEMMA HookedFamily ==
  ASSUME TypeOK, Pairing, Families, NEW m \in Methods, Registered(m)
  PROVE  /\ hooked_methods_[m].other \in Backups /\ hooked_methods_[m].other \in Family(m)
         /\ origin[hooked_methods_[m].other] = m /\ hooked_methods_[m].other # m
<1>1. hooked_methods_[m].other \in Backups
  BY DEF TypeOK, Pairing, PairInProgress, TargetsPaired, Registered, TargetEntry, NoEntry
<1> QED
  BY <1>1, NamesAssumption DEF Families, Family

\* The ArtMethods that the entries of m are about.
Relevant(m) == {m, Holder(m)} \cup {b \in {backup} : HookActive(m)}

LEMMA RelevantFamily ==
  ASSUME TypeOK, Pairing, Families, NEW m \in Methods PROVE Relevant(m) \subseteq Family(m)
BY HookedFamily DEF Relevant, Holder, HookActive, TypeOK, Families, Family, HookPC, UnHookPC

-----------------------------------------------------------------------------
\* A method that was never contended: whoever is at work on it is alone.
LEMMA Alone ==
  ASSUME Exclusive, NEW m \in Methods \ overlap
  PROVE  /\ HookActive(m) => \A t \in Threads : ~InitActive(t, m) /\ ~DeoptimizeActive(t, m)
         /\ \A t, u \in Threads : t # u /\ InitActive(t, m) =>
              ~InitActive(u, m) /\ ~DeoptimizeActive(u, m)
BY DEF Exclusive, Contended

\* What is saved for a method or its backup is so by an initialisation at work
\* on the method.
LEMMA KeptActive ==
  ASSUME TypeOK, SavedLive, NEW m \in Methods, NEW a \in Family(m), NEW e, Kept(a, e)
  PROVE  /\ m \in Static
         /\ \E t \in Threads : InitActive(t, m) /\ cls[t] = Location(a)
<1> USE MethodsAssumption, NamesAssumption
<1>1. PICK t \in Threads : pc[t] \in InitPC /\ cls[t] = Location(a) /\ IsStatic(a)
  <2>1. CASE \E s \in backup_methods_ : s.method = a /\ s.entry = e
    BY <2>1 DEF SavedLive, InitPC
  <2>2. CASE \E t \in Threads : \E s \in todo[t] : s.method = a /\ s.entry = e
    BY <2>2 DEF SavedLive, TypeOK, InitPC
  <2> QED
    BY <2>1, <2>2 DEF Kept
<1>2. m \in Static
  BY <1>1 DEF IsStatic, Family
<1> QED
  BY <1>1, <1>2 DEF InitActive, Family, Location

LEMMA BeforeActive ==
  ASSUME NEW m \in Methods, m \in Static, NEW a \in Family(m), Before(a)
  PROVE  \E t \in Threads : InitActive(t, m) /\ cls[t] = Location(a) /\ pc[t] = "Fixup"
BY NamesAssumption, MethodsAssumption DEF Before, InitActive, Family, Location, InitPC

\* Without an initialisation at work, nothing is saved and nothing displaced.
LEMMA NothingKept ==
  ASSUME TypeOK, SavedLive, NEW m \in Methods, \A t \in Threads : ~InitActive(t, m)
  PROVE  \A a \in Family(m) : /\ \A e : ~Kept(a, e)
                              /\ ~AnyKept(a) /\ ~Displaced(a)
                              /\ m \in Static => ~Before(a)
BY KeptActive, BeforeActive DEF AnyKept, Displaced

\* A step that leaves the entry points of m and its backup alone, and what is
\* saved for them and recorded of them.
LEMMA EntriesFrame ==
  ASSUME TypeOK, Pairing, Structure, NEW m \in Methods, EntriesOf(m),
         hooked_methods_'[m] = hooked_methods_[m],
         HookActive(m)' <=> HookActive(m),
         HookActive(m) => backup' = backup /\ (hookPC' \in HookPC => hookPC \in HookPC),
         \A a \in Relevant(m) : entry'[a] = entry[a],
         \A a \in Relevant(m) : m \in Static => (Before(a)' <=> Before(a)),
         \A a \in Relevant(m), e \in EntryPoints : Kept(a, e)' <=> Kept(a, e),
         m \in Static => (ClassOf[m] \in initialized' <=> ClassOf[m] \in initialized),
         RecordsKept(m),
         Deoptimized(m) /\ Working(m) => Working(m)',
         \A t \in Threads : mth'[t] = m /\ pc'[t] = "SetInterpreter" => art'[t] = Holder(m)
  PROVE  EntriesOf(m)'
<1> DEFINE b == hooked_methods_[m].other
<1>0. m \in Relevant(m)
  BY DEF Relevant
<1>1. Registered(m)' = Registered(m) /\ Holder(m)' = Holder(m)
  BY DEF Registered, Holder
<1>2. /\ \A e : Runs(m, e) => Runs(m, e)'
      /\ \A e : RunsOrResolves(m, e) => RunsOrResolves(m, e)'
      /\ Deoptimized(m)' => Deoptimized(m)
  BY RunsKept
<1>3. /\ \A e : RunsAsRecorded(m, e) => RunsAsRecorded(m, e)'
      /\ m \in deoptimized_methods_set_ => m \in deoptimized_methods_set_'
      /\ m \in lost => m \in lost'
  BY RunsKept DEF RecordsKept
<1>4. \A a \in Relevant(m) : AnyKept(a)' <=> AnyKept(a)
  BY DEF AnyKept
<1>5. \A a \in Relevant(m) : m \notin Static => ~AnyKept(a)
  BY KeptActive, RelevantFamily DEF AnyKept, Structure
<1>6. \A a \in Relevant(m) : Displaced(a)' <=> Displaced(a)
  BY <1>4, <1>5 DEF Displaced
<1>7. CASE HookActive(m)
  BY <1>0, <1>1, <1>3, <1>7 DEF EntriesOf, ContestedEntries, Relevant
<1>8. CASE ~HookActive(m) /\ Registered(m)
  <2>1. b \in Relevant(m) /\ HookedEntries(m, b)
    BY <1>8 DEF EntriesOf, Relevant, Holder
  <2>2. HookedEntries(m, b)'
    BY <1>0, <1>2, <1>3, <1>4, <1>6, <2>1 DEF HookedEntries
  <2> QED
    BY <1>1, <1>8, <2>2 DEF EntriesOf
<1>9. CASE ~HookActive(m) /\ ~Registered(m)
  <2>1. UnhookedEntries(m)
    BY <1>9 DEF EntriesOf
  <2>2. m \notin Static => \A e : RunsOrResolves(m, e) <=> Runs(m, e)
    BY DEF RunsOrResolves, Runs
  <2>3. UnhookedEntries(m)'
    BY <1>0, <1>2, <1>3, <1>4, <1>6, <2>1, <2>2 DEF UnhookedEntries
  <2> QED
    BY <1>1, <1>9, <2>3 DEF EntriesOf
<1> QED
  BY <1>7, <1>8, <1>9

-----------------------------------------------------------------------------
\* Without an initialisation or a hook at work on it, a hooked method enters
\* its trampoline, and what has its code runs it.
Settled(m) ==
  /\ Registered(m) => entry[m] = hooked_methods_[m].other
  /\ Runs(m, entry[Holder(m)])
  /\ Deoptimized(m) => entry[Holder(m)] = "Interpreter" \/ Working(m)

LEMMA CalmSettled ==
  ASSUME TypeOK, Pairing, Structure, NEW m \in Methods, EntriesOf(m), ~HookActive(m),
         \A t \in Threads : ~InitActive(t, m)
  PROVE  Settled(m)
<1>a. SavedLive /\ Families /\ m \in Family(m)
  BY DEF Structure, Family
<1>1. CASE Registered(m)
  <2>1. HookedEntries(m, hooked_methods_[m].other)
    BY <1>1 DEF EntriesOf
  <2> QED
    BY <1>a, <1>1, <2>1, NothingKept, HookedFamily DEF HookedEntries, Settled, Holder
<1>2. CASE ~Registered(m)
  <2>1. UnhookedEntries(m)
    BY <1>2 DEF EntriesOf
  <2>2. Before(m) => m \notin Static
    BY <1>a, NothingKept
  <2>3. Runs(m, entry[m])
    BY <1>a, <2>1, <2>2, NothingKept DEF UnhookedEntries, RunsOrResolves, Runs
  <2> QED
    BY <1>a, <1>2, <2>1, <2>3, NothingKept DEF UnhookedEntries, Settled, Holder
<1> QED
  BY <1>1, <1>2

\* And without Deoptimize, it runs as recorded.
LEMMA CalmEntries ==
  ASSUME TypeOK, Pairing, Structure, NEW m \in Methods, EntriesOf(m), ~HookActive(m),
         \A t \in Threads : ~InitActive(t, m) /\ ~DeoptimizeActive(t, m)
  PROVE  RunsAsRecorded(m, entry[Holder(m)])
<1>1. ~Working(m)
  BY DEF Working, DeoptimizeActive, DeoptimizePC
<1> QED
  BY <1>1, CalmSettled DEF Settled, RunsAsRecorded

\* What is settled afterwards is as the invariant wants it.
LEMMA CalmSuffices ==
  ASSUME NEW m \in Methods, ~HookActive(m)', Settled(m)',
         \A a \in {m, Holder(m)'} : (\A e : ~Kept(a, e)') /\ (m \in Static => ~Before(a)'),
         \A t \in Threads : mth'[t] = m /\ pc'[t] = "SetInterpreter" => art'[t] = Holder(m)'
  PROVE  EntriesOf(m)'
<1>1. \A a \in {m, Holder(m)'} : ~AnyKept(a)' /\ ~Displaced(a)'
  BY DEF AnyKept, Displaced
<1>2. CASE Registered(m)'
  <2>1. HookedEntries(m, hooked_methods_[m].other)'
    BY <1>1, <1>2 DEF HookedEntries, Settled, Holder
  <2> QED
    BY <1>2, <2>1 DEF EntriesOf
<1>3. CASE ~Registered(m)'
  <2>1. Runs(m, entry[m])' /\ RunsOrResolves(m, entry[m])'
    BY <1>3 DEF Settled, Holder, Runs, RunsOrResolves
  <2>2. UnhookedEntries(m)'
    BY <1>1, <1>3, <2>1 DEF UnhookedEntries, Settled, Holder
  <2> QED
    BY <1>3, <2>2 DEF EntriesOf
<1> QED
  BY <1>2, <1>3

\* Hook and UnHook at work on m: only its backup's entry point matters.
LEMMA ContestedFrame ==
  ASSUME NEW m \in Methods, EntriesOf(m), HookActive(m), HookActive(m)',
         UNCHANGED <<entry, backup, initialized>>, RecordsKept(m),
         hookPC' \in HookPC => hookPC \in HookPC,
         \A t \in Threads : ~DeoptimizeActive(t, m)'
  PROVE  EntriesOf(m)'
<1>1. ContestedEntries(m)'
  BY RunsKept DEF EntriesOf, ContestedEntries
<1>2. \A t \in Threads : ~(mth'[t] = m /\ pc'[t] = "SetInterpreter")
  BY DEF DeoptimizeActive, DeoptimizePC
<1> QED
  BY <1>1, <1>2 DEF EntriesOf

\* Hook and UnHook on another method, or not yet at work on this one.
LEMMA HookEntriesFrame ==
  ASSUME TypeOK, Pairing, Structure, NEW m \in Methods, EntriesOf(m),
         UNCHANGED <<backup_methods_, initialized, pc, cls, todo, mth, art>>,
         hooked_methods_'[m] = hooked_methods_[m],
         HookActive(m)' <=> HookActive(m),
         HookActive(m) => backup' = backup /\ (hookPC' \in HookPC => hookPC \in HookPC),
         \A a \in Family(m) : entry'[a] = entry[a],
         RecordsKept(m)
  PROVE  EntriesOf(m)'
<1>1. \A a : Before(a)' <=> Before(a)
  BY DEF Before, Location
<1>2. \A a, e : Kept(a, e)' <=> Kept(a, e)
  BY DEF Kept
<1>3. Working(m)' <=> Working(m)
  BY DEF Working
<1>4. \A t \in Threads : mth'[t] = m /\ pc'[t] = "SetInterpreter" => art'[t] = Holder(m)
  BY DEF EntriesOf
<1> QED
  BY <1>1, <1>2, <1>3, <1>4, EntriesFrame, RelevantFamily DEF Structure

LEMMA HookEntries ==
  ASSUME TypeOK, Pairing, Structure, HookStep, NEW m \in Methods \ overlap', EntriesOf(m)
  PROVE  EntriesOf(m)'
<1> USE MethodsAssumption, NamesAssumption
<1>0. /\ UNCHANGED <<backup_methods_, initialized, pc, cls, todo, mth, art>>
      /\ m \in Methods /\ m \notin overlap /\ Exclusive'
  BY HookStepFrame, NoteKeeps
<1>a. /\ Methods \subseteq ArtMethods /\ Backups \subseteq ArtMethods
      /\ \A n \in Methods : n \notin Backups /\ n # None
  BY DEF ArtMethods
<1>b. hookPC # "Idle" => target \in Methods /\ backup \in Backups /\ origin[backup] = target
  BY DEF TypeOK, Structure, Families
<1>c. \A a \in Family(m) \ {m} : a \in Backups /\ origin[a] = m
  BY DEF Family
<1>d. RecordsKept(m)
  <2>1. /\ deoptimized_methods_set_' \in {deoptimized_methods_set_, deoptimized_methods_set_ \cup {backup}}
        /\ lost \subseteq lost'
    BY HookRecords
  <2>2. backup # m
    BY <1>a DEF TypeOK
  <2> QED
    BY <2>1, <2>2 DEF RecordsKept
<1>e. /\ \A e : Runs(m, e) => Runs(m, e)'
      /\ \A e : RunsAsRecorded(m, e) => RunsAsRecorded(m, e)'
      /\ Deoptimized(m)' => Deoptimized(m)
  BY <1>0, <1>d, RunsKept
<1>1. ASSUME NEW n \in Methods, Hook(n) PROVE EntriesOf(m)'
  <2>1. PICK b \in Backups : origin[b] = None /\ \E e : entry' = [entry EXCEPT ![b] = e]
    BY <1>1 DEF Hook
  <2>2. \A a \in Family(m) : entry'[a] = entry[a]
    BY <1>a, <1>c, <2>1 DEF TypeOK
  <2>3. hooked_methods_' = hooked_methods_ /\ ~HookActive(m) /\ ~HookActive(m)'
    BY <1>1 DEF Hook, records, HookActive, HookPC, UnHookPC
  <2> QED
    BY <1>0, <1>d, <2>2, <2>3, HookEntriesFrame
<1>2. CASE HookFails
  BY <1>0, <1>d, <1>2, HookEntriesFrame DEF HookFails, Return, records, HookActive, HookPC, UnHookPC
<1>3. CASE DoHook /\ target # m
  <2>1. \A a \in Family(m) : entry'[a] = entry[a]
    BY <1>a, <1>b, <1>c, <1>3 DEF DoHook, Advance, TypeOK
  <2> QED
    BY <1>0, <1>d, <1>3, <2>1, HookEntriesFrame DEF DoHook, Advance, records, HookActive
<1>4. CASE DoHook /\ target = m
  <2>1. /\ hookPC = "DoHook" /\ hookPC' = "RecordClass" /\ UNCHANGED <<target, backup>>
        /\ entry' = [entry EXCEPT ![backup] = entry[target], ![target] = backup]
    BY <1>4 DEF DoHook, Advance
  <2>2. ~HookActive(m) /\ HookActive(m)' /\ ~Registered(m)
    BY <1>4, <2>1 DEF HookActive, HookPC, UnHookPC, Pairing, PairInProgress, Registered, NoEntry
  <2>3. \A t \in Threads : ~InitActive(t, m) /\ ~DeoptimizeActive(t, m)
    <3>1. \A t \in Threads : ~InitActive(t, m)' /\ ~DeoptimizeActive(t, m)'
      BY <1>0, <2>2 DEF Exclusive, Contended
    <3>2. UNCHANGED origin
      BY <1>4 DEF DoHook
    <3> QED
      BY <1>0, <3>1, <3>2 DEF InitActive, DeoptimizeActive
  <2>4. RunsAsRecorded(m, entry[m])
    BY <2>2, <2>3, CalmEntries DEF Holder
  <2>5. entry'[m] = backup /\ entry'[backup] = entry[m]
    BY <1>4, <1>a, <1>b, <2>1 DEF TypeOK
  <2>6. RunsAsRecorded(m, entry[backup])'
    BY <1>e, <2>1, <2>4, <2>5
  <2>7. ContestedEntries(m)'
    BY <2>1, <2>5, <2>6 DEF ContestedEntries
  <2>8. \A t \in Threads : ~(mth'[t] = m /\ pc'[t] = "SetInterpreter")
    BY <1>0, <2>3 DEF DeoptimizeActive, DeoptimizePC
  <2> QED
    BY <2>2, <2>7, <2>8 DEF EntriesOf
<1>5. CASE \/ RecordClass \/ RecordBackup \/ RecordDeoptimizedClass \/ EmplaceDeoptimized
           \/ EraseBackup \/ EraseClass
  <2>1. /\ UNCHANGED <<entry, target, backup>>
        /\ hookPC \in HookPC <=> hookPC' \in HookPC
        /\ hookPC \in UnHookPC <=> hookPC' \in UnHookPC
        /\ hookPC # "Idle"
    BY <1>5 DEF RecordClass, RecordBackup, RecordDeoptimizedClass, EmplaceDeoptimized, EraseBackup,
                EraseClass, Advance, HookPC, UnHookPC
  <2>2. hooked_methods_'[m] = hooked_methods_[m]
    <3>1. \E r : hooked_methods_' \in {hooked_methods_, [hooked_methods_ EXCEPT ![backup] = r]}
      BY <1>5 DEF RecordClass, RecordBackup, RecordDeoptimizedClass, EmplaceDeoptimized, EraseBackup,
                  EraseClass, Insert, records
    <3> QED
      BY <1>a, <1>b, <2>1, <3>1 DEF TypeOK
  <2>3. HookActive(m)' <=> HookActive(m)
    BY <2>1 DEF HookActive
  <2> QED
    BY <1>0, <1>d, <2>1, <2>2, <2>3, HookEntriesFrame
<1>6. CASE RecordTarget
  <2>1. /\ UNCHANGED <<entry, target, backup>>
        /\ hookPC = "RecordTarget" /\ hookPC' = "RecordBackup"
        /\ \E r : hooked_methods_' \in {hooked_methods_, [hooked_methods_ EXCEPT ![target] = r]}
    BY <1>6 DEF RecordTarget, Advance, Insert
  <2>2. HookActive(m)' <=> HookActive(m)
    BY <2>1 DEF HookActive, HookPC, UnHookPC
  <2>3. CASE target # m
    <3>1. hooked_methods_'[m] = hooked_methods_[m]
      BY <1>a, <1>b, <2>1, <2>3 DEF TypeOK
    <3> QED
      BY <1>0, <1>d, <2>1, <2>2, <2>3, <3>1, HookEntriesFrame DEF HookPC
  <2>4. CASE target = m
    <3>1. HookActive(m) /\ HookActive(m)'
      BY <2>1, <2>2, <2>4 DEF HookActive, HookPC
    <3>2. \A t \in Threads : ~DeoptimizeActive(t, m)'
      BY <1>0, <3>1 DEF Exclusive, Contended
    <3> QED
      BY <1>0, <1>d, <2>1, <3>1, <3>2, ContestedFrame DEF HookPC
  <2> QED
    BY <2>3, <2>4
<1>7. CASE (RecordDeoptimizedMethod \/ DoUnHook) /\ target # m
  <2>1. ~HookActive(m) /\ ~HookActive(m)' /\ hooked_methods_'[m] = hooked_methods_[m]
    BY <1>7, <1>a DEF RecordDeoptimizedMethod, DoUnHook, Return, records, HookActive
  <2>2. \A a \in Family(m) : entry'[a] = entry[a]
    BY <1>7, <1>a, <1>b, <1>c DEF RecordDeoptimizedMethod, DoUnHook, Return, TypeOK
  <2> QED
    BY <1>0, <1>d, <2>1, <2>2, HookEntriesFrame
<1>8. CASE (RecordDeoptimizedMethod \/ DoUnHook) /\ target = m
  <2>1. /\ hookPC \in {"RecordDeoptimizedMethod", "DoUnHook"} /\ target' = None
        /\ UNCHANGED <<hooked_methods_, origin>>
    BY <1>8 DEF RecordDeoptimizedMethod, DoUnHook, Return, records
  <2>2. HookActive(m) /\ ~HookActive(m)'
    BY <1>8, <1>a, <2>1 DEF HookActive, HookPC, UnHookPC
  <2>3. ContestedEntries(m)
    BY <2>2 DEF EntriesOf
  <2>4. \A t \in Threads : ~InitActive(t, m) /\ ~DeoptimizeActive(t, m)
    BY <1>0, <2>2, Alone DEF Structure
  <2>5. Settled(m)' /\ Holder(m)' \in Family(m)
    <3>1. CASE RecordDeoptimizedMethod
      <4>1. Registered(m)' /\ hooked_methods_'[m].other = backup /\ entry' = entry
            /\ hookPC = "RecordDeoptimizedMethod"
        BY <1>8, <2>1, <3>1 DEF RecordDeoptimizedMethod, Return, Pairing, PairInProgress,
                                Registered, TargetEntry
      <4>2. Holder(m)' = backup /\ entry[m] = backup /\ RunsAsRecorded(m, entry[backup])
        BY <2>3, <4>1 DEF Holder, Registered, ContestedEntries, HookPC
      <4> QED
        BY <1>b, <1>e, <1>8, <4>1, <4>2 DEF Settled, RunsAsRecorded, Family
    <3>2. CASE DoUnHook
      <4>1. ~Registered(m)' /\ entry' = [entry EXCEPT ![m] = entry[backup]]
        BY <1>8, <2>1, <3>2 DEF DoUnHook, Return, Pairing, PairInProgress, Registered, NoEntry
      <4>2. Holder(m)' = m /\ entry'[m] = entry[backup]
        BY <1>a, <4>1 DEF Holder, Registered, TypeOK
      <4> QED
        BY <1>e, <2>3, <4>1, <4>2 DEF Settled, RunsAsRecorded, Family, ContestedEntries
    <3> QED
      BY <1>8, <3>1, <3>2
  <2>6. \A a \in Family(m) : (\A e : ~Kept(a, e)') /\ (m \in Static => ~Before(a)')
    BY <1>0, <2>4, NothingKept DEF Structure, Kept, Before, Location
  <2>7. \A t \in Threads : ~(mth'[t] = m /\ pc'[t] = "SetInterpreter")
    BY <1>0, <2>4 DEF DeoptimizeActive, DeoptimizePC
  <2>8. m \in Family(m)
    BY DEF Family
  <2> QED
    BY <2>2, <2>5, <2>6, <2>7, <2>8, CalmSuffices
<1>9. ASSUME NEW n \in Methods, UnHook(n), n # m PROVE EntriesOf(m)'
  <2>1. /\ ~HookActive(m) /\ ~HookActive(m)' /\ hooked_methods_'[m] = hooked_methods_[m]
        /\ UNCHANGED entry
    BY <1>9, <1>a DEF UnHook, HookActive, HookPC, UnHookPC, TypeOK
  <2> QED
    BY <1>0, <1>d, <2>1, HookEntriesFrame
<1>10. CASE UnHook(m)
  <2>1. /\ hookPC = "Idle" /\ hookPC' = "EraseBackup" /\ target' = m
        /\ Registered(m) /\ backup' = hooked_methods_[m].other
        /\ UNCHANGED <<entry, origin>>
    BY <1>10 DEF UnHook, Registered
  <2>2. ~HookActive(m) /\ HookActive(m)'
    BY <2>1 DEF HookActive, HookPC, UnHookPC
  <2>3. \A t \in Threads : ~InitActive(t, m) /\ ~DeoptimizeActive(t, m)
    <3>1. \A t \in Threads : ~InitActive(t, m)' /\ ~DeoptimizeActive(t, m)'
      BY <1>0, <2>2 DEF Exclusive, Contended
    <3> QED
      BY <1>0, <2>1, <3>1 DEF InitActive, DeoptimizeActive
  <2>4. RunsAsRecorded(m, entry[backup'])
    BY <2>1, <2>2, <2>3, CalmEntries DEF Holder
  <2>5. ContestedEntries(m)'
    BY <1>e, <2>1, <2>4 DEF ContestedEntries, HookPC
  <2>6. \A t \in Threads : ~(mth'[t] = m /\ pc'[t] = "SetInterpreter")
    BY <1>0, <2>3 DEF DeoptimizeActive, DeoptimizePC
  <2> QED
    BY <2>2, <2>5, <2>6 DEF EntriesOf
<1> QED
  BY <1>1, <1>2, <1>3, <1>4, <1>5, <1>6, <1>7, <1>8, <1>9, <1>10 DEF HookStep

-----------------------------------------------------------------------------
\* A backup that the stubs do not skip is not the backup of a hooked method.
LEMMA Unshielded ==
  ASSUME TypeOK, Pairing, Structure, NEW b \in Backups, b \notin deoptimized_methods_set_,
         hookPC \in HookPC => b # backup
  PROVE  /\ \A m \in Methods : Registered(m) /\ ~HookActive(m) => hooked_methods_[m].other # b
         /\ hookPC \in UnHookPC => backup # b
         /\ hooked_methods_[b].other = None
<1>1. hookPC \in UnHookPC => backup # b
  BY DEF Structure, BackupsShielded, Shielded
<1>2. \A m \in Methods : Registered(m) /\ ~HookActive(m) => hooked_methods_[m].other # b
  BY DEF Structure, BackupsShielded, Shielded, HookActive
<1>3. ASSUME hooked_methods_[b] # NoEntry PROVE FALSE
  <2>1. hookPC # "Idle" => b # backup \/ hookPC = "DoHook"
    BY <1>1 DEF TypeOK
  <2>2. b # backup \/ hookPC = "Idle"
    BY <1>3, <2>1 DEF Pairing, PairInProgress
  <2>3. /\ hooked_methods_[b].other \in Methods
        /\ hooked_methods_[hooked_methods_[b].other] = TargetEntry(b)
    BY <1>3, <2>2 DEF Pairing, BackupsPaired
  <2> DEFINE m == hooked_methods_[b].other
  <2>4. Registered(m) /\ hooked_methods_[m].other = b
    BY <2>3 DEF TargetEntry, Registered
  <2>5. HookActive(m)
    BY <1>2, <2>3, <2>4
  <2>6. hooked_methods_[m] \in {NoEntry, TargetEntry(backup)} /\ hookPC # "Idle"
    BY <2>5 DEF HookActive, Pairing, PairInProgress, HookPC, UnHookPC
  <2> QED
    BY <2>2, <2>4, <2>6 DEF NoEntry, TargetEntry, Registered
<1> QED
  BY <1>1, <1>2, <1>3 DEF NoEntry

\* The instrumentation.
LEMMA UpdateEntries ==
  ASSUME TypeOK, Pairing, Structure, NEW x \in ArtMethods, NEW code \in {"Code", "Interpreter"},
         UpdateCode(x, code), NEW m \in Methods \ overlap', EntriesOf(m)
  PROVE  EntriesOf(m)'
<1> USE MethodsAssumption, NamesAssumption
<1> DEFINE b == hooked_methods_[x].other
           updated == IF b # None /\ (code = "Interpreter" \/ entry[x] # code) THEN b ELSE x
<1>1. /\ x \notin deoptimized_methods_set_
      /\ entry' = [entry EXCEPT ![updated] = code]
      /\ UNCHANGED <<hooked_methods_, deoptimized_methods_set_, backup_methods_, initialized,
                     lost, origin, hookPC, target, backup, pc, cls, todo, mth, art>>
      /\ m \notin overlap /\ m \in Methods
      /\ ~(HookActive(m) /\ hookPC \in HookPC /\ x \in {target, backup})
  BY DEF UpdateCode, IsHooked, UpdateMeetsHook, records, sets, deoptimized, caller, threads
<1>2. /\ \A a : Before(a)' <=> Before(a)
      /\ \A a, e : Kept(a, e)' <=> Kept(a, e)
      /\ Working(m)' <=> Working(m)
      /\ HookActive(m)' <=> HookActive(m)
      /\ RecordsKept(m) /\ (Deoptimized(m)' <=> Deoptimized(m))
  BY <1>1 DEF Before, Kept, Working, HookActive, RecordsKept, Deoptimized, Location
<1>3. \A t \in Threads : mth'[t] = m /\ pc'[t] = "SetInterpreter" => art'[t] = Holder(m)
  BY <1>1 DEF EntriesOf
<1> HIDE DEF b, updated
<1>4. ASSUME \A a \in Relevant(m) : entry'[a] = entry[a] PROVE EntriesOf(m)'
  BY <1>1, <1>2, <1>3, <1>4, EntriesFrame
<1>5. Relevant(m) \subseteq ArtMethods
  BY RelevantFamily DEF Structure, Family, ArtMethods
<1>6. CASE updated \notin Relevant(m)
  BY <1>1, <1>4, <1>5, <1>6 DEF TypeOK
<1>7. CASE x # m
  <2>1. CASE x \in Methods
    <3>1. updated = x \/ (updated \in Backups /\ origin[updated] = x)
      BY <2>1 DEF updated, b, Structure, Families
    <3>2. updated \notin Family(m)
      BY <1>7, <2>1, <3>1 DEF Family
    <3> QED
      BY <1>6, <3>2, RelevantFamily DEF Structure
  <2>2. CASE x \in Backups /\ hookPC \in HookPC /\ x = backup
    <3>1. origin[x] = target /\ target # m
      BY <1>1, <2>2 DEF Structure, Families, HookPC, HookActive
    <3>2. updated = x \/ updated = target
      BY <2>2, <3>1 DEF updated, b, Structure, Families
    <3>3. updated \notin Family(m)
      BY <2>2, <3>1, <3>2 DEF Family, TypeOK, HookPC
    <3> QED
      BY <1>6, <3>3, RelevantFamily DEF Structure
  <2>3. CASE x \in Backups /\ ~(hookPC \in HookPC /\ x = backup)
    <3>1. updated = x
      BY <1>1, <2>3, Unshielded DEF updated, b
    <3>2. x # m /\ (HookActive(m) => x # backup)
      BY <1>1, <1>7, <2>3, Unshielded DEF HookActive
    <3>3. Holder(m) # x
      <4>1. CASE Registered(m) /\ HookActive(m)
        <5>1. hooked_methods_[m].other = backup
          BY <4>1 DEF HookActive, Pairing, PairInProgress, Registered, NoEntry, TargetEntry,
                      HookPC, UnHookPC
        <5> QED
          BY <3>2, <4>1, <5>1 DEF Holder
      <4>2. CASE Registered(m) /\ ~HookActive(m)
        BY <1>1, <2>3, <4>2, Unshielded DEF Holder
      <4>3. CASE ~Registered(m)
        BY <3>2, <4>3 DEF Holder
      <4> QED
        BY <4>1, <4>2, <4>3
    <3> QED
      BY <1>6, <3>1, <3>2, <3>3 DEF Relevant
  <2> QED
    BY <2>1, <2>2, <2>3 DEF ArtMethods
<1>8. CASE x = m
  <2>0. /\ m \notin deoptimized_methods_set_ /\ ~Deoptimized(m)
        /\ m \in ArtMethods /\ m \notin Backups
    BY <1>1, <1>8 DEF Deoptimized, ArtMethods
  <2>1. CASE HookActive(m)
    <3>1. hookPC \in UnHookPC /\ target = m /\ backup # m
      BY <1>1, <1>8, <2>0, <2>1 DEF HookActive, TypeOK, HookPC, UnHookPC
    <3>2. b = None
      BY <1>8, <3>1 DEF b, Pairing, PairInProgress, NoEntry, UnHookPC
    <3>3. entry'[backup] = entry[backup]
      BY <1>1, <1>8, <3>1, <3>2 DEF updated, TypeOK, ArtMethods, UnHookPC
    <3>4. ContestedEntries(m)
      BY <2>1 DEF EntriesOf
    <3>5. hookPC \notin HookPC
      BY <3>1 DEF HookPC, UnHookPC
    <3>6. ContestedEntries(m)'
      BY <1>1, <1>2, <3>3, <3>4, <3>5, RunsKept DEF ContestedEntries
    <3> QED
      BY <1>1, <1>2, <1>3, <2>1, <3>6 DEF EntriesOf, Holder, Registered
  <2>2. CASE ~HookActive(m) /\ Registered(m)
    <3>1. b \in Backups /\ b # None /\ HookedEntries(m, b)
      BY <1>8, <2>2, HookedFamily, NamesAssumption DEF b, EntriesOf, Structure
    <3>2. CASE updated = m
      <4>1. entry' = entry
        BY <1>1, <1>8, <2>0, <3>1, <3>2 DEF updated, TypeOK
      <4> QED
        BY <1>4, <4>1
    <3>3. CASE updated = b
      <4>1. entry'[m] = entry[m] /\ entry'[b] = code
        BY <1>1, <2>0, <3>1, <3>3 DEF TypeOK, ArtMethods
      <4>2. \A e : RunsAsRecorded(m, e) => RunsAsRecorded(m, e)'
        BY <1>1, <1>2, RunsKept
      <4>3. \A a : AnyKept(a)' = AnyKept(a) /\ Displaced(a)' = Displaced(a)
        BY <1>2 DEF AnyKept, Displaced
      <4>4. Runs(m, code)' /\ RunsOrResolves(m, code)'
        BY DEF Runs, RunsOrResolves
      <4>5. HookedEntries(m, b)'
        BY <1>1, <1>2, <2>0, <3>1, <4>1, <4>2, <4>3, <4>4 DEF HookedEntries, b
      <4> QED
        BY <1>1, <1>2, <1>3, <1>8, <2>2, <4>5 DEF EntriesOf, Holder, Registered, b
    <3> QED
      BY <1>8, <3>2, <3>3 DEF updated
  <2>3. CASE ~HookActive(m) /\ ~Registered(m)
    <3>1. b = None
      BY <1>8, <2>3 DEF b, HookActive, TypeOK, Pairing, PairInProgress, TargetsPaired, NoEntry,
                        HookPC, UnHookPC
    <3>2. entry'[m] = code
      BY <1>1, <1>8, <2>0, <3>1 DEF updated, TypeOK
    <3>3. UnhookedEntries(m)
      BY <2>3 DEF EntriesOf
    <3>4. ~AnyKept(m)'
      BY <1>2, <2>0, <3>3 DEF UnhookedEntries, AnyKept
    <3>5. Runs(m, code)' /\ RunsOrResolves(m, code)'
      BY DEF Runs, RunsOrResolves
    <3>6. UnhookedEntries(m)'
      BY <1>2, <2>0, <3>2, <3>3, <3>4, <3>5 DEF UnhookedEntries, Displaced, AnyKept
    <3> QED
      BY <1>1, <1>2, <1>3, <2>3, <3>6 DEF EntriesOf, Holder, Registered
  <2> QED
    BY <2>1, <2>2, <2>3
<1> QED
  BY <1>7, <1>8

\* Deoptimize.
LEMMA DeoptimizeEntries ==
  ASSUME TypeOK, Pairing, Structure, NEW t \in Threads, DeoptimizeStep(t),
         NEW m \in Methods \ overlap', EntriesOf(m)
  PROVE  EntriesOf(m)'
<1> USE MethodsAssumption, NamesAssumption
<1>0. /\ UNCHANGED <<hooked_methods_, origin, hookPC, target, backup>>
      /\ UNCHANGED <<backup_methods_, initialized, cls, todo>>
      /\ pc[t] \notin InitPC /\ pc'[t] \notin InitPC
      /\ \A u \in Threads : u # t => pc'[u] = pc[u] /\ mth'[u] = mth[u] /\ art'[u] = art[u]
      /\ m \in Methods /\ m \notin overlap
  BY ThreadStepFrame, DeoptimizeStepFrame, NoteKeeps DEF ThreadStep, DeoptimizeStep
<1>1. \A a : Before(a)' <=> Before(a)
  BY <1>0 DEF Before, Location, InitPC
<1>2. /\ \A a, e : Kept(a, e)' <=> Kept(a, e)
      /\ HookActive(m)' <=> HookActive(m)
      /\ Holder(m)' = Holder(m) /\ Registered(m)' = Registered(m)
  BY <1>0 DEF Kept, HookActive, Holder, Registered
<1>3. \A u \in Threads : u # t /\ mth'[u] = m /\ pc'[u] = "SetInterpreter" => art'[u] = Holder(m)
  BY <1>0 DEF EntriesOf
<1>4. /\ lost \subseteq lost'
      /\ ~(RecordDeoptimized(t) /\ mth[t] = m) => RecordsKept(m)
  BY ThreadRecords DEF ThreadStep, DeoptimizeStep, RecordsKept
<1>d. \A e : Runs(m, e) => Runs(m, e)'
  BY <1>0, <1>4 DEF Runs, Unknown
<1>5. ASSUME DeoptimizeActive(t, m)
      PROVE  /\ ~HookActive(m) /\ Settled(m)
             /\ \A a \in {m, Holder(m)} : (\A e : ~Kept(a, e)) /\ (m \in Static => ~Before(a))
  <2>1. ~HookActive(m) /\ \A u \in Threads : ~InitActive(u, m)
    <3>1. ~InitActive(t, m)
      BY <1>0 DEF InitActive
    <3> QED
      BY <1>0, <1>5, <3>1, Alone DEF Structure
  <2>2. Holder(m) \in Family(m) /\ m \in Family(m)
    BY RelevantFamily DEF Structure, Relevant
  <2> QED
    BY <1>0, <2>1, <2>2, CalmSettled, NothingKept DEF Structure
<1>6. ASSUME mth[t] # m, mth'[t] # m PROVE EntriesOf(m)'
  <2>1. \A a \in Family(m) : entry'[a] = entry[a]
    <3>1. CASE SetInterpreter(t)
      <4>1. entry' = [entry EXCEPT ![art[t]] = "Interpreter"] /\ pc[t] = "SetInterpreter"
        BY <3>1 DEF SetInterpreter, Go
      <4>2. art[t] \notin Family(m)
        BY <1>6, <4>1 DEF Structure, Families, Family, TypeOK, DeoptimizePC
      <4> QED
        BY <4>1, <4>2 DEF TypeOK, Family, ArtMethods
    <3> QED
      BY <3>1 DEF DeoptimizeStep, Deoptimize, EmplaceMethod, RecordDeoptimized, FindBackup, Find
  <2>2. Working(m)' <=> Working(m)
    BY <1>0, <1>6 DEF Working
  <2> QED
    BY <1>0, <1>1, <1>2, <1>3, <1>4, <1>6, <2>1, <2>2, EntriesFrame, RelevantFamily DEF Structure
<1>12. CASE EmplaceMethod(t) /\ mth[t] = m
  <2>1. /\ pc[t] = "Emplace" /\ pc' = [pc EXCEPT ![t] = "RecordDeoptimized"]
        /\ UNCHANGED <<entry, mth>>
    BY <1>12 DEF EmplaceMethod, Go
  <2>2. pc'[t] = "RecordDeoptimized"
    BY <2>1 DEF TypeOK
  <2>3. Working(m)' <=> Working(m)
    BY <1>0, <2>1, <2>2 DEF Working
  <2>4. RecordsKept(m)
    BY <1>4, <2>1 DEF RecordDeoptimized, Go
  <2> QED
    BY <1>0, <1>1, <1>2, <1>3, <2>1, <2>2, <2>3, <2>4, EntriesFrame
<1>7. ASSUME NEW n \in Methods, Deoptimize(t, n) PROVE EntriesOf(m)'
  <2>1. pc[t] = "Idle" /\ pc' = [pc EXCEPT ![t] = "Emplace"] /\ UNCHANGED entry
    BY <1>7 DEF Deoptimize, Go
  <2>2. pc'[t] = "Emplace"
    BY <2>1 DEF TypeOK
  <2>3. Working(m)' <=> Working(m)
    BY <1>0, <2>1, <2>2 DEF Working
  <2>4. RecordsKept(m)
    BY <1>4, <2>1 DEF RecordDeoptimized, Go
  <2> QED
    BY <1>0, <1>1, <1>2, <1>3, <2>1, <2>2, <2>3, <2>4, EntriesFrame
<1>8. CASE RecordDeoptimized(t) /\ mth[t] = m
  <2>1. /\ pc[t] = "RecordDeoptimized" /\ pc' = [pc EXCEPT ![t] = "FindBackup"]
        /\ UNCHANGED <<entry, mth>>
    BY <1>8 DEF RecordDeoptimized, Go
  <2>2. pc'[t] = "FindBackup" /\ mth'[t] = m
    BY <1>8, <2>1 DEF TypeOK
  <2>3. DeoptimizeActive(t, m) /\ Working(m)'
    BY <1>8, <2>1, <2>2 DEF DeoptimizeActive, DeoptimizePC, Working
  <2>4. Settled(m)'
    BY <1>d, <1>0, <1>2, <1>5, <2>1, <2>3 DEF Settled
  <2> QED
    BY <1>1, <1>2, <1>3, <1>5, <2>2, <2>3, <2>4, CalmSuffices
<1>9. CASE FindBackup(t) /\ mth[t] = m
  <2> DEFINE b == hooked_methods_[m].other
  <2>1. /\ pc[t] = "FindBackup" /\ pc' = [pc EXCEPT ![t] = "SetInterpreter"]
        /\ UNCHANGED <<entry, mth>>
        /\ art' = [art EXCEPT ![t] = IF b # None THEN b ELSE m]
    BY <1>9 DEF FindBackup, Find, Go, IsHooked
  <2>2. pc'[t] = "SetInterpreter" /\ mth'[t] = m /\ art'[t] = IF b # None THEN b ELSE m
    BY <1>9, <2>1 DEF TypeOK
  <2>3. DeoptimizeActive(t, m) /\ Working(m)'
    BY <1>9, <2>1, <2>2 DEF DeoptimizeActive, DeoptimizePC, Working
  <2>4. Registered(m) <=> b # None
    <3>1. ~Registered(m) => b = None
      BY <1>5, <2>3 DEF TypeOK, HookActive, Pairing, PairInProgress, TargetsPaired, NoEntry, HookPC, UnHookPC
    <3> QED
      BY <3>1, HookedFamily DEF Structure
  <2>5. art'[t] = Holder(m)
    BY <2>2, <2>4 DEF Holder
  <2>6. RecordsKept(m)
    BY <1>4, <2>1 DEF RecordDeoptimized, Go
  <2> QED
    BY <1>0, <1>1, <1>2, <1>3, <1>5, <2>1, <2>3, <2>5, <2>6, EntriesFrame
<1>10. CASE SetInterpreter(t) /\ mth[t] = m
  <2>1. /\ pc[t] = "SetInterpreter" /\ pc' = [pc EXCEPT ![t] = "Idle"]
        /\ entry' = [entry EXCEPT ![art[t]] = "Interpreter"]
    BY <1>10 DEF SetInterpreter, Go
  <2>2. DeoptimizeActive(t, m) /\ art[t] = Holder(m) /\ pc'[t] = "Idle"
    BY <1>0, <1>10, <2>1 DEF DeoptimizeActive, DeoptimizePC, EntriesOf, TypeOK
  <2>3. /\ entry'[Holder(m)] = "Interpreter"
        /\ Registered(m) => entry'[m] = entry[m]
    BY <2>1, <2>2, HookedFamily DEF Holder, TypeOK, ArtMethods, Structure
  <2>4. Settled(m)'
    BY <1>0, <1>2, <1>5, <2>2, <2>3 DEF Settled, Runs
  <2> QED
    BY <1>1, <1>2, <1>3, <1>5, <2>2, <2>4, CalmSuffices
<1>11. ~(\E n \in Methods : Deoptimize(t, n)) => mth'[t] \in {mth[t], None}
  BY ZenonT(60) DEF DeoptimizeStep, EmplaceMethod, RecordDeoptimized, FindBackup, Find, SetInterpreter, TypeOK
<1> QED
  BY <1>6, <1>7, <1>8, <1>9, <1>10, <1>11, <1>12 DEF DeoptimizeStep

-----------------------------------------------------------------------------
\* An initialisation that leaves the entry points of m alone, and what is saved
\* for it.
LEMMA InitEntriesFrame ==
  ASSUME TypeOK, Pairing, Structure, NEW t \in Threads, InitStep(t),
         NEW m \in Methods \ overlap', EntriesOf(m),
         \A a \in Relevant(m) : /\ entry'[a] = entry[a]
                                /\ m \in Static => (Before(a)' <=> Before(a))
                                /\ \A e : Kept(a, e)' <=> Kept(a, e),
         m \in Static => (ClassOf[m] \in initialized' <=> ClassOf[m] \in initialized)
  PROVE  EntriesOf(m)'
<1>1. /\ UNCHANGED <<hooked_methods_, hookPC, target, backup, mth, art, deoptimized_methods_set_>>
      /\ pc[t] \notin DeoptimizePC /\ pc'[t] \notin DeoptimizePC
      /\ \A u \in Threads : u # t => pc'[u] = pc[u]
  BY ThreadStepFrame, InitStepFrame DEF ThreadStep, InitStep
<1>2. /\ HookActive(m)' <=> HookActive(m)
      /\ Working(m)' <=> Working(m)
      /\ RecordsKept(m)
  BY <1>1, ThreadRecords DEF HookActive, Working, RecordsKept, DeoptimizePC, ThreadStep, InitStep
<1>3. \A u \in Threads : mth'[u] = m /\ pc'[u] = "SetInterpreter" => art'[u] = Holder(m)
  BY <1>1 DEF EntriesOf, DeoptimizePC
<1> QED
  BY <1>1, <1>2, <1>3, EntriesFrame

\* An initialisation on m is alone with it.
LEMMA InitAlone ==
  ASSUME TypeOK, Structure, NEW t \in Threads, InitStep(t),
         NEW m \in Methods \ overlap', InitActive(t, m) \/ InitActive(t, m)'
  PROVE  /\ m \notin overlap
         /\ ~HookActive(m)
         /\ \A u \in Threads : u # t => ~InitActive(u, m)
         /\ \A u \in Threads : ~DeoptimizeActive(u, m) /\ ~DeoptimizeActive(u, m)'
<1>1. /\ UNCHANGED <<hookPC, target, origin, mth>>
      /\ NoteOverlap
      /\ pc[t] \notin DeoptimizePC /\ pc'[t] \notin DeoptimizePC
      /\ \A u \in Threads : u # t => pc'[u] = pc[u] /\ cls'[u] = cls[u]
  BY ThreadStepFrame, InitStepFrame DEF ThreadStep, InitStep
<1>2. /\ HookActive(m)' <=> HookActive(m)
      /\ \A u \in Threads : u # t => (InitActive(u, m)' <=> InitActive(u, m))
      /\ \A u \in Threads : DeoptimizeActive(u, m)' <=> DeoptimizeActive(u, m)
      /\ ~DeoptimizeActive(t, m)
  BY <1>1 DEF HookActive, InitActive, DeoptimizeActive
<1>3. m \notin overlap /\ Exclusive /\ Exclusive'
  BY <1>1, NoteKeeps DEF Structure
<1>4. CASE InitActive(t, m)
  BY <1>2, <1>3, <1>4, Alone
<1>5. CASE InitActive(t, m)'
  <2>1. ~Contended(m)'
    BY <1>3 DEF Exclusive
  <2> QED
    BY <1>2, <1>3, <1>5, <2>1 DEF Contended
<1> QED
  BY <1>4, <1>5

\* Of a method that no Hook or UnHook is at work on, the records are complete.
LEMMA RecordsComplete ==
  ASSUME TypeOK, Pairing, Structure, NEW m \in Methods, ~HookActive(m)
  PROVE  /\ Registered(m) <=> m \in hooked_classes_[ClassOf[m]]
         /\ Registered(m) => /\ Shielded(m, hooked_methods_[m].other)
                             /\ hooked_methods_[hooked_methods_[m].other] = BackupEntry(m)
         /\ ~Registered(m) => hooked_methods_[m].other = None
<1>1. CASE hookPC = "DoHook" /\ target = m
  BY <1>1 DEF Pairing, PairInProgress, Registered, NoEntry
<1>2. CASE ~(hookPC = "DoHook" /\ target = m)
  BY <1>2 DEF TypeOK, HookActive, Pairing, TargetsPaired, NoEntry, Structure, BackupsShielded
<1>3. Registered(m) => Shielded(m, hooked_methods_[m].other)
  BY DEF Structure, BackupsShielded, HookActive
<1> QED
  BY <1>1, <1>2, <1>3 DEF TypeOK, HookActive, Pairing, TargetsPaired, NoEntry

\* An initialisation begins: what is to be saved for m is what its trampoline
\* or the interpreter needs.
LEMMA SetStatusEntries ==
  ASSUME TypeOK, Pairing, Structure, NEW t \in Threads, NEW c \in AllClasses, SetStatus(t, c),
         NEW m \in Methods \ overlap', EntriesOf(m)
  PROVE  EntriesOf(m)'
<1> USE MethodsAssumption, NamesAssumption
<1>0. PICK seen \in SUBSET deoptimized_classes_[c] :
      /\ pc[t] = "Idle" /\ pc' = [pc EXCEPT ![t] = "Fixup"] /\ cls' = [cls EXCEPT ![t] = c]
      /\ UNCHANGED <<entry, todo>> /\ initialized' = initialized \cup {c}
      /\ backup_methods_' = backup_methods_ \cup
           {[thread |-> t, class |-> c, method |-> a, entry |-> entry[a]] : a \in ToBackup(c, seen)}
      /\ lost' = lost \cup {MethodOf(a) : a \in deoptimized_classes_[c] \ seen}
      /\ InitStep(t) /\ m \in Methods
  BY DEF SetStatus, Lose, Go, InitStep
<1>1. /\ UNCHANGED <<hooked_methods_, origin, hookPC, target, backup, mth, art>>
      /\ UNCHANGED <<deoptimized_methods_set_, deoptimized_classes_>>
  BY <1>0, ThreadStepFrame, InitStepFrame DEF ThreadStep, InitStep
<1>2. pc'[t] = "Fixup" /\ cls'[t] = c /\ \A u \in Threads : u # t => pc'[u] = pc[u] /\ cls'[u] = cls[u]
  BY <1>0 DEF TypeOK
<1>3. InitActive(t, m)' <=> m \in Static /\ (c = ClassOf[m] \/ (c \in Backups /\ origin[c] = m))
  BY <1>1, <1>2 DEF InitActive, InitPC
<1>4. \A a, e : Kept(a, e)' <=> Kept(a, e) \/ (a \in ToBackup(c, seen) /\ e = entry[a])
  <2> DEFINE saved(a) == [thread |-> t, class |-> c, method |-> a, entry |-> entry[a]]
  <2>2. backup_methods_' = backup_methods_ \cup {saved(a) : a \in ToBackup(c, seen)}
    BY <1>0
  <2>3. \A a : saved(a).method = a /\ saved(a).entry = entry[a]
    OBVIOUS
  <2> HIDE DEF saved
  <2>1. \A a, e : (\E s \in backup_methods_' : s.method = a /\ s.entry = e)
                 <=> \/ \E s \in backup_methods_ : s.method = a /\ s.entry = e
                     \/ a \in ToBackup(c, seen) /\ e = entry[a]
    BY <2>2, <2>3
  <2> QED
    BY <1>0, <2>1 DEF Kept
<1>5. \A a : Before(a)' <=> Before(a) \/ Location(a) = c
  BY <1>0, <1>2 DEF Before, Location
<1>6. \A a \in ToBackup(c, seen) : Location(a) = c /\ IsStatic(a)
  BY DEF ToBackup, Structure, ClassLists, Location, TypeOK
<1>7. \A a \in Family(m) : /\ IsStatic(a) <=> m \in Static
                           /\ Location(a) = IF a = m THEN ClassOf[m] ELSE a
  BY DEF Family, IsStatic, Location
<1>8. CASE ~InitActive(t, m)'
  <2>1. m \in Static => c # ClassOf[m] /\ \A a \in Family(m) : Location(a) # c
    BY <1>3, <1>7, <1>8 DEF Family
  <2>2. \A a \in Family(m) : a \notin ToBackup(c, seen)
    BY <1>6, <1>7, <2>1
  <2> QED
    BY <1>0, <1>4, <1>5, <2>1, <2>2, InitEntriesFrame, RelevantFamily DEF Structure
<1>9. CASE InitActive(t, m)'
  <2> DEFINE b == hooked_methods_[m].other
  <2>1. /\ m \in Static /\ (c = ClassOf[m] \/ (c \in Backups /\ origin[c] = m))
        /\ ~HookActive(m) /\ ~HookActive(m)'
        /\ \A u \in Threads : ~InitActive(u, m) /\ ~DeoptimizeActive(u, m) /\ ~DeoptimizeActive(u, m)'
    BY <1>0, <1>1, <1>3, <1>9, InitAlone DEF InitActive, InitPC, HookActive
  <2>2. \A a \in Family(m) : /\ \A e : Kept(a, e)' <=> (a \in ToBackup(c, seen) /\ e = entry[a])
                             /\ Before(a)' <=> Location(a) = c
    BY <1>4, <1>5, <2>1, NothingKept DEF Structure
  <2>3. RunsAsRecorded(m, entry[Holder(m)]) /\ Settled(m)
    BY <2>1, CalmEntries, CalmSettled
  <2>4. /\ Registered(m) <=> m \in hooked_classes_[ClassOf[m]]
        /\ Registered(m) => Shielded(m, b)
    BY <2>1, RecordsComplete
  <2>5. \A u \in Threads : ~(mth'[u] = m /\ pc'[u] = "SetInterpreter")
    BY <2>1 DEF DeoptimizeActive, DeoptimizePC
  <2>6. /\ Registered(m)' = Registered(m) /\ Holder(m)' = Holder(m)
        /\ RecordsKept(m) /\ (Deoptimized(m)' => Deoptimized(m))
        /\ m \in Family(m) /\ \A a : Displaced(a)' => AnyKept(a)' /\ ~Before(a)'
    BY <1>0, <1>1 DEF Registered, Holder, RecordsKept, Deoptimized, Family, Displaced
  <2>7. \A e : RunsOrResolves(m, e) => RunsOrResolves(m, e)'
    BY <2>6 DEF RunsOrResolves, Unknown, RecordsKept
  <2>8. \A e : RunsAsRecorded(m, e) =>
          RunsOrResolves(m, e) /\ e \in Code /\ (Deoptimized(m) => e = "Interpreter")
    BY DEF RunsAsRecorded, RunsOrResolves, Runs, Unknown, Code
  <2>9. Registered(m) => b \in Family(m) /\ b # m /\ entry[m] = b /\ Holder(m) = b
                         /\ b \in Backups
    BY <2>3, HookedFamily DEF Structure, Settled, Holder
  <2>10. CASE c = ClassOf[m]
    <3>1. \A a \in Family(m) : a # m => Location(a) # c /\ ~Before(a)' /\ \A e : ~Kept(a, e)'
      BY <1>6, <1>7, <2>2, <2>10 DEF Family
    <3>2. Before(m)' /\ ~Displaced(m)'
      BY <1>7, <2>2, <2>6, <2>10
    <3>3. /\ Registered(m) \/ Deoptimized(m)' => m \in ToBackup(c, seen)
          /\ m \in ToBackup(c, seen) => Registered(m) \/ m \in deoptimized_methods_set_
      <4>1. m \in deoptimized_methods_set_ /\ m \notin lost' => m \in seen
        BY <1>0, <2>10 DEF Structure, DeoptRecorded, MethodOf
      <4>2. m \in seen => m \in deoptimized_methods_set_
        BY <2>1, <2>10 DEF Structure, DeoptRecorded
      <4> QED
        BY <1>1, <2>1, <2>4, <2>10, <4>1, <4>2 DEF ToBackup, IsStatic, Deoptimized
    <3>4. entry[m] \in EntryPoints
      BY DEF TypeOK, ArtMethods
    <3>5. CASE Registered(m)
      <4>1. AnyKept(m)' /\ ~AnyKept(b)' /\ ~Displaced(b)'
        BY <1>1, <2>2, <2>6, <2>9, <3>1, <3>3, <3>4, <3>5 DEF AnyKept, Displaced
      <4>2. HookedEntries(m, b)'
        BY <1>0, <1>1, <2>2, <2>3, <2>6, <2>7, <2>8, <2>9, <3>1, <3>2, <3>5, <4>1 DEF HookedEntries
      <4> QED
        BY <2>1, <2>5, <2>6, <3>5, <4>2 DEF EntriesOf
    <3>6. CASE ~Registered(m)
      <4>1. Deoptimized(m)' => AnyKept(m)'
        BY <2>2, <2>6, <3>3, <3>4 DEF AnyKept
      <4>2. Holder(m) = m
        BY <3>6 DEF Holder
      <4>4. \A e : Kept(m, e)' => /\ m \in deoptimized_methods_set_' /\ RunsAsRecorded(m, e)'
                                  /\ e = entry[m]
        <5>1. \A e : Kept(m, e)' => m \in deoptimized_methods_set_ /\ e = entry[m]
          BY <2>2, <2>6, <3>3, <3>6
        <5>2. m \in deoptimized_methods_set_ => RunsAsRecorded(m, entry[m])'
          BY <1>0, <1>1, <2>3, <2>8, <4>2 DEF RunsAsRecorded, Runs, Unknown, Deoptimized
        <5> QED
          BY <1>0, <1>1, <5>1, <5>2
      <4>5. RunsOrResolves(m, entry[m])' /\ (Deoptimized(m)' => entry'[m] = "Interpreter")
        BY <1>0, <2>3, <2>6, <2>7, <2>8, <4>2
      <4>3. UnhookedEntries(m)'
        BY <3>2, <4>1, <4>4, <4>5 DEF UnhookedEntries
      <4> QED
        BY <2>1, <2>5, <2>6, <3>6, <4>3 DEF EntriesOf
    <3> QED
      BY <3>5, <3>6
  <2>11. CASE c # ClassOf[m]
    <3>1. ~Before(m)' /\ (\A e : ~Kept(m, e)') /\ ~AnyKept(m)' /\ ~Displaced(m)'
      BY <1>6, <1>7, <2>2, <2>6, <2>11 DEF AnyKept, Displaced
    <3>2. /\ \A e : Runs(m, e) => Runs(m, e)'
          /\ \A e : RunsAsRecorded(m, e) => RunsAsRecorded(m, e)'
      BY <1>0, <2>6, <2>11, RunsKept
    <3>3. CASE Registered(m) /\ c = b
      <4>1. b \in ToBackup(c, seen) \/ m \in lost'
        <5>1. b \in deoptimized_classes_[b] \/ m \in lost
          BY <2>4, <3>3 DEF Shielded
        <5>2. MethodOf(b) = m
          BY <2>9, <3>3, HookedFamily DEF MethodOf, Structure
        <5> QED
          BY <1>0, <1>7, <2>1, <2>9, <3>3, <5>1, <5>2 DEF ToBackup
      <4>2. Before(b)' /\ (AnyKept(b)' \/ m \in lost') /\ ~Displaced(b)'
        <5>1. entry[b] \in EntryPoints
          BY <2>9, <3>3 DEF TypeOK, ArtMethods
        <5> QED
          BY <1>1, <1>7, <2>2, <2>6, <2>9, <3>3, <4>1, <5>1 DEF AnyKept
      <4>3. \A e \in EntryPoints : Kept(b, e)' => RunsAsRecorded(m, e)'
        BY <1>1, <2>2, <2>3, <2>6, <2>9, <3>2, <3>3
      <4>4. Runs(m, entry[b])' /\ (Deoptimized(m) => entry[b] = "Interpreter")
        BY <1>0, <1>1, <2>3, <2>9, <3>2, <3>3 DEF RunsAsRecorded
      <4>5. HookedEntries(m, b)'
        BY <1>0, <1>1, <2>6, <2>9, <3>1, <3>3, <4>2, <4>3, <4>4 DEF HookedEntries
      <4> QED
        BY <2>1, <2>5, <2>6, <3>3, <4>5 DEF EntriesOf
    <3>4. CASE ~(Registered(m) /\ c = b)
      <4>1. Holder(m) \in Family(m) /\ Location(Holder(m)) # c
        BY <1>7, <2>6, <2>9, <2>11, <3>4 DEF Holder
      <4>2. (\A e : ~Kept(Holder(m), e)') /\ ~Before(Holder(m))'
        BY <1>6, <2>2, <2>6, <4>1
      <4>3. Settled(m)'
        BY <1>0, <1>1, <2>3, <2>6, <3>2 DEF Settled, RunsAsRecorded
      <4> QED
        BY <2>1, <2>5, <2>6, <3>1, <4>2, <4>3, CalmSuffices
    <3> QED
      BY <3>3, <3>4
  <2> QED
    BY <2>10, <2>11
<1> QED
  BY <1>8, <1>9

\* While an initialisation works on m: what is saved for m and its backups is
\* of its class, and they wait for their code exactly if it still has to come.
LEMMA InitClass ==
  ASSUME TypeOK, Structure, NEW t \in Threads, NEW m \in Methods, InitActive(t, m),
         \A u \in Threads : u # t => ~InitActive(u, m)
  PROVE  \A a \in Family(m) :
           /\ \A e : Kept(a, e) => cls[t] = Location(a)
           /\ Before(a) <=> pc[t] = "Fixup" /\ cls[t] = Location(a)
<1>1. m \in Static
  BY DEF InitActive
<1> QED
  BY <1>1, KeptActive, BeforeActive DEF Structure, Before

\* ART gives the class its code: what it displaces has been saved.
LEMMA FixupEntries ==
  ASSUME TypeOK, Pairing, Structure, NEW t \in Threads, Fixup(t),
         NEW m \in Methods \ overlap', EntriesOf(m)
  PROVE  EntriesOf(m)'
<1> USE MethodsAssumption, NamesAssumption
<1>0. /\ pc[t] = "Fixup" /\ pc' = [pc EXCEPT ![t] = "PopBackup"]
      /\ UNCHANGED <<backup_methods_, initialized, cls, todo>>
      /\ entry' = [a \in ArtMethods |->
                     IF Location(a) # cls[t] \/ ~IsStatic(a) THEN entry[a]
                     ELSE IF a \in Methods THEN "Code" ELSE "Stub"]
      /\ InitStep(t) /\ m \in Methods /\ UNCHANGED lost
  BY DEF Fixup, Go, InitStep, InitFrame, deoptimized
<1>1. UNCHANGED <<hooked_methods_, origin, hookPC, target, backup, mth, art,
                  deoptimized_methods_set_>>
  BY <1>0, ThreadStepFrame, InitStepFrame DEF ThreadStep, InitStep
<1>2. pc'[t] = "PopBackup" /\ \A u \in Threads : u # t => pc'[u] = pc[u]
  BY <1>0 DEF TypeOK
<1>3. \A a, e : Kept(a, e)' <=> Kept(a, e)
  BY <1>0 DEF Kept
<1>4. \A a : Before(a)' <=> \E u \in Threads : u # t /\ pc[u] = "Fixup" /\ cls[u] = Location(a)
  BY <1>0, <1>2 DEF Before, Location
<1>5. \A a \in Family(m) : /\ IsStatic(a) <=> m \in Static
                           /\ Location(a) = IF a = m THEN ClassOf[m] ELSE a
                           /\ a \in ArtMethods /\ (a \in Methods <=> a = m)
  BY DEF Family, IsStatic, Location, ArtMethods
<1>6. InitActive(t, m) <=> m \in Static /\ \E a \in Family(m) : cls[t] = Location(a)
  BY <1>0, <1>5 DEF InitActive, InitPC, Family
<1>7. CASE ~InitActive(t, m)
  <2>1. \A a \in Family(m) : entry'[a] = entry[a] /\ (m \in Static => (Before(a)' <=> Before(a)))
    BY <1>0, <1>4, <1>5, <1>6, <1>7 DEF Before
  <2> QED
    BY <1>0, <1>3, <2>1, InitEntriesFrame, RelevantFamily DEF Structure
<1>8. CASE InitActive(t, m)
  <2> DEFINE b == hooked_methods_[m].other
  <2>1. /\ ~HookActive(m) /\ ~HookActive(m)'
        /\ \A u \in Threads : u # t => ~InitActive(u, m)
        /\ \A u \in Threads : ~DeoptimizeActive(u, m) /\ ~DeoptimizeActive(u, m)'
        /\ m \in Static
    BY <1>0, <1>1, <1>8, InitAlone DEF HookActive, InitActive
  <2>2. \A a \in Family(m) : /\ Before(a) <=> cls[t] = Location(a)
                             /\ ~Before(a)'
                             /\ \A e : Kept(a, e) => cls[t] = Location(a)
    <3>1. \A a \in Family(m) : ~Before(a)'
      BY <1>4, <1>5, <2>1 DEF InitActive, InitPC, Family
    <3> QED
      BY <1>0, <1>8, <2>1, <3>1, InitClass
  <2>3. \A a \in Family(m) : entry'[a] = IF cls[t] # Location(a) THEN entry[a]
                                         ELSE IF a = m THEN "Code" ELSE "Stub"
    BY <1>0, <1>5, <2>1
  <2>4. \A u \in Threads : ~(mth'[u] = m /\ pc'[u] = "SetInterpreter")
    BY <2>1 DEF DeoptimizeActive, DeoptimizePC
  <2>5. /\ Registered(m)' = Registered(m) /\ m \in Family(m)
        /\ (Deoptimized(m)' <=> Deoptimized(m))
        /\ \A a : AnyKept(a)' <=> AnyKept(a)
        /\ \A a : Displaced(a) <=> AnyKept(a) /\ ~Before(a)
        /\ \A a \in Family(m) : Displaced(a)' <=> AnyKept(a)
    BY <1>0, <1>1, <1>3, <2>2 DEF Registered, Family, Deoptimized, AnyKept, Displaced
  <2>6. \A e : /\ RunsOrResolves(m, e)' <=> RunsOrResolves(m, e)
               /\ RunsAsRecorded(m, e)' <=> RunsAsRecorded(m, e)
               /\ Runs(m, e)' <=> Runs(m, e)
    BY <1>0, <2>5 DEF RunsOrResolves, RunsAsRecorded, Runs, Unknown
  <2>7. CASE Registered(m)
    <3>1. HookedEntries(m, b) /\ b \in Family(m) /\ b # m
      BY <2>1, <2>7, HookedFamily DEF EntriesOf, Structure
    <3>2. b' = b /\ Location(m) = ClassOf[m] /\ Location(b) = b /\ b # ClassOf[m]
      BY <1>1, <1>5, <3>1 DEF Family
    <3>3. \A a \in {m, b} : AnyKept(a) => cls[t] = Location(a)
      BY <2>2, <2>5, <3>1 DEF AnyKept
    <3>4. (cls[t] = ClassOf[m] => AnyKept(m)) /\ (cls[t] = b => AnyKept(b) \/ m \in lost)
      BY <2>1, <2>2, <2>5, <3>1, <3>2 DEF HookedEntries
    <3>5. entry'[m] = IF AnyKept(m) THEN "Code" ELSE entry[m]
      BY <2>3, <2>5, <3>2, <3>3, <3>4
    <3>6. ~AnyKept(b) => entry'[b] = entry[b] \/ (m \in lost /\ entry'[b] = "Stub")
      BY <2>3, <3>1, <3>2, <3>3, <3>4
    <3>10. m \in lost => Runs(m, "Stub") /\ RunsOrResolves(m, "Stub") /\ ~Deoptimized(m)
      BY DEF Runs, RunsOrResolves, Unknown, Deoptimized, Code
    <3>7. ~Displaced(m) => entry[m] = b
      BY <3>1 DEF HookedEntries
    <3>8. ~AnyKept(b) => /\ IF AnyKept(m) THEN RunsOrResolves(m, entry[b]) ELSE Runs(m, entry[b])
                         /\ Deoptimized(m) => entry[b] = "Interpreter"
      BY <2>1, <2>5, <3>1 DEF HookedEntries, Working, DeoptimizeActive, DeoptimizePC
    <3>11. ~AnyKept(b) => /\ IF AnyKept(m) THEN RunsOrResolves(m, entry'[b]) ELSE Runs(m, entry'[b])
                          /\ Deoptimized(m) => entry'[b] = "Interpreter"
      BY <3>6, <3>8, <3>10
    <3>9. HookedEntries(m, b)'
      BY <1>3, <2>2, <2>5, <2>6, <3>1, <3>2, <3>5, <3>7, <3>11 DEF HookedEntries
    <3> QED
      BY <2>1, <2>4, <2>5, <2>7, <3>9 DEF EntriesOf
  <2>8. CASE ~Registered(m)
    <3>1. UnhookedEntries(m)
      BY <2>1, <2>8 DEF EntriesOf
    <3>2. CASE cls[t] = Location(m)
      <4>1. Before(m) /\ entry'[m] = "Code" /\ (Deoptimized(m) => AnyKept(m))
        BY <2>1, <2>2, <2>3, <2>5, <3>1, <3>2 DEF UnhookedEntries, AnyKept
      <4>2. UnhookedEntries(m)'
        BY <1>1, <1>3, <2>2, <2>5, <2>6, <3>1, <4>1 DEF UnhookedEntries, Runs
      <4> QED
        BY <2>1, <2>4, <2>5, <2>8, <4>2 DEF EntriesOf
    <3>3. CASE cls[t] # Location(m)
      <4>1. entry'[m] = entry[m] /\ (Before(m)' <=> Before(m))
        BY <2>2, <2>3, <2>5, <3>3
      <4>2. Relevant(m) = {m}
        BY <2>1, <2>8 DEF Relevant, Holder
      <4> QED
        BY <1>0, <1>3, <4>1, <4>2, InitEntriesFrame
    <3> QED
      BY <3>2, <3>3
  <2> QED
    BY <2>7, <2>8
<1> QED
  BY <1>7, <1>8

\* What was saved moves to the thread that restores it.
LEMMA PopBackupEntries ==
  ASSUME TypeOK, Pairing, Structure, NEW t \in Threads, PopBackup(t),
         NEW m \in Methods \ overlap', EntriesOf(m)
  PROVE  EntriesOf(m)'
<1> DEFINE found == {s \in backup_methods_ : s.class = cls[t]}
           strip(s) == [method |-> s.method, entry |-> s.entry]
           left == {strip(s) : s \in found}
<1>0. /\ pc[t] = "PopBackup" /\ UNCHANGED <<entry, initialized>>
      /\ backup_methods_' = backup_methods_ \ found
      /\ RestoreLeft(t, left) /\ InitStep(t) /\ m \in Methods
  BY DEF PopBackup, InitStep, RestoreLeft
<1>1. \A s : strip(s).method = s.method /\ strip(s).entry = s.entry
  OBVIOUS
<1>2. found \subseteq backup_methods_ /\ todo[t] = {}
  BY <1>0 DEF TypeOK
<1>3. left = {strip(s) : s \in found}
  OBVIOUS
<1> HIDE DEF found, strip, left
<1>4. todo' = [todo EXCEPT ![t] = left] /\ pc'[t] # "Fixup"
  BY <1>0 DEF RestoreLeft, TypeOK
<1>5. \A u \in Threads : u # t => pc'[u] = pc[u] /\ cls'[u] = cls[u] /\ todo'[u] = todo[u]
  BY <1>0, InitStepFrame
<1>6. \A a : Before(a)' <=> Before(a)
  BY <1>0, <1>4, <1>5 DEF Before, Location
<1>7. \A a, e : (\E s \in left : s.method = a /\ s.entry = e)
                <=> \E s \in found : s.method = a /\ s.entry = e
  BY <1>1, <1>3
<1>8. todo'[t] = left
  BY <1>4 DEF TypeOK
<1>9. \A a, e : Kept(a, e)' <=> Kept(a, e)
  BY <1>0, <1>2, <1>5, <1>7, <1>8 DEF Kept
<1> QED
  BY <1>0, <1>6, <1>9, InitEntriesFrame

\* What a turn of RestoreBackup's loop takes away.
LEMMA RestoreKept ==
  ASSUME TypeOK, Structure, NEW t \in Threads, NEW s \in todo[t],
         RestoreLeft(t, todo[t] \ {s}), pc[t] = "Restore", UNCHANGED backup_methods_,
         InitStep(t)
  PROVE  /\ \A a : Before(a)' <=> Before(a)
         /\ \A a, e : Kept(a, e)' => Kept(a, e)
         /\ \A a, e : a # s.method => (Kept(a, e)' <=> Kept(a, e))
         /\ Kept(s.method, s.entry)
         /\ \A u \in Threads : todo'[u] \subseteq todo[u]
         /\ todo'[t] = todo[t] \ {s}
<1>1. todo' = [todo EXCEPT ![t] = todo[t] \ {s}] /\ pc'[t] # "Fixup"
  BY DEF RestoreLeft, TypeOK
<1>2. \A u \in Threads : u # t => pc'[u] = pc[u] /\ cls'[u] = cls[u]
  BY InitStepFrame
<1>3. \A u \in Threads : todo'[u] = IF u = t THEN todo[t] \ {s} ELSE todo[u]
  BY <1>1 DEF TypeOK
<1>4. \A a : Before(a)' <=> Before(a)
  BY <1>1, <1>2 DEF Before, Location
<1> QED
  BY <1>3, <1>4 DEF Kept

\* What is saved for m and its backups is with the only thread that restores it.
LEMMA KeptByOne ==
  ASSUME TypeOK, Structure, NEW t \in Threads, NEW m \in Methods, InitActive(t, m),
         \A u \in Threads : u # t => ~InitActive(u, m), pc[t] = "Restore",
         NEW a \in Family(m)
  PROVE  /\ \A s \in backup_methods_ : s.method # a
         /\ \A u \in Threads : \A s \in todo[u] : s.method = a => u = t
<1> USE MethodsAssumption, NamesAssumption
<1>1. m \in Static
  BY DEF InitActive
<1>2. \A u \in Threads : pc[u] \in InitPC /\ cls[u] = Location(a) => u = t
  BY <1>1 DEF InitActive, Location, Family
<1> QED
  BY <1>2 DEF Structure, SavedLive, TypeOK, InitPC

\* The saved entry point comes back, and the code goes to the backup.
LEMMA RestoreBackupEntries ==
  ASSUME TypeOK, Pairing, Structure, NEW t \in Threads, RestoreBackup(t),
         NEW m \in Methods \ overlap', EntriesOf(m)
  PROVE  EntriesOf(m)'
<1> USE MethodsAssumption, NamesAssumption
<1>0. /\ pc[t] = "Restore" /\ InitStep(t) /\ m \in Methods
      /\ UNCHANGED <<backup_methods_, initialized, lost>>
  BY DEF RestoreBackup, RestoreLeft, InitStep, InitFrame, deoptimized
<1>1. PICK s \in todo[t] :
        LET new == entry[s.method]
            isDeoptimized == s.method \in deoptimized_methods_set_
            o == hooked_methods_[s.method].other
            restored == [entry EXCEPT ![s.method] = s.entry]
        IN /\ entry' = IF o # None
                       THEN IF ~isDeoptimized /\ new # s.entry
                            THEN [restored EXCEPT ![o] = new] ELSE restored
                       ELSE IF isDeoptimized /\ new # "Interpreter"
                            THEN [entry EXCEPT ![s.method] = "Interpreter"] ELSE restored
           /\ RestoreLeft(t, todo[t] \ {s})
  BY DEF RestoreBackup, IsHooked
<1> DEFINE o == hooked_methods_[s.method].other
<1>2. UNCHANGED <<hooked_methods_, origin, hookPC, target, backup, mth, art, deoptimized_methods_set_>>
  BY <1>0, ThreadStepFrame, InitStepFrame DEF ThreadStep, InitStep
<1>3. /\ \A a : Before(a)' <=> Before(a)
      /\ \A a, e : Kept(a, e)' => Kept(a, e)
      /\ \A a, e : a # s.method => (Kept(a, e)' <=> Kept(a, e))
      /\ Kept(s.method, s.entry)
      /\ todo'[t] = todo[t] \ {s}
  BY <1>0, <1>1, RestoreKept
<1>4. /\ s.method \in ArtMethods /\ s.entry \in EntryPoints
      /\ Location(s.method) = cls[t] /\ IsStatic(s.method)
      /\ s = [method |-> s.method, entry |-> s.entry]
  BY <1>0 DEF TypeOK, Saved, Structure, SavedLive
<1>5. \A a \in ArtMethods : a # s.method /\ a # o => entry'[a] = entry[a]
  BY <1>1 DEF TypeOK
<1>6. \A a \in Family(m) : a \in ArtMethods
  BY DEF Family, ArtMethods
<1>7. CASE s.method \notin Family(m)
  <2>1. o \notin Family(m)
    <3>1. CASE s.method \in Methods
      BY <1>7, <3>1 DEF Structure, Families, Family
    <3>2. CASE s.method \in Backups
      <4>1. o = None \/ o = origin[s.method]
        BY <3>2 DEF Structure, Families
      <4>2. origin[s.method] # m /\ origin[s.method] \in Methods \cup {None}
        BY <1>7, <3>2 DEF Family, TypeOK
      <4> QED
        BY <4>1, <4>2 DEF Family
    <3> QED
      BY <1>4, <3>1, <3>2 DEF ArtMethods
  <2>2. \A a \in Family(m) : entry'[a] = entry[a] /\ \A e : Kept(a, e)' <=> Kept(a, e)
    BY <1>3, <1>5, <1>6, <1>7, <2>1
  <2> QED
    BY <1>0, <1>3, <2>2, InitEntriesFrame, RelevantFamily DEF Structure
<1>8. CASE s.method \in Family(m)
  <2> DEFINE b == hooked_methods_[m].other
  <2>1. InitActive(t, m)
    BY <1>0, <1>4, <1>8 DEF InitActive, InitPC, Family, Location, IsStatic
  <2>2. /\ ~HookActive(m) /\ ~HookActive(m)'
        /\ \A u \in Threads : u # t => ~InitActive(u, m)
        /\ \A u \in Threads : ~DeoptimizeActive(u, m) /\ ~DeoptimizeActive(u, m)'
        /\ m \in Static
    BY <1>0, <1>2, <2>1, InitAlone DEF HookActive, InitActive
  <2>3. \A a \in Family(m) : ~Before(a) /\ ~Before(a)' /\ \A e : Kept(a, e) => Location(a) = cls[t]
    BY <1>0, <1>3, <2>1, <2>2, InitClass
  <2>4. \A u \in Threads : ~(mth'[u] = m /\ pc'[u] = "SetInterpreter")
    BY <2>2 DEF DeoptimizeActive, DeoptimizePC
  <2>5. /\ Registered(m)' = Registered(m) /\ Holder(m)' = Holder(m) /\ m \in Family(m)
        /\ (Deoptimized(m)' <=> Deoptimized(m))
        /\ \A a \in Family(m) : Displaced(a) <=> AnyKept(a)
        /\ \A a \in Family(m) : Displaced(a)' <=> AnyKept(a)'
        /\ ~Working(m)
    BY <1>0, <1>2, <2>2, <2>3 DEF Registered, Holder, Family, Deoptimized, Displaced, Working,
                            DeoptimizeActive, DeoptimizePC
  <2>6. /\ Registered(m) => Shielded(m, b)
        /\ ~Registered(m) => b = None
    BY <2>2, RecordsComplete
  <2>7. \A e : /\ Runs(m, e)' <=> Runs(m, e)
               /\ RunsOrResolves(m, e)' <=> RunsOrResolves(m, e)
               /\ RunsAsRecorded(m, e)' <=> RunsAsRecorded(m, e)
    BY <1>0, <2>5 DEF Runs, RunsOrResolves, RunsAsRecorded, Unknown
  <2>8. Registered(m) => /\ b \in Backups /\ b \in Family(m) /\ b # m /\ b # None
                         /\ HookedEntries(m, b) /\ Holder(m) = b /\ Location(b) = b
                         /\ b \in ArtMethods
    BY <2>2, HookedFamily DEF Structure, EntriesOf, Holder, Location, ArtMethods
  <2>9. m \in ArtMethods /\ m \notin Backups /\ Location(m) = ClassOf[m]
    BY DEF ArtMethods, Location
  <2>10. CASE s.method = m
    <3>1. AnyKept(m) /\ Displaced(m) /\ cls[t] = ClassOf[m] /\ cls[t] \notin Backups
      BY <1>3, <1>4, <2>5, <2>9, <2>10 DEF AnyKept
    <3>2. entry[m] = "Code"
      <4>1. CASE Registered(m)
        BY <2>8, <3>1, <4>1 DEF HookedEntries
      <4>2. CASE ~Registered(m)
        BY <2>2, <3>1, <4>2 DEF EntriesOf, UnhookedEntries
      <4> QED
        BY <4>1, <4>2
    <3>3. ASSUME \A e : Kept(m, e) => e = s.entry PROVE \A e : ~Kept(m, e)'
      <4>1. SUFFICES ASSUME NEW e, Kept(m, e)' PROVE FALSE
        OBVIOUS
      <4>2. Kept(m, e) /\ e = s.entry
        BY <1>3, <3>3, <4>1
      <4>3. PICK r \in todo'[t] : r.method = m /\ r.entry = e
        BY <1>0, <1>3, <2>1, <2>2, <2>5, <4>1, KeptByOne, InitStepFrame DEF Kept
      <4>4. r \in todo[t] /\ r # s /\ r = [method |-> r.method, entry |-> r.entry]
        BY <1>3, <4>3 DEF TypeOK, Saved
      <4> QED
        BY <1>4, <2>10, <4>2, <4>3, <4>4
    <3>4. CASE Registered(m)
      <4>1. s.entry = b /\ o = b
        BY <1>3, <1>4, <2>8, <2>10, <3>4 DEF HookedEntries
      <4>2. \A e : ~Kept(m, e)'
        <5>1. \A e : Kept(m, e) => e \in EntryPoints
          BY DEF Kept, TypeOK, Saved
        <5> QED
          BY <2>8, <3>3, <3>4, <4>1, <5>1 DEF HookedEntries
      <4>3. \A e : ~Kept(b, e)'
        BY <1>2, <1>3, <2>3, <2>8, <3>1, <3>4
      <4>4. entry'[m] = b /\ entry'[b] = IF m \in deoptimized_methods_set_ THEN entry[b] ELSE "Code"
        BY <1>1, <2>8, <2>9, <2>10, <3>2, <3>4, <4>1 DEF TypeOK, Code
      <4>5. /\ Deoptimized(m) => entry[b] = "Interpreter"
            /\ RunsOrResolves(m, entry[b])
        <5>1. ~Displaced(b)
          BY <2>3, <2>8, <3>1, <3>4 DEF Displaced, AnyKept
        <5> QED
          BY <2>5, <2>8, <3>1, <3>4, <5>1 DEF HookedEntries
      <4>7. Runs(m, entry'[b]) /\ (Deoptimized(m) => entry'[b] = "Interpreter")
        BY <4>4, <4>5 DEF Runs, RunsOrResolves, Unknown, Deoptimized, Code
      <4>6. Settled(m)'
        BY <1>2, <2>5, <2>7, <2>8, <3>4, <4>4, <4>7 DEF Settled
      <4> QED
        BY <1>2, <2>2, <2>3, <2>4, <2>5, <2>8, <3>4, <4>2, <4>3, <4>6, CalmSuffices
    <3>5. CASE ~Registered(m)
      <4>1. UnhookedEntries(m)
        BY <2>2, <3>5 DEF EntriesOf
      <4>2. m \in deoptimized_methods_set_ /\ o = None
        BY <1>3, <1>4, <2>6, <2>10, <3>5, <4>1 DEF UnhookedEntries
      <4>3. \A e : ~Kept(m, e)'
        <5>1. \A e : Kept(m, e) => e \in EntryPoints
          BY DEF Kept, TypeOK, Saved
        <5> QED
          BY <1>3, <1>4, <2>10, <3>3, <4>1, <5>1 DEF UnhookedEntries
      <4>4. entry'[m] = "Interpreter"
        BY <1>1, <2>9, <2>10, <3>2, <4>2 DEF TypeOK
      <4>5. Holder(m) = m
        BY <3>5 DEF Holder
      <4>6. Settled(m)'
        BY <2>5, <3>5, <4>4, <4>5 DEF Settled, Runs
      <4> QED
        BY <2>2, <2>3, <2>4, <2>5, <4>3, <4>5, <4>6, CalmSuffices
    <3> QED
      BY <3>4, <3>5
  <2>11. CASE s.method # m
    <3>1. s.method \in Backups /\ origin[s.method] = m /\ cls[t] = s.method
      BY <1>4, <1>8, <2>9, <2>11 DEF Family, Location
    <3>2. \A e : ~Kept(m, e) /\ ~Kept(m, e)'
      BY <1>3, <2>3, <2>5, <2>9, <3>1
    <3>3. CASE Registered(m) /\ b = s.method
      <4>1. o = m /\ s.method \in deoptimized_methods_set_
        <5>1. hooked_methods_[b] = BackupEntry(m)
          BY <2>2, <3>3, RecordsComplete
        <5>2. o = m
          BY <3>3, <5>1 DEF BackupEntry
        <5>3. b \in deoptimized_methods_set_
          BY <2>6, <3>3 DEF Shielded
        <5> QED
          BY <3>3, <5>2, <5>3
      <4>2. entry' = [entry EXCEPT ![b] = s.entry]
        BY <1>1, <2>9, <3>3, <4>1
      <4>3. entry'[b] = s.entry /\ entry'[m] = entry[m] /\ entry[m] = b
        BY <2>5, <2>8, <2>9, <3>2, <3>3, <4>2 DEF TypeOK, HookedEntries, AnyKept
      <4>4. RunsAsRecorded(m, s.entry)
        BY <1>3, <1>4, <2>8, <3>3 DEF HookedEntries
      <4>5. HookedEntries(m, b)'
        BY <1>2, <1>3, <2>3, <2>5, <2>7, <2>8, <3>2, <3>3, <4>3, <4>4
           DEF HookedEntries, AnyKept, RunsAsRecorded
      <4> QED
        BY <2>2, <2>4, <2>5, <3>3, <4>5 DEF EntriesOf
    <3>4. CASE ~(Registered(m) /\ b = s.method)
      <4>1. o = None
        <5>1. ASSUME o # None PROVE FALSE
          <6>1. hooked_methods_[s.method] # NoEntry /\ o = m
            BY <3>1, <5>1 DEF NoEntry, Structure, Families
          <6>2. hookPC # "Idle" => s.method # backup
            BY <2>2, <3>1, <6>1 DEF TypeOK, HookActive, Structure, Families, Pairing, PairInProgress
          <6>3. QED
            <7>1. hooked_methods_[m] = TargetEntry(s.method)
              BY <3>1, <6>1, <6>2 DEF Pairing, BackupsPaired
            <7> QED
              BY <3>4, <7>1 DEF TargetEntry, Registered
        <5> QED
          BY <5>1
      <4>2. \A a \in Relevant(m) : a # s.method /\ a # None /\ a \in ArtMethods
        BY <2>2, <2>8, <2>9, <2>11, <3>4 DEF Relevant, Holder
      <4>3. \A a \in Relevant(m) : entry'[a] = entry[a] /\ \A e : Kept(a, e)' <=> Kept(a, e)
        BY <1>3, <1>5, <4>1, <4>2
      <4> QED
        BY <1>0, <1>3, <4>3, InitEntriesFrame
    <3> QED
      BY <3>3, <3>4
  <2> QED
    BY <2>10, <2>11
<1> QED
  BY <1>7, <1>8

-----------------------------------------------------------------------------
QuietInv == IInv /\ Structure /\ Entries

\* Every step keeps the entries of a method that was never contended.
LEMMA NextEntries ==
  ASSUME TypeOK, Pairing, Structure, Entries, [Next]_vars
  PROVE  Structure' /\ Entries'
<1>1. CASE HookStep
  <2>1. \A m \in Methods \ overlap' : m \in Methods \ overlap
    BY <1>1, HookStepFrame, NoteKeeps
  <2>2. ASSUME NEW m \in Methods \ overlap' PROVE EntriesOf(m)'
    BY <1>1, <2>1, HookEntries DEF Entries
  <2> QED
    BY <1>1, <2>2, HookStructure, Zenon DEF Entries
<1>2. ASSUME NEW t \in Threads, ThreadStep(t) PROVE Structure' /\ Entries'
  <2>1. \A m \in Methods \ overlap' : m \in Methods \ overlap
    BY <1>2, ThreadStepFrame, NoteKeeps
  <2>2. ASSUME NEW m \in Methods \ overlap' PROVE EntriesOf(m)'
    <3>1. EntriesOf(m)
      BY <2>1 DEF Entries
    <3>2. CASE DeoptimizeStep(t)
      BY <3>1, <3>2, DeoptimizeEntries
    <3>3. CASE InitStep(t)
      BY <3>1, <3>3, SetStatusEntries, FixupEntries, PopBackupEntries, RestoreBackupEntries
         DEF InitStep
    <3> QED
      BY <1>2, <3>2, <3>3 DEF ThreadStep, DeoptimizeStep, InitStep
  <2> QED
    BY <1>2, <2>2, ThreadStructure, Zenon DEF Entries
<1>3. ASSUME NEW a \in ArtMethods, NEW code \in {"Code", "Interpreter"}, UpdateCode(a, code)
      PROVE  Structure' /\ Entries'
  <2>1. overlap \subseteq overlap'
    BY <1>3 DEF UpdateCode
  <2>2. ASSUME NEW m \in Methods \ overlap' PROVE EntriesOf(m)'
    <3>1. EntriesOf(m)
      BY <2>1 DEF Entries
    <3> QED
      BY <1>3, <3>1, UpdateEntries
  <2>3. Structure'
    BY <1>3, <2>1, StructureFrame DEF UpdateCode, records, sets, deoptimized, caller, threads
  <2> QED
    BY <2>2, <2>3, Zenon DEF Entries
<1>4. CASE UNCHANGED vars
  <2>1. UNCHANGED <<hooked_methods_, hooked_classes_, deoptimized_methods_set_,
                    deoptimized_classes_, lost, backup_methods_, entry, initialized, origin,
                    hookPC, target, backup, pc, cls, todo, mth, art, overlap>>
    BY <1>4 DEF vars, records, sets, deoptimized, caller, threads
  <2>2. ASSUME NEW m \in Methods \ overlap' PROVE EntriesOf(m)'
    <3>1. EntriesOf(m) /\ m \in Methods
      BY <2>1 DEF Entries
    <3>2. (\A a : Before(a)' <=> Before(a)) /\ (\A a, e : Kept(a, e)' <=> Kept(a, e))
      BY <2>1 DEF Before, Kept, Location
    <3>3. /\ HookActive(m)' <=> HookActive(m)
          /\ Working(m)' <=> Working(m)
          /\ RecordsKept(m)
      BY <2>1 DEF HookActive, Working, RecordsKept
    <3>4. \A t \in Threads : mth'[t] = m /\ pc'[t] = "SetInterpreter" => art'[t] = Holder(m)
      BY <2>1, <3>1 DEF EntriesOf
    <3> QED
      BY <2>1, <3>1, <3>2, <3>3, <3>4, EntriesFrame
  <2> QED
    BY <2>1, <2>2, StructureFrame, Zenon DEF Entries
<1> QED
  BY <1>1, <1>2, <1>3, <1>4 DEF Next

\* What is recorded, saved and in progress, and where the entry points of every
\* method lead on which no two operations were at work at once, hold in every
\* reachable state.
THEOREM QuietInvariance == Spec => []QuietInv
<1>1. Init => Structure /\ Entries
  BY InitStructure, InitEntries
<1>2. IInv /\ Structure /\ Entries /\ [Next]_vars => Structure' /\ Entries'
  BY NextEntries DEF IInv
<1>3. Spec => [](Structure /\ Entries)
  BY <1>1, <1>2, Invariance, PTL DEF Spec
<1> QED
  BY <1>3, Invariance, PTL DEF QuietInv

\* A quiet method is settled, and runs as recorded.
LEMMA QuietSettled ==
  ASSUME QuietInv, NEW m \in Methods, Quiet(m)
  PROVE  Settled(m) /\ RunsAsRecorded(m, entry[Holder(m)]) /\ ~Working(m)
<1>1. EntriesOf(m) /\ m \in Methods \ overlap
  BY DEF QuietInv, Entries, Quiet
<1>2. ~Working(m)
  BY DEF Quiet, Working, DeoptimizeActive, DeoptimizePC
<1> QED
  BY <1>1, <1>2, CalmSettled, CalmEntries DEF Quiet, QuietInv, IInv

\* Whatever the threads of ART do between and during the steps of Hook and
\* UnHook, a hooked method on which no two of them were at work at once enters
\* its trampoline, and a method that is not hooked enters none.
THEOREM TrampolinesEntered == Spec => []HookedIsPatched
<1>1. QuietInv => HookedIsPatched
  <2> SUFFICES ASSUME QuietInv, NEW m \in Methods, Quiet(m)
               PROVE  IF Registered(m) THEN entry[m] = hooked_methods_[m].other
                      ELSE entry[m] \notin Backups
    BY DEF HookedIsPatched
  <2> QED
    BY QuietSettled, NamesAssumption DEF Settled, Holder, Runs, Unknown, Code
<1> QED
  BY <1>1, QuietInvariance, PTL

\* The backup of a hooked method runs the original: the code or the interpreter,
\* or the stub that resolves a static method of a class not yet initialised;
\* unless two emplacers of one class raced and lost a record of the method.
THEOREM OriginalsRun == Spec => []BackupRunsOriginal
<1>1. QuietInv => BackupRunsOriginal
  BY QuietSettled DEF BackupRunsOriginal, Settled, Holder, Runs, Unknown
<1> QED
  BY <1>1, QuietInvariance, PTL

\* A method once deoptimized stays interpreted, hooked or not, through every
\* hook, unhook and initialisation that follows, with the same exception.
THEOREM DeoptimizedStay == Spec => []DeoptimizedInterprets
<1>1. QuietInv => DeoptimizedInterprets
  BY QuietSettled DEF DeoptimizedInterprets, RunsAsRecorded, Holder, Deoptimized
<1> QED
  BY <1>1, QuietInvariance, PTL
=============================================================================
