------------------------- MODULE CalvinBridgeProofs -------------------------
(***************************************************************************)
(* Proofs about CalvinBridge, for every number of threads, methods,        *)
(* callbacks, records and operations.                                      *)
(*                                                                         *)
(* The inductive invariant says who holds the monitor, what the holder     *)
(* knows of the map and of the runtime at each position, that a record     *)
(* belongs to one method and is unknown to the others until it is put in   *)
(* the map, and which records have a backup.                               *)
(***************************************************************************)
EXTENDS CalvinBridge, TLAPS

\* A thread in an operation has its arguments.
LocalsOK == \A t \in Threads :
  /\ pc[t] # "idle" => mth[t] \in Methods
  /\ pc[t] \in HookPC \cup UnhookPC => cb[t] \in Callbacks

\* The monitor's holder is the one thread in the critical section.
MonitorHeld == \A t \in Threads : pc[t] \in Critical <=> monitor = t

\* What the holder's position says of its method.
HolderView == \A t \in Threads :
  /\ pc[t] = "hook0" => hookRecords[mth[t]] = NoRecord /\ entry[mth[t]] = NoRecord
  /\ pc[t] \in {"setBackup", "put"} =>
       hookRecords[mth[t]] = NoRecord /\ entry[mth[t]] = rec[t]
  /\ pc[t] \in {"hookExit", "removeCallback", "checkSize", "removeRecord"} =>
       hookRecords[mth[t]] = rec[t]
  /\ pc[t] = "unhook0" => hookRecords[mth[t]] = NoRecord /\ entry[mth[t]] = rec[t]

\* The map and the runtime differ on the holder's method alone.
Agreement == \A m \in Methods :
  hookRecords[m] = entry[m] \/ \E t \in Threads : /\ pc[t] \in {"setBackup", "put", "unhook0"}
                                                 /\ mth[t] = m

\* A record is registered for one method, and for none until it is put.
RecordsDistinct ==
  /\ \A m \in Methods : hookRecords[m] <= allocated
  /\ \A m, n \in Methods : hookRecords[m] # NoRecord /\ hookRecords[m] = hookRecords[n] => m = n
  /\ \A t \in Threads : pc[t] \in {"hook0", "setBackup", "put"} =>
       /\ rec[t] <= allocated
       /\ \A m \in Methods : hookRecords[m] # rec[t]

\* Where a backup has been assigned.
BackupAssigned ==
  /\ \A m \in Methods : hookRecords[m] # NoRecord => backup[hookRecords[m]]
  /\ \A r \in Records : callbacks[r] # {} => backup[r]
  /\ \A t \in Threads :
       /\ pc[t] \in {"put", "hookExit", "add"} => backup[rec[t]]
       /\ snap[t] # {} => pc[t] \in {"before", "invokeBackup", "after"} /\ backup[rec[t]]
       /\ pc[t] = "before" => snap[t] # {}

IInv == TypeOK /\ LocalsOK /\ MonitorHeld /\ HolderView /\ Agreement
          /\ RecordsDistinct /\ BackupAssigned /\ EmptyRecordIsTransient

-----------------------------------------------------------------------------
\* The types and the arguments are kept by every step.
LEMMA TypeStep == TypeOK /\ LocalsOK /\ [Next]_vars => TypeOK' /\ LocalsOK'
<1> SUFFICES ASSUME TypeOK, LocalsOK, [Next]_vars PROVE TypeOK' /\ LocalsOK'
  OBVIOUS
<1> USE BoundsAssumption, NamesAssumption
    DEF TypeOK, LocalsOK, Positions, HookPC, UnhookPC, CallPC, Records, NoRecord,
        shared, history
<1>1. ASSUME NEW t \in Threads, StartHook(t) PROVE TypeOK' /\ LocalsOK'
  BY <1>1 DEF StartHook, Begin, Move
<1>2. ASSUME NEW t \in Threads, HookEnter(t) PROVE TypeOK' /\ LocalsOK'
  <2>1. CASE hookRecords[mth[t]] # NoRecord
    <3>1. /\ Move(t, "hookExit") /\ rec' = [rec EXCEPT ![t] = hookRecords[mth[t]]] /\ monitor' = t
          /\ pc[t] = "hookEnter"
          /\ UNCHANGED <<hookRecords, allocated, backup, callbacks, entry, mth, cb, pending, snap,
                         started, history>>
      BY <1>2, <2>1 DEF HookEnter, FindOrCreate
    <3>2. hookRecords[mth[t]] \in 0..MaxRecords
      BY <3>1
    <3>3. TypeOK'
      <4>1. hookRecords[mth[t]] \in Records
        BY <2>1, <3>2
      <4>2. pc' \in [Threads -> Positions] /\ rec' \in [Threads -> Records \cup {NoRecord}] /\ monitor' \in Threads
        BY <3>1, <4>1 DEF Move
      <4>3. \A u \in Threads : pc'[u] \notin {"idle", "hookEnter", "unhookEnter", "unhookExit", "call"}
                                => rec'[u] \in Records
        BY <3>1, <4>1 DEF Move
      <4> QED BY <3>1, <4>2, <4>3
    <3>4. LocalsOK'
      BY <3>1 DEF Move
    <3> QED BY <3>3, <3>4
  <2>2. CASE hookRecords[mth[t]] = NoRecord
    <3>1. /\ pc[t] = "hookEnter" /\ allocated < MaxRecords
          /\ Move(t, "hook0") /\ allocated' = allocated + 1
          /\ rec' = [rec EXCEPT ![t] = allocated + 1] /\ monitor' = t
          /\ UNCHANGED <<hookRecords, backup, callbacks, entry, mth, cb, pending, snap,
                         started, history>>
      BY <1>2, <2>2 DEF HookEnter, FindOrCreate
    <3>2. allocated + 1 \in Records /\ allocated' \in 0..MaxRecords
      BY <3>1
    <3> QED BY <3>1, <3>2 DEF Move
  <2> QED BY <2>1, <2>2
<1>3. ASSUME NEW t \in Threads, Hook0(t) PROVE TypeOK' /\ LocalsOK'
  BY <1>3 DEF Hook0, Goto, Move
<1>4. ASSUME NEW t \in Threads, Hook0Fails(t) PROVE TypeOK' /\ LocalsOK'
  BY <1>4 DEF Hook0Fails, Finish, Move
<1>5. ASSUME NEW t \in Threads, SetBackup(t) PROVE TypeOK' /\ LocalsOK'
  BY <1>5 DEF SetBackup, Goto, Move
<1>6. ASSUME NEW t \in Threads, PutRecord(t) PROVE TypeOK' /\ LocalsOK'
  BY <1>6 DEF PutRecord, Goto, Move
<1>7. ASSUME NEW t \in Threads, HookExit(t) PROVE TypeOK' /\ LocalsOK'
  BY <1>7 DEF HookExit, Goto, Move
<1>8. ASSUME NEW t \in Threads, AddCallback(t) PROVE TypeOK' /\ LocalsOK'
  <2>1. /\ pc[t] = "add"
        /\ callbacks' = [callbacks EXCEPT ![rec[t]] = @ \cup {cb[t]}]
        /\ overtaken' = overtaken \ {t}
        /\ UNCHANGED <<hookRecords, monitor, allocated, backup, entry, unhooked>>
    BY <1>8 DEF AddCallback
  <2>2. installed' \subseteq Methods \X Callbacks /\ kept' \subseteq installed'
    BY <1>8, <2>1 DEF AddCallback
  <2>3. CASE Finish(t)
    BY <2>1, <2>2, <2>3 DEF Finish, Move
  <2>4. ASSUME NEW m \in pending[t] \ Abstract,
               Move(t, "hookEnter"),
               mth' = [mth EXCEPT ![t] = m],
               pending' = [pending EXCEPT ![t] = @ \ {m}],
               rec' = [rec EXCEPT ![t] = NoRecord],
               UNCHANGED <<cb, snap, started, banned>>
        PROVE  TypeOK' /\ LocalsOK'
    <3>1. m \in Methods /\ cb[t] \in Callbacks /\ pending[t] \ {m} \subseteq Methods
      BY <2>1
    <3>2. TypeOK'
      BY <2>1, <2>2, <2>4, <3>1 DEF Move
    <3>3. LocalsOK'
      BY <2>1, <2>2, <2>4, <3>1 DEF Move
    <3> QED BY <3>2, <3>3
  <2> QED BY <1>8, <2>3, <2>4 DEF AddCallback
<1>9. ASSUME NEW t \in Threads, StartUnhook(t) PROVE TypeOK' /\ LocalsOK'
  BY <1>9 DEF StartUnhook, Begin, Move
<1>10. ASSUME NEW t \in Threads, UnhookEnter(t) PROVE TypeOK' /\ LocalsOK'
  <2>1. CASE hookRecords[mth[t]] # NoRecord
    BY <1>10, <2>1 DEF UnhookEnter, MarkUnhooked, Move
  <2>2. CASE hookRecords[mth[t]] = NoRecord
    BY <1>10, <2>2 DEF UnhookEnter, MarkUnhooked, Move
  <2> QED BY <1>10, <2>1, <2>2 DEF UnhookEnter, MarkUnhooked
<1>11. ASSUME NEW t \in Threads, RemoveCallback(t) PROVE TypeOK' /\ LocalsOK'
  BY <1>11 DEF RemoveCallback, MarkUnhooked, Goto, Move
<1>12. ASSUME NEW t \in Threads, CheckSize(t) PROVE TypeOK' /\ LocalsOK'
  <2>1. CASE callbacks[rec[t]] = {}
    BY <1>12, <2>1 DEF CheckSize, TestSize, Move
  <2>2. CASE callbacks[rec[t]] # {}
    BY <1>12, <2>2 DEF CheckSize, TestSize, Move
  <2> QED BY <1>12, <2>1, <2>2 DEF CheckSize, TestSize
<1>13. ASSUME NEW t \in Threads, RemoveRecord(t) PROVE TypeOK' /\ LocalsOK'
  BY <1>13 DEF RemoveRecord, Goto, Move
<1>14. ASSUME NEW t \in Threads, Unhook0(t) PROVE TypeOK' /\ LocalsOK'
  BY <1>14 DEF Unhook0, Goto, Move
<1>15. ASSUME NEW t \in Threads, UnhookExit(t) PROVE TypeOK' /\ LocalsOK'
  BY <1>15 DEF UnhookExit, Finish, Move
<1>16. ASSUME NEW t \in Threads, StartCall(t) PROVE TypeOK' /\ LocalsOK'
  BY <1>16 DEF StartCall, Begin, Move
<1>17. ASSUME NEW t \in Threads, StartInvokeOriginal(t) PROVE TypeOK' /\ LocalsOK'
  BY <1>17 DEF StartInvokeOriginal, RacyGet, Begin, Move
<1>18. ASSUME NEW t \in Threads, EnterMethod(t) PROVE TypeOK' /\ LocalsOK'
  <2>1. pc[t] = "call" /\ UNCHANGED <<shared, installed, unhooked, overtaken, kept>>
    BY <1>18 DEF EnterMethod
  <2>2. CASE Finish(t)
    BY <2>1, <2>2 DEF Finish, Move
  <2>3. CASE /\ entry[mth[t]] # NoRecord
             /\ Move(t, "dispatch")
             /\ rec' = [rec EXCEPT ![t] = entry[mth[t]]]
             /\ banned' = [banned EXCEPT ![t] = {c \in Callbacks : <<mth[t], c>> \in unhooked}]
             /\ UNCHANGED <<mth, cb, pending, snap, started>>
    BY <2>1, <2>3 DEF Move
  <2> QED BY <1>18, <2>2, <2>3 DEF EnterMethod
<1>19. ASSUME NEW t \in Threads, TakeSnapshot(t) PROVE TypeOK' /\ LocalsOK'
  <2>1. CASE callbacks[rec[t]] = {}
    BY <1>19, <2>1, SMTT(60) DEF TakeSnapshot, Move
  <2>2. CASE callbacks[rec[t]] # {}
    BY <1>19, <2>2, ZenonT(60) DEF TakeSnapshot, Move
  <2> QED BY <1>19, <2>1, <2>2 DEF TakeSnapshot
<1>20. ASSUME NEW t \in Threads, RunBefore(t) PROVE TypeOK' /\ LocalsOK'
  <2>1. CASE Move(t, "invokeBackup")
    BY <1>20, <2>1 DEF RunBefore, Goto, Move
  <2>2. CASE Move(t, "after")
    BY <1>20, <2>2 DEF RunBefore, Goto, Move
  <2> QED BY <1>20, <2>1, <2>2 DEF RunBefore, Goto
<1>21. ASSUME NEW t \in Threads, InvokeBackup(t) PROVE TypeOK' /\ LocalsOK'
  <2>1. pc[t] = "invokeBackup" /\ UNCHANGED <<shared, installed, unhooked, overtaken, kept>>
    BY <1>21 DEF InvokeBackup
  <2>2. CASE Finish(t)
    BY <2>1, <2>2 DEF Finish, Move
  <2>3. CASE Move(t, "after") /\ UNCHANGED <<mth, cb, rec, pending, snap, started, banned>>
    BY <2>1, <2>3 DEF Move
  <2> QED BY <1>21, <2>2, <2>3 DEF InvokeBackup
<1>22. ASSUME NEW t \in Threads, RunAfter(t) PROVE TypeOK' /\ LocalsOK'
  BY <1>22 DEF RunAfter, Finish, Move
<1>23. CASE UNCHANGED vars
  BY <1>23 DEF vars, locals
<1> QED
  BY <1>1, <1>2, <1>3, <1>4, <1>5, <1>6, <1>7, <1>8, <1>9, <1>10, <1>11, <1>12,
     <1>13, <1>14, <1>15, <1>16, <1>17, <1>18, <1>19, <1>20, <1>21, <1>22, <1>23
  DEF Next, Start, Step, HookStep, UnhookStep, CallStep, Done
-----------------------------------------------------------------------------
\* A thread's step leaves the position and the locals of the others alone.
LEMMA OthersUnmoved ==
  ASSUME TypeOK, NEW t \in Threads, Start(t) \/ Step(t)
  PROVE  \A u \in Threads \ {t} :
           /\ pc'[u] = pc[u] /\ mth'[u] = mth[u] /\ cb'[u] = cb[u]
           /\ rec'[u] = rec[u] /\ snap'[u] = snap[u] /\ pending'[u] = pending[u]
<1> USE DEF TypeOK, Begin, Finish, Move, Goto
<1>1. CASE Start(t)
  BY <1>1 DEF Start, StartHook, StartUnhook, StartCall, StartInvokeOriginal
<1>2. CASE HookStep(t)
  <2>1. CASE AddCallback(t)
    BY <2>1 DEF AddCallback
  <2>2. CASE HookEnter(t)
    BY <2>2 DEF HookEnter, FindOrCreate
  <2> QED
    BY <1>2, <2>1, <2>2 DEF HookStep, Hook0, Hook0Fails, SetBackup, PutRecord, HookExit
<1>3. CASE UnhookStep(t)
  <2>1. CASE UnhookEnter(t)
    BY <2>1 DEF UnhookEnter
  <2>2. CASE CheckSize(t)
    BY <2>2 DEF CheckSize, TestSize
  <2> QED
    BY <1>3, <2>1, <2>2 DEF UnhookStep, RemoveCallback, RemoveRecord, Unhook0, UnhookExit
<1>4. CASE CallStep(t)
  BY <1>4 DEF CallStep, EnterMethod, TakeSnapshot, RunBefore, InvokeBackup, RunAfter
<1> QED BY <1>1, <1>2, <1>3, <1>4 DEF Step

\* Starting an operation, and every step of a call, neither touches what threads
\* share nor moves the thread into the critical section.
LEMMA QuietStep ==
  ASSUME TypeOK, NEW t \in Threads, Start(t) \/ CallStep(t)
  PROVE  /\ UNCHANGED shared
         /\ pc[t] \notin Critical \cup {"add"}
         /\ pc'[t] \notin Critical \cup {"add"}
<1> USE DEF TypeOK, Begin, Finish, Move, Goto, Critical
<1>1. CASE Start(t)
  BY <1>1 DEF Start, StartHook, StartUnhook, StartCall, StartInvokeOriginal
<1>2. CASE CallStep(t)
  BY <1>2 DEF CallStep, EnterMethod, TakeSnapshot, RunBefore, InvokeBackup, RunAfter
<1> QED BY <1>1, <1>2
-----------------------------------------------------------------------------
\* The parts of the invariant other than the types, for the proof of its steps.
Picture == MonitorHeld /\ HolderView /\ Agreement /\ RecordsDistinct /\ BackupAssigned
             /\ EmptyRecordIsTransient

\* Outside the critical section a thread changes none of what the holder relies on.
LEMMA QuietPicture ==
  ASSUME TypeOK, LocalsOK, Picture, NEW t \in Threads, Start(t) \/ CallStep(t)
  PROVE  Picture'
<1> DEFINE Others == Threads \ {t}
<1>1. \A u \in Others : pc'[u] = pc[u] /\ mth'[u] = mth[u] /\ rec'[u] = rec[u] /\ snap'[u] = snap[u]
  BY OthersUnmoved DEF Step
<1>2. /\ UNCHANGED <<hookRecords, monitor, allocated, backup, callbacks, entry>>
      /\ pc[t] \notin Critical \cup {"add"} /\ pc'[t] \notin Critical \cup {"add"}
  BY QuietStep DEF shared
<1>3. MonitorHeld'
  BY <1>1, <1>2 DEF Picture, MonitorHeld
<1>4. HolderView'
  BY <1>1, <1>2 DEF Picture, HolderView, Critical
<1>5. Agreement'
  BY <1>1, <1>2 DEF Picture, Agreement, Critical
<1>6. RecordsDistinct'
  BY <1>1, <1>2 DEF Picture, RecordsDistinct, Critical
<1>7. EmptyRecordIsTransient'
  BY <1>1, <1>2 DEF Picture, EmptyRecordIsTransient, Critical
<1>8. BackupAssigned'
  <2>1. /\ snap'[t] # {} => pc'[t] \in {"before", "invokeBackup", "after"} /\ backup[rec'[t]]
        /\ pc'[t] = "before" => snap'[t] # {}
    <3> USE DEF TypeOK, Picture, BackupAssigned, Move, Goto, Begin, Finish, Records, NoRecord
    <3>1. CASE Start(t)
      BY <3>1 DEF Start, StartHook, StartUnhook, StartCall, StartInvokeOriginal
    <3>2. CASE EnterMethod(t)
      BY <3>2 DEF EnterMethod
    <3>3. CASE TakeSnapshot(t)
      <4>1. callbacks[rec[t]] # {} => backup[rec[t]]
        BY <3>3 DEF TakeSnapshot
      <4> QED BY <3>3, <4>1 DEF TakeSnapshot
    <3>4. CASE RunBefore(t)
      BY <3>4 DEF RunBefore
    <3>5. CASE InvokeBackup(t)
      BY <3>5 DEF InvokeBackup
    <3>6. CASE RunAfter(t)
      BY <3>6 DEF RunAfter
    <3> QED BY <3>1, <3>2, <3>3, <3>4, <3>5, <3>6 DEF CallStep
  <2> QED BY <1>1, <1>2, <2>1 DEF Picture, BackupAssigned, Critical
<1> QED BY <1>3, <1>4, <1>5, <1>6, <1>7, <1>8 DEF Picture
-----------------------------------------------------------------------------
\* A record found empty stays accounted for, by the thread that was its witness.
Transient(m) ==
  hookRecords[m] # NoRecord /\ callbacks[hookRecords[m]] = {} =>
    \E t \in Threads : /\ rec[t] = hookRecords[m]
                        /\ pc[t] \in {"hookExit", "add", "checkSize", "removeRecord"}

LEMMA TransientKept ==
  ASSUME EmptyRecordIsTransient, NEW t \in Threads, NEW m \in Methods,
         \A u \in Threads \ {t} : pc'[u] = pc[u] /\ rec'[u] = rec[u],
         hookRecords'[m] = hookRecords[m],
         callbacks'[hookRecords[m]] = {} => callbacks[hookRecords[m]] = {},
         rec[t] = hookRecords[m] /\ pc[t] \in {"hookExit", "add", "checkSize", "removeRecord"} =>
           /\ rec'[t] = rec[t]
           /\ pc'[t] \in {"hookExit", "add", "checkSize", "removeRecord"}
  PROVE  Transient(m)'
<1> SUFFICES ASSUME hookRecords'[m] # NoRecord, callbacks'[hookRecords'[m]] = {}
             PROVE  \E u \in Threads :
                      /\ rec'[u] = hookRecords'[m]
                      /\ pc'[u] \in {"hookExit", "add", "checkSize", "removeRecord"}
  BY DEF Transient
<1>1. PICK u \in Threads : /\ rec[u] = hookRecords[m]
                           /\ pc[u] \in {"hookExit", "add", "checkSize", "removeRecord"}
  BY DEF EmptyRecordIsTransient, NoRecord
<1>2. rec'[u] = rec[u] /\ pc'[u] \in {"hookExit", "add", "checkSize", "removeRecord"}
  BY <1>1
<1> QED BY <1>1, <1>2

LEMMA TransientForAll ==
  ASSUME \A m \in Methods : Transient(m)' PROVE EmptyRecordIsTransient'
BY DEF Transient, EmptyRecordIsTransient

\* Each step of hookMethod and of unhookMethod keeps the picture.
LEMMA LockedPicture ==
  ASSUME TypeOK, LocalsOK, TypeOK', Picture, NEW t \in Threads, HookStep(t) \/ UnhookStep(t)
  PROVE  Picture'
<1> USE NamesAssumption DEF Picture
<1>0. /\ \A u \in Threads \ {t} :
           pc'[u] = pc[u] /\ mth'[u] = mth[u] /\ rec'[u] = rec[u] /\ snap'[u] = snap[u]
      /\ pc[t] # "idle" => mth[t] \in Methods
  BY OthersUnmoved DEF Step, LocalsOK
<1>1. CASE HookEnter(t)
  <2>1. CASE hookRecords[mth[t]] # NoRecord
    <3>1. /\ pc[t] = "hookEnter" /\ monitor = None /\ monitor' = t
         /\ pc'[t] = "hookExit" /\ mth'[t] = mth[t] /\ rec'[t] = hookRecords[mth[t]] /\ snap'[t] = snap[t]
         /\ UNCHANGED <<hookRecords, allocated, backup, callbacks, entry>>
      BY <1>1, <2>1 DEF HookEnter, FindOrCreate, Move, TypeOK
    <3>2. MonitorHeld'
      BY <1>0, <3>1, <2>1 DEF MonitorHeld, Critical, TypeOK, Records, NoRecord
    <3>3. HolderView'
      BY <1>0, <3>1, <2>1 DEF MonitorHeld, HolderView, Critical, TypeOK, Records, NoRecord
    <3>4. Agreement'
      BY <1>0, <3>1, <2>1 DEF MonitorHeld, Agreement, HolderView, Critical, TypeOK, Records, NoRecord
    <3>5. RecordsDistinct'
      BY <1>0, <3>1, <2>1 DEF MonitorHeld, RecordsDistinct, HolderView, Critical, TypeOK, Records, NoRecord
    <3>6. BackupAssigned'
      BY <1>0, <3>1, <2>1 DEF BackupAssigned, HolderView, TypeOK, Records, NoRecord
    <3>7. EmptyRecordIsTransient'
      <4> SUFFICES ASSUME NEW m \in Methods PROVE Transient(m)'
        BY TransientForAll
      <4> QED BY <1>0, <3>1, <2>1, TransientKept DEF TypeOK
    <3> QED BY <3>2, <3>3, <3>4, <3>5, <3>6, <3>7
  <2>2. CASE hookRecords[mth[t]] = NoRecord
    <3>1. /\ pc[t] = "hookEnter" /\ monitor = None /\ monitor' = t
         /\ pc'[t] = "hook0" /\ mth'[t] = mth[t] /\ rec'[t] = allocated + 1 /\ snap'[t] = snap[t]
         /\ allocated' = allocated + 1
         /\ UNCHANGED <<hookRecords, backup, callbacks, entry>>
      BY <1>1, <2>2 DEF HookEnter, FindOrCreate, Move, TypeOK
    <3>2. MonitorHeld'
      BY <1>0, <3>1, <2>2 DEF MonitorHeld, Critical, TypeOK, Records, NoRecord
    <3>3. HolderView'
      BY <1>0, <3>1, <2>2 DEF MonitorHeld, HolderView, Agreement, Critical, TypeOK, Records, NoRecord
    <3>4. Agreement'
      BY <1>0, <3>1, <2>2 DEF MonitorHeld, Agreement, HolderView, Critical, TypeOK, Records, NoRecord
    <3>5. RecordsDistinct'
      BY <1>0, <3>1, <2>2 DEF MonitorHeld, RecordsDistinct, HolderView, Critical, TypeOK, Records, NoRecord
    <3>6. BackupAssigned'
      <4>1. /\ \A m \in Methods : hookRecords'[m] # NoRecord => backup'[hookRecords'[m]]
            /\ \A r \in Records : callbacks'[r] # {} => backup'[r]
        BY <3>1, Zenon DEF BackupAssigned
      <4>2. snap'[t] = {} /\ pc'[t] = "hook0"
        BY <3>1 DEF BackupAssigned
      <4>3. ASSUME NEW u \in Threads \ {t}
            PROVE  pc'[u] = pc[u] /\ rec'[u] = rec[u] /\ snap'[u] = snap[u] /\ backup' = backup
        BY <1>0, <3>1
      <4>4. ASSUME NEW u \in Threads
            PROVE  /\ pc'[u] \in {"put", "hookExit", "add"} => backup'[rec'[u]]
                   /\ snap'[u] # {} => pc'[u] \in {"before", "invokeBackup", "after"} /\ backup'[rec'[u]]
                   /\ pc'[u] = "before" => snap'[u] # {}
        <5>1. CASE u = t
          BY <4>2, <5>1
        <5>2. CASE u # t
          BY <4>3, <5>2 DEF BackupAssigned
        <5> QED BY <5>1, <5>2
      <4> QED BY <4>1, <4>4, Zenon DEF BackupAssigned
    <3>7. EmptyRecordIsTransient'
      <4> SUFFICES ASSUME NEW m \in Methods PROVE Transient(m)'
        BY TransientForAll
      <4> QED BY <1>0, <3>1, <2>2, TransientKept DEF TypeOK
    <3> QED BY <3>2, <3>3, <3>4, <3>5, <3>6, <3>7
  <2> QED BY <2>1, <2>2
<1>2. CASE Hook0(t)
  <2>1. /\ pc[t] = "hook0" /\ pc'[t] = "setBackup"
        /\ mth'[t] = mth[t] /\ rec'[t] = rec[t] /\ snap'[t] = snap[t]
        /\ entry' = [entry EXCEPT ![mth[t]] = rec[t]]
        /\ UNCHANGED <<hookRecords, monitor, allocated, backup, callbacks>>
    BY <1>2 DEF Hook0, Goto, Move, TypeOK
  <2>2. MonitorHeld'
    BY <1>0, <2>1 DEF MonitorHeld, Critical, TypeOK, Records, NoRecord
  <2>3. HolderView'
    BY <1>0, <2>1 DEF MonitorHeld, HolderView, Critical, TypeOK, Records, NoRecord
  <2>4. Agreement'
    BY <1>0, <2>1 DEF MonitorHeld, Agreement, HolderView, Critical, TypeOK, Records, NoRecord
  <2>5. RecordsDistinct'
    BY <1>0, <2>1 DEF MonitorHeld, RecordsDistinct, HolderView, Critical, TypeOK, Records, NoRecord
  <2>6. BackupAssigned'
    BY <1>0, <2>1 DEF BackupAssigned, HolderView, TypeOK, Records, NoRecord
  <2>7. EmptyRecordIsTransient'
    <3> SUFFICES ASSUME NEW m \in Methods PROVE Transient(m)'
      BY TransientForAll
    <3> QED BY <1>0, <2>1, TransientKept DEF TypeOK
  <2> QED BY <2>2, <2>3, <2>4, <2>5, <2>6, <2>7
<1>3. CASE Hook0Fails(t)
  <2>1. /\ pc[t] = "hook0" /\ pc'[t] = "idle" /\ monitor' = None
        /\ rec'[t] = NoRecord /\ snap'[t] = {}
        /\ UNCHANGED <<hookRecords, allocated, backup, callbacks, entry>>
    BY <1>3 DEF Hook0Fails, Finish, Move, TypeOK
  <2>2. MonitorHeld'
    BY <1>0, <2>1 DEF MonitorHeld, Critical, TypeOK, Records, NoRecord
  <2>3. HolderView'
    BY <1>0, <2>1 DEF MonitorHeld, HolderView, Critical, TypeOK, Records, NoRecord
  <2>4. Agreement'
    BY <1>0, <2>1 DEF MonitorHeld, Agreement, HolderView, Critical, TypeOK, Records, NoRecord
  <2>5. RecordsDistinct'
    BY <1>0, <2>1 DEF MonitorHeld, RecordsDistinct, HolderView, Critical, TypeOK, Records, NoRecord
  <2>6. BackupAssigned'
    BY <1>0, <2>1, ZenonT(60) DEF BackupAssigned, HolderView, TypeOK, Records, NoRecord
  <2>7. EmptyRecordIsTransient'
    <3> SUFFICES ASSUME NEW m \in Methods PROVE Transient(m)'
      BY TransientForAll
    <3> QED BY <1>0, <2>1, TransientKept DEF TypeOK
  <2> QED BY <2>2, <2>3, <2>4, <2>5, <2>6, <2>7
<1>4. CASE SetBackup(t)
  <2>1. /\ pc[t] = "setBackup" /\ pc'[t] = "put"
        /\ mth'[t] = mth[t] /\ rec'[t] = rec[t] /\ snap'[t] = snap[t]
        /\ backup' = [backup EXCEPT ![rec[t]] = TRUE]
        /\ UNCHANGED <<hookRecords, monitor, allocated, callbacks, entry>>
    BY <1>4 DEF SetBackup, Goto, Move, TypeOK
  <2>2. MonitorHeld'
    BY <1>0, <2>1 DEF MonitorHeld, Critical, TypeOK, Records, NoRecord
  <2>3. HolderView'
    BY <1>0, <2>1 DEF MonitorHeld, HolderView, Critical, TypeOK, Records, NoRecord
  <2>4. Agreement'
    BY <1>0, <2>1 DEF MonitorHeld, Agreement, HolderView, Critical, TypeOK, Records, NoRecord
  <2>5. RecordsDistinct'
    BY <1>0, <2>1 DEF MonitorHeld, RecordsDistinct, HolderView, Critical, TypeOK, Records, NoRecord
  <2>6. BackupAssigned'
    BY <1>0, <2>1 DEF BackupAssigned, HolderView, TypeOK, Records, NoRecord
  <2>7. EmptyRecordIsTransient'
    <3> SUFFICES ASSUME NEW m \in Methods PROVE Transient(m)'
      BY TransientForAll
    <3> QED BY <1>0, <2>1, TransientKept DEF TypeOK
  <2> QED BY <2>2, <2>3, <2>4, <2>5, <2>6, <2>7
<1>5. CASE PutRecord(t)
  <2>1. /\ pc[t] = "put" /\ pc'[t] = "hookExit"
        /\ mth'[t] = mth[t] /\ rec'[t] = rec[t] /\ snap'[t] = snap[t]
        /\ hookRecords' = [hookRecords EXCEPT ![mth[t]] = rec[t]]
        /\ UNCHANGED <<monitor, allocated, backup, callbacks, entry>>
    BY <1>5 DEF PutRecord, Goto, Move, TypeOK
  <2>2. MonitorHeld'
    BY <1>0, <2>1 DEF MonitorHeld, Critical, TypeOK, Records, NoRecord
  <2>3. HolderView'
    BY <1>0, <2>1 DEF MonitorHeld, HolderView, Critical, TypeOK, Records, NoRecord
  <2>4. Agreement'
    BY <1>0, <2>1 DEF MonitorHeld, Agreement, HolderView, Critical, TypeOK, Records, NoRecord
  <2>5. RecordsDistinct'
    BY <1>0, <2>1 DEF MonitorHeld, RecordsDistinct, HolderView, Critical, TypeOK, Records, NoRecord
  <2>6. BackupAssigned'
    BY <1>0, <2>1 DEF BackupAssigned, HolderView, TypeOK, Records, NoRecord
  <2>7. EmptyRecordIsTransient'
    <3> SUFFICES ASSUME NEW m \in Methods PROVE Transient(m)'
      BY TransientForAll
    <3>1. CASE m = mth[t]
      BY <2>1, <3>1 DEF Transient, TypeOK
    <3>2. CASE m # mth[t]
      BY <1>0, <2>1, <3>2, TransientKept DEF TypeOK
    <3> QED BY <3>1, <3>2
  <2> QED BY <2>2, <2>3, <2>4, <2>5, <2>6, <2>7
<1>6. CASE HookExit(t)
  <2>1. /\ pc[t] = "hookExit" /\ pc'[t] = "add" /\ monitor' = None
        /\ mth'[t] = mth[t] /\ rec'[t] = rec[t] /\ snap'[t] = snap[t]
        /\ UNCHANGED <<hookRecords, allocated, backup, callbacks, entry>>
    BY <1>6 DEF HookExit, Goto, Move, TypeOK
  <2>2. MonitorHeld'
    BY <1>0, <2>1 DEF MonitorHeld, Critical, TypeOK, Records, NoRecord
  <2>3. HolderView'
    BY <1>0, <2>1 DEF MonitorHeld, HolderView, Critical, TypeOK, Records, NoRecord
  <2>4. Agreement'
    BY <1>0, <2>1 DEF MonitorHeld, Agreement, HolderView, Critical, TypeOK, Records, NoRecord
  <2>5. RecordsDistinct'
    BY <1>0, <2>1 DEF MonitorHeld, RecordsDistinct, HolderView, Critical, TypeOK, Records, NoRecord
  <2>6. BackupAssigned'
    BY <1>0, <2>1 DEF BackupAssigned, HolderView, TypeOK, Records, NoRecord
  <2>7. EmptyRecordIsTransient'
    <3> SUFFICES ASSUME NEW m \in Methods PROVE Transient(m)'
      BY TransientForAll
    <3> QED BY <1>0, <2>1, TransientKept DEF TypeOK
  <2> QED BY <2>2, <2>3, <2>4, <2>5, <2>6, <2>7
<1>7. CASE AddCallback(t)
  <2>1. /\ pc[t] = "add" /\ pc'[t] \in {"idle", "hookEnter"} /\ snap'[t] \in {{}, snap[t]}
        /\ callbacks' = [callbacks EXCEPT ![rec[t]] = @ \cup {cb[t]}]
        /\ UNCHANGED <<hookRecords, monitor, allocated, backup, entry>>
    BY <1>7 DEF AddCallback, Finish, Move, TypeOK
  <2>2. MonitorHeld'
    BY <1>0, <2>1 DEF MonitorHeld, Critical, TypeOK, Records, NoRecord
  <2>3. HolderView'
    BY <1>0, <2>1 DEF MonitorHeld, HolderView, Critical, TypeOK, Records, NoRecord
  <2>4. Agreement'
    BY <1>0, <2>1 DEF MonitorHeld, Agreement, HolderView, Critical, TypeOK, Records, NoRecord
  <2>5. RecordsDistinct'
    BY <1>0, <2>1 DEF MonitorHeld, RecordsDistinct, HolderView, Critical, TypeOK, Records, NoRecord
  <2>6. BackupAssigned'
    BY <1>0, <2>1 DEF BackupAssigned, HolderView, TypeOK, Records, NoRecord
  <2>7. EmptyRecordIsTransient'
    <3> SUFFICES ASSUME NEW m \in Methods PROVE Transient(m)'
      BY TransientForAll
    <3>1. CASE hookRecords[m] = rec[t]
      BY <1>0, <2>1, <3>1 DEF Transient, TypeOK, LocalsOK, HookPC, Records, NoRecord
    <3>2. CASE hookRecords[m] # rec[t]
      BY <1>0, <2>1, <3>2, TransientKept DEF TypeOK
    <3> QED BY <3>1, <3>2
  <2> QED BY <2>2, <2>3, <2>4, <2>5, <2>6, <2>7
<1>8. CASE UnhookEnter(t)
  <2>1. CASE hookRecords[mth[t]] # NoRecord
    <3>1. /\ pc[t] = "unhookEnter" /\ monitor = None /\ monitor' = t
          /\ mth'[t] = mth[t] /\ rec'[t] = hookRecords[mth[t]] /\ snap'[t] = snap[t]
          /\ pc'[t] = "removeCallback"
          /\ UNCHANGED <<hookRecords, allocated, backup, callbacks, entry>>
      BY <1>8, <2>1 DEF UnhookEnter, Move, TypeOK, shared
    <3>2. MonitorHeld'
      BY <1>0, <3>1, <2>1 DEF MonitorHeld, Critical, TypeOK, Records, NoRecord
    <3>3. HolderView'
      BY <1>0, <3>1, <2>1 DEF MonitorHeld, HolderView, Critical, TypeOK, Records, NoRecord
    <3>4. Agreement'
      BY <1>0, <3>1, <2>1 DEF MonitorHeld, Agreement, HolderView, Critical, TypeOK, Records, NoRecord
    <3>5. RecordsDistinct'
      BY <1>0, <3>1, <2>1 DEF MonitorHeld, RecordsDistinct, HolderView, Critical, TypeOK, Records, NoRecord
    <3>6. BackupAssigned'
      BY <1>0, <3>1, <2>1 DEF BackupAssigned, HolderView, TypeOK, Records, NoRecord
    <3>7. EmptyRecordIsTransient'
      <4> SUFFICES ASSUME NEW m \in Methods PROVE Transient(m)'
        BY TransientForAll
      <4> QED BY <1>0, <3>1, <2>1, TransientKept DEF TypeOK
    <3> QED BY <3>2, <3>3, <3>4, <3>5, <3>6, <3>7
  <2>2. CASE hookRecords[mth[t]] = NoRecord
    <3>1. /\ pc[t] = "unhookEnter" /\ monitor = None /\ monitor' = t
          /\ mth'[t] = mth[t] /\ rec'[t] = hookRecords[mth[t]] /\ snap'[t] = snap[t]
          /\ pc'[t] = "unhookExit"
          /\ UNCHANGED <<hookRecords, allocated, backup, callbacks, entry>>
      BY <1>8, <2>2 DEF UnhookEnter, Move, TypeOK, shared
    <3>2. MonitorHeld'
      BY <1>0, <3>1, <2>2 DEF MonitorHeld, Critical, TypeOK, Records, NoRecord
    <3>3. HolderView'
      BY <1>0, <3>1, <2>2 DEF MonitorHeld, HolderView, Critical, TypeOK, Records, NoRecord
    <3>4. Agreement'
      BY <1>0, <3>1, <2>2 DEF MonitorHeld, Agreement, HolderView, Critical, TypeOK, Records, NoRecord
    <3>5. RecordsDistinct'
      BY <1>0, <3>1, <2>2 DEF MonitorHeld, RecordsDistinct, HolderView, Critical, TypeOK, Records, NoRecord
    <3>6. BackupAssigned'
      BY <1>0, <3>1, <2>2 DEF BackupAssigned, HolderView, TypeOK, Records, NoRecord
    <3>7. EmptyRecordIsTransient'
      <4> SUFFICES ASSUME NEW m \in Methods PROVE Transient(m)'
        BY TransientForAll
      <4> QED BY <1>0, <3>1, <2>2, TransientKept DEF TypeOK
    <3> QED BY <3>2, <3>3, <3>4, <3>5, <3>6, <3>7
  <2> QED BY <2>1, <2>2
<1>9. CASE RemoveCallback(t)
  <2>1. /\ pc[t] = "removeCallback" /\ pc'[t] = "checkSize"
        /\ mth'[t] = mth[t] /\ rec'[t] = rec[t] /\ snap'[t] = snap[t]
        /\ callbacks' = [callbacks EXCEPT ![rec[t]] = @ \ {cb[t]}]
        /\ UNCHANGED <<hookRecords, monitor, allocated, backup, entry>>
    BY <1>9 DEF RemoveCallback, Goto, Move, TypeOK
  <2>2. MonitorHeld'
    BY <1>0, <2>1 DEF MonitorHeld, Critical, TypeOK, Records, NoRecord
  <2>3. HolderView'
    BY <1>0, <2>1 DEF MonitorHeld, HolderView, Critical, TypeOK, Records, NoRecord
  <2>4. Agreement'
    BY <1>0, <2>1 DEF MonitorHeld, Agreement, HolderView, Critical, TypeOK, Records, NoRecord
  <2>5. RecordsDistinct'
    BY <1>0, <2>1 DEF MonitorHeld, RecordsDistinct, HolderView, Critical, TypeOK, Records, NoRecord
  <2>6. BackupAssigned'
    BY <1>0, <2>1 DEF BackupAssigned, HolderView, TypeOK, Records, NoRecord
  <2>7. EmptyRecordIsTransient'
    BY <1>0, <2>1 DEF EmptyRecordIsTransient, HolderView, RecordsDistinct, BackupAssigned, TypeOK, Records, NoRecord
  <2> QED BY <2>2, <2>3, <2>4, <2>5, <2>6, <2>7
<1>10. CASE CheckSize(t)
  <2>1. CASE callbacks[rec[t]] = {}
    <3>1. /\ pc[t] = "checkSize" /\ pc'[t] = "removeRecord"
          /\ mth'[t] = mth[t] /\ rec'[t] = rec[t] /\ snap'[t] = snap[t]
          /\ UNCHANGED <<hookRecords, monitor, allocated, backup, callbacks, entry>>
      BY <1>10, <2>1 DEF CheckSize, TestSize, Move, TypeOK, shared
    <3>2. MonitorHeld'
      BY <1>0, <3>1, <2>1 DEF MonitorHeld, Critical, TypeOK, Records, NoRecord
    <3>3. HolderView'
      BY <1>0, <3>1, <2>1 DEF MonitorHeld, HolderView, Critical, TypeOK, Records, NoRecord
    <3>4. Agreement'
      BY <1>0, <3>1, <2>1 DEF MonitorHeld, Agreement, HolderView, Critical, TypeOK, Records, NoRecord
    <3>5. RecordsDistinct'
      BY <1>0, <3>1, <2>1 DEF MonitorHeld, RecordsDistinct, HolderView, Critical, TypeOK, Records, NoRecord
    <3>6. BackupAssigned'
      BY <1>0, <3>1, <2>1 DEF BackupAssigned, HolderView, TypeOK, Records, NoRecord
    <3>7. EmptyRecordIsTransient'
      <4> SUFFICES ASSUME NEW m \in Methods PROVE Transient(m)'
        BY TransientForAll
      <4> QED BY <1>0, <3>1, <2>1, TransientKept DEF TypeOK
    <3> QED BY <3>2, <3>3, <3>4, <3>5, <3>6, <3>7
  <2>2. CASE callbacks[rec[t]] # {}
    <3>1. /\ pc[t] = "checkSize" /\ pc'[t] = "unhookExit"
          /\ mth'[t] = mth[t] /\ rec'[t] = rec[t] /\ snap'[t] = snap[t]
          /\ UNCHANGED <<hookRecords, monitor, allocated, backup, callbacks, entry>>
      BY <1>10, <2>2 DEF CheckSize, TestSize, Move, TypeOK, shared
    <3>2. MonitorHeld'
      BY <1>0, <3>1, <2>2 DEF MonitorHeld, Critical, TypeOK, Records, NoRecord
    <3>3. HolderView'
      BY <1>0, <3>1, <2>2 DEF MonitorHeld, HolderView, Critical, TypeOK, Records, NoRecord
    <3>4. Agreement'
      BY <1>0, <3>1, <2>2 DEF MonitorHeld, Agreement, HolderView, Critical, TypeOK, Records, NoRecord
    <3>5. RecordsDistinct'
      BY <1>0, <3>1, <2>2 DEF MonitorHeld, RecordsDistinct, HolderView, Critical, TypeOK, Records, NoRecord
    <3>6. BackupAssigned'
      BY <1>0, <3>1, <2>2 DEF BackupAssigned, HolderView, TypeOK, Records, NoRecord
    <3>7. EmptyRecordIsTransient'
      <4> SUFFICES ASSUME NEW m \in Methods PROVE Transient(m)'
        BY TransientForAll
      <4>1. CASE hookRecords[m] = rec[t]
        BY <3>1, <2>2, <4>1 DEF Transient
      <4>2. CASE hookRecords[m] # rec[t]
        BY <1>0, <3>1, <4>2, TransientKept
      <4> QED BY <4>1, <4>2
    <3> QED BY <3>2, <3>3, <3>4, <3>5, <3>6, <3>7
  <2> QED BY <2>1, <2>2
<1>11. CASE RemoveRecord(t)
  <2>1. /\ pc[t] = "removeRecord" /\ pc'[t] = "unhook0"
        /\ mth'[t] = mth[t] /\ rec'[t] = rec[t] /\ snap'[t] = snap[t]
        /\ hookRecords' = [hookRecords EXCEPT ![mth[t]] = NoRecord]
        /\ UNCHANGED <<monitor, allocated, backup, callbacks, entry>>
    BY <1>11 DEF RemoveRecord, Goto, Move, TypeOK
  <2>2. MonitorHeld'
    BY <1>0, <2>1 DEF MonitorHeld, Critical, TypeOK, Records, NoRecord
  <2>3. HolderView'
    BY <1>0, <2>1 DEF MonitorHeld, HolderView, Agreement, Critical, TypeOK, Records, NoRecord
  <2>4. Agreement'
    BY <1>0, <2>1 DEF MonitorHeld, Agreement, HolderView, Critical, TypeOK, Records, NoRecord
  <2>5. RecordsDistinct'
    BY <1>0, <2>1 DEF MonitorHeld, RecordsDistinct, HolderView, Critical, TypeOK, Records, NoRecord
  <2>6. BackupAssigned'
    BY <1>0, <2>1 DEF BackupAssigned, HolderView, TypeOK, Records, NoRecord
  <2>7. EmptyRecordIsTransient'
    BY <1>0, <2>1 DEF EmptyRecordIsTransient, HolderView, RecordsDistinct, BackupAssigned, TypeOK, Records, NoRecord
  <2> QED BY <2>2, <2>3, <2>4, <2>5, <2>6, <2>7
<1>12. CASE Unhook0(t)
  <2>1. /\ pc[t] = "unhook0" /\ pc'[t] = "unhookExit"
        /\ mth'[t] = mth[t] /\ rec'[t] = rec[t] /\ snap'[t] = snap[t]
        /\ entry' = [entry EXCEPT ![mth[t]] = NoRecord]
        /\ UNCHANGED <<hookRecords, monitor, allocated, backup, callbacks>>
    BY <1>12 DEF Unhook0, Goto, Move, TypeOK
  <2>2. MonitorHeld'
    BY <1>0, <2>1 DEF MonitorHeld, Critical, TypeOK, Records, NoRecord
  <2>3. HolderView'
    BY <1>0, <2>1 DEF MonitorHeld, HolderView, Critical, TypeOK, Records, NoRecord
  <2>4. Agreement'
    BY <1>0, <2>1 DEF MonitorHeld, Agreement, HolderView, Critical, TypeOK, Records, NoRecord
  <2>5. RecordsDistinct'
    BY <1>0, <2>1 DEF MonitorHeld, RecordsDistinct, HolderView, Critical, TypeOK, Records, NoRecord
  <2>6. BackupAssigned'
    BY <1>0, <2>1 DEF BackupAssigned, HolderView, TypeOK, Records, NoRecord
  <2>7. EmptyRecordIsTransient'
    <3> SUFFICES ASSUME NEW m \in Methods PROVE Transient(m)'
      BY TransientForAll
    <3> QED BY <1>0, <2>1, TransientKept DEF TypeOK
  <2> QED BY <2>2, <2>3, <2>4, <2>5, <2>6, <2>7
<1>13. CASE UnhookExit(t)
  <2>1. /\ pc[t] = "unhookExit" /\ pc'[t] = "idle" /\ monitor' = None
        /\ rec'[t] = NoRecord /\ snap'[t] = {}
        /\ UNCHANGED <<hookRecords, allocated, backup, callbacks, entry>>
    BY <1>13 DEF UnhookExit, Finish, Move, TypeOK
  <2>2. MonitorHeld'
    BY <1>0, <2>1 DEF MonitorHeld, Critical, TypeOK, Records, NoRecord
  <2>3. HolderView'
    BY <1>0, <2>1 DEF MonitorHeld, HolderView, Critical, TypeOK, Records, NoRecord
  <2>4. Agreement'
    BY <1>0, <2>1 DEF MonitorHeld, Agreement, HolderView, Critical, TypeOK, Records, NoRecord
  <2>5. RecordsDistinct'
    BY <1>0, <2>1 DEF MonitorHeld, RecordsDistinct, HolderView, Critical, TypeOK, Records, NoRecord
  <2>6. BackupAssigned'
    BY <1>0, <2>1, SMTT(60) DEF BackupAssigned, HolderView, TypeOK, Records, NoRecord
  <2>7. EmptyRecordIsTransient'
    <3> SUFFICES ASSUME NEW m \in Methods PROVE Transient(m)'
      BY TransientForAll
    <3> QED BY <1>0, <2>1, TransientKept DEF TypeOK
  <2> QED BY <2>2, <2>3, <2>4, <2>5, <2>6, <2>7
<1> QED
  BY <1>1, <1>2, <1>3, <1>4, <1>5, <1>6, <1>7, <1>8, <1>9, <1>10, <1>11, <1>12, <1>13 DEF HookStep, UnhookStep
-----------------------------------------------------------------------------
\* The invariant holds in every reachable state.
LEMMA InitIInv == Init => IInv
<1> USE BoundsAssumption, NamesAssumption DEF Init, Records, NoRecord
<1>1. Init => TypeOK
  BY DEF TypeOK, Positions
<1>2. Init => LocalsOK /\ MonitorHeld /\ HolderView
  BY DEF LocalsOK, MonitorHeld, HolderView, HookPC, UnhookPC, Critical
<1>3. Init => Agreement /\ RecordsDistinct /\ BackupAssigned /\ EmptyRecordIsTransient
  BY DEF Agreement, RecordsDistinct, BackupAssigned, EmptyRecordIsTransient
<1> QED BY <1>1, <1>2, <1>3 DEF IInv

LEMMA StepIInv == IInv /\ [Next]_vars => IInv'
<1> SUFFICES ASSUME TypeOK, LocalsOK, Picture, [Next]_vars PROVE IInv'
  BY DEF IInv, Picture
<1>1. TypeOK' /\ LocalsOK'
  BY TypeStep
<1>2. ASSUME NEW t \in Threads, Start(t) \/ CallStep(t) PROVE Picture'
  BY <1>2, QuietPicture
<1>3. ASSUME NEW t \in Threads, HookStep(t) \/ UnhookStep(t) PROVE Picture'
  BY <1>1, <1>3, LockedPicture
<1>4. ASSUME UNCHANGED vars PROVE Picture'
  <2>1. UNCHANGED <<hookRecords, monitor, allocated, backup, callbacks, entry,
                    pc, mth, cb, rec, snap>>
    BY <1>4 DEF vars, shared, locals
  <2>2. MonitorHeld' /\ HolderView' /\ Agreement'
    BY <2>1 DEF Picture, MonitorHeld, HolderView, Agreement
  <2>3. RecordsDistinct' /\ BackupAssigned'
    BY <2>1 DEF Picture, RecordsDistinct, BackupAssigned
  <2>4. EmptyRecordIsTransient'
    BY <2>1 DEF Picture, EmptyRecordIsTransient
  <2> QED BY <2>2, <2>3, <2>4 DEF Picture
<1>5. Picture'
  <2>1. CASE UNCHANGED vars
    BY <1>4, <2>1
  <2>2. CASE \E t \in Threads : Start(t) \/ HookStep(t) \/ UnhookStep(t) \/ CallStep(t)
    BY <1>2, <1>3, <2>2
  <2> QED BY <2>1, <2>2 DEF Next, Step, Done
<1> QED BY <1>1, <1>5 DEF IInv, Picture

THEOREM Invariance == Spec => []IInv
BY InitIInv, StepIInv, PTL DEF Spec

\* The types, for any threads, methods, callbacks and bounds.
THEOREM TypeCorrect == Spec => []TypeOK
<1>1. IInv => TypeOK
  BY DEF IInv
<1> QED BY <1>1, Invariance, PTL

\* With the monitor free, the map and the runtime agree on every method.
THEOREM RegistryAgreement == Spec => []RegistryAgreesWithArt
<1>1. IInv => RegistryAgreesWithArt
  <2> SUFFICES ASSUME IInv, monitor = None PROVE hookRecords = entry
    BY DEF RegistryAgreesWithArt
  <2>1. \A t \in Threads : pc[t] \notin Critical
    BY NamesAssumption DEF IInv, MonitorHeld
  <2>2. \A m \in Methods : hookRecords[m] = entry[m]
    BY <2>1 DEF IInv, Agreement, Critical
  <2> QED BY <2>2 DEF IInv, TypeOK
<1> QED BY <1>1, Invariance, PTL

\* hook0 and unhook0 are called in turn on every method.
THEOREM PatchDiscipline == Spec => []PatchesAlternate
<1>1. IInv => PatchesAlternate
  BY DEF IInv, HolderView, PatchesAlternate
<1> QED BY <1>1, Invariance, PTL

\* No call with callbacks in its snapshot finds the backup null.
THEOREM BackupSafety == Spec => []CallbacksHaveBackup
<1>1. IInv => CallbacksHaveBackup
  BY DEF IInv, BackupAssigned, CallbacksHaveBackup
<1> QED BY <1>1, Invariance, PTL

\* A registered record is empty only while some thread is about to change that.
THEOREM EmptyRecordsEnd == Spec => []EmptyRecordIsTransient
<1>1. IInv => EmptyRecordIsTransient
  BY DEF IInv
<1> QED BY <1>1, Invariance, PTL

-----------------------------------------------------------------------------
(***************************************************************************)
(* The two properties that relate a state to what threads did before: an   *)
(* unhooked callback is never run again, and a hook is only lost to an     *)
(* unhookMethod that overtakes it; and that the bridge implements          *)
(* HookRegistry.                                                           *)
(*                                                                         *)
(* They need more than who holds the monitor: a record belongs to one      *)
(* method for ever, whoever still has a reference to it, and a record that *)
(* is being made is known to nobody who could add to it.                   *)
(***************************************************************************)

\* Somebody has a reference to record r as a record of method m.
Uses(m, r) == hookRecords[m] = r \/ entry[m] = r \/ \E t \in Threads : mth[t] = m /\ rec[t] = r

\* A record belongs to one method.
RecordOwned == \A r \in Records : \A m \in Methods :
  Uses(m, r) => r <= allocated /\ \A n \in Methods : Uses(n, r) => m = n

\* A record that does not exist yet, or is being made, has no callbacks, and is
\* known only to the thread that makes it and to calls.
FreshRecord ==
  /\ \A r \in Records : r > allocated => callbacks[r] = {}
  /\ \A t \in Threads : pc[t] \in {"hook0", "setBackup", "put"} =>
       /\ callbacks[rec[t]] = {}
       /\ \A u \in Threads \ {t} : rec[u] = rec[t] => pc[u] \in CallPC
  /\ \A t \in Threads : pc[t] = "idle" => rec[t] = NoRecord

\* A pair that counts as unhooked has no hookMethod under way, and is not dispatched.
UnhookedClean == \A m \in Methods, c \in Callbacks : <<m, c>> \in unhooked =>
  /\ ~HookInProgress(m, c)
  /\ entry[m] # NoRecord => c \notin callbacks[entry[m]]

\* The same for the callbacks a call must not run, until it has its snapshot.
BannedClean == \A t \in Threads : \A c \in banned[t] :
  /\ pc[t] \in {"dispatch", "before", "invokeBackup", "after"}
  /\ \A m \in Methods : mth[t] = m => ~HookInProgress(m, c)
  /\ pc[t] = "dispatch" => c \notin callbacks[rec[t]]
  /\ c \notin snap[t]

\* A thread about to add has the record in force, unless it was overtaken.
AddsCurrent ==
  /\ \A t \in overtaken : pc[t] = "add"
  /\ \A u \in Threads \ overtaken : pc[u] = "add" =>
       /\ hookRecords[mth[u]] = rec[u] /\ entry[mth[u]] = rec[u]
       /\ \A t \in Threads : pc[t] \in {"removeRecord", "unhook0"} => mth[t] # mth[u]

\* A hook that counts is in force, and no unhookMethod is taking it away.
KeptHeld ==
  /\ \A m \in Methods, c \in Callbacks : <<m, c>> \in installed => ~UnhookInProgress(m, c)
  /\ \A m \in Methods, c \in Callbacks : <<m, c>> \in kept =>
       /\ entry[m] # NoRecord /\ c \in callbacks[entry[m]]
       /\ \A t \in Threads : pc[t] \in {"removeRecord", "unhook0"} => mth[t] # m

HInv == RecordOwned /\ FreshRecord /\ UnhookedClean /\ BannedClean /\ AddsCurrent /\ KeptHeld
-----------------------------------------------------------------------------
(* Records and their methods *)

\* Threads keep using the records they used; only HookEnter brings a new one.
LEMMA UsesStep ==
  ASSUME TypeOK, LocalsOK, FreshRecord, NEW t \in Threads, Start(t) \/ Step(t),
         NEW m \in Methods, NEW r \in Records, Uses(m, r)'
  PROVE  /\ Uses(m, r) \/ (r = allocated + 1 /\ allocated' = r /\ m = mth[t])
         /\ allocated' \in {allocated, allocated + 1}
<1> USE DEF TypeOK, LocalsOK, Uses, Begin, Finish, Move, Goto, Records, NoRecord
<1>0. \A u \in Threads \ {t} : mth'[u] = mth[u] /\ rec'[u] = rec[u]
  BY OthersUnmoved
<1>1. CASE Start(t)
  BY <1>0, <1>1 DEF Start, StartHook, StartUnhook, StartCall, StartInvokeOriginal, RacyGet,
                    FreshRecord, shared
<1>2. CASE HookEnter(t)
  BY <1>0, <1>2 DEF HookEnter, FindOrCreate
<1>3. CASE AddCallback(t)
  BY <1>0, <1>3 DEF AddCallback
<1>4. CASE Hook0(t) \/ Hook0Fails(t) \/ SetBackup(t) \/ PutRecord(t) \/ HookExit(t)
  BY <1>0, <1>4 DEF Hook0, Hook0Fails, SetBackup, PutRecord, HookExit, HookPC
<1>5. CASE UnhookEnter(t)
  BY <1>0, <1>5 DEF UnhookEnter
<1>6. CASE CheckSize(t)
  BY <1>0, <1>6 DEF CheckSize, TestSize, shared
<1>7. CASE RemoveCallback(t) \/ RemoveRecord(t) \/ Unhook0(t) \/ UnhookExit(t)
  BY <1>0, <1>7 DEF RemoveCallback, RemoveRecord, Unhook0, UnhookExit
<1>8. CASE CallStep(t)
  BY <1>0, <1>8 DEF CallStep, EnterMethod, TakeSnapshot, RunBefore, InvokeBackup, RunAfter, shared
<1> QED
  BY <1>1, <1>2, <1>3, <1>4, <1>5, <1>6, <1>7, <1>8 DEF Step, HookStep, UnhookStep

LEMMA RecordOwnedStep ==
  ASSUME TypeOK, LocalsOK, FreshRecord, RecordOwned, NEW t \in Threads, Start(t) \/ Step(t)
  PROVE  RecordOwned'
<1> SUFFICES ASSUME NEW r \in Records, NEW m \in Methods, Uses(m, r)'
             PROVE  r <= allocated' /\ \A n \in Methods : Uses(n, r)' => m = n
  BY DEF RecordOwned
<1>1. /\ Uses(m, r) \/ (r = allocated + 1 /\ allocated' = r /\ m = mth[t])
      /\ allocated' \in {allocated, allocated + 1}
  BY UsesStep
<1>2. r <= allocated'
  BY <1>1 DEF RecordOwned, TypeOK, Records
<1>3. ASSUME NEW n \in Methods, Uses(n, r)' PROVE m = n
  <2>1. Uses(n, r) \/ (r = allocated + 1 /\ allocated' = r /\ n = mth[t])
    BY <1>3, UsesStep
  <2> QED BY <1>1, <2>1 DEF RecordOwned, TypeOK, Records
<1> QED BY <1>2, <1>3
\* A step keeps records fresh when it makes none, adds to none that another thread
\* makes, and refers to none of these except in a call.
Making == {"hook0", "setBackup", "put"}

LEMMA FreshKept ==
  ASSUME TypeOK, RecordOwned, LocalsOK, FreshRecord, NEW t \in Threads,
         \A u \in Threads \ {t} : pc'[u] = pc[u] /\ rec'[u] = rec[u],
         allocated' = allocated,
         \A r \in Records : callbacks[r] = {} /\ ~(pc[t] = "add" /\ rec[t] = r) => callbacks'[r] = {},
         pc'[t] \in Making => pc[t] \in Making /\ rec'[t] = rec[t],
         \A u \in Threads \ {t} : pc[u] \in Making /\ rec'[t] = rec[u] => pc'[t] \in CallPC,
         pc'[t] = "idle" => rec'[t] = NoRecord
  PROVE  FreshRecord'
<1>1. \A r \in Records : r > allocated' => callbacks'[r] = {}
  <2>1. pc[t] = "add" => rec[t] <= allocated
    BY DEF RecordOwned, Uses, TypeOK, LocalsOK, HookPC
  <2> QED BY <2>1 DEF FreshRecord, TypeOK, Records
<1>2. ASSUME NEW w \in Threads, pc'[w] \in Making
      PROVE  callbacks'[rec'[w]] = {} /\ \A u \in Threads \ {w} : rec'[u] = rec'[w] => pc'[u] \in CallPC
  <2>1. pc[w] \in Making /\ rec'[w] = rec[w] /\ rec[w] \in Records
    BY <1>2 DEF TypeOK, Making
  <2>2. callbacks[rec[w]] = {} /\ \A u \in Threads \ {w} : rec[u] = rec[w] => pc[u] \in CallPC
    BY <2>1 DEF FreshRecord, Making
  <2>3. ~(pc[t] = "add" /\ rec[t] = rec[w])
    BY <2>1, <2>2 DEF CallPC, Making
  <2> QED BY <2>1, <2>2, <2>3
<1>3. \A w \in Threads : pc'[w] = "idle" => rec'[w] = NoRecord
  BY DEF FreshRecord
<1> QED BY <1>1, <1>2, <1>3 DEF FreshRecord, Making

\* Nobody else learns of a record before it is in the map, except through a call.
LEMMA FreshRecordStep ==
  ASSUME TypeOK, LocalsOK, Picture, FreshRecord, RecordOwned,
         NEW t \in Threads, Start(t) \/ Step(t)
  PROVE  FreshRecord'
<1>0. \A u \in Threads \ {t} : pc'[u] = pc[u] /\ rec'[u] = rec[u]
  BY OthersUnmoved
<1>1. ASSUME NEW u \in Threads, pc[u] \in Making
      PROVE  /\ rec[u] # NoRecord
             /\ \A v \in Threads \ {u} : rec[v] = rec[u] => pc[v] \in CallPC
             /\ \A m \in Methods : hookRecords[m] # rec[u]
  BY <1>1, SMTT(60) DEF FreshRecord, TypeOK, Records, NoRecord, Picture, RecordsDistinct, Making
<1>2. CASE Start(t)
  <2>1. pc[t] = "idle" /\ rec[t] = NoRecord /\ UNCHANGED shared
    BY <1>2 DEF Start, StartHook, StartUnhook, StartCall, StartInvokeOriginal, Begin, FreshRecord
  <2>2. /\ pc'[t] \notin Making \cup {"idle"}
        /\ rec'[t] = NoRecord \/ \E m \in Methods : rec'[t] = hookRecords[m]
    BY <1>2, <2>1 DEF Start, StartHook, StartUnhook, StartCall, StartInvokeOriginal, RacyGet,
                      Begin, Move, TypeOK, Making
  <2> QED BY <1>0, <1>1, <2>1, <2>2, FreshKept DEF shared
<1>3. CASE HookEnter(t)
  <2>1. \A u \in Threads : pc[u] \notin Making
    BY <1>3, NamesAssumption DEF HookEnter, Picture, MonitorHeld, Critical, Making
  <2>2. CASE hookRecords[mth[t]] # NoRecord
    <3>1. /\ pc[t] = "hookEnter" /\ pc'[t] = "hookExit"
          /\ allocated' = allocated /\ callbacks' = callbacks
      BY <1>3, <2>2 DEF HookEnter, FindOrCreate, Move, TypeOK
    <3> QED BY <1>0, <2>1, <3>1, FreshKept DEF Making
  <2>3. CASE hookRecords[mth[t]] = NoRecord
    <3>1. /\ pc[t] = "hookEnter" /\ pc'[t] = "hook0" /\ rec'[t] = allocated + 1
          /\ allocated' = allocated + 1 /\ allocated + 1 \in Records /\ callbacks' = callbacks
      BY <1>3, <2>3, BoundsAssumption DEF HookEnter, FindOrCreate, Move, TypeOK, Records
    <3>2. \A u \in Threads : rec[u] \in Records => rec[u] <= allocated
      BY DEF RecordOwned, Uses, LocalsOK, FreshRecord, Records, NoRecord
    <3>3. \A u \in Threads \ {t} : rec'[u] # rec'[t]
      BY <1>0, <3>1, <3>2 DEF TypeOK
    <3>4. \A r \in Records : r > allocated' => callbacks'[r] = {}
      BY <3>1 DEF FreshRecord, TypeOK, Records
    <3>5. \A w \in Threads : pc'[w] \in Making => w = t
      BY <1>0, <2>1
    <3>6. callbacks'[rec'[t]] = {}
      BY <3>1 DEF FreshRecord, TypeOK, Records
    <3>7. \A w \in Threads : pc'[w] = "idle" => rec'[w] = NoRecord
      BY <1>0, <3>1 DEF FreshRecord
    <3> QED BY <3>3, <3>4, <3>5, <3>6, <3>7 DEF FreshRecord, Making
  <2> QED BY <2>2, <2>3
<1>4. CASE AddCallback(t)
  <2>1. /\ pc[t] = "add" /\ pc'[t] \in {"idle", "hookEnter"} /\ rec'[t] = NoRecord
        /\ callbacks' = [callbacks EXCEPT ![rec[t]] = @ \cup {cb[t]}]
        /\ allocated' = allocated
    BY <1>4 DEF AddCallback, Finish, Move, TypeOK
  <2> QED BY <1>0, <1>1, <2>1, FreshKept DEF TypeOK, Making
<1>5. CASE Hook0(t) \/ Hook0Fails(t) \/ SetBackup(t) \/ PutRecord(t) \/ HookExit(t)
  <2>1. /\ pc[t] \in Making \cup {"hookExit"}
        /\ pc'[t] \in Making => pc[t] \in Making /\ rec'[t] = rec[t]
        /\ rec'[t] = NoRecord \/ (pc'[t] # "idle" /\ rec'[t] = rec[t])
        /\ allocated' = allocated /\ callbacks' = callbacks
    BY <1>5 DEF Hook0, Hook0Fails, SetBackup, PutRecord, HookExit, Finish, Goto, Move, TypeOK, Making
  <2>2. \A u \in Threads \ {t} : pc[u] \in Making => rec'[t] # rec[u]
    BY <1>1, <2>1 DEF Making, CallPC
  <2> QED BY <1>0, <2>1, <2>2, FreshKept DEF Making
<1>6. CASE UnhookEnter(t)
  <2>1. /\ pc'[t] \in {"removeCallback", "unhookExit"} /\ rec'[t] = hookRecords[mth[t]]
        /\ pc[t] = "unhookEnter" /\ allocated' = allocated /\ callbacks' = callbacks
    BY <1>6 DEF UnhookEnter, Move, TypeOK
  <2>2. mth[t] \in Methods
    BY <2>1 DEF LocalsOK
  <2> QED BY <1>0, <1>1, <2>1, <2>2, FreshKept DEF Making
<1>7. CASE UnhookStep(t) /\ ~UnhookEnter(t)
  <2>1. /\ pc[t] \in UnhookPC /\ pc'[t] \notin Making
        /\ rec'[t] = NoRecord \/ (pc'[t] # "idle" /\ rec'[t] = rec[t])
        /\ allocated' = allocated /\ \A r \in Records : callbacks'[r] \subseteq callbacks[r]
    BY <1>7 DEF UnhookStep, CheckSize, TestSize, RemoveCallback, RemoveRecord, Unhook0, UnhookExit,
                Finish, Goto, Move, shared, TypeOK, Making, UnhookPC
  <2> QED BY <1>0, <1>1, <2>1, FreshKept DEF CallPC, UnhookPC
<1>8. CASE CallStep(t)
  <2>1. UNCHANGED shared /\ pc[t] # "add" /\ pc'[t] \in CallPC \cup {"idle"}
    BY <1>8, QuietStep DEF CallStep, EnterMethod, TakeSnapshot, RunBefore, InvokeBackup, RunAfter,
                Finish, Goto, Move, TypeOK, CallPC
  <2>2. pc'[t] = "idle" => rec'[t] = NoRecord
    BY <1>8 DEF CallStep, EnterMethod, TakeSnapshot, RunBefore, InvokeBackup, RunAfter,
                Finish, Goto, Move, TypeOK
  <2> QED BY <1>0, <1>1, <2>1, <2>2, FreshKept DEF shared, CallPC, Making
<1> QED
  BY <1>2, <1>3, <1>4, <1>5, <1>6, <1>7, <1>8 DEF Step, HookStep, UnhookStep
-----------------------------------------------------------------------------
(* Callbacks that were unhooked *)

\* Only StartHook puts a new pair in progress.
LEMMA HookProgress ==
  ASSUME TypeOK, NEW t \in Threads, Start(t) \/ Step(t), ~StartHook(t),
         NEW m \in Methods, NEW c \in Callbacks, HookInProgress(m, c)'
  PROVE  HookInProgress(m, c)
<1> USE DEF TypeOK, HookPC, Begin, Finish, Goto, Move
<1>1. PICK u \in Threads : pc'[u] \in HookPC /\ cb'[u] = c /\ m \in pending'[u] \cup {mth'[u]}
  BY DEF HookInProgress
<1>2. CASE u # t
  BY <1>1, <1>2, OthersUnmoved DEF HookInProgress
<1>3. CASE u = t /\ HookStep(t)
  <2>1. pc[t] \in HookPC /\ cb[t] = c /\ m \in pending[t] \cup {mth[t]}
    <3>1. CASE HookEnter(t)
      BY <1>1, <1>3, <3>1 DEF HookEnter, FindOrCreate
    <3>2. CASE AddCallback(t)
      BY <1>1, <1>3, <3>2 DEF AddCallback
    <3> QED
      BY <1>1, <1>3, <3>1, <3>2 DEF HookStep, Hook0, Hook0Fails, SetBackup, PutRecord, HookExit
  <2> QED BY <2>1 DEF HookInProgress
<1>4. CASE u = t /\ ~HookStep(t)
  <2>1. pc'[t] \notin HookPC
    <3>1. CASE Start(t)
      BY <3>1 DEF Start, StartUnhook, StartCall, StartInvokeOriginal
    <3>2. CASE UnhookStep(t)
      BY <3>2 DEF UnhookStep, UnhookEnter, RemoveCallback, CheckSize, TestSize, RemoveRecord,
                  Unhook0, UnhookExit
    <3>3. CASE CallStep(t)
      BY <3>3 DEF CallStep, EnterMethod, TakeSnapshot, RunBefore, InvokeBackup, RunAfter
    <3> QED BY <1>4, <3>1, <3>2, <3>3 DEF Step
  <2> QED BY <1>1, <1>4, <2>1
<1> QED BY <1>2, <1>3, <1>4
\* A thread about to add is adding to a record of its own method.
LEMMA AddsToOwnMethod ==
  ASSUME TypeOK, LocalsOK, RecordOwned, NEW t \in Threads, pc[t] = "add",
         NEW m \in Methods, entry[m] = rec[t] \/ hookRecords[m] = rec[t]
  PROVE  m = mth[t] /\ HookInProgress(m, cb[t])
<1>1. rec[t] \in Records /\ mth[t] \in Methods
  BY DEF TypeOK, LocalsOK
<1>2. Uses(m, rec[t]) /\ Uses(mth[t], rec[t])
  BY DEF Uses
<1>3. m = mth[t]
  BY <1>1, <1>2 DEF RecordOwned
<1> QED BY <1>3 DEF HookInProgress, HookPC

LEMMA UnhookedCleanStep ==
  ASSUME TypeOK, LocalsOK, Picture, FreshRecord, RecordOwned, UnhookedClean,
         NEW t \in Threads, Start(t) \/ Step(t)
  PROVE  UnhookedClean'
<1> SUFFICES ASSUME NEW m \in Methods, NEW c \in Callbacks, <<m, c>> \in unhooked'
             PROVE  ~HookInProgress(m, c)' /\ (entry'[m] # NoRecord => c \notin callbacks'[entry'[m]])
  BY DEF UnhookedClean
<1>1. <<m, c>> \in unhooked =>
        ~HookInProgress(m, c) /\ (entry[m] # NoRecord => c \notin callbacks[entry[m]])
  BY DEF UnhookedClean
<1>2. CASE StartHook(t)
  <2>1. PICK ms \in SUBSET Methods : \E k \in ms, e \in Callbacks :
          /\ k \notin Abstract
          /\ Begin(t, k, e, ms \ {k}, "hookEnter")
          /\ unhooked' = unhooked \ (ms \X {e})
          /\ UNCHANGED shared
    BY <1>2 DEF StartHook
  <2>2. PICK n \in ms, d \in Callbacks :
          /\ Begin(t, n, d, ms \ {n}, "hookEnter")
          /\ unhooked' = unhooked \ (ms \X {d})
          /\ UNCHANGED shared
    BY <2>1
  <2>3. <<m, c>> \in unhooked /\ ~(m \in ms /\ c = d)
    BY <2>2
  <2>4. ~HookInProgress(m, c)'
    <3> SUFFICES ASSUME NEW u \in Threads, pc'[u] \in HookPC, cb'[u] = c,
                        m \in pending'[u] \cup {mth'[u]}
                 PROVE  FALSE
      BY DEF HookInProgress
    <3>1. CASE u # t
      BY <1>1, <2>3, <3>1, OthersUnmoved DEF HookInProgress
    <3>2. CASE u = t
      BY <2>2, <2>3, <3>2 DEF Begin, TypeOK
    <3> QED BY <3>1, <3>2
  <2> QED BY <1>1, <2>2, <2>3, <2>4 DEF shared
<1>3. ASSUME ~StartHook(t) PROVE ~HookInProgress(m, c)
  <2>1. CASE <<m, c>> \in unhooked
    BY <1>1, <2>1
  <2>2. CASE <<m, c>> \notin unhooked
    <3>1. MarkUnhooked(t)
      BY <1>3, <2>2 DEF Start, StartUnhook, StartCall, StartInvokeOriginal, Step, HookStep, HookEnter,
        FindOrCreate, Hook0, Hook0Fails, SetBackup, PutRecord, HookExit, AddCallback, UnhookStep,
        UnhookEnter, RemoveCallback, CheckSize, TestSize, RemoveRecord, Unhook0, UnhookExit,
        CallStep, EnterMethod, TakeSnapshot, RunBefore, InvokeBackup, RunAfter, history
    <3> QED BY <2>2, <3>1 DEF MarkUnhooked
  <2> QED BY <2>1, <2>2
<1>4. ~StartHook(t) => ~HookInProgress(m, c)'
  BY <1>3, HookProgress
<1>5. CASE AddCallback(t)
  <2>1. pc[t] = "add" /\ callbacks' = [callbacks EXCEPT ![rec[t]] = @ \cup {cb[t]}]
        /\ UNCHANGED <<entry, unhooked>>
    BY <1>5 DEF AddCallback
  <2>2. ~StartHook(t)
    BY <2>1 DEF StartHook, Begin
  <2>3. entry[m] # NoRecord => c \notin callbacks'[entry[m]]
    BY <1>1, <2>1, AddsToOwnMethod DEF TypeOK
  <2> QED BY <1>4, <2>1, <2>2, <2>3
<1>6. CASE Hook0(t)
  <2>1. pc[t] = "hook0" /\ entry' = [entry EXCEPT ![mth[t]] = rec[t]] /\ UNCHANGED <<callbacks, unhooked>>
    BY <1>6 DEF Hook0, Goto, history
  <2>2. ~StartHook(t) /\ callbacks[rec[t]] = {}
    BY <2>1 DEF StartHook, Begin, FreshRecord
  <2> QED BY <1>1, <1>4, <2>1, <2>2 DEF TypeOK
<1>7. CASE UnhookEnter(t)
  <2>1. /\ pc[t] = "unhookEnter" /\ monitor = None /\ UNCHANGED <<callbacks, entry>>
        /\ \/ unhooked' = unhooked
           \/ hookRecords[mth[t]] = NoRecord /\ MarkUnhooked(t)
    BY <1>7 DEF UnhookEnter
  <2>2. ~StartHook(t) /\ mth[t] \in Methods
    BY <2>1 DEF StartHook, Begin, LocalsOK
  <2>3. hookRecords[mth[t]] = NoRecord => entry[mth[t]] = NoRecord
    BY <2>1, <2>2, NamesAssumption DEF Picture, Agreement, MonitorHeld, Critical
  <2> QED BY <1>1, <1>4, <2>1, <2>2, <2>3 DEF MarkUnhooked
<1>8. CASE RemoveCallback(t)
  <2>1. /\ pc[t] = "removeCallback" /\ MarkUnhooked(t) /\ UNCHANGED entry
        /\ callbacks' = [callbacks EXCEPT ![rec[t]] = @ \ {cb[t]}]
    BY <1>8 DEF RemoveCallback, Goto
  <2>2. ~StartHook(t) /\ mth[t] \in Methods
    BY <2>1 DEF StartHook, Begin, LocalsOK
  <2>3. entry[mth[t]] = rec[t]
    BY <2>1, <2>2 DEF Picture, HolderView, Agreement, MonitorHeld, Critical
  <2> QED BY <1>1, <1>4, <2>1, <2>2, <2>3 DEF MarkUnhooked, TypeOK
<1>9. ASSUME ~StartHook(t), ~AddCallback(t), ~Hook0(t), ~UnhookEnter(t), ~RemoveCallback(t)
      PROVE  /\ unhooked' = unhooked /\ callbacks' = callbacks
             /\ entry'[m] # NoRecord => entry'[m] = entry[m]
  <2>1. CASE Start(t)
    BY <1>9, <2>1 DEF Start, StartUnhook, StartCall, StartInvokeOriginal, shared, history
  <2>2. CASE HookStep(t)
    BY <1>9, <2>2 DEF HookStep, HookEnter, FindOrCreate, Hook0Fails, SetBackup, PutRecord, HookExit, history
  <2>3. CASE UnhookStep(t)
    BY <1>9, <2>3 DEF UnhookStep, CheckSize, TestSize, RemoveRecord, Unhook0, UnhookExit,
                      shared, history, TypeOK
  <2>4. CASE CallStep(t)
    BY <2>4 DEF CallStep, EnterMethod, TakeSnapshot, RunBefore, InvokeBackup, RunAfter, shared, history
  <2> QED BY <2>1, <2>2, <2>3, <2>4 DEF Step
<1> QED BY <1>1, <1>2, <1>4, <1>5, <1>6, <1>7, <1>8, <1>9
LEMMA BannedCleanStep ==
  ASSUME TypeOK, LocalsOK, Picture, RecordOwned, UnhookedClean, BannedClean, TypeOK',
         NEW t \in Threads, Start(t) \/ Step(t)
  PROVE  BannedClean'
<1>0. \A u \in Threads \ {t} :
        /\ pc'[u] = pc[u] /\ mth'[u] = mth[u] /\ cb'[u] = cb[u]
        /\ rec'[u] = rec[u] /\ snap'[u] = snap[u] /\ pending'[u] = pending[u]
  BY OthersUnmoved
<1> SUFFICES ASSUME NEW w \in Threads, NEW c \in Callbacks, c \in banned'[w]
             PROVE  /\ pc'[w] \in {"dispatch", "before", "invokeBackup", "after"}
                    /\ \A m \in Methods : mth'[w] = m => ~HookInProgress(m, c)'
                    /\ pc'[w] = "dispatch" => c \notin callbacks'[rec'[w]]
                    /\ c \notin snap'[w]
  BY DEF BannedClean, TypeOK
<1>1. ~StartHook(t) => \A m \in Methods : ~HookInProgress(m, c) => ~HookInProgress(m, c)'
  BY HookProgress
<1>2. c \in banned[w] =>
        /\ pc[w] \in {"dispatch", "before", "invokeBackup", "after"}
        /\ \A m \in Methods : mth[w] = m => ~HookInProgress(m, c)
        /\ pc[w] = "dispatch" => c \notin callbacks[rec[w]]
        /\ c \notin snap[w]
  BY DEF BannedClean
<1>3. CASE StartHook(t)
  <2>1. PICK ms \in SUBSET Methods : \E k \in ms, e \in Callbacks :
          /\ Begin(t, k, e, ms \ {k}, "hookEnter")
          /\ banned' = [u \in Threads |-> IF mth[u] \in ms THEN banned[u] \ {e} ELSE banned[u]]
          /\ UNCHANGED shared
    BY <1>3 DEF StartHook
  <2>2. PICK n \in ms, d \in Callbacks :
          /\ Begin(t, n, d, ms \ {n}, "hookEnter")
          /\ banned' = [u \in Threads |-> IF mth[u] \in ms THEN banned[u] \ {d} ELSE banned[u]]
          /\ UNCHANGED shared
    BY <2>1
  <2>3. c \in banned[w] /\ ~(mth[w] \in ms /\ c = d)
    BY <2>2
  <2>4. w # t
    BY <1>2, <2>2, <2>3 DEF Begin
  <2>5. ASSUME NEW m \in Methods, mth'[w] = m PROVE ~HookInProgress(m, c)'
    <3> SUFFICES ASSUME NEW u \in Threads, pc'[u] \in HookPC, cb'[u] = c,
                        m \in pending'[u] \cup {mth'[u]}
                 PROVE  FALSE
      BY DEF HookInProgress
    <3>1. CASE u # t
      BY <1>0, <1>2, <2>3, <2>4, <2>5, <3>1 DEF HookInProgress
    <3>2. CASE u = t
      BY <1>0, <2>2, <2>3, <2>4, <2>5, <3>2 DEF Begin, TypeOK
    <3> QED BY <3>1, <3>2
  <2> QED BY <1>0, <1>2, <2>2, <2>3, <2>4, <2>5 DEF shared
<1>4. CASE EnterMethod(t)
  <2>1. CASE w = t
    <3>1. /\ pc[t] = "call" /\ pc'[t] = "dispatch" /\ rec'[t] = entry[mth[t]] /\ entry[mth[t]] # NoRecord
          /\ UNCHANGED <<mth, snap, callbacks>> /\ <<mth[t], c>> \in unhooked
      BY <1>4, <2>1 DEF EnterMethod, Finish, Move, TypeOK, shared
    <3>2. mth[t] \in Methods /\ snap[t] = {} /\ ~StartHook(t)
      BY <3>1 DEF LocalsOK, Picture, BackupAssigned, StartHook, Begin
    <3>3. \A m \in Methods : mth[t] = m => ~HookInProgress(m, c) /\ c \notin callbacks[entry[m]]
      BY <3>1 DEF UnhookedClean
    <3>4. \A m \in Methods : mth[t] = m => ~HookInProgress(m, c)'
      BY <1>1, <3>2, <3>3
    <3> QED BY <2>1, <3>1, <3>2, <3>3, <3>4
  <2>2. CASE w # t
    <3>1. pc[t] = "call" /\ c \in banned[w] /\ UNCHANGED callbacks /\ ~StartHook(t)
      BY <1>4, <2>2 DEF EnterMethod, Finish, TypeOK, shared, StartHook, Begin
    <3>2. \A m \in Methods : mth[w] = m => ~HookInProgress(m, c)'
      BY <1>1, <1>2, <3>1
    <3> QED BY <1>0, <1>2, <2>2, <3>1, <3>2
  <2> QED BY <2>1, <2>2
<1>5. ASSUME ~StartHook(t), ~EnterMethod(t)
      PROVE  banned' = banned \/ (Finish(t) /\ banned' = [banned EXCEPT ![t] = {}])
  BY <1>5 DEF Start, StartUnhook, StartCall, StartInvokeOriginal, Step, HookStep, HookEnter,
    FindOrCreate, Hook0, Hook0Fails, SetBackup, PutRecord, HookExit, AddCallback, UnhookStep,
    UnhookEnter, RemoveCallback, CheckSize, TestSize, RemoveRecord, Unhook0, UnhookExit,
    CallStep, TakeSnapshot, RunBefore, InvokeBackup, RunAfter, history, Finish
<1>6. CASE ~StartHook(t) /\ ~EnterMethod(t) /\ w = t
  <2>1. c \in banned[t] /\ ~Finish(t)
    BY <1>5, <1>6 DEF Finish, TypeOK
  <2>2. pc[t] \in {"dispatch", "before", "invokeBackup", "after"}
    BY <1>2, <1>6, <2>1
  <2>3. TakeSnapshot(t) \/ RunBefore(t) \/ InvokeBackup(t)
    BY <1>6, <2>1, <2>2 DEF Start, StartUnhook, StartCall, StartInvokeOriginal, Step, HookStep,
      HookEnter, FindOrCreate, Hook0, Hook0Fails, SetBackup, PutRecord, HookExit, AddCallback,
      UnhookStep, UnhookEnter, RemoveCallback, CheckSize, TestSize, RemoveRecord, Unhook0,
      UnhookExit, CallStep, RunAfter, Goto, Begin
  <2>4. /\ pc'[t] \in {"before", "invokeBackup", "after"} /\ mth'[t] = mth[t]
        /\ snap'[t] = snap[t] \/ (pc[t] = "dispatch" /\ snap'[t] = callbacks[rec[t]])
    BY <2>1, <2>3 DEF TakeSnapshot, RunBefore, InvokeBackup, Goto, Move, TypeOK
  <2>5. \A m \in Methods : mth[w] = m => ~HookInProgress(m, c)'
    BY <1>1, <1>2, <1>6, <2>1
  <2> QED BY <1>2, <1>6, <2>1, <2>4, <2>5
<1>7. CASE ~StartHook(t) /\ ~EnterMethod(t) /\ w # t
  <2>1. c \in banned[w]
    BY <1>5, <1>7 DEF TypeOK
  <2>2. \A m \in Methods : mth[w] = m => ~HookInProgress(m, c)'
    BY <1>1, <1>2, <1>7, <2>1
  <2>3. pc[w] = "dispatch" => c \notin callbacks'[rec[w]]
    <3>1. CASE AddCallback(t)
      <4>1. pc[t] = "add" /\ callbacks' = [callbacks EXCEPT ![rec[t]] = @ \cup {cb[t]}]
        BY <3>1 DEF AddCallback
      <4>2. ASSUME rec[w] = rec[t], pc[w] = "dispatch" PROVE mth[w] = mth[t]
        <5>1. rec[t] \in Records /\ mth[t] \in Methods /\ mth[w] \in Methods
          BY <4>1, <4>2 DEF TypeOK, LocalsOK
        <5>2. Uses(mth[t], rec[t]) /\ Uses(mth[w], rec[t])
          BY <4>2, <5>1 DEF Uses
        <5> QED BY <5>1, <5>2 DEF RecordOwned
      <4>3. \A m \in Methods : mth[t] = m => HookInProgress(m, cb[t])
        BY <4>1 DEF HookInProgress, HookPC
      <4> QED BY <1>2, <2>1, <4>1, <4>2, <4>3 DEF TypeOK, LocalsOK
    <3>2. CASE ~AddCallback(t)
      <4>1. \A r \in Records : callbacks'[r] \subseteq callbacks[r]
        BY <1>7, <3>2 DEF Start, StartUnhook, StartCall, StartInvokeOriginal, Step, HookStep, HookEnter,
          FindOrCreate, Hook0, Hook0Fails, SetBackup, PutRecord, HookExit, UnhookStep,
          UnhookEnter, RemoveCallback, CheckSize, TestSize, RemoveRecord, Unhook0, UnhookExit,
          CallStep, TakeSnapshot, RunBefore, InvokeBackup, RunAfter, shared, TypeOK
      <4> QED BY <1>2, <2>1, <4>1 DEF TypeOK
    <3> QED BY <3>1, <3>2
  <2> QED BY <1>0, <1>2, <1>7, <2>1, <2>2, <2>3
<1> QED BY <1>3, <1>4, <1>6, <1>7
-----------------------------------------------------------------------------
(* Hooks that are in force *)

\* What the other steps leave alone.
LEMMA AddsFrame ==
  ASSUME TypeOK, NEW t \in Threads, Start(t) \/ Step(t),
         ~Hook0(t), ~PutRecord(t), ~HookExit(t), ~AddCallback(t),
         ~CheckSize(t), ~RemoveRecord(t), ~Unhook0(t)
  PROVE  /\ UNCHANGED <<hookRecords, entry, overtaken>> /\ kept' \subseteq kept
         /\ pc[t] # "add" /\ pc'[t] \notin {"add", "removeRecord", "unhook0"}
<1> USE DEF TypeOK, Begin, Finish, Goto, Move
<1>1. CASE Start(t)
  BY <1>1 DEF Start, StartHook, StartUnhook, StartCall, StartInvokeOriginal, shared, history
<1>2. CASE HookStep(t)
  BY <1>2 DEF HookStep, HookEnter, FindOrCreate, Hook0Fails, SetBackup, history
<1>3. CASE UnhookStep(t)
  BY <1>3 DEF UnhookStep, UnhookEnter, RemoveCallback, UnhookExit
<1>4. CASE CallStep(t)
  BY <1>4 DEF CallStep, EnterMethod, TakeSnapshot, RunBefore, InvokeBackup, RunAfter, shared, history
<1> QED BY <1>1, <1>2, <1>3, <1>4 DEF Step

LEMMA AddsCurrentStep ==
  ASSUME TypeOK, LocalsOK, Picture, AddsCurrent, NEW t \in Threads, Start(t) \/ Step(t)
  PROVE  AddsCurrent'
<1>0. /\ \A u \in Threads \ {t} : pc'[u] = pc[u] /\ mth'[u] = mth[u] /\ rec'[u] = rec[u]
      /\ \A u \in Threads : pc[u] \in Critical => u = t \/ pc[t] \notin Critical
      /\ overtaken \subseteq Threads
  BY OthersUnmoved DEF Picture, MonitorHeld, TypeOK
<1>1. ASSUME NEW u \in Threads, pc[u] = "add"
      PROVE  rec[u] # NoRecord /\ mth[u] \in Methods
  BY <1>1 DEF TypeOK, LocalsOK, Records, NoRecord
<1>2. CASE Hook0(t) \/ PutRecord(t)
  <2>1. /\ pc[t] \in {"hook0", "put"} /\ pc'[t] \in {"setBackup", "hookExit"} /\ UNCHANGED overtaken
        /\ \A m \in Methods : m # mth[t] => hookRecords'[m] = hookRecords[m] /\ entry'[m] = entry[m]
    BY <1>2 DEF Hook0, PutRecord, Goto, Move, TypeOK, history
  <2>2. hookRecords[mth[t]] = NoRecord
    BY <2>1 DEF Picture, HolderView
  <2> QED BY <1>0, <1>1, <2>1, <2>2 DEF AddsCurrent
<1>3. CASE HookExit(t)
  <2>1. /\ pc[t] = "hookExit" /\ pc'[t] = "add" /\ mth'[t] = mth[t] /\ rec'[t] = rec[t]
        /\ UNCHANGED <<overtaken, hookRecords, entry>>
    BY <1>3 DEF HookExit, Goto, Move, TypeOK, history
  <2>2. hookRecords[mth[t]] = rec[t] /\ entry[mth[t]] = rec[t]
    BY <1>0, <2>1 DEF Picture, HolderView, Agreement, Critical, LocalsOK
  <2> QED BY <1>0, <2>1, <2>2 DEF AddsCurrent, Critical
<1>4. CASE AddCallback(t)
  <2>1. /\ pc[t] = "add" /\ pc'[t] \in {"idle", "hookEnter"} /\ overtaken' = overtaken \ {t}
        /\ UNCHANGED <<hookRecords, entry>>
    BY <1>4 DEF AddCallback, Finish, Move, TypeOK
  <2> QED BY <1>0, <2>1 DEF AddsCurrent
<1>5. CASE CheckSize(t)
  <2>1. CASE callbacks[rec[t]] = {}
    <3>1. /\ pc[t] = "checkSize" /\ pc'[t] = "removeRecord" /\ UNCHANGED <<hookRecords, entry, mth>>
          /\ overtaken' = overtaken \cup {u \in Threads : pc[u] = "add" /\ rec[u] = rec[t]}
      BY <1>5, <2>1 DEF CheckSize, TestSize, Move, TypeOK, shared
    <3>2. hookRecords[mth[t]] = rec[t]
      BY <3>1 DEF Picture, HolderView
    <3> QED BY <1>0, <3>1, <3>2 DEF AddsCurrent
  <2>2. CASE callbacks[rec[t]] # {}
    <3>1. /\ pc[t] = "checkSize" /\ pc'[t] = "unhookExit"
          /\ UNCHANGED <<hookRecords, entry, mth, overtaken>>
      BY <1>5, <2>2 DEF CheckSize, TestSize, Move, TypeOK, shared
    <3> QED BY <1>0, <3>1 DEF AddsCurrent
  <2> QED BY <2>1, <2>2
<1>6. CASE RemoveRecord(t) \/ Unhook0(t)
  <2>1. /\ pc[t] \in {"removeRecord", "unhook0"} /\ pc'[t] \in {"unhook0", "unhookExit"}
        /\ UNCHANGED <<mth, overtaken>>
        /\ \A m \in Methods : m # mth[t] => hookRecords'[m] = hookRecords[m] /\ entry'[m] = entry[m]
    BY <1>6 DEF RemoveRecord, Unhook0, Goto, Move, TypeOK, history
  <2> QED BY <1>0, <1>1, <2>1 DEF AddsCurrent
<1>7. CASE ~(Hook0(t) \/ PutRecord(t) \/ HookExit(t) \/ AddCallback(t) \/ CheckSize(t)
             \/ RemoveRecord(t) \/ Unhook0(t))
  BY <1>0, <1>7, AddsFrame DEF AddsCurrent
<1> QED BY <1>2, <1>3, <1>4, <1>5, <1>6, <1>7

\* Only StartUnhook puts a new pair in progress.
LEMMA UnhookProgress ==
  ASSUME TypeOK, NEW t \in Threads, Start(t) \/ Step(t), ~StartUnhook(t),
         NEW m \in Methods, NEW c \in Callbacks, UnhookInProgress(m, c)'
  PROVE  UnhookInProgress(m, c)
<1> USE DEF TypeOK, UnhookPC, Begin, Finish, Goto, Move
<1>1. PICK u \in Threads : pc'[u] \in UnhookPC /\ cb'[u] = c /\ mth'[u] = m
  BY DEF UnhookInProgress
<1>2. CASE u # t
  BY <1>1, <1>2, OthersUnmoved DEF UnhookInProgress
<1>3. CASE u = t /\ UnhookStep(t)
  <2>1. pc[t] \in UnhookPC /\ cb[t] = c /\ mth[t] = m
    BY <1>1, <1>3 DEF UnhookStep, UnhookEnter, RemoveCallback, CheckSize, TestSize, RemoveRecord,
                      Unhook0, UnhookExit
  <2> QED BY <2>1 DEF UnhookInProgress
<1>4. CASE u = t /\ ~UnhookStep(t)
  <2>1. pc'[t] \notin UnhookPC
    <3>1. CASE Start(t)
      BY <3>1 DEF Start, StartHook, StartCall, StartInvokeOriginal
    <3>2. CASE HookStep(t)
      BY <3>2 DEF HookStep, HookEnter, FindOrCreate, Hook0, Hook0Fails, SetBackup, PutRecord,
                  HookExit, AddCallback
    <3>3. CASE CallStep(t)
      BY <3>3 DEF CallStep, EnterMethod, TakeSnapshot, RunBefore, InvokeBackup, RunAfter
    <3> QED BY <1>4, <3>1, <3>2, <3>3 DEF Step
  <2> QED BY <1>1, <1>4, <2>1
<1> QED BY <1>2, <1>3, <1>4
LEMMA InstalledStep ==
  ASSUME TypeOK, KeptHeld, NEW t \in Threads, Start(t) \/ Step(t),
         NEW m \in Methods, NEW c \in Callbacks, <<m, c>> \in installed'
  PROVE  ~UnhookInProgress(m, c)'
<1>1. CASE StartUnhook(t)
  <2>1. PICK n \in Methods, d \in Callbacks :
          Begin(t, n, d, {}, "unhookEnter") /\ installed' = installed \ {<<n, d>>}
    BY <1>1 DEF StartUnhook
  <2>2. ~UnhookInProgress(m, c) /\ <<m, c>> # <<n, d>>
    BY <2>1 DEF KeptHeld
  <2> SUFFICES ASSUME NEW u \in Threads, pc'[u] \in UnhookPC, cb'[u] = c, mth'[u] = m
               PROVE  FALSE
    BY DEF UnhookInProgress
  <2>3. CASE u # t
    BY <2>2, <2>3, OthersUnmoved DEF UnhookInProgress
  <2>4. CASE u = t
    BY <2>1, <2>2, <2>4 DEF Begin, TypeOK
  <2> QED BY <2>3, <2>4
<1>2. CASE AddCallback(t)
  <2>1. pc[t] = "add" /\ installed' = IF UnhookInProgress(mth[t], cb[t]) THEN installed
                                      ELSE installed \cup {<<mth[t], cb[t]>>}
    BY <1>2 DEF AddCallback
  <2>2. ~UnhookInProgress(m, c)
    <3>1. CASE <<m, c>> \in installed
      BY <3>1 DEF KeptHeld
    <3>2. CASE <<m, c>> \notin installed
      BY <2>1, <3>2 DEF UnhookInProgress
    <3> QED BY <3>1, <3>2
  <2>3. ~StartUnhook(t)
    BY <2>1 DEF StartUnhook, Begin
  <2> QED BY <2>2, <2>3, UnhookProgress
<1>3. CASE ~StartUnhook(t) /\ ~AddCallback(t)
  <2>1. installed' = installed
    BY <1>3 DEF Start, StartHook, StartCall, StartInvokeOriginal, Step, HookStep, HookEnter,
      FindOrCreate, Hook0, Hook0Fails, SetBackup, PutRecord, HookExit, UnhookStep, UnhookEnter,
      RemoveCallback, CheckSize, TestSize, RemoveRecord, Unhook0, UnhookExit, CallStep,
      EnterMethod, TakeSnapshot, RunBefore, InvokeBackup, RunAfter, history
  <2> QED BY <1>3, <2>1, UnhookProgress DEF KeptHeld
<1> QED BY <1>1, <1>2, <1>3

LEMMA KeptHeldStep ==
  ASSUME TypeOK, LocalsOK, Picture, RecordOwned, AddsCurrent, KeptHeld, TypeOK',
         NEW t \in Threads, Start(t) \/ Step(t)
  PROVE  KeptHeld'
<1> SUFFICES ASSUME NEW m \in Methods, NEW c \in Callbacks, <<m, c>> \in kept'
             PROVE  /\ entry'[m] # NoRecord /\ c \in callbacks'[entry'[m]]
                    /\ \A u \in Threads : pc'[u] \in {"removeRecord", "unhook0"} => mth'[u] # m
  BY InstalledStep DEF KeptHeld
<1>0. /\ \A u \in Threads \ {t} : pc'[u] = pc[u] /\ mth'[u] = mth[u]
      /\ \A u \in Threads : pc[u] \in Critical => u = t \/ pc[t] \notin Critical
  BY OthersUnmoved DEF Picture, MonitorHeld
<1>1. <<m, c>> \in kept => /\ entry[m] # NoRecord /\ entry[m] \in Records /\ c \in callbacks[entry[m]]
                           /\ \A u \in Threads : pc[u] \in {"removeRecord", "unhook0"} => mth[u] # m
                           /\ ~UnhookInProgress(m, c)
  BY DEF KeptHeld, TypeOK, Records, NoRecord
<1>2. CASE AddCallback(t)
  <2>1. /\ pc[t] = "add" /\ pc'[t] \in {"idle", "hookEnter"} /\ entry' = entry
        /\ callbacks' = [callbacks EXCEPT ![rec[t]] = @ \cup {cb[t]}]
        /\ <<m, c>> \in kept \/ (t \notin overtaken /\ m = mth[t] /\ c = cb[t])
    BY <1>2 DEF AddCallback, Finish, Move, TypeOK
  <2>2. rec[t] \in Records
    BY <2>1 DEF TypeOK
  <2>3. CASE <<m, c>> \in kept
    BY <1>0, <1>1, <2>1, <2>2, <2>3 DEF TypeOK
  <2>4. CASE t \notin overtaken /\ m = mth[t] /\ c = cb[t]
    BY <1>0, <2>1, <2>2, <2>4 DEF AddsCurrent, TypeOK, Records, NoRecord
  <2> QED BY <2>1, <2>3, <2>4
<1>3. CASE Hook0(t)
  <2>1. /\ pc[t] = "hook0" /\ pc'[t] = "setBackup" /\ entry[mth[t]] = NoRecord
        /\ entry' = [entry EXCEPT ![mth[t]] = rec[t]] /\ UNCHANGED <<callbacks, kept>>
    BY <1>3 DEF Hook0, Goto, Move, TypeOK, history
  <2> QED BY <1>0, <1>1, <2>1 DEF TypeOK
<1>4. CASE RemoveCallback(t)
  <2>1. /\ pc[t] = "removeCallback" /\ pc'[t] = "checkSize" /\ UNCHANGED <<entry, kept>>
        /\ callbacks' = [callbacks EXCEPT ![rec[t]] = @ \ {cb[t]}]
    BY <1>4 DEF RemoveCallback, Goto, Move, TypeOK
  <2>2. entry[m] = rec[t] => m = mth[t]
    BY <2>1 DEF RecordOwned, Uses, TypeOK, LocalsOK
  <2>3. ~(entry[m] = rec[t] /\ c = cb[t])
    BY <1>1, <2>1, <2>2 DEF UnhookInProgress, UnhookPC
  <2> QED BY <1>0, <1>1, <2>1, <2>3 DEF TypeOK
<1>5. CASE CheckSize(t)
  <2>1. /\ pc[t] = "checkSize" /\ pc'[t] \in {"removeRecord", "unhookExit"}
        /\ pc'[t] = "removeRecord" => callbacks[rec[t]] = {}
        /\ UNCHANGED <<entry, kept, callbacks, mth>>
    BY <1>5 DEF CheckSize, TestSize, Move, TypeOK, shared
  <2>2. entry[mth[t]] = rec[t]
    BY <1>0, <2>1 DEF Picture, HolderView, Agreement, Critical, LocalsOK
  <2> QED BY <1>0, <1>1, <2>1, <2>2
<1>6. CASE RemoveRecord(t) \/ Unhook0(t)
  <2>1. /\ pc[t] \in {"removeRecord", "unhook0"} /\ pc'[t] \in {"unhook0", "unhookExit"}
        /\ UNCHANGED <<mth, kept, callbacks>>
        /\ m # mth[t] => entry'[m] = entry[m]
    BY <1>6 DEF RemoveRecord, Unhook0, Goto, Move, TypeOK, history
  <2> QED BY <1>0, <1>1, <2>1
<1>7. CASE ~(Hook0(t) \/ AddCallback(t) \/ RemoveCallback(t) \/ CheckSize(t)
             \/ RemoveRecord(t) \/ Unhook0(t))
  <2>1. /\ UNCHANGED <<entry, callbacks>> /\ kept' \subseteq kept
        /\ pc'[t] \notin {"removeRecord", "unhook0"}
    <3> USE DEF TypeOK, Begin, Finish, Goto, Move
    <3>1. CASE Start(t)
      BY <3>1 DEF Start, StartHook, StartUnhook, StartCall, StartInvokeOriginal, shared, history
    <3>2. CASE HookStep(t)
      BY <1>7, <3>2 DEF HookStep, HookEnter, FindOrCreate, Hook0Fails, SetBackup, PutRecord,
                        HookExit, history
    <3>3. CASE UnhookStep(t)
      BY <1>7, <3>3 DEF UnhookStep, UnhookEnter, UnhookExit
    <3>4. CASE CallStep(t)
      BY <3>4 DEF CallStep, EnterMethod, TakeSnapshot, RunBefore, InvokeBackup, RunAfter, shared, history
    <3> QED BY <3>1, <3>2, <3>3, <3>4 DEF Step
  <2> QED BY <1>0, <1>1, <2>1
<1> QED BY <1>2, <1>3, <1>4, <1>5, <1>6, <1>7
-----------------------------------------------------------------------------
\* Both invariants together hold in every reachable state.
LEMMA InitHInv == Init => HInv
<1> SUFFICES ASSUME Init PROVE HInv
  OBVIOUS
<1> USE NamesAssumption DEF Init
<1>1. RecordOwned
  BY DEF RecordOwned, Uses, Records, NoRecord
<1>2. FreshRecord /\ UnhookedClean /\ BannedClean
  BY DEF FreshRecord, UnhookedClean, BannedClean, HookInProgress, HookPC
<1>3. AddsCurrent /\ KeptHeld
  BY DEF AddsCurrent, KeptHeld
<1> QED BY <1>1, <1>2, <1>3 DEF HInv

LEMMA StepHInv == IInv /\ IInv' /\ HInv /\ [Next]_vars => HInv'
<1> SUFFICES ASSUME IInv, IInv', HInv, [Next]_vars PROVE HInv'
  OBVIOUS
<1>1. TypeOK /\ LocalsOK /\ Picture /\ TypeOK'
  BY DEF IInv, Picture
<1>2. RecordOwned /\ FreshRecord /\ UnhookedClean /\ BannedClean /\ AddsCurrent /\ KeptHeld
  BY DEF HInv
<1>3. ASSUME NEW t \in Threads, Start(t) \/ Step(t) PROVE HInv'
  <2>1. RecordOwned' /\ FreshRecord'
    BY <1>1, <1>2, <1>3, RecordOwnedStep, FreshRecordStep
  <2>2. UnhookedClean' /\ BannedClean'
    BY <1>1, <1>2, <1>3, UnhookedCleanStep, BannedCleanStep
  <2>3. AddsCurrent' /\ KeptHeld'
    BY <1>1, <1>2, <1>3, AddsCurrentStep, KeptHeldStep
  <2> QED BY <2>1, <2>2, <2>3 DEF HInv
<1>4. ASSUME UNCHANGED vars PROVE HInv'
  <2>1. UNCHANGED <<hookRecords, allocated, callbacks, entry, pc, mth, cb, rec, pending, snap,
                    installed, unhooked, banned, overtaken, kept>>
    BY <1>4 DEF vars, shared, locals, history
  <2>2. RecordOwned' /\ FreshRecord'
    BY <1>2, <2>1 DEF RecordOwned, Uses, FreshRecord
  <2>3. UnhookedClean' /\ BannedClean'
    BY <1>2, <2>1 DEF UnhookedClean, BannedClean, HookInProgress
  <2>4. AddsCurrent' /\ KeptHeld'
    BY <1>2, <2>1 DEF AddsCurrent, KeptHeld, UnhookInProgress
  <2> QED BY <2>2, <2>3, <2>4 DEF HInv
<1> QED BY <1>3, <1>4 DEF Next, Done

THEOREM HistoryInvariance == Spec => [](IInv /\ HInv)
<1>1. Init => IInv /\ HInv
  BY InitIInv, InitHInv
<1>2. IInv /\ HInv /\ [Next]_vars => IInv' /\ HInv'
  BY StepIInv, StepHInv
<1> QED BY <1>1, <1>2, PTL DEF Spec

\* A callback removed by unhookMethod is not run by any later call, for any number
\* of threads, methods and callbacks.
THEOREM UnhookIsFinal == Spec => []UnhookedNeverRuns
<1>1. HInv => UnhookedNeverRuns
  BY DEF HInv, BannedClean, UnhookedNeverRuns
<1> QED BY <1>1, HistoryInvariance, PTL

\* A hook that was not overtaken by an unhookMethod stays in force.
THEOREM HookLoss == Spec => []LostOnlyWhenOvertaken
<1>1. IInv /\ HInv => LostOnlyWhenOvertaken
  <2> SUFFICES ASSUME IInv, HInv, NEW p \in kept
               PROVE  entry[p[1]] # NoRecord /\ p[2] \in callbacks[entry[p[1]]]
    BY DEF LostOnlyWhenOvertaken
  <2>1. p \in Methods \X Callbacks
    BY DEF IInv, TypeOK
  <2>2. p[1] \in Methods /\ p[2] \in Callbacks /\ p = <<p[1], p[2]>>
    BY <2>1
  <2> QED BY <2>2 DEF HInv, KeptHeld
<1> QED BY <1>1, HistoryInvariance, PTL
-----------------------------------------------------------------------------
(* The refinement of HookRegistry *)

\* A step that changes neither the callbacks dispatched to nor which threads give
\* up a method is none of the registry.
LEMMA RegistryFrame ==
  ASSUME TypeOK, NEW t \in Threads,
         \A u \in Threads \ {t} : pc'[u] = pc[u] /\ mth'[u] = mth[u],
         pc[t] \in {"removeRecord", "unhook0"} <=> pc'[t] \in {"removeRecord", "unhook0"},
         pc[t] \in {"removeRecord", "unhook0"} => mth'[t] = mth[t]
  PROVE  UNCHANGED Retiring
BY DEF Retiring

\* The thread in the critical section finds its record dispatched to, and gives
\* up methods alone.
LEMMA HolderAlone ==
  ASSUME TypeOK, LocalsOK, Picture, NEW t \in Threads,
         pc[t] \in {"removeCallback", "checkSize", "removeRecord", "unhook0"}
  PROVE  /\ mth[t] \in Methods /\ rec[t] \in Records /\ entry[mth[t]] = rec[t]
         /\ \A u \in Threads \ {t} : pc[u] \notin Critical
<1>1. mth[t] \in Methods /\ rec[t] \in Records
  BY DEF LocalsOK, TypeOK
<1>2. \A u \in Threads \ {t} : pc[u] \notin Critical
  BY DEF Picture, MonitorHeld, Critical
<1>3. entry[mth[t]] = rec[t]
  BY <1>1, <1>2 DEF Picture, HolderView, Agreement, Critical
<1> QED BY <1>1, <1>2, <1>3

LEMMA RegistryStep ==
  ASSUME TypeOK, LocalsOK, Picture, RecordOwned, FreshRecord,
         NEW t \in Threads, Start(t) \/ Step(t)
  PROVE  [Registry!Next]_<<Dispatched, Retiring>>
<1> DEFINE m == mth[t]
           c == cb[t]
           Others == Threads \ {t}
<1>0. \A u \in Others : pc'[u] = pc[u] /\ mth'[u] = mth[u]
  BY OthersUnmoved
<1>1. CASE Hook0(t)
  <2>1. /\ pc[t] = "hook0" /\ pc'[t] = "setBackup" /\ UNCHANGED <<callbacks, mth>>
        /\ entry[m] = NoRecord /\ entry' = [entry EXCEPT ![m] = rec[t]]
        /\ callbacks[rec[t]] = {} /\ m \in Methods
    BY <1>1 DEF Hook0, Goto, Move, TypeOK, LocalsOK, FreshRecord
  <2>2. UNCHANGED Dispatched
    BY <2>1 DEF Dispatched, TypeOK
  <2>3. UNCHANGED Retiring
    BY <1>0, <2>1, RegistryFrame
  <2> QED BY <2>2, <2>3
<1>2. CASE AddCallback(t)
  <2>1. /\ pc[t] = "add" /\ pc'[t] \in {"idle", "hookEnter"} /\ UNCHANGED entry
        /\ callbacks' = [callbacks EXCEPT ![rec[t]] = @ \cup {c}]
        /\ m \in Methods /\ c \in Callbacks /\ rec[t] \in Records
    BY <1>2 DEF AddCallback, Finish, Move, TypeOK, LocalsOK, HookPC
  <2>2. UNCHANGED Retiring
    BY <1>0, <2>1, RegistryFrame
  <2>3. \A n \in Methods : entry[n] = rec[t] => n = m
    BY <2>1 DEF RecordOwned, Uses
  <2>4. CASE entry[m] = rec[t]
    <3>1. Dispatched' = Dispatched \cup {<<m, c>>}
      BY <2>1, <2>3, <2>4 DEF Dispatched, TypeOK, Records, NoRecord
    <3>2. Registry!Hook(m, c)
      BY <2>2, <3>1 DEF Registry!Hook
    <3> QED BY <2>1, <3>2 DEF Registry!Next
  <2>5. CASE entry[m] # rec[t]
    <3>1. \A n \in Methods : entry[n] # rec[t]
      BY <2>3, <2>5
    <3>2. UNCHANGED Dispatched
      BY <2>1, <3>1 DEF Dispatched, TypeOK
    <3> QED BY <2>2, <3>2
  <2> QED BY <2>4, <2>5
<1>3. CASE RemoveCallback(t)
  <2>1. /\ pc[t] = "removeCallback" /\ pc'[t] = "checkSize" /\ UNCHANGED <<entry, mth>>
        /\ callbacks' = [callbacks EXCEPT ![rec[t]] = @ \ {c}]
        /\ c \in Callbacks
    BY <1>3 DEF RemoveCallback, Goto, Move, TypeOK, LocalsOK, UnhookPC
  <2>2. /\ m \in Methods /\ rec[t] \in Records /\ entry[m] = rec[t]
        /\ \A u \in Others : pc[u] \notin Critical
    BY <2>1, HolderAlone
  <2>3. UNCHANGED Retiring /\ m \notin Retiring
    <3>1. UNCHANGED Retiring
      BY <1>0, <2>1, RegistryFrame
    <3> QED BY <2>1, <2>2, <3>1 DEF Retiring, Critical
  <2>4. \A n \in Methods : entry[n] = rec[t] => n = m
    BY <2>2 DEF RecordOwned, Uses
  <2>5. Dispatched' = Dispatched \ {<<m, c>>}
    BY <2>1, <2>2, <2>4 DEF Dispatched, TypeOK, Records, NoRecord
  <2>6. Registry!Unhook(m, c)
    BY <2>3, <2>5 DEF Registry!Unhook
  <2> QED BY <2>1, <2>2, <2>6 DEF Registry!Next
<1>4. CASE CheckSize(t)
  <2>1. /\ pc[t] = "checkSize" /\ UNCHANGED <<entry, callbacks, mth>>
        /\ \/ pc'[t] = "removeRecord" /\ callbacks[rec[t]] = {}
           \/ pc'[t] = "unhookExit"
    BY <1>4 DEF CheckSize, TestSize, Move, TypeOK, shared
  <2>2. /\ m \in Methods /\ rec[t] \in Records /\ entry[m] = rec[t]
        /\ \A u \in Others : pc[u] \notin Critical
    BY <2>1, HolderAlone
  <2>3. UNCHANGED Dispatched
    BY <2>1 DEF Dispatched
  <2>4. CASE pc'[t] = "removeRecord" /\ callbacks[rec[t]] = {}
    <3>1. Retiring = {} /\ Retiring' = {m}
      BY <1>0, <2>1, <2>2, <2>4 DEF Retiring, Critical
    <3>2. Dispatched \cap Registry!Of(m) = {}
      BY <2>2, <2>4 DEF Dispatched, Registry!Of
    <3>3. Registry!Empty(m)
      BY <2>3, <3>1, <3>2 DEF Registry!Empty
    <3> QED BY <2>2, <3>3 DEF Registry!Next
  <2>5. CASE pc'[t] = "unhookExit"
    <3>1. UNCHANGED Retiring
      BY <1>0, <2>1, <2>5, RegistryFrame
    <3> QED BY <2>3, <3>1
  <2> QED BY <2>1, <2>4, <2>5
<1>5. CASE Unhook0(t)
  <2>1. /\ pc[t] = "unhook0" /\ pc'[t] = "unhookExit" /\ UNCHANGED <<callbacks, mth>>
        /\ entry' = [entry EXCEPT ![m] = NoRecord]
    BY <1>5 DEF Unhook0, Goto, Move, TypeOK
  <2>2. /\ m \in Methods /\ \A u \in Others : pc[u] \notin Critical
    BY <2>1, HolderAlone
  <2>3. Retiring = {m} /\ Retiring' = {}
    BY <1>0, <2>1, <2>2 DEF Retiring, Critical
  <2>4. Dispatched' = Dispatched \ Registry!Of(m)
    BY <2>1, <2>2 DEF Dispatched, Registry!Of, TypeOK
  <2>5. Registry!Retire(m)
    BY <2>3, <2>4 DEF Registry!Retire
  <2> QED BY <2>2, <2>5 DEF Registry!Next
<1>6. CASE RemoveRecord(t)
  <2>1. /\ pc[t] = "removeRecord" /\ pc'[t] = "unhook0" /\ UNCHANGED <<entry, callbacks, mth>>
    BY <1>6 DEF RemoveRecord, Goto, Move, TypeOK
  <2>2. UNCHANGED Dispatched /\ UNCHANGED Retiring
    BY <1>0, <2>1, RegistryFrame DEF Dispatched
  <2> QED BY <2>2
<1>7. CASE ~(Hook0(t) \/ AddCallback(t) \/ RemoveCallback(t) \/ CheckSize(t)
             \/ RemoveRecord(t) \/ Unhook0(t))
  <2>1. /\ UNCHANGED <<entry, callbacks>>
        /\ pc[t] \notin {"removeRecord", "unhook0"}
        /\ pc'[t] \notin {"removeRecord", "unhook0"}
    <3> USE DEF TypeOK, Begin, Finish, Goto, Move
    <3>1. CASE Start(t)
      BY <3>1 DEF Start, StartHook, StartUnhook, StartCall, StartInvokeOriginal, shared
    <3>2. CASE HookStep(t)
      BY <1>7, <3>2 DEF HookStep, HookEnter, FindOrCreate, Hook0Fails, SetBackup, PutRecord,
                        HookExit, history
    <3>3. CASE UnhookStep(t)
      BY <1>7, <3>3 DEF UnhookStep, UnhookEnter, UnhookExit
    <3>4. CASE CallStep(t)
      BY <3>4 DEF CallStep, EnterMethod, TakeSnapshot, RunBefore, InvokeBackup, RunAfter, shared
    <3> QED BY <3>1, <3>2, <3>3, <3>4 DEF Step
  <2>2. UNCHANGED Dispatched /\ UNCHANGED Retiring
    BY <1>0, <2>1, RegistryFrame DEF Dispatched
  <2> QED BY <2>2
<1> QED BY <1>1, <1>2, <1>3, <1>4, <1>5, <1>6, <1>7

\* To the calls of hooked methods, any number of threads in hookMethod and
\* unhookMethod are one set of pairs that changes one pair at a time.
THEOREM RegistryRefinement == Spec => ImplementsRegistry
<1>1. Init => Registry!Init
  BY DEF Init, Registry!Init, Dispatched, Retiring
<1>2. IInv /\ HInv /\ [Next]_vars => [Registry!Next]_<<Dispatched, Retiring>>
  <2> SUFFICES ASSUME IInv, HInv, [Next]_vars
               PROVE  [Registry!Next]_<<Dispatched, Retiring>>
    OBVIOUS
  <2>1. ASSUME NEW t \in Threads, Start(t) \/ Step(t)
        PROVE  [Registry!Next]_<<Dispatched, Retiring>>
    BY <2>1, RegistryStep DEF IInv, HInv, Picture
  <2>2. CASE UNCHANGED vars
    BY <2>2 DEF vars, shared, locals, Dispatched, Retiring
  <2> QED BY <2>1, <2>2 DEF Next, Done
<1> QED BY <1>1, <1>2, HistoryInvariance, PTL DEF Spec, ImplementsRegistry, Registry!Spec
=============================================================================
