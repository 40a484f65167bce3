---------------------------- MODULE CalvinBridge ----------------------------
(***************************************************************************)
(* The hook bridge: CalvinBridge.hookMethod, hookAllMethods, unhookMethod, *)
(* invokeOriginalMethod and the dispatch of hooked calls, by threads that  *)
(* interleave.  One action is one access to shared state: the monitor of   *)
(* hookRecords, the map itself, a HookInfo's fields, its copy-on-write set *)
(* of callbacks, and the method's entry point inside the runtime, which    *)
(* hook0 and unhook0 change.  callbacks.add runs after the monitor is      *)
(* released, and a hooked call takes no lock at all.                       *)
(*                                                                         *)
(* The order of a record's callbacks is CopyOnWriteSortedSet's module;     *)
(* what one dispatch does with its snapshot is HookCallback's.             *)
(***************************************************************************)
EXTENDS Naturals, FiniteSets

CONSTANTS Threads,     \* the threads that call into the bridge
          Methods,     \* the members that may be hooked or called
          Abstract,    \* the ones checkMethod refuses
          Callbacks,   \* the CA_MethodHook objects
          MaxRecords,  \* bound: HookInfo objects created
          MaxOps,      \* bound: operations started
          None         \* no thread, no method, no callback

ASSUME BoundsAssumption == MaxRecords \in Nat /\ MaxOps \in Nat
ASSUME NamesAssumption ==
  /\ Abstract \subseteq Methods
  /\ None \notin Threads /\ None \notin Methods /\ None \notin Callbacks

\* HookInfo objects are numbered in the order of their creation; 0 is null.
Records == 1..MaxRecords
NoRecord == 0

VARIABLES
  hookRecords,  \* the map: the HookInfo registered for each method, or null
  monitor,      \* the thread inside synchronized (hookRecords), or None
  allocated,    \* how many HookInfo objects exist
  backup,       \* HookInfo.backup has been assigned
  callbacks,    \* HookInfo.callbacks, as a set
  entry,        \* the HookInfo the runtime dispatches a call of the method to
  pc, mth, cb, rec, pending, snap,  \* each thread's position and locals
  started,      \* operations started so far
  installed,    \* history: pairs whose hookMethod returned and no unhook began since
  unhooked,     \* history: pairs not hooked, or unhooked, and no hook began since
  banned,       \* history: callbacks of the called method unhooked before the call
  overtaken,    \* history: threads about to add to a record found empty and given up
  kept          \* history: installed by threads that were not overtaken

shared  == <<hookRecords, monitor, allocated, backup, callbacks, entry>>
locals  == <<pc, mth, cb, rec, pending, snap, started>>
history == <<installed, unhooked, banned, overtaken, kept>>
vars == <<shared, locals, history>>

HookPC    == {"hookEnter", "hook0", "setBackup", "put", "hookExit", "add"}
UnhookPC  == {"unhookEnter", "removeCallback", "checkSize", "removeRecord",
              "unhook0", "unhookExit"}
CallPC    == {"call", "dispatch", "before", "invokeBackup", "after"}
Positions == {"idle"} \cup HookPC \cup UnhookPC \cup CallPC

\* Where a thread is inside synchronized (hookRecords).
Critical == {"hook0", "setBackup", "put", "hookExit", "removeCallback",
             "checkSize", "removeRecord", "unhook0", "unhookExit"}

HookInProgress(m, c) == \E t \in Threads :
  pc[t] \in HookPC /\ cb[t] = c /\ m \in pending[t] \cup {mth[t]}
UnhookInProgress(m, c) == \E t \in Threads :
  pc[t] \in UnhookPC /\ cb[t] = c /\ mth[t] = m

Init ==
  /\ hookRecords = [m \in Methods |-> NoRecord]
  /\ monitor = None
  /\ allocated = 0
  /\ backup = [r \in Records |-> FALSE]
  /\ callbacks = [r \in Records |-> {}]
  /\ entry = [m \in Methods |-> NoRecord]
  /\ pc = [t \in Threads |-> "idle"]
  /\ mth = [t \in Threads |-> None]
  /\ cb = [t \in Threads |-> None]
  /\ rec = [t \in Threads |-> NoRecord]
  /\ pending = [t \in Threads |-> {}]
  /\ snap = [t \in Threads |-> {}]
  /\ started = 0
  /\ installed = {}
  /\ unhooked = Methods \X Callbacks
  /\ banned = [t \in Threads |-> {}]
  /\ overtaken = {}
  /\ kept = {}

-----------------------------------------------------------------------------
(* Control of one thread *)

Move(t, to) == pc' = [pc EXCEPT ![t] = to]
Goto(t, from, to) == pc[t] = from /\ Move(t, to)

\* An idle thread begins an operation on m, at the position `to`.
Begin(t, m, c, ms, to) ==
  /\ pc[t] = "idle"
  /\ started < MaxOps
  /\ started' = started + 1
  /\ Move(t, to)
  /\ mth' = [mth EXCEPT ![t] = m]
  /\ cb' = [cb EXCEPT ![t] = c]
  /\ pending' = [pending EXCEPT ![t] = ms]

\* The operation returns or throws: its locals are gone.
Finish(t) ==
  /\ Move(t, "idle")
  /\ mth' = [mth EXCEPT ![t] = None]
  /\ cb' = [cb EXCEPT ![t] = None]
  /\ rec' = [rec EXCEPT ![t] = NoRecord]
  /\ pending' = [pending EXCEPT ![t] = {}]
  /\ snap' = [snap EXCEPT ![t] = {}]
  /\ banned' = [banned EXCEPT ![t] = {}]
  /\ UNCHANGED started

-----------------------------------------------------------------------------
(* hookMethod, and hookAllMethods, hookAllConstructors and                 *)
(* hookClassAllMethods, which call it for each member of a class           *)

\* The next member of the loop, in the unspecified order of
\* getDeclaredMethods; checkMethod throws on an abstract one.
StartHook(t) == \E ms \in SUBSET Methods : \E m \in ms, c \in Callbacks :
  /\ m \notin Abstract
  /\ Begin(t, m, c, ms \ {m}, "hookEnter")
  /\ unhooked' = unhooked \ (ms \X {c})
  /\ banned' = [u \in Threads |-> IF mth[u] \in ms THEN banned[u] \ {c} ELSE banned[u]]
  /\ UNCHANGED <<shared, rec, snap, installed, overtaken, kept>>

\* Find the method's record or create one.
FindOrCreate(t) ==
  /\ pc[t] = "hookEnter"
  /\ \/ /\ hookRecords[mth[t]] # NoRecord
        /\ Move(t, "hookExit")
        /\ rec' = [rec EXCEPT ![t] = hookRecords[mth[t]]]
        /\ UNCHANGED allocated
     \/ /\ hookRecords[mth[t]] = NoRecord
        /\ allocated < MaxRecords
        /\ Move(t, "hook0")
        /\ allocated' = allocated + 1
        /\ rec' = [rec EXCEPT ![t] = allocated + 1]
  /\ UNCHANGED <<hookRecords, backup, callbacks, entry, mth, cb, pending, snap, started, history>>

HookEnterUnsynchronized(t) == monitor' = t /\ FindOrCreate(t)

\* synchronized (hookRecords) begins.
HookEnter(t) == monitor = None /\ monitor' = t /\ FindOrCreate(t)

\* hook0 patches the method's entry point.
Hook0(t) ==
  /\ Goto(t, "hook0", "setBackup")
  /\ entry[mth[t]] = NoRecord
  /\ entry' = [entry EXCEPT ![mth[t]] = rec[t]]
  /\ UNCHANGED <<hookRecords, monitor, allocated, backup, callbacks, mth, cb, rec,
                 pending, snap, started, history>>

Hook0FailsLocked(t) ==
  /\ pc[t] = "hook0"
  /\ Finish(t)
  /\ UNCHANGED <<shared, installed, unhooked, overtaken, kept>>

\* hook0 returns null (it always may; it does for a method already hooked):
\* the exception leaves the monitor and abandons the rest of the loop.
Hook0Fails(t) ==
  /\ pc[t] = "hook0"
  /\ monitor' = None
  /\ Finish(t)
  /\ UNCHANGED <<hookRecords, allocated, backup, callbacks, entry, installed, unhooked, overtaken, kept>>

SetBackupForgotten(t) ==
  /\ Goto(t, "setBackup", "put")
  /\ UNCHANGED <<shared, mth, cb, rec, pending, snap, started, history>>

SetBackup(t) ==
  /\ Goto(t, "setBackup", "put")
  /\ backup' = [backup EXCEPT ![rec[t]] = TRUE]
  /\ UNCHANGED <<hookRecords, monitor, allocated, callbacks, entry, mth, cb, rec,
                 pending, snap, started, history>>

PutRecord(t) ==
  /\ Goto(t, "put", "hookExit")
  /\ hookRecords' = [hookRecords EXCEPT ![mth[t]] = rec[t]]
  /\ UNCHANGED <<monitor, allocated, backup, callbacks, entry, mth, cb, rec,
                 pending, snap, started, history>>

HookExit(t) ==
  /\ Goto(t, "hookExit", "add")
  /\ monitor' = None
  /\ UNCHANGED <<hookRecords, allocated, backup, callbacks, entry, mth, cb, rec,
                 pending, snap, started, history>>

\* callbacks.add, on the record found earlier and with the monitor free; then
\* hookMethod returns, to its caller or to the loop's next member.
AddCallback(t) ==
  /\ pc[t] = "add"
  /\ callbacks' = [callbacks EXCEPT ![rec[t]] = @ \cup {cb[t]}]
  /\ installed' = IF UnhookInProgress(mth[t], cb[t]) THEN installed
                  ELSE installed \cup {<<mth[t], cb[t]>>}
  /\ kept' = IF t \in overtaken THEN kept
             ELSE kept \cup (installed' \cap {<<mth[t], cb[t]>>})
  /\ overtaken' = overtaken \ {t}
  /\ \/ /\ \/ pending[t] = {}
           \/ pending[t] \cap Abstract # {}
        /\ Finish(t)
     \/ \E m \in pending[t] \ Abstract :
          /\ Move(t, "hookEnter")
          /\ mth' = [mth EXCEPT ![t] = m]
          /\ pending' = [pending EXCEPT ![t] = @ \ {m}]
          /\ rec' = [rec EXCEPT ![t] = NoRecord]
          /\ UNCHANGED <<cb, snap, started, banned>>
  /\ UNCHANGED <<hookRecords, monitor, allocated, backup, entry, unhooked>>

-----------------------------------------------------------------------------
(* unhookMethod, the whole of it inside synchronized (hookRecords) *)

\* Any thread may pass any method and callback, hooked or not.
StartUnhook(t) == \E m \in Methods, c \in Callbacks :
  /\ Begin(t, m, c, {}, "unhookEnter")
  /\ installed' = installed \ {<<m, c>>}
  /\ kept' = kept \ {<<m, c>>}
  /\ UNCHANGED <<shared, rec, snap, unhooked, banned, overtaken>>

\* The callback is out of the set, unless a concurrent hookMethod may still add it.
MarkUnhooked(t) ==
  unhooked' = IF HookInProgress(mth[t], cb[t]) THEN unhooked
              ELSE unhooked \cup {<<mth[t], cb[t]>>}

UnhookEnter(t) ==
  /\ pc[t] = "unhookEnter"
  /\ monitor = None
  /\ monitor' = t
  /\ rec' = [rec EXCEPT ![t] = hookRecords[mth[t]]]
  /\ \/ /\ hookRecords[mth[t]] # NoRecord
        /\ Move(t, "removeCallback")
        /\ UNCHANGED unhooked
     \/ /\ hookRecords[mth[t]] = NoRecord
        /\ Move(t, "unhookExit")
        /\ MarkUnhooked(t)
  /\ UNCHANGED <<hookRecords, allocated, backup, callbacks, entry, mth, cb, pending,
                 snap, started, installed, banned, overtaken, kept>>

RemoveCallbackUnlessLast(t) ==
  /\ Goto(t, "removeCallback", "checkSize")
  /\ callbacks' = IF callbacks[rec[t]] = {cb[t]} THEN callbacks
                  ELSE [callbacks EXCEPT ![rec[t]] = @ \ {cb[t]}]
  /\ MarkUnhooked(t)
  /\ UNCHANGED <<hookRecords, monitor, allocated, backup, entry, mth, cb, rec,
                 pending, snap, started, installed, banned, overtaken, kept>>

RemoveCallback(t) ==
  /\ Goto(t, "removeCallback", "checkSize")
  /\ callbacks' = [callbacks EXCEPT ![rec[t]] = @ \ {cb[t]}]
  /\ MarkUnhooked(t)
  /\ UNCHANGED <<hookRecords, monitor, allocated, backup, entry, mth, cb, rec,
                 pending, snap, started, installed, banned, overtaken, kept>>

\* record.callbacks.size() == 0, given what the test sees of the set.
TestSize(t, seen) ==
  /\ pc[t] = "checkSize"
  /\ \/ /\ seen = {}
        /\ Move(t, "removeRecord")
        /\ overtaken' = overtaken \cup {u \in Threads : pc[u] = "add" /\ rec[u] = rec[t]}
     \/ /\ seen # {}
        /\ Move(t, "unhookExit")
        /\ UNCHANGED overtaken
  /\ UNCHANGED <<shared, mth, cb, rec, pending, snap, started, installed, unhooked, banned, kept>>

CheckSizeAtMostOne(t) ==
  TestSize(t, IF Cardinality(callbacks[rec[t]]) <= 1 THEN {} ELSE callbacks[rec[t]])

CheckSize(t) == TestSize(t, callbacks[rec[t]])

RemoveRecord(t) ==
  /\ Goto(t, "removeRecord", "unhook0")
  /\ hookRecords' = [hookRecords EXCEPT ![mth[t]] = NoRecord]
  /\ UNCHANGED <<monitor, allocated, backup, callbacks, entry, mth, cb, rec,
                 pending, snap, started, history>>

Unhook0Skipped(t) ==
  /\ Goto(t, "unhook0", "unhookExit")
  /\ UNCHANGED <<shared, mth, cb, rec, pending, snap, started, history>>

\* unhook0 restores the entry point; its result is ignored.
Unhook0(t) ==
  /\ Goto(t, "unhook0", "unhookExit")
  /\ entry' = [entry EXCEPT ![mth[t]] = NoRecord]
  /\ UNCHANGED <<hookRecords, monitor, allocated, backup, callbacks, mth, cb, rec,
                 pending, snap, started, history>>

UnhookExit(t) ==
  /\ pc[t] = "unhookExit"
  /\ monitor' = None
  /\ Finish(t)
  /\ UNCHANGED <<hookRecords, allocated, backup, callbacks, entry, installed, unhooked, overtaken, kept>>

-----------------------------------------------------------------------------
(* Calls of a hooked method, and invokeOriginalMethod: no lock *)

StartCall(t) == \E m \in Methods \ Abstract :
  /\ Begin(t, m, None, {}, "call")
  /\ UNCHANGED <<shared, rec, snap, history>>

\* What HashMap.get may return to a thread outside the monitor: while another
\* thread is in put, which may be replacing the table, it can miss any entry.
RacyGet(m) == {hookRecords[m]} \cup
              (IF \E t \in Threads : pc[t] = "put" THEN {NoRecord} ELSE {})

\* invokeOriginalMethod: the backup of a registered method, else the method itself.
StartInvokeOriginal(t) == \E m \in Methods \ Abstract : \E r \in RacyGet(m) :
  /\ Begin(t, m, None, {}, IF r = NoRecord THEN "call" ELSE "invokeBackup")
  /\ rec' = [rec EXCEPT ![t] = r]
  /\ UNCHANGED <<shared, snap, history>>

\* The call goes where the entry point leads: the original code, or the
\* generated stub that calls HookInfo.callback.
EnterMethod(t) ==
  /\ pc[t] = "call"
  /\ \/ entry[mth[t]] = NoRecord /\ Finish(t)
     \/ /\ entry[mth[t]] # NoRecord
        /\ Move(t, "dispatch")
        /\ rec' = [rec EXCEPT ![t] = entry[mth[t]]]
        /\ banned' = [banned EXCEPT ![t] = {c \in Callbacks : <<mth[t], c>> \in unhooked}]
        /\ UNCHANGED <<mth, cb, pending, snap, started>>
  /\ UNCHANGED <<shared, installed, unhooked, overtaken, kept>>

\* callbacks.getSnapshot(): with no callback, the backup alone is called.
TakeSnapshot(t) ==
  /\ pc[t] = "dispatch"
  /\ snap' = [snap EXCEPT ![t] = callbacks[rec[t]]]
  /\ \/ callbacks[rec[t]] = {} /\ Move(t, "invokeBackup")
     \/ callbacks[rec[t]] # {} /\ Move(t, "before")
  /\ UNCHANGED <<shared, mth, cb, rec, pending, started, history>>

\* The before callbacks, which may make the call return early.
RunBefore(t) ==
  /\ \/ Goto(t, "before", "invokeBackup")
     \/ Goto(t, "before", "after")
  /\ UNCHANGED <<shared, mth, cb, rec, pending, snap, started, history>>

\* invokeMethod(backup, ...): a null backup throws past everything else; with
\* callbacks in the snapshot the after callbacks follow.
InvokeBackup(t) ==
  /\ pc[t] = "invokeBackup"
  /\ \/ /\ snap[t] # {} /\ backup[rec[t]]
        /\ Move(t, "after")
        /\ UNCHANGED <<mth, cb, rec, pending, snap, started, banned>>
     \/ /\ snap[t] = {} \/ ~backup[rec[t]]
        /\ Finish(t)
  /\ UNCHANGED <<shared, installed, unhooked, overtaken, kept>>

RunAfter(t) ==
  /\ pc[t] = "after"
  /\ Finish(t)
  /\ UNCHANGED <<shared, installed, unhooked, overtaken, kept>>

-----------------------------------------------------------------------------
HookStep(t) ==
  HookEnter(t) \/ Hook0(t) \/ Hook0Fails(t) \/ SetBackup(t) \/ PutRecord(t)
    \/ HookExit(t) \/ AddCallback(t)
UnhookStep(t) ==
  UnhookEnter(t) \/ RemoveCallback(t) \/ CheckSize(t) \/ RemoveRecord(t)
    \/ Unhook0(t) \/ UnhookExit(t)
CallStep(t) ==
  EnterMethod(t) \/ TakeSnapshot(t) \/ RunBefore(t) \/ InvokeBackup(t) \/ RunAfter(t)

Start(t) == StartHook(t) \/ StartUnhook(t) \/ StartCall(t) \/ StartInvokeOriginal(t)
Step(t)  == HookStep(t) \/ UnhookStep(t) \/ CallStep(t)

\* Every operation the bound allows has been started and has ended.
Done == /\ \A t \in Threads : pc[t] = "idle"
        /\ started = MaxOps
        /\ UNCHANGED vars

Next == (\E t \in Threads : Start(t) \/ Step(t)) \/ Done

Spec == Init /\ [][Next]_vars

\* The scheduler runs every thread that can run; nobody has to start an operation.
FairSpec == Spec /\ \A t \in Threads : WF_vars(Step(t))

-----------------------------------------------------------------------------
(* Properties *)

\* Every variable has its type, and a thread past the null checks has a record.
TypeOK ==
  /\ hookRecords \in [Methods -> Records \cup {NoRecord}]
  /\ monitor \in Threads \cup {None}
  /\ allocated \in 0..MaxRecords
  /\ backup \in [Records -> BOOLEAN]
  /\ callbacks \in [Records -> SUBSET Callbacks]
  /\ entry \in [Methods -> Records \cup {NoRecord}]
  /\ pc \in [Threads -> Positions]
  /\ mth \in [Threads -> Methods \cup {None}]
  /\ cb \in [Threads -> Callbacks \cup {None}]
  /\ rec \in [Threads -> Records \cup {NoRecord}]
  /\ pending \in [Threads -> SUBSET Methods]
  /\ snap \in [Threads -> SUBSET Callbacks]
  /\ started \in 0..MaxOps
  /\ installed \subseteq Methods \X Callbacks
  /\ unhooked \subseteq Methods \X Callbacks
  /\ banned \in [Threads -> SUBSET Callbacks]
  /\ overtaken \subseteq Threads
  /\ kept \subseteq installed
  /\ \A t \in Threads : pc[t] \notin {"idle", "hookEnter", "unhookEnter", "unhookExit", "call"}
                           => rec[t] \in Records

\* Whenever no thread is inside the monitor, the map and the runtime agree on
\* which record each method dispatches to: a failure of hook0 or a concurrent
\* unhook never leaves a method patched without a record, nor registered and
\* not patched (hookMethod l.130-139, unhookMethod l.191-200).
RegistryAgreesWithArt == monitor = None => hookRecords = entry

\* hook0 is only asked to patch a method that is not patched, and unhook0 to
\* restore one whose patch belongs to the record just removed; LSPlant leaves
\* anything else undefined.
PatchesAlternate == \A t \in Threads :
  /\ pc[t] = "hook0" => entry[mth[t]] = NoRecord
  /\ pc[t] = "unhook0" => entry[mth[t]] = rec[t]

\* A call that runs callbacks has a backup to invoke, although it takes no lock
\* and the record was patched in before its backup was set.
CallbacksHaveBackup == \A t \in Threads :
  pc[t] = "before" \/ (pc[t] = "invokeBackup" /\ snap[t] # {}) => backup[rec[t]]

\* "0 remaining callbacks leads to unhook": a registered record is without
\* callbacks only while a thread is still about to add to it or to remove it.
EmptyRecordIsTransient == \A m \in Methods :
  hookRecords[m] # NoRecord /\ callbacks[hookRecords[m]] = {} =>
    \E t \in Threads : /\ rec[t] = hookRecords[m]
                        /\ pc[t] \in {"hookExit", "add", "checkSize", "removeRecord"}

\* A callback removed by unhookMethod is not run by any call made later, until a
\* hookMethod with it begins, even when calls and records overlap.
UnhookedNeverRuns == \A t \in Threads : snap[t] \cap banned[t] = {}

\* A callback whose hookMethod has returned is in the record that calls of the
\* method dispatch to, until an unhookMethod with that callback begins.
\* "The callback to be executed when the hooked method is called."
HookTakesEffect == \A p \in installed :
  entry[p[1]] # NoRecord /\ p[2] \in callbacks[entry[p[1]]]

\* The one way to lose it: an unhookMethod found the record empty and gives it up
\* while this callback is still on its way into it (callbacks.add, l.141, is
\* outside the monitor).  Nothing else, not another record, a failed hook0 or
\* another callback's unhook, takes a hook away.
LostOnlyWhenOvertaken == \A p \in kept :
  entry[p[1]] # NoRecord /\ p[2] \in callbacks[entry[p[1]]]

\* The pairs calls are dispatched to, and the methods found without callbacks
\* that are still patched.
Dispatched == {p \in Methods \X Callbacks :
                 entry[p[1]] # NoRecord /\ p[2] \in callbacks[entry[p[1]]]}
Retiring == {m \in Methods : \E t \in Threads :
               pc[t] \in {"removeRecord", "unhook0"} /\ mth[t] = m}

\* To the calls of hooked methods the registry is one set of pairs: whatever
\* threads interleave inside hookMethod and unhookMethod, and wherever hook0
\* fails, each of their steps is one change of a single pair or none at all.
Registry == INSTANCE HookRegistry WITH hooks <- Dispatched, retiring <- Retiring
ImplementsRegistry == Registry!Spec

\* Every operation ends: nobody keeps the monitor, whatever hook0 answers.
OperationsEnd == \A t \in Threads : pc[t] # "idle" ~> pc[t] = "idle"
=============================================================================
