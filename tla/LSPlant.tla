------------------------------ MODULE LSPlant ------------------------------
(***************************************************************************)
(* The native hook engine: what Hook, UnHook and Deoptimize record about   *)
(* ART's methods, and the interceptors that keep the entry points they set *)
(* when ART writes entry points of its own.                                *)
(*                                                                         *)
(* An ArtMethod is a target or the backup that a hook built for it, each   *)
(* backup in a generated class of its own.  Hook and UnHook come from      *)
(* CalvinBridge under its monitor, so at most one of them is in progress.  *)
(* Deoptimize and class initialisations run on any thread, and ART's       *)
(* instrumentation at any time.  DoHook and DoUnHook suspend all threads   *)
(* and are one step each; the records are updated one by one around them,  *)
(* each under the lock of its shard, except for the set of a class in      *)
(* deoptimized_classes_: operator[] returns a reference to it, and emplace *)
(* is called on that after the lock is released.                           *)
(***************************************************************************)
EXTENDS Naturals

CONSTANTS Methods,  \* the methods that may be hooked or deoptimized
          Static,   \* those that are static
          Classes,  \* their classes
          ClassOf,  \* GetDeclaringClass()->GetClassDef() of each
          Backups,  \* bound: the backup methods Hook can build, also their classes
          Threads,  \* the threads that initialise classes and deoptimize
          Overlapping,  \* bound: the methods on which operations may overlap
          Racing,       \* bound: the methods of which races may lose records
          None

\* Entry points other than trampolines: the stub that resolves a static method
\* of a class not yet initialised, the method's code, the interpreter, and the
\* code of a generated method, which returns zero.
Code == {"Resolution", "Code", "Interpreter", "Stub"}

ASSUME MethodsAssumption ==
  /\ Static \subseteq Methods /\ Overlapping \subseteq Methods /\ Racing \subseteq Methods
  /\ ClassOf \in [Methods -> Classes]
ASSUME NamesAssumption ==
  /\ Backups \cap (Methods \cup Classes \cup Code) = {}
  /\ None \notin Methods \cup Classes \cup Backups
  /\ "Hook" \notin Threads

ArtMethods == Methods \cup Backups
AllClasses == Classes \cup Backups
EntryPoints == Code \cup Backups  \* a backup stands for its hook's trampoline
Emplacers == Threads \cup {"Hook"}  \* who may be in RecordDeoptimized

VARIABLES
  hooked_methods_,  \* per ArtMethod: the other one of the pair; `ref` for targets
  hooked_classes_,  \* per class: its hooked methods
  deoptimized_methods_set_,
  deoptimized_classes_,
  keys,         \* the keys of deoptimized_classes_
  exposed,      \* the emplacers whose set another one may be changing or moving
  lost,         \* history: methods a record of which a data race has lost
  backup_methods_,  \* entry points to restore after an initialisation
  entry,        \* ART: the entry point of each ArtMethod
  initialized,  \* ART: the classes whose initialisation has been announced
  origin,       \* per backup: the method it was built for, or None
  hookPC, target, backup,  \* the Hook or UnHook in progress and its locals
  pc,    \* per thread: where it is in an initialisation or in Deoptimize
  cls,   \* the class it initialises
  todo,  \* the loop of RestoreBackup: what is left of it
  mth,   \* Deoptimize's method, and
  art,   \* its art_method, the method or its backup
  overlap  \* history: methods on which two of these were at work at once

records == <<hooked_methods_, hooked_classes_>>
sets == <<deoptimized_methods_set_, deoptimized_classes_, keys, exposed>>
deoptimized == <<sets, lost>>
caller == <<hookPC, target, backup>>
threads == <<pc, cls, todo, mth, art>>
vars == <<records, deoptimized, backup_methods_, entry, initialized, origin,
          caller, threads, overlap>>

NoEntry == [ref |-> FALSE, other |-> None]
Saved == [method : ArtMethods, entry : EntryPoints]

HookPC == {"RecordClass", "RecordTarget", "RecordBackup",
           "RecordDeoptimizedClass", "EmplaceDeoptimized", "RecordDeoptimizedMethod"}
UnHookPC == {"EraseBackup", "EraseClass", "DoUnHook"}
InitPC == {"Fixup", "PopBackup", "Restore"}
DeoptimizePC == {"Emplace", "RecordDeoptimized", "FindBackup", "SetInterpreter"}

IsStatic(a) == a \in Static \/ (a \in Backups /\ origin[a] \in Static)
MethodOf(a) == IF a \in Methods THEN a ELSE origin[a]

\* The class whose method array an ArtMethod sits in.
Location(a) == IF a \in Methods THEN ClassOf[a] ELSE a

\* The other ArtMethod of a pair.  With includingBackup FALSE, a backup has one too.
IsHooked(a, includingBackup) ==
  IF ~includingBackup \/ hooked_methods_[a].ref THEN hooked_methods_[a].other ELSE None

-----------------------------------------------------------------------------
Init ==
  /\ hooked_methods_ = [a \in ArtMethods |-> NoEntry]
  /\ hooked_classes_ = [c \in AllClasses |-> {}]
  /\ deoptimized_methods_set_ = {}
  /\ deoptimized_classes_ = [c \in AllClasses |-> {}]
  /\ keys = {} /\ exposed = {} /\ lost = {}
  /\ backup_methods_ = {}
  /\ entry = [a \in ArtMethods |-> IF a \in Static THEN "Resolution" ELSE "Code"]
  /\ initialized = {}
  /\ origin = [b \in Backups |-> None]
  /\ hookPC = "Idle" /\ target = None /\ backup = None
  /\ pc = [t \in Threads |-> "Idle"]
  /\ cls = [t \in Threads |-> None]
  /\ todo = [t \in Threads |-> {}]
  /\ mth = [t \in Threads |-> None]
  /\ art = [t \in Threads |-> None]
  /\ overlap = {}

-----------------------------------------------------------------------------
HookActive(m) == target = m /\ hookPC \in HookPC \cup UnHookPC
InitActive(t, m) ==
  /\ pc[t] \in InitPC /\ m \in Static
  /\ cls[t] = ClassOf[m] \/ (cls[t] \in Backups /\ origin[cls[t]] = m)
DeoptimizeActive(t, m) == pc[t] \in DeoptimizePC /\ mth[t] = m

\* Two of Hook or UnHook, an initialisation, and Deoptimize at work on m; two
\* Deoptimize do the same.
Contended(m) ==
  \/ /\ HookActive(m)
     /\ \E t \in Threads : InitActive(t, m) \/ DeoptimizeActive(t, m)
  \/ \E t, u \in Threads :
       t # u /\ InitActive(t, m) /\ (InitActive(u, m) \/ DeoptimizeActive(u, m))

\* At the end of every step of the hook engine.
NoteOverlap ==
  /\ overlap' = overlap \cup {m \in Methods : Contended(m)'}
  /\ overlap' \subseteq Overlapping

\* The instrumentation meets a method that is patched and not yet recorded.
UpdateMeetsHook(a) ==
  {m \in Methods : HookActive(m) /\ hookPC \in HookPC /\ a \in {target, backup}}

-----------------------------------------------------------------------------
\* RecordDeoptimized's deoptimized_classes_[c].emplace(a), in two steps.  Hook
\* records the backup under the class of the hooker, so that its initialisation
\* leaves the backup alone.  (Mutant: under the declaring class of the backup,
\* which is by now the target's.)
DeclaringClass == ClassOf[target]
HookerClass == backup

Referring(x) == IF x = "Hook" THEN hookPC = "EmplaceDeoptimized" ELSE pc[x] = "Emplace"
ClassReferred(x) == IF x = "Hook" THEN HookerClass ELSE ClassOf[mth[x]]

Lose(missed) == lost' = lost \cup {MethodOf(a) : a \in missed} /\ lost' \subseteq Racing

\* operator[]: x holds a reference to the set of c.  Two who hold the same one
\* race; a new key may move the sets that others refer to.
Subscript(x, c) ==
  LET others == {y \in Emplacers : y # x /\ Referring(y)}
      sharing == {y \in others : ClassReferred(y) = c}
  IN /\ keys' = keys \cup {c}
     /\ exposed' = exposed \cup (IF c \in keys THEN sharing ELSE others)
                           \cup {y \in {x} : sharing # {}}
     /\ UNCHANGED <<deoptimized_methods_set_, deoptimized_classes_, lost>>

\* emplace: what a race leaves in the set is any part of what belongs there.
Emplace(x, c, a) ==
  LET whole == deoptimized_classes_[c] \cup {a}
  IN /\ \E kept \in SUBSET whole :
          /\ x \in exposed \/ kept = whole
          /\ deoptimized_classes_' = [deoptimized_classes_ EXCEPT ![c] = kept]
          /\ Lose(whole \ kept)
     /\ exposed' = exposed \ {x}
     /\ UNCHANGED <<deoptimized_methods_set_, keys>>

-----------------------------------------------------------------------------
\* Hook and UnHook change nothing of the threads' business.
HookFrame == UNCHANGED <<backup_methods_, initialized, threads>> /\ NoteOverlap
Advance(p, q) == hookPC = p /\ hookPC' = q /\ UNCHANGED <<target, backup>>
Return(p) == hookPC = p /\ hookPC' = "Idle" /\ target' = None /\ backup' = None

\* Hook, from the test for a duplicate to the generated class.
Hook(m) ==
  /\ hookPC = "Idle" /\ hookPC' = "DoHook"
  /\ IsHooked(m, TRUE) = None
  /\ \E b \in Backups :
       /\ origin[b] = None
       /\ origin' = [origin EXCEPT ![b] = m]
       /\ entry' = [entry EXCEPT ![b] = IF m \in Static THEN "Resolution" ELSE "Code"]
       /\ target' = m /\ backup' = b
  /\ UNCHANGED <<records, deoptimized>> /\ HookFrame

\* No memory for the trampoline: Hook returns null.
HookFails ==
  Return("DoHook") /\ UNCHANGED <<records, deoptimized, entry, origin>> /\ HookFrame

\* All threads suspended: the backup becomes a copy of the target, which then
\* enters the trampoline.
DoHook ==
  /\ Advance("DoHook", "RecordClass")
  /\ entry' = [entry EXCEPT ![backup] = entry[target], ![target] = backup]
  /\ UNCHANGED <<records, deoptimized, origin>> /\ HookFrame

\* RecordHooked: the class first, then the two keys of the pair, each under
\* the lock of its own shard.  A key that is there stays as it is.
Insert(a, r) ==
  hooked_methods_' = IF hooked_methods_[a] = NoEntry
                     THEN [hooked_methods_ EXCEPT ![a] = r] ELSE hooked_methods_

RecordClass ==
  /\ Advance("RecordClass", "RecordTarget")
  /\ hooked_classes_' = [hooked_classes_ EXCEPT ![ClassOf[target]] = @ \cup {target}]
  /\ UNCHANGED <<hooked_methods_, deoptimized, entry, origin>> /\ HookFrame

RecordTarget ==
  /\ Advance("RecordTarget", "RecordBackup")
  /\ Insert(target, [ref |-> TRUE, other |-> backup])
  /\ UNCHANGED <<hooked_classes_, deoptimized, entry, origin>> /\ HookFrame

RecordBackup ==
  /\ Advance("RecordBackup", "RecordDeoptimizedClass")
  /\ Insert(backup, [ref |-> FALSE, other |-> target])
  /\ UNCHANGED <<hooked_classes_, deoptimized, entry, origin>> /\ HookFrame

\* RecordDeoptimized(hook's class, backup); then Hook returns.
RecordDeoptimizedClass ==
  /\ Advance("RecordDeoptimizedClass", "EmplaceDeoptimized")
  /\ Subscript("Hook", HookerClass)
  /\ UNCHANGED <<records, entry, origin>> /\ HookFrame

EmplaceDeoptimized ==
  /\ Advance("EmplaceDeoptimized", "RecordDeoptimizedMethod")
  /\ Emplace("Hook", HookerClass, backup)
  /\ UNCHANGED <<records, entry, origin>> /\ HookFrame

RecordDeoptimizedMethod ==
  /\ Return("RecordDeoptimizedMethod")
  /\ deoptimized_methods_set_' = deoptimized_methods_set_ \cup {backup}
  /\ UNCHANGED <<records, deoptimized_classes_, keys, exposed, lost, entry, origin>> /\ HookFrame

-----------------------------------------------------------------------------
\* UnHook erases the records one by one, and restores the target at the end.
UnHook(m) ==
  /\ hookPC = "Idle" /\ hookPC' = "EraseBackup"
  /\ hooked_methods_[m].ref
  /\ target' = m /\ backup' = hooked_methods_[m].other
  /\ hooked_methods_' = [hooked_methods_ EXCEPT ![m] = NoEntry]
  /\ UNCHANGED <<hooked_classes_, deoptimized, entry, origin>> /\ HookFrame

\* (Mutant: the key of the backup stays.)
KeepBackup == Advance("EraseBackup", "EraseClass")
              /\ UNCHANGED <<records, deoptimized, entry, origin>> /\ HookFrame
EraseBackup ==
  /\ Advance("EraseBackup", "EraseClass")
  /\ hooked_methods_' = [hooked_methods_ EXCEPT ![backup] = NoEntry]
  /\ UNCHANGED <<hooked_classes_, deoptimized, entry, origin>> /\ HookFrame

EraseClass ==
  /\ Advance("EraseClass", "DoUnHook")
  /\ hooked_classes_' = [hooked_classes_ EXCEPT ![ClassOf[target]] = @ \ {target}]
  /\ UNCHANGED <<hooked_methods_, deoptimized, entry, origin>> /\ HookFrame

DoUnHook ==
  /\ Return("DoUnHook")
  /\ entry' = [entry EXCEPT ![target] = entry[backup]]
  /\ UNCHANGED <<records, deoptimized, origin>> /\ HookFrame

-----------------------------------------------------------------------------
\* Deoptimize records the method, also when it is hooked, and sends its code,
\* which the backup has when it is hooked, to the interpreter.
ThreadFrame == UNCHANGED <<records, origin, caller>> /\ NoteOverlap
DeoptimizeFrame == UNCHANGED <<backup_methods_, initialized, cls, todo>> /\ ThreadFrame
Go(t, p, q) == pc[t] = p /\ pc' = [pc EXCEPT ![t] = q]

Deoptimize(t, m) ==
  /\ Go(t, "Idle", "Emplace")
  /\ Subscript(t, ClassOf[m])
  /\ mth' = [mth EXCEPT ![t] = m]
  /\ UNCHANGED <<entry, art>> /\ DeoptimizeFrame

EmplaceMethod(t) ==
  /\ Go(t, "Emplace", "RecordDeoptimized")
  /\ Emplace(t, ClassOf[mth[t]], mth[t])
  /\ UNCHANGED <<entry, mth, art>> /\ DeoptimizeFrame

RecordDeoptimized(t) ==
  /\ Go(t, "RecordDeoptimized", "FindBackup")
  /\ deoptimized_methods_set_' = deoptimized_methods_set_ \cup {mth[t]}
  /\ UNCHANGED <<deoptimized_classes_, keys, exposed, lost, entry, mth, art>> /\ DeoptimizeFrame

Find(t, a) ==
  /\ Go(t, "FindBackup", "SetInterpreter")
  /\ art' = [art EXCEPT ![t] = a]
  /\ UNCHANGED <<deoptimized, entry, mth>> /\ DeoptimizeFrame
FindBackup(t) ==
  LET b == IsHooked(mth[t], FALSE) IN Find(t, IF b # None THEN b ELSE mth[t])

SetInterpreter(t) ==
  /\ Go(t, "SetInterpreter", "Idle")
  /\ entry' = [entry EXCEPT ![art[t]] = "Interpreter"]
  /\ mth' = [mth EXCEPT ![t] = None]
  /\ art' = [art EXCEPT ![t] = None]
  /\ UNCHANGED deoptimized /\ DeoptimizeFrame

-----------------------------------------------------------------------------
\* BackupClassMethods: the static methods of a class that are hooked or
\* deoptimized, of which the iteration sees those in `seen`: all of them unless
\* someone is about to emplace.  (Mutants: only the one or the other.)
OnlyHooked(c, seen) == {a \in hooked_classes_[c] : IsStatic(a)}
OnlyDeoptimized(c, seen) == {a \in seen : IsStatic(a)}
ToBackup(c, seen) == {a \in hooked_classes_[c] \cup seen : IsStatic(a)}

InitFrame == UNCHANGED <<deoptimized, mth, art>> /\ ThreadFrame

\* ART announces that class c is initialised: the stub first saves entry points.
SetStatus(t, c) ==
  /\ Go(t, "Idle", "Fixup")
  /\ c \notin initialized
  /\ c \in Backups => origin[c] # None
  /\ \E seen \in SUBSET deoptimized_classes_[c] :
       /\ \/ seen = deoptimized_classes_[c]
          \/ \E x \in Emplacers : Referring(x) /\ ClassReferred(x) = c
       /\ backup_methods_' = backup_methods_ \cup
            {[thread |-> t, class |-> c, method |-> a, entry |-> entry[a]] : a \in ToBackup(c, seen)}
       /\ Lose(deoptimized_classes_[c] \ seen)
  /\ initialized' = initialized \cup {c}
  /\ cls' = [cls EXCEPT ![t] = c]
  /\ UNCHANGED <<sets, entry, todo, mth, art>> /\ ThreadFrame

\* ART gives every static method of the class its code.
Fixup(t) ==
  /\ Go(t, "Fixup", "PopBackup")
  /\ entry' = [a \in ArtMethods |->
                 IF Location(a) # cls[t] \/ ~IsStatic(a) THEN entry[a]
                 ELSE IF a \in Methods THEN "Code" ELSE "Stub"]
  /\ UNCHANGED <<backup_methods_, initialized, cls, todo>> /\ InitFrame

\* Leave the initialisation when nothing is left to restore.
RestoreLeft(t, left) ==
  /\ todo' = [todo EXCEPT ![t] = left]
  /\ pc' = [pc EXCEPT ![t] = IF left = {} THEN "Idle" ELSE "Restore"]
  /\ cls' = [cls EXCEPT ![t] = IF left = {} THEN None ELSE @]
  /\ UNCHANGED initialized /\ InitFrame

\* The stub takes what was saved for the class, by whichever thread.
PopBackup(t) ==
  LET found == {s \in backup_methods_ : s.class = cls[t]}
  IN /\ pc[t] = "PopBackup"
     /\ backup_methods_' = backup_methods_ \ found
     /\ UNCHANGED entry
     /\ RestoreLeft(t, {[method |-> s.method, entry |-> s.entry] : s \in found})

\* One turn of RestoreBackup's loop: the saved entry point comes back, and the
\* code ART has just set goes to the backup, unless deoptimized.
RestoreBackup(t) ==
  /\ pc[t] = "Restore"
  /\ \E s \in todo[t] :
       LET new == entry[s.method]
           isDeoptimized == s.method \in deoptimized_methods_set_
           b == IsHooked(s.method, FALSE)
           restored == [entry EXCEPT ![s.method] = s.entry]
       IN /\ entry' = IF b # None
                      THEN IF ~isDeoptimized /\ new # s.entry
                           THEN [restored EXCEPT ![b] = new] ELSE restored
                      ELSE IF isDeoptimized /\ new # "Interpreter"
                           THEN [entry EXCEPT ![s.method] = "Interpreter"] ELSE restored
          /\ UNCHANGED backup_methods_
          /\ RestoreLeft(t, todo[t] \ {s})

-----------------------------------------------------------------------------
\* ART's instrumentation sets the entry point of a method to `code`: the stubs
\* skip deoptimized methods and pass the backup of a hooked one.  Sending a
\* method to the interpreter, they compare its entry point with null.
UpdateCode(a, code) ==
  /\ a \notin deoptimized_methods_set_
  /\ LET b == IsHooked(a, FALSE)
         updated == IF b # None /\ (code = "Interpreter" \/ entry[a] # code) THEN b ELSE a
     IN entry' = [entry EXCEPT ![updated] = code]
  /\ UNCHANGED <<records, deoptimized, backup_methods_, initialized, origin, caller, threads>>
  /\ overlap' = overlap \cup UpdateMeetsHook(a)
  /\ overlap' \subseteq Overlapping

-----------------------------------------------------------------------------
HookStep ==
  \/ \E m \in Methods : Hook(m) \/ UnHook(m)
  \/ HookFails \/ DoHook \/ RecordClass \/ RecordTarget \/ RecordBackup
  \/ RecordDeoptimizedClass \/ EmplaceDeoptimized \/ RecordDeoptimizedMethod
  \/ EraseBackup \/ EraseClass \/ DoUnHook

ThreadStep(t) ==
  \/ \E m \in Methods : Deoptimize(t, m)
  \/ EmplaceMethod(t) \/ RecordDeoptimized(t) \/ FindBackup(t) \/ SetInterpreter(t)
  \/ \E c \in AllClasses : SetStatus(t, c)
  \/ Fixup(t) \/ PopBackup(t) \/ RestoreBackup(t)

Next ==
  \/ HookStep
  \/ \E t \in Threads : ThreadStep(t)
  \/ \E a \in ArtMethods, code \in {"Code", "Interpreter"} : UpdateCode(a, code)

Spec == Init /\ [][Next]_vars

-----------------------------------------------------------------------------
Registered(m) == hooked_methods_[m].ref

\* Nothing is at work on m, and no two things ever were at the same time.
Quiet(m) ==
  /\ m \notin overlap
  /\ ~HookActive(m)
  /\ \A t \in Threads : ~InitActive(t, m) /\ ~DeoptimizeActive(t, m)

\* Types; a thread that is about to set an entry point has a method for it.
TypeOK ==
  /\ hooked_methods_ \in [ArtMethods -> [ref : BOOLEAN, other : ArtMethods \cup {None}]]
  /\ hooked_classes_ \in [AllClasses -> SUBSET Methods]
  /\ deoptimized_methods_set_ \in SUBSET ArtMethods
  /\ deoptimized_classes_ \in [AllClasses -> SUBSET ArtMethods]
  /\ keys \in SUBSET AllClasses
  /\ exposed \in SUBSET Emplacers
  /\ lost \in SUBSET Racing
  /\ backup_methods_ \in SUBSET [thread : Threads, class : AllClasses,
                                 method : ArtMethods, entry : EntryPoints]
  /\ entry \in [ArtMethods -> EntryPoints]
  /\ initialized \in SUBSET AllClasses
  /\ origin \in [Backups -> Methods \cup {None}]
  /\ hookPC \in {"Idle", "DoHook"} \cup HookPC \cup UnHookPC
  /\ hookPC = "Idle" => target = None /\ backup = None
  /\ hookPC # "Idle" => target \in Methods /\ backup \in Backups
  /\ pc \in [Threads -> {"Idle"} \cup InitPC \cup DeoptimizePC]
  /\ cls \in [Threads -> AllClasses \cup {None}]
  /\ todo \in [Threads -> SUBSET Saved]
  /\ mth \in [Threads -> Methods \cup {None}]
  /\ art \in [Threads -> ArtMethods \cup {None}]
  /\ \A t \in Threads :
       /\ pc[t] \in InitPC <=> cls[t] # None
       /\ pc[t] = "Restore" <=> todo[t] # {}
       /\ pc[t] \in DeoptimizePC <=> mth[t] # None
       /\ pc[t] = "SetInterpreter" <=> art[t] # None
  /\ overlap \in SUBSET Methods

\* Between operations the records agree: a hooked method and its backup name
\* each other, no backup serves two methods, and the class of a method lists it
\* exactly while it is hooked.
RegistryPaired ==
  hookPC = "Idle" =>
    /\ \A m \in Methods :
         /\ Registered(m) <=> m \in hooked_classes_[ClassOf[m]]
         /\ Registered(m) => /\ hooked_methods_[m].other \in Backups
                             /\ hooked_methods_[hooked_methods_[m].other]
                                  = [ref |-> FALSE, other |-> m]
         /\ ~Registered(m) => hooked_methods_[m] = NoEntry
    /\ \A b \in Backups :
         hooked_methods_[b] # NoEntry =>
           /\ hooked_methods_[b].other \in Methods
           /\ hooked_methods_[hooked_methods_[b].other] = [ref |-> TRUE, other |-> b]

\* Whatever classes are initialised, deoptimized or instrumented meanwhile, a
\* hooked method enters its trampoline and any other method enters none.
HookedIsPatched ==
  \A m \in Methods :
    Quiet(m) => IF Registered(m) THEN entry[m] = hooked_methods_[m].other
                ELSE entry[m] \notin Backups

\* The backup of a hooked method runs the original: never a trampoline or its
\* own generated body, and never the resolution stub once the class is
\* initialised; provided that no race has lost a record of the method.
BackupRunsOriginal ==
  \A m \in Methods :
    Quiet(m) /\ Registered(m) /\ m \notin lost =>
      \/ entry[hooked_methods_[m].other] \in {"Code", "Interpreter"}
      \/ /\ entry[hooked_methods_[m].other] = "Resolution"
         /\ m \in Static /\ ClassOf[m] \notin initialized

\* A deoptimized method stays interpreted, hooked or not, through every hook,
\* unhook and initialisation that follows, provided that no race has lost a
\* record of the method.
DeoptimizedInterprets ==
  \A m \in (deoptimized_methods_set_ \cap Methods) \ lost :
    Quiet(m) => entry[IF Registered(m) THEN hooked_methods_[m].other ELSE m] = "Interpreter"
=============================================================================
