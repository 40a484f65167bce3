---------------------------- MODULE PluginLaunch ----------------------------
(***************************************************************************)
(* Starting the activities and services of plugins the system does not     *)
(* know: handle.begin installs the hooks, the outgoing Intent is wrapped   *)
(* in one for the proxy component that the manifest declares, and the      *)
(* component is put back when the main thread is told to create it.        *)
(*                                                                         *)
(* The main thread runs begin and the messages of its looper; plugin code  *)
(* starts components from any thread.  Each begin installs another set of  *)
(* callbacks beside the earlier ones, and a hooked call runs them all.     *)
(* The activity manager, outside this code, keeps what it was given when   *)
(* the process dies, and brings it back whenever it likes; an uncaught     *)
(* exception in begin is such a death.                                     *)
(***************************************************************************)
EXTENDS Naturals, Sequences

CONSTANTS Callers,     \* threads of plugin code
          Activities,  \* activities of plugins
          Services,    \* services of plugins
          Implicit,    \* the services plugins name by an action, not a component
          Home,        \* HomeActivity
          Proxy,       \* ProxyActivity, or ProxyService
          None,
          MaxBegins, MaxStarts, MaxCrashes  \* bounds: begins, starts and process deaths

ASSUME BoundsAssumption == MaxBegins \in Nat /\ MaxStarts \in Nat /\ MaxCrashes \in Nat
ASSUME NamesAssumption ==
  /\ Implicit \subseteq Services /\ Activities \cap Services = {}
  /\ Home \notin Activities \cup Services
  /\ Proxy \notin Activities \cup Services \cup {Home}
  /\ None \notin Activities \cup Services \cup {Home, Proxy}
  /\ Callers \cap {Proxy, None} = {}

Plugins == Activities \cup Services
Targets == Plugins \cup {Home}

\* An Intent for a target, inside `wraps` Intents for the proxy, each the
\* "oriIntent" extra of the next.
Intents == [target : Targets, wraps : Nat]
ASSUME NoneAssumption == None \notin Intents
NewIntent(x) == [target |-> x, wraps |-> 0]

\* n callbacks run, each of which wraps the Intent.
Wrapped(i, n) == [target |-> i.target, wraps |-> i.wraps + n]

\* n callbacks run, each of which takes the extra out if there is one.
UnwrappedOnce(i, n) ==
  [target |-> i.target, wraps |-> IF i.wraps > 0 /\ n > 0 THEN i.wraps - 1 ELSE i.wraps]
Unwrapped(i, n) == [target |-> i.target, wraps |-> IF i.wraps > n THEN i.wraps - n ELSE 0]

\* What Intent.getComponent names.
Component(i) == IF i.wraps > 0 THEN Proxy
                ELSE IF i.target \in Implicit THEN None
                ELSE i.target

\* Messages to the main thread; `fresh` unless about a start by a dead process.
Launch(i, f) == [kind |-> "launch", intent |-> i, fresh |-> f]
Create(f) == [kind |-> "create", fresh |-> f]
Messages == [kind : {"launch"}, intent : Intents, fresh : BOOLEAN]
            \cup [kind : {"create"}, fresh : BOOLEAN]

VARIABLES
  main,        \* where the main thread is in handle.begin, or "looper"
  looper,      \* its messages
  execHooks,   \* callbacks on Instrumentation.execStartActivity
  launchHooks, \* callbacks on ActivityThread.performLaunchActivity
  startHooks,  \* callbacks on ContextWrapper.startService
  createHooks, \* callbacks on ActivityThread.handleCreateService
  dexMerged,   \* addDexs has run
  ori,         \* HookService.map.get("ori"): an Intent, or None
  starting,    \* per thread: the Intent of its startService call, or None
  left,        \* per thread: the callbacks that call still has to run
  atHome,      \* HomeActivity is shown
  records,     \* activity manager: Intents of the activities this process was asked for
  older,       \* activity manager: those earlier processes left
  proxyStarted,  \* activity manager: ProxyService has been started
  owed,        \* activity manager: it is to be started again after a process death
  begins, starts, crashes,
  swallowed,   \* history: HookActivty.hook went on without its launch callback
  writer,      \* history: the call whose Intent is in the map: a thread's, Proxy for the
               \* one ProxyService is being created for, or None if it is over
  request,     \* history: what the call that last had ProxyService created sent, or None
  running,     \* history: a component of a plugin was instantiated in this process
  launched,    \* history: the last activity launched, and what for
  created      \* history: the last service created

hooks == <<execHooks, launchHooks, startHooks, createHooks>>
calls == <<starting, left>>
system == <<records, older, proxyStarted, owed>>
counts == <<begins, starts, crashes>>
history == <<swallowed, writer, request, running, launched, created>>
vars == <<main, looper, hooks, dexMerged, ori, calls, atHome, system, counts, history>>

NothingYet == [got |-> None]

Init ==
  /\ main = "looper" /\ looper = <<>>
  /\ execHooks = 0 /\ launchHooks = 0 /\ startHooks = 0 /\ createHooks = 0
  /\ dexMerged = FALSE /\ ori = None /\ atHome = FALSE
  /\ starting = [t \in Callers |-> None] /\ left = [t \in Callers |-> 0]
  /\ records = {} /\ older = {} /\ proxyStarted = FALSE /\ owed = FALSE
  /\ begins = 0 /\ starts = 0 /\ crashes = 0
  /\ swallowed = FALSE /\ writer = None /\ request = None /\ running = FALSE
  /\ launched = NothingYet /\ created = NothingYet

-----------------------------------------------------------------------------
(* handle.begin, on the main thread, from a click in HomeActivity *)

Begin ==
  /\ main = "looper" /\ main' = "hookExec"
  /\ atHome
  /\ begins < MaxBegins /\ begins' = begins + 1
  /\ UNCHANGED <<looper, hooks, dexMerged, ori, calls, atHome, system, starts, crashes, history>>

\* HookActivty.hook: the callback that wraps.
HookExec ==
  /\ main = "hookExec" /\ main' = "hookLaunch"
  /\ execHooks' = execHooks + 1
  /\ UNCHANGED <<looper, launchHooks, startHooks, createHooks, dexMerged, ori, calls,
                 atHome, system, counts, history>>

\* The callback that unwraps; an exception here is swallowed.
HookLaunch ==
  /\ main = "hookLaunch" /\ main' = "hookStart"
  /\ \/ launchHooks' = launchHooks + 1 /\ UNCHANGED swallowed
     \/ swallowed' = TRUE /\ UNCHANGED launchHooks
  /\ UNCHANGED <<looper, execHooks, startHooks, createHooks, dexMerged, ori, calls,
                 atHome, system, counts, writer, request, running, launched, created>>

\* HookService.hook: startService, then handleCreateService.
HookStart ==
  /\ main = "hookStart" /\ main' = "hookCreate"
  /\ startHooks' = startHooks + 1
  /\ UNCHANGED <<looper, execHooks, launchHooks, createHooks, dexMerged, ori, calls,
                 atHome, system, counts, history>>

HookCreate ==
  /\ main = "hookCreate" /\ main' = "addDexs"
  /\ createHooks' = createHooks + 1
  /\ UNCHANGED <<looper, execHooks, launchHooks, startHooks, dexMerged, ori, calls,
                 atHome, system, counts, history>>

\* An exception in addDexs is not caught.
AddDexs ==
  /\ main = "addDexs" /\ main' = "startLauncher"
  /\ dexMerged' = TRUE
  /\ UNCHANGED <<looper, hooks, ori, calls, atHome, system, counts, history>>

\* The activity manager is asked to start an activity of the manifest, and keeps
\* its record.  (HomeActivity needs none here: it can be opened at any time.)
SendLaunch(i) ==
  /\ looper' = Append(looper, Launch(i, TRUE))
  /\ records' = IF i.target = Home THEN records ELSE records \cup {i}

\* begin ends: the launcher activity starts and HomeActivity finishes.
StartLauncher ==
  /\ main = "startLauncher" /\ main' = "looper"
  /\ \E a \in Activities : SendLaunch(Wrapped(NewIntent(a), execHooks))
  /\ atHome' = FALSE
  /\ UNCHANGED <<hooks, dexMerged, ori, calls, older, proxyStarted, owed, counts, history>>

-----------------------------------------------------------------------------
(* Plugin code, on any thread once a component of a plugin is there *)

CountStart == starts < MaxStarts /\ starts' = starts + 1

\* From an Activity every callback of execStartActivity wraps the Intent.  (From
\* another context they all throw, the dispatcher goes on, and the activity
\* manager knows no such activity: that start changes nothing.)
StartActivity(t) == \E a \in Activities :
  /\ running /\ starting[t] = None
  /\ CountStart
  /\ SendLaunch(Wrapped(NewIntent(a), execHooks))
  /\ UNCHANGED <<main, hooks, dexMerged, ori, calls, atHome, older, proxyStarted, owed,
                 begins, crashes, history>>

\* startService takes its snapshot of the callbacks.
StartService(t) == \E s \in Services :
  /\ running /\ starting[t] = None
  /\ CountStart
  /\ starting' = [starting EXCEPT ![t] = NewIntent(s)]
  /\ left' = [left EXCEPT ![t] = startHooks]
  /\ UNCHANGED <<main, looper, hooks, dexMerged, ori, atHome, system, begins, crashes, history>>

WrapServiceKeepingProxy(t) ==
  /\ starting[t] # None /\ left[t] > 0
  /\ ori' = Wrapped(starting[t], 1) /\ writer' = t
  /\ starting' = [starting EXCEPT ![t] = Wrapped(@, 1)]
  /\ left' = [left EXCEPT ![t] = @ - 1]
  /\ UNCHANGED <<main, looper, hooks, dexMerged, atHome, system, counts,
                 swallowed, request, running, launched, created>>

\* One callback: the Intent it sees goes to the one slot of the map and is wrapped.
WrapService(t) ==
  /\ starting[t] # None /\ left[t] > 0
  /\ ori' = starting[t] /\ writer' = t
  /\ starting' = [starting EXCEPT ![t] = Wrapped(@, 1)]
  /\ left' = [left EXCEPT ![t] = @ - 1]
  /\ UNCHANGED <<main, looper, hooks, dexMerged, atHome, system, counts,
                 swallowed, request, running, launched, created>>

\* The activity manager has ProxyService created, unless it runs already; either
\* way the Intent is delivered to onStartCommand later.
SendService(t) ==
  /\ starting[t] # None /\ left[t] = 0
  /\ proxyStarted' = TRUE /\ owed' = FALSE
  /\ IF proxyStarted
     THEN UNCHANGED <<looper, request>>
     ELSE looper' = Append(looper, Create(TRUE)) /\ request' = starting[t]
  /\ writer' = IF writer # t THEN writer ELSE IF proxyStarted THEN None ELSE Proxy
  /\ starting' = [starting EXCEPT ![t] = None]
  /\ UNCHANGED <<main, hooks, dexMerged, ori, left, atHome, records, older, counts,
                 swallowed, running, launched, created>>

-----------------------------------------------------------------------------
(* The main thread's messages *)

Current(kind) == looper # <<>> /\ Head(looper).kind = kind

\* The activity that i names is instantiated for the current message.
LaunchAs(i) ==
  /\ looper' = Tail(looper)
  /\ atHome' = (Component(i) = Home)
  /\ running' = (running \/ Component(i) \in Plugins)
  /\ launched' = [got |-> Component(i), target |-> i.target, fresh |-> Head(looper).fresh,
                  swallowed |-> swallowed, dexMerged |-> dexMerged]
  /\ UNCHANGED <<main, hooks, dexMerged, ori, calls, system, counts,
                 swallowed, writer, request, created>>

LaunchWithOneCallback ==
  main = "looper" /\ Current("launch") /\ LaunchAs(UnwrappedOnce(Head(looper).intent, launchHooks))

\* performLaunchActivity: the callbacks take the original Intent out again.
PerformLaunchActivity ==
  main = "looper" /\ Current("launch") /\ LaunchAs(Unwrapped(Head(looper).intent, launchHooks))

\* The class instantiated for ProxyService.
CreateAs(name) ==
  /\ looper' = Tail(looper)
  /\ running' = (running \/ name \in Plugins)
  /\ created' = [got |-> name, fresh |-> Head(looper).fresh, request |-> request,
                 overtaken |-> writer # Proxy, dexMerged |-> dexMerged]
  /\ writer' = IF writer = Proxy THEN None ELSE writer
  /\ UNCHANGED <<main, hooks, dexMerged, ori, calls, atHome, system, counts,
                 swallowed, request, launched>>

\* Every callback names the class after the map's Intent; it throws, and the name
\* stays, when there is no Intent or it has no component.
HandleCreateService ==
  /\ main = "looper" /\ Current("create")
  /\ CreateAs(IF createHooks > 0 /\ ori # None /\ Component(ori) # None
              THEN Component(ori) ELSE Proxy)

-----------------------------------------------------------------------------
(* The user and the system *)

OpenHome ==
  /\ ~atHome
  /\ \A k \in 1..Len(looper) : looper[k] # Launch(NewIntent(Home), TRUE)
  /\ SendLaunch(NewIntent(Home))
  /\ UNCHANGED <<main, hooks, dexMerged, ori, calls, atHome, older, proxyStarted, owed, counts, history>>

\* The user comes back, at any time, to an activity an earlier process showed.
\* (One that this process launched is still alive in it.)
Relaunch == \E i \in older :
  /\ older' = older \ {i} /\ records' = records \cup {i}
  /\ looper' = Append(looper, Launch(i, FALSE))
  /\ UNCHANGED <<main, hooks, dexMerged, ori, calls, atHome, proxyStarted, owed, counts, history>>

\* The system starts ProxyService again, after a delay of its own.
RestartService ==
  /\ owed /\ owed' = FALSE
  /\ proxyStarted' = TRUE
  /\ looper' = Append(looper, Create(FALSE))
  /\ UNCHANGED <<main, hooks, dexMerged, ori, calls, atHome, records, older, counts, history>>

\* The process dies.  The activity manager keeps the records of the activities that
\* were not finished, and may owe ProxyService a restart.
Crash ==
  /\ crashes < MaxCrashes /\ crashes' = crashes + 1
  /\ main' = "looper" /\ looper' = <<>>
  /\ records' = {} /\ older' \in SUBSET (older \cup records)
  /\ proxyStarted' = FALSE /\ owed' \in {proxyStarted \/ owed, FALSE}
  /\ execHooks' = 0 /\ launchHooks' = 0 /\ startHooks' = 0 /\ createHooks' = 0
  /\ dexMerged' = FALSE /\ ori' = None /\ atHome' = FALSE
  /\ starting' = [t \in Callers |-> None] /\ left' = [t \in Callers |-> 0]
  /\ swallowed' = FALSE /\ writer' = None /\ request' = None /\ running' = FALSE
  /\ launched' = NothingYet /\ created' = NothingYet
  /\ UNCHANGED <<begins, starts>>

\* Nobody starts anything and nothing is under way.
Idle ==
  /\ main = "looper" /\ looper = <<>>
  /\ \A t \in Callers : starting[t] = None
  /\ UNCHANGED vars

Next ==
  \/ Begin \/ HookExec \/ HookLaunch \/ HookStart \/ HookCreate \/ AddDexs \/ StartLauncher
  \/ \E t \in Callers : StartActivity(t) \/ StartService(t) \/ WrapService(t) \/ SendService(t)
  \/ PerformLaunchActivity \/ HandleCreateService
  \/ OpenHome \/ Relaunch \/ RestartService \/ Crash \/ Idle

Spec == Init /\ [][Next]_vars

-----------------------------------------------------------------------------
(* Properties *)

Outcomes == Plugins \cup {Home, Proxy, None}

\* Every variable has its type; nobody is wrapped more often than begin ran.
TypeOK ==
  /\ main \in {"looper", "hookExec", "hookLaunch", "hookStart", "hookCreate", "addDexs",
               "startLauncher"}
  /\ looper \in Seq(Messages)
  /\ execHooks \in Nat /\ launchHooks \in Nat /\ startHooks \in Nat /\ createHooks \in Nat
  /\ dexMerged \in BOOLEAN /\ atHome \in BOOLEAN
  /\ records \subseteq Intents /\ older \subseteq Intents
  /\ proxyStarted \in BOOLEAN /\ owed \in BOOLEAN
  /\ ori \in Intents \cup {None} /\ request \in Intents \cup {None}
  /\ starting \in [Callers -> Intents \cup {None}]
  /\ left \in [Callers -> Nat]
  /\ begins \in 0..MaxBegins /\ starts \in 0..MaxStarts /\ crashes \in 0..MaxCrashes
  /\ swallowed \in BOOLEAN /\ running \in BOOLEAN /\ writer \in Callers \cup {Proxy, None}
  /\ launched.got \in Outcomes /\ created.got \in Outcomes

\* However often begin ran, and whoever started it meanwhile, an activity that is
\* launched is the one its starter named, and HomeActivity is left alone: as many
\* callbacks unwrap as have wrapped.  Not so for an Intent from before a process
\* death, nor once HookActivty.hook has swallowed an exception.
ActivityIsTarget ==
  launched.got # None /\ launched.fresh /\ ~launched.swallowed => launched.got = launched.target

\* Unless another call's callback overwrote the map's one slot meanwhile
\* (HookService.java:34, 55), the service created is the one the startService that
\* made the system create it asked for, however often begin has run; but it is
\* ProxyService itself for an Intent that names no component, and for one that
\* more than one callback has wrapped.
ServiceIsRequested ==
  created.got # None /\ created.fresh /\ ~created.overtaken =>
    created.got = IF created.request.wraps > 1 \/ created.request.target \in Implicit
                  THEN Proxy ELSE created.request.target

\* "Intent compatibility: supports starting plugin components by explicit or implicit
\* Intent" (README.md:12), of implicit ones: false, HookService.java:55 needs a component.
ImplicitStarts ==
  created.got # None /\ created.fresh /\ created.request.target \in Implicit =>
    created.got = created.request.target

\* A class of a plugin is named to the class loader only in a process where addDexs
\* has run, not between the hooks and the dex files, nor after a restart.
PluginClassesLoadable ==
  /\ launched.got \in Plugins => launched.dexMerged
  /\ created.got \in Plugins => created.dexMerged

=============================================================================
