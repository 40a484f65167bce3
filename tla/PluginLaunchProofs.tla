------------------------- MODULE PluginLaunchProofs -------------------------
(***************************************************************************)
(* Proofs about PluginLaunch and PluginClasses, for every set of threads,  *)
(* components, plugins and classes and any number of begins, starts and    *)
(* process deaths.                                                         *)
(***************************************************************************)
EXTENDS PluginClasses, WellFoundedInduction, TLAPS

\* How far handle.begin has come shows in the hooks: it only returns to the
\* looper with as many unwrapping as wrapping callbacks and the dex files merged.
HooksPaired ==
  /\ ~swallowed => execHooks = launchHooks + (IF main = "hookLaunch" THEN 1 ELSE 0)
  /\ launchHooks + (IF main = "hookLaunch" THEN 1 ELSE 0) <= execHooks
  /\ startHooks = createHooks + (IF main = "hookCreate" THEN 1 ELSE 0)
  /\ main \in {"hookLaunch", "hookStart", "hookCreate", "addDexs", "startLauncher"} => execHooks > 0
  /\ main \in {"hookCreate", "addDexs", "startLauncher"} => startHooks > 0
  /\ main = "startLauncher" => dexMerged
  /\ main = "looper" /\ execHooks > 0 => dexMerged
  /\ dexMerged => execHooks > 0 /\ startHooks > 0

\* An Intent that reached the activity manager names an activity of its manifest.
Sendable(i) ==
  /\ i.target \in Activities \cup {Home}
  /\ i.wraps = 0 => i.target = Home

\* What a message may say when n callbacks wrap.
MessageOK(m, n) == m.kind = "launch" =>
  /\ Sendable(m.intent)
  /\ m.fresh => m.intent.wraps <= n

MessagesOK == \A k \in 1..Len(looper) : MessageOK(looper[k], execHooks)
RecordsOK == \A i \in records \cup older : Sendable(i)

\* A startService call in its callbacks: those it still has to run and those that
\* wrapped its Intent are no more than there are, and the first one filled the map.
CallsOK == \A t \in Callers : starting[t] # None =>
  /\ starting[t].target \in Services
  /\ starting[t].wraps + left[t] <= startHooks
  /\ left[t] = 0 => ori # None
  /\ dexMerged

\* The map's Intent has been wrapped by all callbacks but the last at most.
SlotOK == ori # None =>
  /\ ori.target \in Services
  /\ ori.wraps < startHooks
  /\ dexMerged

\* Who wrote the map last has wrapped once more since; the call that had ProxyService
\* created was the first to find it not started.
WriterOK ==
  /\ writer \in Callers => starting[writer] # None /\ ori # None /\ starting[writer] = Wrapped(ori, 1)
  /\ writer = Proxy => proxyStarted /\ ori # None /\ request = Wrapped(ori, 1)

\* Plugin code runs once the dex files are there.
RunningOK == running => dexMerged

IInv ==
  /\ TypeOK /\ HooksPaired /\ MessagesOK /\ RecordsOK /\ CallsOK /\ SlotOK /\ WriterOK /\ RunningOK
  /\ ActivityIsTarget /\ ServiceIsRequested /\ PluginClassesLoadable

-----------------------------------------------------------------------------
(* Types *)

\* Intents stay Intents when callbacks wrap and unwrap them.
LEMMA IntentsClosed ==
  ASSUME NEW i \in Intents, NEW n \in Nat
  PROVE  /\ Wrapped(i, n) \in Intents
         /\ Wrapped(i, n).target = i.target /\ Wrapped(i, n).wraps = i.wraps + n
         /\ Unwrapped(i, n) \in Intents
         /\ Unwrapped(i, n).target = i.target
         /\ i.wraps <= n => Unwrapped(i, n).wraps = 0
         /\ n = 0 => Unwrapped(i, n).wraps = i.wraps
BY DEF Intents, Wrapped, Unwrapped

\* An Intent names its target, the proxy, or nothing.
LEMMA ComponentNames ==
  ASSUME NEW i \in Intents
  PROVE  /\ Component(i) \in Outcomes
         /\ i.wraps > 0 => Component(i) = Proxy
         /\ i.wraps = 0 /\ i.target \notin Implicit => Component(i) = i.target
         /\ i.wraps = 0 /\ i.target \in Implicit => Component(i) = None
BY DEF Intents, Component, Outcomes, Targets

\* What is posted to the main thread is a message.
LEMMA LaunchTyped ==
  ASSUME NEW i \in Intents, NEW f \in BOOLEAN
  PROVE  Launch(i, f) \in Messages
BY Zenon DEF Launch, Messages

LEMMA CreateTyped ==
  ASSUME NEW f \in BOOLEAN
  PROVE  Create(f) \in Messages
BY Zenon DEF Create, Messages

\* What a start of an activity posts and leaves with the activity manager.
LEMMA SendLaunchTyped ==
  ASSUME looper \in Seq(Messages), NEW i \in Intents, SendLaunch(i)
  PROVE  /\ looper' \in Seq(Messages) /\ records' \subseteq records \cup {i}
         /\ looper' = Append(looper, Launch(i, TRUE)) /\ Launch(i, TRUE) \in Messages
<1>1. Launch(i, TRUE) \in Messages
  BY LaunchTyped, Zenon
<1> DEFINE m == Launch(i, TRUE)
<1>2. looper' = Append(looper, m) /\ records' \subseteq records \cup {i} /\ m \in Messages
  BY <1>1, Zenon DEF SendLaunch
<1> HIDE DEF m
<1>3. looper' \in Seq(Messages)
  BY <1>2
<1> QED
  BY <1>2, <1>3 DEF m

\* The specification keeps the types.
LEMMA TypeStep == TypeOK /\ [Next]_vars => TypeOK'
<1> SUFFICES ASSUME TypeOK, [Next]_vars PROVE TypeOK'
  OBVIOUS
<1> USE BoundsAssumption, NamesAssumption DEF TypeOK
<1>1. CASE Begin
  BY <1>1 DEF Begin, hooks, calls, system, history
<1>2. CASE HookExec
  BY <1>2 DEF HookExec, calls, system, counts, history
<1>3. CASE HookLaunch
  <2>1. CASE launchHooks' = launchHooks + 1 /\ UNCHANGED swallowed
    BY <1>3, <2>1 DEF HookLaunch, calls, system, counts
  <2>2. CASE swallowed' = TRUE /\ UNCHANGED launchHooks
    BY <1>3, <2>2 DEF HookLaunch, calls, system, counts
  <2> QED
    BY <1>3, <2>1, <2>2 DEF HookLaunch
<1>4. CASE HookStart
  BY <1>4 DEF HookStart, calls, system, counts, history
<1>5. CASE HookCreate
  BY <1>5 DEF HookCreate, calls, system, counts, history
<1>6. CASE AddDexs
  BY <1>6 DEF AddDexs, hooks, calls, system, counts, history
<1>7. CASE StartLauncher
  <2>1. PICK a \in Activities : SendLaunch(Wrapped(NewIntent(a), execHooks))
    BY <1>7 DEF StartLauncher
  <2>2. Wrapped(NewIntent(a), execHooks) \in Intents
    BY IntentsClosed DEF NewIntent, Intents, Targets, Plugins
  <2>3. looper' \in Seq(Messages) /\ records' \subseteq Intents
    BY <2>1, <2>2, SendLaunchTyped
  <2> QED
    BY <1>7, <2>3 DEF StartLauncher, hooks, calls, counts, history
<1>8. ASSUME NEW t \in Callers, StartActivity(t) PROVE TypeOK'
  <2>1. PICK a \in Activities : SendLaunch(Wrapped(NewIntent(a), execHooks))
    BY <1>8 DEF StartActivity
  <2>2. Wrapped(NewIntent(a), execHooks) \in Intents
    BY IntentsClosed DEF NewIntent, Intents, Targets, Plugins
  <2>3. looper' \in Seq(Messages) /\ records' \subseteq Intents
    BY <2>1, <2>2, SendLaunchTyped
  <2> QED
    BY <1>8, <2>3 DEF StartActivity, CountStart, hooks, calls, history
<1>9. ASSUME NEW t \in Callers, StartService(t) PROVE TypeOK'
  <2>1. PICK x \in Services : starting' = [starting EXCEPT ![t] = NewIntent(x)]
    BY <1>9 DEF StartService
  <2>2. NewIntent(x) \in Intents
    BY DEF NewIntent, Intents, Targets, Plugins
  <2>3. starting' \in [Callers -> Intents \cup {None}]
    BY <2>1, <2>2
  <2> QED
    BY <1>9, <2>3 DEF StartService, CountStart, hooks, system, history
<1>10. ASSUME NEW t \in Callers, WrapService(t) PROVE TypeOK'
  <2>1. starting[t] \in Intents /\ Wrapped(starting[t], 1) \in Intents
    BY <1>10, IntentsClosed DEF WrapService
  <2> QED
    BY <1>10, <2>1 DEF WrapService, hooks, system, counts, history
<1>11. ASSUME NEW t \in Callers, SendService(t) PROVE TypeOK'
  <2> DEFINE m == Create(TRUE)
  <2>1. m \in Messages
    BY CreateTyped, Zenon
  <2>2. /\ looper' = looper \/ looper' = Append(looper, m)
        /\ request' = request \/ request' = starting[t]
        /\ writer' \in {writer, None, Proxy} /\ starting[t] # None
        /\ proxyStarted' = TRUE /\ owed' = FALSE
    BY <1>11, Zenon DEF SendService
  <2> HIDE DEF m
  <2>3. looper' \in Seq(Messages) /\ request' \in Intents \cup {None}
        /\ writer' \in Callers \cup {Proxy, None}
    BY <2>1, <2>2
  <2> QED
    BY <1>11, <2>2, <2>3 DEF SendService, hooks, counts
<1>12. CASE PerformLaunchActivity
  <2> DEFINE i == Unwrapped(Head(looper).intent, launchHooks)
  <2>1. looper # <<>> /\ Head(looper) \in Messages /\ Head(looper).kind = "launch"
    BY <1>12 DEF PerformLaunchActivity, Current
  <2>2. Head(looper).intent \in Intents
    BY <2>1 DEF Messages
  <2>3. Component(i) \in Outcomes
    BY <2>2, IntentsClosed, ComponentNames
  <2>4. LaunchAs(i)
    BY <1>12 DEF PerformLaunchActivity
  <2> HIDE DEF i
  <2> QED
    BY <1>12, <2>1, <2>3, <2>4 DEF LaunchAs, hooks, calls, system, counts
<1>13. CASE HandleCreateService
  <2> DEFINE name == IF createHooks > 0 /\ ori # None /\ Component(ori) # None
                     THEN Component(ori) ELSE Proxy
  <2>1. looper # <<>> /\ CreateAs(name)
    BY <1>13 DEF HandleCreateService, Current
  <2>2. name \in Outcomes
    BY ComponentNames DEF Outcomes
  <2> HIDE DEF name
  <2> QED
    BY <1>13, <2>1, <2>2 DEF CreateAs, hooks, calls, system, counts
<1>14. CASE OpenHome
  <2>1. NewIntent(Home) \in Intents
    BY DEF NewIntent, Intents, Targets
  <2>2. looper' \in Seq(Messages) /\ records' \subseteq Intents
    BY <1>14, <2>1, SendLaunchTyped DEF OpenHome
  <2> QED
    BY <1>14, <2>2 DEF OpenHome, hooks, calls, counts, history
<1>15. CASE Crash
  <2>1. /\ main' = "looper" /\ looper' = <<>> /\ records' = {} /\ older' \subseteq older \cup records
        /\ execHooks' = 0 /\ launchHooks' = 0 /\ startHooks' = 0 /\ createHooks' = 0
        /\ ori' = None /\ writer' = None /\ request' = None
        /\ launched'.got = None /\ created'.got = None
        /\ crashes' \in 0..MaxCrashes /\ begins' = begins /\ starts' = starts
        /\ starting' \in [Callers -> Intents \cup {None}] /\ left' \in [Callers -> Nat]
    BY <1>15 DEF Crash, NothingYet
  <2>2. /\ dexMerged' \in BOOLEAN /\ atHome' \in BOOLEAN /\ swallowed' \in BOOLEAN
        /\ running' \in BOOLEAN /\ proxyStarted' \in BOOLEAN /\ owed' \in BOOLEAN
    BY <1>15, Zenon DEF Crash
  <2>3. looper' \in Seq(Messages)
    BY <2>1
  <2> QED
    BY <2>1, <2>2, <2>3 DEF Outcomes
<1>17. CASE Relaunch
  <2>1. PICK i \in older : /\ older' = older \ {i} /\ records' = records \cup {i}
                          /\ looper' = Append(looper, Launch(i, FALSE))
    BY <1>17, Zenon DEF Relaunch
  <2> DEFINE m == Launch(i, FALSE)
  <2>2. m \in Messages
    BY <2>1, LaunchTyped
  <2>3. looper' = Append(looper, m)
    BY <2>1
  <2> HIDE DEF m
  <2>4. looper' \in Seq(Messages)
    BY <2>2, <2>3
  <2>5. records' \subseteq Intents /\ older' \subseteq Intents
    BY <2>1
  <2> QED
    BY <1>17, <2>4, <2>5 DEF Relaunch, hooks, calls, counts, history
<1>18. CASE RestartService
  <2> DEFINE m == Create(FALSE)
  <2>1. m \in Messages
    BY CreateTyped, Zenon
  <2>2. looper' = Append(looper, m)
    BY <1>18 DEF RestartService
  <2> HIDE DEF m
  <2>3. looper' \in Seq(Messages)
    BY <2>1, <2>2
  <2> QED
    BY <1>18, <2>3 DEF RestartService, hooks, calls, counts, history
<1>16. CASE UNCHANGED vars
  BY <1>16 DEF vars, hooks, calls, system, counts, history
<1> QED
  BY <1>1, <1>2, <1>3, <1>4, <1>5, <1>6, <1>7, <1>8, <1>9, <1>10, <1>11, <1>12, <1>13,
     <1>14, <1>15, <1>16, <1>17, <1>18 DEF Next, Idle

-----------------------------------------------------------------------------
(* The messages of the looper *)

\* More callbacks suit every message that suited fewer.
LEMMA MessageLasts ==
  ASSUME NEW m \in Messages, NEW n \in Nat, NEW n2 \in Nat, n <= n2, MessageOK(m, n)
  PROVE  MessageOK(m, n2)
<1>1. m.kind = "launch" => m.intent.wraps \in Nat
  BY DEF Messages, Intents
<1> QED
  BY <1>1 DEF MessageOK

\* The looper stays well when its messages stay and the hooks grow.
LEMMA MessagesKept ==
  ASSUME TypeOK, TypeOK', MessagesOK, looper' = looper, execHooks <= execHooks'
  PROVE  MessagesOK'
<1> SUFFICES ASSUME NEW k \in 1..Len(looper) PROVE MessageOK(looper[k], execHooks')
  BY DEF MessagesOK
<1>1. looper[k] \in Messages /\ execHooks \in Nat /\ execHooks' \in Nat
  BY SMTT(60) DEF TypeOK
<1> QED
  BY <1>1, MessageLasts DEF MessagesOK

\* One more message.
LEMMA MessagesAppended ==
  ASSUME TypeOK, TypeOK', MessagesOK, NEW m \in Messages, looper' = Append(looper, m),
         execHooks' = execHooks, MessageOK(m, execHooks)
  PROVE  MessagesOK'
<1> SUFFICES ASSUME NEW k \in 1..Len(looper') PROVE MessageOK(looper'[k], execHooks)
  BY DEF MessagesOK
<1>1. looper \in Seq(Messages)
  BY DEF TypeOK
<1>2. (k \in 1..Len(looper) /\ looper'[k] = looper[k]) \/ looper'[k] = m
  BY <1>1
<1> QED
  BY <1>2 DEF MessagesOK

\* One message less.
LEMMA MessagesTaken ==
  ASSUME TypeOK, MessagesOK, looper # <<>>, looper' = Tail(looper),
         execHooks' = execHooks
  PROVE  /\ MessagesOK'
         /\ Head(looper) \in Messages /\ MessageOK(Head(looper), execHooks)
<1>1. looper \in Seq(Messages)
  BY DEF TypeOK
<1>2. Head(looper) = looper[1] /\ 1 \in 1..Len(looper) /\ Head(looper) \in Messages
  BY <1>1
<1>3. \A k \in 1..Len(looper') : k + 1 \in 1..Len(looper) /\ looper'[k] = looper[k + 1]
  BY <1>1
<1> QED
  BY <1>2, <1>3 DEF MessagesOK

-----------------------------------------------------------------------------
(* The inductive invariant *)

\* The initial states satisfy it.
LEMMA InitIInv == Init => IInv
<1> SUFFICES ASSUME Init PROVE IInv
  OBVIOUS
<1> USE BoundsAssumption, NamesAssumption DEF Init, NothingYet
<1>1. TypeOK
  <2>1. looper \in Seq(Messages)
    OBVIOUS
  <2>2. starting \in [Callers -> Intents \cup {None}] /\ left \in [Callers -> Nat]
    OBVIOUS
  <2>3. launched.got = None /\ created.got = None
    OBVIOUS
  <2>4. /\ dexMerged \in BOOLEAN /\ atHome \in BOOLEAN /\ proxyStarted \in BOOLEAN /\ owed \in BOOLEAN
        /\ swallowed \in BOOLEAN /\ running \in BOOLEAN
    OBVIOUS
  <2>5. begins \in 0..MaxBegins /\ starts \in 0..MaxStarts /\ crashes \in 0..MaxCrashes
    OBVIOUS
  <2> QED
    BY <2>1, <2>2, <2>3, <2>4, <2>5 DEF TypeOK, Outcomes
<1>2. HooksPaired /\ MessagesOK /\ RecordsOK /\ CallsOK /\ SlotOK /\ WriterOK /\ RunningOK
  BY DEF HooksPaired, MessagesOK, RecordsOK, CallsOK, SlotOK, WriterOK, RunningOK
<1>3. ActivityIsTarget /\ ServiceIsRequested /\ PluginClassesLoadable
  BY DEF ActivityIsTarget, ServiceIsRequested, PluginClassesLoadable, Plugins
<1> QED
  BY <1>1, <1>2, <1>3 DEF IInv

\* The steps of handle.begin before its last only add hooks and the dex files.
LEMMA BeginSteps ==
  ASSUME IInv, TypeOK', Begin \/ HookExec \/ HookLaunch \/ HookStart \/ HookCreate \/ AddDexs
  PROVE  IInv'
<1> USE DEF IInv
<1>1. /\ looper' = looper /\ ori' = ori /\ starting' = starting /\ left' = left
      /\ records' = records /\ older' = older /\ proxyStarted' = proxyStarted
      /\ writer' = writer /\ request' = request /\ running' = running
      /\ launched' = launched /\ created' = created
      /\ execHooks <= execHooks' /\ startHooks <= startHooks' /\ (dexMerged => dexMerged')
  <2>1. /\ looper' = looper /\ ori' = ori /\ starting' = starting /\ left' = left
        /\ records' = records /\ older' = older /\ proxyStarted' = proxyStarted
        /\ writer' = writer /\ request' = request /\ running' = running
        /\ launched' = launched /\ created' = created
    BY DEF Begin, HookExec, HookLaunch, HookStart, HookCreate, AddDexs, calls, system, history
  <2>2. execHooks \in Nat /\ startHooks \in Nat
    BY DEF TypeOK
  <2>3. execHooks' \in {execHooks, execHooks + 1} /\ startHooks' \in {startHooks, startHooks + 1}
    BY Zenon DEF Begin, HookExec, HookLaunch, HookStart, HookCreate, AddDexs, hooks
  <2>4. dexMerged => dexMerged'
    BY Zenon DEF Begin, HookExec, HookLaunch, HookStart, HookCreate, AddDexs
  <2> QED
    BY <2>1, <2>2, <2>3, <2>4
<1>2. HooksPaired'
  <2>1. CASE Begin
    BY <2>1 DEF TypeOK, HooksPaired, Begin, hooks, history
  <2>2. CASE HookExec
    BY <2>2 DEF TypeOK, HooksPaired, HookExec, history
  <2>3. CASE HookLaunch
    <3>1. /\ main = "hookLaunch" /\ main' = "hookStart" /\ execHooks' = execHooks
          /\ startHooks' = startHooks /\ createHooks' = createHooks /\ dexMerged' = dexMerged
      BY <2>3 DEF HookLaunch
    <3>2. CASE launchHooks' = launchHooks + 1 /\ swallowed' = swallowed
      <4>1. ~swallowed' => ~swallowed
        BY <3>2, Zenon
      <4>2. launchHooks' <= execHooks'
        BY <3>1, <3>2 DEF TypeOK, HooksPaired
      <4> QED
        BY <3>1, <3>2, <4>1, <4>2 DEF TypeOK, HooksPaired
    <3>3. CASE launchHooks' = launchHooks /\ swallowed'
      BY <3>1, <3>3 DEF TypeOK, HooksPaired
    <3> QED
      BY <2>3, <3>2, <3>3 DEF HookLaunch
  <2>4. CASE HookStart
    BY <2>4 DEF TypeOK, HooksPaired, HookStart, history
  <2>5. CASE HookCreate
    BY <2>5 DEF TypeOK, HooksPaired, HookCreate, history
  <2>6. CASE AddDexs
    BY <2>6 DEF TypeOK, HooksPaired, AddDexs, hooks, history
  <2> QED
    BY <2>1, <2>2, <2>3, <2>4, <2>5, <2>6
<1>3. MessagesOK'
  BY <1>1, MessagesKept
<1>4. RecordsOK' /\ CallsOK' /\ SlotOK' /\ WriterOK' /\ RunningOK'
  <2>1. CallsOK' /\ SlotOK'
    BY <1>1, SMTT(60) DEF TypeOK, CallsOK, SlotOK, Intents
  <2> QED
    BY <1>1, <2>1 DEF RecordsOK, WriterOK, RunningOK
<1>5. ActivityIsTarget' /\ ServiceIsRequested' /\ PluginClassesLoadable'
  BY <1>1 DEF ActivityIsTarget, ServiceIsRequested, PluginClassesLoadable
<1> QED
  BY <1>2, <1>3, <1>4, <1>5

\* A start posts one message and leaves its Intent with the activity manager.
LEMMA Sending ==
  ASSUME IInv, TypeOK', NEW i \in Intents, SendLaunch(i), Sendable(i), i.wraps <= execHooks,
         execHooks' = execHooks, older' = older
  PROVE  MessagesOK' /\ RecordsOK'
<1> USE DEF IInv
<1> DEFINE m == Launch(i, TRUE)
<1>1. looper' = Append(looper, m) /\ m \in Messages /\ records' \subseteq records \cup {i}
  BY SendLaunchTyped DEF TypeOK
<1>2. MessageOK(m, execHooks)
  BY DEF MessageOK, Launch
<1> HIDE DEF m
<1>3. MessagesOK'
  BY <1>1, <1>2, MessagesAppended
<1> QED
  BY <1>1, <1>3 DEF RecordsOK

\* An activity's Intent, wrapped by at least one callback.
LEMMA WrappedSendable ==
  ASSUME NEW a \in Activities, NEW n \in Nat, n > 0
  PROVE  /\ Wrapped(NewIntent(a), n) \in Intents /\ Sendable(Wrapped(NewIntent(a), n))
         /\ Wrapped(NewIntent(a), n).wraps <= n
BY DEF Wrapped, NewIntent, Intents, Sendable, Targets, Plugins

LEMMA SendingSteps ==
  ASSUME IInv, TypeOK', StartLauncher \/ OpenHome \/ \E t \in Callers : StartActivity(t)
  PROVE  IInv'
<1> USE DEF IInv
<1>1. /\ hooks' = hooks /\ ori' = ori /\ calls' = calls /\ history' = history
      /\ dexMerged' = dexMerged /\ older' = older /\ proxyStarted' = proxyStarted
  BY DEF StartLauncher, OpenHome, StartActivity, history
<1>2. HooksPaired'
  <2>1. CASE StartLauncher
    BY <1>1, <2>1 DEF TypeOK, HooksPaired, StartLauncher, hooks, history
  <2>2. CASE OpenHome
    BY <1>1, <2>2 DEF TypeOK, HooksPaired, OpenHome, hooks, history
  <2>3. ASSUME NEW t \in Callers, StartActivity(t) PROVE HooksPaired'
    BY <1>1, <2>3 DEF TypeOK, HooksPaired, StartActivity, hooks, history
  <2> QED
    BY <2>1, <2>2, <2>3
<1>3. MessagesOK' /\ RecordsOK'
  <2>1. ASSUME NEW a \in Activities, SendLaunch(Wrapped(NewIntent(a), execHooks)), execHooks > 0
        PROVE  MessagesOK' /\ RecordsOK'
    BY <1>1, <2>1, WrappedSendable, Sending DEF TypeOK, hooks
  <2>2. CASE StartLauncher
    BY <2>1, <2>2 DEF StartLauncher, HooksPaired
  <2>3. CASE OpenHome
    <3>1. NewIntent(Home) \in Intents /\ Sendable(NewIntent(Home)) /\ NewIntent(Home).wraps <= execHooks
      BY DEF TypeOK, NewIntent, Intents, Targets, Sendable
    <3> QED
      BY <1>1, <2>3, <3>1, Sending DEF OpenHome, hooks
  <2>4. ASSUME NEW t \in Callers, StartActivity(t) PROVE MessagesOK' /\ RecordsOK'
    BY <2>1, <2>4 DEF StartActivity, HooksPaired, RunningOK
  <2> QED
    BY <2>2, <2>3, <2>4
<1>4. CallsOK' /\ SlotOK' /\ WriterOK' /\ RunningOK'
  BY <1>1 DEF CallsOK, SlotOK, WriterOK, RunningOK, hooks, calls, history
<1>5. ActivityIsTarget' /\ ServiceIsRequested' /\ PluginClassesLoadable'
  BY <1>1 DEF ActivityIsTarget, ServiceIsRequested, PluginClassesLoadable, history
<1> QED
  BY <1>2, <1>3, <1>4, <1>5

\* The three steps of a startService call.
LEMMA ServiceSteps ==
  ASSUME IInv, TypeOK', NEW t \in Callers,
         StartService(t) \/ WrapService(t) \/ SendService(t)
  PROVE  IInv'
<1> USE NamesAssumption DEF IInv
<1>1. /\ hooks' = hooks /\ main' = main /\ records' = records /\ older' = older
      /\ dexMerged' = dexMerged /\ running' = running
      /\ swallowed' = swallowed /\ launched' = launched /\ created' = created
  BY DEF StartService, WrapService, SendService, system, history
<1>2. /\ HooksPaired' /\ RecordsOK' /\ RunningOK'
      /\ ActivityIsTarget' /\ ServiceIsRequested' /\ PluginClassesLoadable'
  BY <1>1 DEF HooksPaired, RecordsOK, RunningOK, ActivityIsTarget, ServiceIsRequested,
     PluginClassesLoadable, hooks
<1>3. CASE StartService(t)
  <2>1. PICK s \in Services : starting' = [starting EXCEPT ![t] = NewIntent(s)]
    BY <1>3 DEF StartService
  <2>2. /\ dexMerged /\ looper' = looper /\ ori' = ori /\ starting[t] = None
        /\ left' = [left EXCEPT ![t] = startHooks]
        /\ writer' = writer /\ request' = request /\ proxyStarted' = proxyStarted
    BY <1>3 DEF StartService, RunningOK, history, system
  <2>3. MessagesOK'
    BY <1>1, <2>2, MessagesKept DEF TypeOK, hooks
  <2>4. CallsOK'
    <3> SUFFICES ASSUME NEW u \in Callers, starting'[u] # None
                 PROVE  /\ starting'[u].target \in Services
                        /\ starting'[u].wraps + left'[u] <= startHooks'
                        /\ left'[u] = 0 => ori' # None
                        /\ dexMerged'
      BY DEF CallsOK
    <3>1. CASE u = t
      BY <1>1, <2>1, <2>2, <3>1 DEF TypeOK, HooksPaired, NewIntent, hooks
    <3>2. CASE u # t
      BY <1>1, <2>1, <2>2, <3>2 DEF TypeOK, CallsOK, hooks
    <3> QED
      BY <3>1, <3>2
  <2>5. SlotOK'
    BY <1>1, <2>2 DEF SlotOK, hooks
  <2>6. WriterOK'
    <3>1. writer \in Callers => writer # t
      BY <2>2 DEF WriterOK
    <3>2. writer \in Callers => starting'[writer] = starting[writer]
      BY <2>1, <3>1 DEF TypeOK
    <3> QED
      BY <2>2, <3>2 DEF WriterOK
  <2> QED
    BY <1>1, <1>2, <2>3, <2>4, <2>5, <2>6
<1>4. CASE WrapService(t)
  <2>1. /\ starting[t] # None /\ left[t] > 0 /\ looper' = looper
        /\ ori' = starting[t] /\ writer' = t
        /\ starting' = [starting EXCEPT ![t] = Wrapped(starting[t], 1)]
        /\ left' = [left EXCEPT ![t] = left[t] - 1]
    BY <1>4 DEF WrapService
  <2>2. /\ starting[t] \in Intents
        /\ Wrapped(starting[t], 1).target = starting[t].target
        /\ Wrapped(starting[t], 1).wraps = starting[t].wraps + 1
    BY <2>1, IntentsClosed DEF TypeOK
  <2>3. MessagesOK'
    BY <1>1, <2>1, MessagesKept, SMTT(60) DEF TypeOK, hooks
  <2>4. CallsOK'
    <3> SUFFICES ASSUME NEW u \in Callers, starting'[u] # None
                 PROVE  /\ starting'[u].target \in Services
                        /\ starting'[u].wraps + left'[u] <= startHooks'
                        /\ left'[u] = 0 => ori' # None
                        /\ dexMerged'
      BY DEF CallsOK
    <3>1. CASE u = t
      BY <1>1, <2>1, <2>2, <3>1, SMTT(60) DEF TypeOK, CallsOK, Intents, hooks
    <3>2. CASE u # t
      BY <1>1, <2>1, <3>2 DEF TypeOK, CallsOK, hooks
    <3> QED
      BY <3>1, <3>2
  <2>5. SlotOK'
    BY <1>1, <2>1, <2>2 DEF TypeOK, CallsOK, SlotOK, Intents, hooks
  <2>6. WriterOK'
    <3>1. starting'[t] = Wrapped(starting[t], 1) /\ starting'[t] \in Intents
      BY <2>1, <2>2, IntentsClosed DEF TypeOK
    <3> QED
      BY <2>1, <3>1, NoneAssumption DEF WriterOK
  <2> QED
    BY <1>1, <1>2, <2>3, <2>4, <2>5, <2>6
<1>5. CASE SendService(t)
  <2> DEFINE m == Create(TRUE)
  <2>1. /\ starting[t] # None /\ left[t] = 0 /\ ori' = ori
        /\ starting' = [starting EXCEPT ![t] = None] /\ left' = left
        /\ looper' = looper \/ looper' = Append(looper, m)
        /\ request' = IF proxyStarted THEN request ELSE starting[t]
        /\ writer' = IF writer # t THEN writer ELSE IF proxyStarted THEN None ELSE Proxy
        /\ proxyStarted'
    BY <1>5, Zenon DEF SendService
  <2>2. m \in Messages /\ MessageOK(m, execHooks)
    <3>1. m \in Messages
      BY CreateTyped, Zenon
    <3> QED
      BY <3>1 DEF MessageOK, Create
  <2> HIDE DEF m
  <2>3. MessagesOK'
    BY <1>1, <2>1, <2>2, MessagesKept, MessagesAppended, SMTT(60) DEF TypeOK, hooks
  <2>4. CallsOK'
    BY <1>1, <2>1 DEF TypeOK, CallsOK, hooks
  <2>5. SlotOK'
    BY <1>1, <2>1 DEF SlotOK, hooks
  <2>6. WriterOK'
    <3>1. CASE writer = t
      BY <2>1, <3>1 DEF WriterOK
    <3>2. CASE writer # t
      BY <2>1, <3>2 DEF WriterOK, TypeOK
    <3> QED
      BY <3>1, <3>2
  <2> QED
    BY <1>1, <1>2, <2>3, <2>4, <2>5, <2>6
<1> QED
  BY <1>3, <1>4, <1>5

\* The main thread launches an activity.
LEMMA LaunchStep ==
  ASSUME IInv, TypeOK', PerformLaunchActivity
  PROVE  IInv'
<1> USE NamesAssumption DEF IInv
<1> DEFINE x == Head(looper).intent
           i == Unwrapped(x, launchHooks)
<1>1. /\ main = "looper" /\ looper # <<>> /\ Head(looper).kind = "launch"
      /\ looper' = Tail(looper)
      /\ launched' = [got |-> Component(i), target |-> i.target, fresh |-> Head(looper).fresh,
                      swallowed |-> swallowed, dexMerged |-> dexMerged]
      /\ main' = main /\ hooks' = hooks /\ dexMerged' = dexMerged /\ ori' = ori
      /\ calls' = calls /\ records' = records /\ older' = older /\ proxyStarted' = proxyStarted
      /\ swallowed' = swallowed /\ writer' = writer /\ request' = request
      /\ running' = (running \/ Component(i) \in Plugins)
      /\ created' = created
  BY DEF PerformLaunchActivity, Current, LaunchAs, system
<1>2. MessagesOK' /\ Head(looper) \in Messages /\ MessageOK(Head(looper), execHooks)
  BY <1>1, MessagesTaken DEF hooks
<1>3. /\ x \in Intents /\ Sendable(x)
      /\ Head(looper).fresh => x.wraps <= execHooks
  BY <1>1, <1>2 DEF MessageOK, Messages
<1>4. /\ i \in Intents /\ i.target = x.target /\ i.target \notin Implicit
      /\ x.wraps <= launchHooks => i.wraps = 0
      /\ launchHooks = 0 => i.wraps = x.wraps
  <2>1. launchHooks \in Nat
    BY DEF TypeOK
  <2>2. x.target \notin Implicit
    BY <1>3 DEF Sendable
  <2> HIDE DEF x
  <2> QED
    BY <1>3, <2>1, <2>2, IntentsClosed
<1>5. /\ i.wraps = 0 => Component(i) = i.target
      /\ i.wraps > 0 => Component(i) = Proxy
      /\ i.wraps \in Nat /\ x.wraps \in Nat
  BY <1>3, <1>4, ComponentNames DEF Intents
<1>6. Head(looper).fresh /\ ~swallowed => Component(i) = i.target
  <2>1. main = "looper" /\ ~swallowed => execHooks = launchHooks
    BY DEF HooksPaired, TypeOK
  <2> QED
    BY <1>1, <1>3, <1>4, <1>5, <2>1
<1>7. Component(i) \in Plugins => dexMerged
  <2> SUFFICES ASSUME Component(i) \in Plugins PROVE dexMerged
    OBVIOUS
  <2>1. i.wraps = 0 /\ i.target \in Plugins
    BY <1>5 DEF Plugins
  <2>2. launchHooks > 0
    BY <2>1, <1>3, <1>4, SMTT(60) DEF Sendable, Plugins, TypeOK
  <2> QED
    BY <1>1, <2>2, SMTT(60) DEF HooksPaired, TypeOK
<1> HIDE DEF x, i
<1>8. ActivityIsTarget'
  BY <1>1, <1>6 DEF ActivityIsTarget
<1>9. PluginClassesLoadable'
  BY <1>1, <1>7 DEF PluginClassesLoadable
<1>10. HooksPaired' /\ RecordsOK' /\ CallsOK' /\ SlotOK' /\ WriterOK' /\ ServiceIsRequested'
  BY <1>1 DEF HooksPaired, RecordsOK, CallsOK, SlotOK, WriterOK, ServiceIsRequested, hooks, calls
<1>11. RunningOK'
  BY <1>1, <1>7, Zenon DEF RunningOK
<1> QED
  BY <1>2, <1>8, <1>9, <1>10, <1>11

\* The main thread creates the service.
LEMMA CreateStep ==
  ASSUME IInv, TypeOK', HandleCreateService
  PROVE  IInv'
<1> USE NamesAssumption DEF IInv
<1> DEFINE name == IF createHooks > 0 /\ ori # None /\ Component(ori) # None
                   THEN Component(ori) ELSE Proxy
<1>1. /\ main = "looper" /\ looper # <<>> /\ Head(looper).kind = "create"
      /\ looper' = Tail(looper)
      /\ created' = [got |-> name, fresh |-> Head(looper).fresh, request |-> request,
                     overtaken |-> writer # Proxy, dexMerged |-> dexMerged]
      /\ writer' = IF writer = Proxy THEN None ELSE writer
      /\ running' = (running \/ name \in Plugins)
      /\ main' = main /\ hooks' = hooks /\ dexMerged' = dexMerged /\ ori' = ori
      /\ calls' = calls /\ records' = records /\ older' = older /\ proxyStarted' = proxyStarted
      /\ swallowed' = swallowed /\ request' = request /\ launched' = launched
  BY DEF HandleCreateService, Current, CreateAs, system
<1>2. MessagesOK'
  BY <1>1, MessagesTaken DEF hooks
<1>3. ASSUME ori # None
      PROVE  /\ ori \in Intents /\ ori.wraps \in Nat /\ ori.target \in Services /\ dexMerged
             /\ ori.wraps < startHooks
  BY <1>3 DEF SlotOK, TypeOK, Intents
<1>4. ASSUME writer = Proxy
      PROVE  name = IF request.wraps > 1 \/ request.target \in Implicit THEN Proxy ELSE request.target
  <2>1. /\ ori # None /\ ori \in Intents /\ ori.wraps \in Nat /\ createHooks > 0
        /\ request = Wrapped(ori, 1)
    BY <1>1, <1>3, <1>4, SMTT(60) DEF HooksPaired, WriterOK, TypeOK
  <2>2. request.wraps = ori.wraps + 1 /\ request.target = ori.target
    BY <2>1, IntentsClosed
  <2>3. CASE ori.wraps > 0
    BY <2>1, <2>2, <2>3, ComponentNames
  <2>4. CASE ori.wraps = 0 /\ ori.target \in Implicit
    BY <2>1, <2>2, <2>4, ComponentNames
  <2>5. CASE ori.wraps = 0 /\ ori.target \notin Implicit
    <3>1. Component(ori) = ori.target /\ ori.target \in Services /\ ori.target # None
      BY <1>3, <2>1, <2>5, ComponentNames
    <3> QED
      BY <2>1, <2>2, <2>5, <3>1
  <2> QED
    BY <2>1, <2>3, <2>4, <2>5
<1>5. name \in Plugins => dexMerged
  BY <1>3 DEF Plugins
<1> HIDE DEF name
<1>6. ServiceIsRequested'
  BY <1>1, <1>4 DEF ServiceIsRequested
<1>7. PluginClassesLoadable' /\ RunningOK'
  <2>1. PluginClassesLoadable'
    BY <1>1, <1>5 DEF PluginClassesLoadable
  <2> QED
    BY <1>1, <1>5, <2>1, Zenon DEF RunningOK
<1>8. WriterOK'
  BY <1>1 DEF WriterOK, calls
<1>9. HooksPaired' /\ RecordsOK' /\ CallsOK' /\ SlotOK' /\ ActivityIsTarget'
  BY <1>1 DEF HooksPaired, RecordsOK, CallsOK, SlotOK, ActivityIsTarget, hooks, calls
<1> QED
  BY <1>2, <1>6, <1>7, <1>8, <1>9

\* What the system brings back is not fresh, and was once sent.
LEMMA ReturnSteps ==
  ASSUME IInv, TypeOK', Relaunch \/ RestartService
  PROVE  IInv'
<1> USE DEF IInv
<1>1. /\ main' = main /\ hooks' = hooks /\ ori' = ori /\ calls' = calls /\ history' = history
      /\ dexMerged' = dexMerged /\ (proxyStarted => proxyStarted')
      /\ records' \cup older' \subseteq records \cup older
  <2>1. /\ main' = main /\ hooks' = hooks /\ ori' = ori /\ calls' = calls /\ history' = history
        /\ dexMerged' = dexMerged
    BY Zenon DEF Relaunch, RestartService
  <2>4. proxyStarted => proxyStarted'
    BY Zenon DEF Relaunch, RestartService
  <2>2. CASE Relaunch
    <3>1. PICK i \in older : older' = older \ {i} /\ records' = records \cup {i}
      BY <2>2 DEF Relaunch
    <3> QED
      BY <2>1, <2>4, <3>1
  <2>3. CASE RestartService
    BY <2>1, <2>3, <2>4 DEF RestartService
  <2> QED
    BY <2>2, <2>3
<1>2. MessagesOK'
  <2>1. CASE Relaunch
    <3>1. PICK i \in older : looper' = Append(looper, Launch(i, FALSE))
      BY <2>1 DEF Relaunch
    <3> DEFINE m == Launch(i, FALSE)
    <3>2. m \in Messages /\ MessageOK(m, execHooks)
      <4>1. i \in Intents /\ Sendable(i)
        BY DEF TypeOK, RecordsOK
      <4> QED
        BY <4>1, LaunchTyped DEF MessageOK, Launch
    <3>3. looper' = Append(looper, m)
      BY <3>1
    <3> HIDE DEF m
    <3> QED
      BY <1>1, <3>2, <3>3, MessagesAppended DEF hooks
  <2>2. CASE RestartService
    <3> DEFINE m == Create(FALSE)
    <3>1. m \in Messages /\ MessageOK(m, execHooks) /\ looper' = Append(looper, m)
      BY <2>2, CreateTyped DEF MessageOK, Create, RestartService
    <3> HIDE DEF m
    <3> QED
      BY <1>1, <3>1, MessagesAppended DEF hooks
  <2> QED
    BY <2>1, <2>2
<1>3. HooksPaired' /\ RecordsOK' /\ CallsOK' /\ SlotOK' /\ WriterOK' /\ RunningOK'
  BY <1>1 DEF HooksPaired, RecordsOK, CallsOK, SlotOK, WriterOK, RunningOK, hooks, calls, history
<1>4. ActivityIsTarget' /\ ServiceIsRequested' /\ PluginClassesLoadable'
  BY <1>1 DEF ActivityIsTarget, ServiceIsRequested, PluginClassesLoadable, history
<1> QED
  BY <1>2, <1>3, <1>4

\* The process dies: nothing of it is left but what the activity manager keeps.
LEMMA CrashStep ==
  ASSUME IInv, TypeOK', Crash
  PROVE  IInv'
<1> USE NamesAssumption DEF IInv
<1>1. /\ main' = "looper" /\ execHooks' = 0 /\ launchHooks' = 0 /\ startHooks' = 0
      /\ createHooks' = 0 /\ ~dexMerged' /\ ori' = None /\ looper' = <<>>
      /\ starting' = [t \in Callers |-> None] /\ records' = {} /\ older' \subseteq older \cup records
      /\ writer' = None /\ ~running' /\ launched'.got = None /\ created'.got = None
  BY DEF Crash, NothingYet
<1>2. HooksPaired' /\ MessagesOK' /\ RecordsOK' /\ CallsOK' /\ SlotOK' /\ WriterOK' /\ RunningOK'
  BY <1>1 DEF HooksPaired, MessagesOK, RecordsOK, CallsOK, SlotOK, WriterOK, RunningOK
<1>3. ActivityIsTarget' /\ ServiceIsRequested' /\ PluginClassesLoadable'
  BY <1>1 DEF ActivityIsTarget, ServiceIsRequested, PluginClassesLoadable, Plugins
<1> QED
  BY <1>2, <1>3

\* Every step preserves the invariant.
LEMMA StepIInv == IInv /\ [Next]_vars => IInv'
<1> SUFFICES ASSUME IInv, [Next]_vars PROVE IInv'
  OBVIOUS
<1>1. TypeOK'
  BY TypeStep DEF IInv
<1>2. CASE UNCHANGED vars
  BY <1>1, <1>2 DEF IInv, HooksPaired, MessagesOK, RecordsOK, CallsOK, SlotOK, WriterOK, RunningOK,
     ActivityIsTarget, ServiceIsRequested, PluginClassesLoadable, vars, hooks, calls, system, counts, history
<1> QED
  BY <1>1, <1>2, BeginSteps, SendingSteps, ServiceSteps, LaunchStep, CreateStep, ReturnSteps, CrashStep
     DEF Next, Idle

-----------------------------------------------------------------------------
(* Theorems about PluginLaunch *)

\* The inductive invariant holds in every reachable state.
THEOREM Invariance == Spec => []IInv
<1>1. Init => IInv
  BY InitIInv
<1>2. IInv /\ [Next]_vars => IInv'
  BY StepIInv
<1> QED
  BY <1>1, <1>2, PTL DEF Spec

\* Every variable keeps its type.
THEOREM TypeCorrect == Spec => []TypeOK
<1>1. IInv => TypeOK
  BY DEF IInv
<1> QED
  BY <1>1, Invariance, PTL

\* However often handle.begin runs, an activity started through the hooks is
\* launched under the name its starter gave it.
THEOREM ActivityReached == Spec => []ActivityIsTarget
<1>1. IInv => ActivityIsTarget
  BY DEF IInv
<1> QED
  BY <1>1, Invariance, PTL

\* However often handle.begin has run, the service created is exactly the one that the
\* startService which had it created asked for, or ProxyService where its Intent names
\* no component or several callbacks wrapped it, unless a later call took the slot.
THEOREM ServiceReached == Spec => []ServiceIsRequested
<1>1. IInv => ServiceIsRequested
  BY DEF IInv
<1> QED
  BY <1>1, Invariance, PTL

\* No class of a plugin is instantiated before its dex files are merged.
THEOREM ClassesLoadable == Spec => []PluginClassesLoadable
<1>1. IInv => PluginClassesLoadable
  BY DEF IInv
<1> QED
  BY <1>1, Invariance, PTL

-----------------------------------------------------------------------------
(* PluginClasses: the invariant of what plugins share *)

\* Types of what several plugins share.
ClassesTyped ==
  /\ packageInfo \in Packages \cup {None}
  /\ order \in Seq(Packages) /\ dexElements \in Seq(Packages \cup {Host})
  /\ loaded \in [Names -> Packages \cup {Host, None}]
  /\ loadedAfter \in [Names -> Nat]

\* How far begin has come shows in the statics: when it returns, those that it
\* sets are the last plugin's.
StaticsBegun ==
  /\ main # "looper" => packageInfo \in Packages
  /\ main \in {"hookExec", "hookLaunch", "hookStart", "hookCreate"} => preloaded = "no"
  /\ main = "addDexs" =>
       /\ preloaded = "created" => assetManager = "empty"
       /\ preloaded \in {"added", "yes"} => assetManager \in {packageInfo, "empty"} \/ assetsFailed
  /\ main \in {"looper", "startLauncher"} /\ order # <<>> =>
       packageInfo = Last(order) /\ (assetManager \in {packageInfo, "empty"} \/ assetsFailed)
  /\ dexMerged <=> order # <<>>

\* The class path: the plugins, the last one first, and the host behind them.
ClassPath ==
  /\ Len(dexElements) = Len(order) + 1 /\ dexElements[Len(order) + 1] = Host
  /\ \A k \in 1 .. Len(order) : dexElements[k] = order[Len(order) + 1 - k]

\* Of the host and the first plugins in the order, p is the last with class n.
FoundFirst(n, p, added) ==
  /\ n \in ClassesIn[p]
  /\ \E k \in 0 .. added :
       /\ p = IF k = 0 THEN Host ELSE order[k]
       /\ \A j \in k + 1 .. added : n \notin ClassesIn[order[j]]

\* A class was loaded from where it was first found at the time.
LoadedFrom == \A n \in Names : loaded[n] # None =>
  loadedAfter[n] <= Len(order) /\ FoundFirst(n, loaded[n], loadedAfter[n])

\* Starts under way are of plugins whose classes are there, but for those that the
\* system makes again for an earlier process.
StartsPresent ==
  /\ \A k \in 1 .. Len(looper) :
       looper[k].kind = "launch" /\ looper[k].fresh /\ looper[k].intent.target \in Plugins =>
         Present(looper[k].intent.target)
  /\ \A t \in Callers : starting[t] # None => Present(starting[t].target)
  /\ ori # None => Present(ori.target)

\* The class of the component made last stays loaded, if its plugin had been begun.
UsedLoaded ==
  used.class \in Plugins /\ PackageOf[used.class] \in Range(used.begun) =>
    loaded[ClassName[used.class]] # None

SharedInv == ClassesTyped /\ StaticsBegun /\ ClassPath /\ LoadedFrom
             /\ StartsPresent /\ UsedLoaded /\ OnePluginBehind /\ ClassIsOwn

-----------------------------------------------------------------------------
\* Every step is one of PluginLaunch, or changes nothing of it.
LEMMA ClassesNextIsNext == [ClassesNext]_<<vars, classVars>> => [Next]_vars
BY DEF ClassesNext, Live, BeginPlugin, InstallHooks, CreateAssets, AddAssetPath, HookRec,
       AddPluginDexs, StartPluginLauncher, StartOwnActivity, StartOwnService, PassOn, LaunchComponent,
       CreateComponent, CrashAll, Next

\* So what was proved of PluginLaunch holds here.
LEMMA ClassesImplementLaunch == ClassesSpec => Spec
<1>1. ClassesInit => Init
  BY DEF ClassesInit
<1> QED
  BY <1>1, ClassesNextIsNext, PTL DEF ClassesSpec, Spec

-----------------------------------------------------------------------------
(* The class loader *)

\* A set of numbers has a least one.
LEMMA Least ==
  ASSUME NEW T \in SUBSET Nat, T # {}
  PROVE  \E x \in T : \A y \in T : x <= y
<1> DEFINE R == {ss \in Nat \X Nat : ss[1] < ss[2]}
<1>1. IsWellFoundedOn(R, Nat)
  BY NatLessThanWellFounded DEF OpToRel
<1>2. \A x, y \in Nat : x <= y \/ <<y, x>> \in R
  OBVIOUS
<1> HIDE DEF R
<1>3. PICK x \in T : \A y \in T : ~(<<y, x>> \in R)
  BY <1>1, WFMin, Zenon
<1> QED
  BY <1>2, <1>3

\* Find answers the last plugin in the order that has the class, or the host.
LEMMA FindFirst ==
  ASSUME ClassesTyped, ClassPath, NEW n
  PROVE  \/ /\ Find(n) = None
            /\ \A k \in 1 .. Len(order) : n \notin ClassesIn[order[k]]
         \/ Find(n) \in Packages \cup {Host} /\ FoundFirst(n, Find(n), Len(order))
<1> DEFINE T == {k \in DOMAIN dexElements : n \in ClassesIn[dexElements[k]]}
<1>1. /\ DOMAIN dexElements = 1 .. Len(order) + 1 /\ Len(order) \in Nat
      /\ \A k \in DOMAIN dexElements : dexElements[k] \in Packages \cup {Host}
  BY DEF ClassesTyped, ClassPath
<1>2. \A k \in 1 .. Len(order) : /\ Len(order) + 1 - k \in DOMAIN dexElements
                                 /\ order[k] = dexElements[Len(order) + 1 - k]
  <2> TAKE k \in 1 .. Len(order)
  <2>1. Len(order) + 1 - k \in 1 .. Len(order) /\ Len(order) + 1 - (Len(order) + 1 - k) = k
    BY <1>1
  <2> QED
    BY <1>1, <2>1 DEF ClassPath
<1>3. CASE T = {}
  BY <1>1, <1>2, <1>3 DEF Find
<1>4. CASE T # {}
  <2>1. \E k \in T : \A j \in T : k <= j
    <3>1. T \in SUBSET Nat
      BY <1>1
    <3> HIDE DEF T
    <3> QED
      BY <1>4, <3>1, Least, Zenon
  <2> DEFINE first(k) == /\ n \in ClassesIn[dexElements[k]]
                         /\ \A j \in 1 .. k - 1 : n \notin ClassesIn[dexElements[j]]
             c == CHOOSE k \in DOMAIN dexElements : first(k)
  <2>2. \E k \in DOMAIN dexElements : first(k)
    <3>1. PICK k \in T : \A j \in T : k <= j
      BY <2>1
    <3>2. \A j \in 1 .. k - 1 : j \notin T /\ j \in DOMAIN dexElements
      BY <1>1, <3>1
    <3> QED
      BY <3>1, <3>2
  <2>3. c \in DOMAIN dexElements /\ first(c)
    BY <2>2
  <2>4. Find(n) = dexElements[c]
    BY <1>4 DEF Find
  <2> HIDE DEF c
  <2> DEFINE i == Len(order) + 1 - c
  <2>5. i \in 0 .. Len(order) /\ dexElements[c] = IF i = 0 THEN Host ELSE order[i]
    <3>1. c \in 1 .. Len(order) + 1
      BY <1>1, <2>3
    <3>2. CASE c = Len(order) + 1
      BY <1>1, <3>2 DEF ClassPath
    <3>3. CASE c \in 1 .. Len(order)
      BY <1>1, <3>3 DEF ClassPath
    <3> QED
      BY <1>1, <3>1, <3>2, <3>3
  <2>6. \A j \in i + 1 .. Len(order) : n \notin ClassesIn[order[j]]
    <3> TAKE j \in i + 1 .. Len(order)
    <3>1. j \in 1 .. Len(order) /\ Len(order) + 1 - j \in 1 .. c - 1
      BY <1>1, <2>3
    <3> QED
      BY <1>2, <2>3, <3>1
  <2> QED
    BY <1>1, <2>3, <2>4, <2>5, <2>6 DEF FoundFirst
<1> QED
  BY <1>3, <1>4

\* A class found last before it was loaded is the plugin's own, unless it was
\* loaded before the plugin came, or a later one has a class of the name.
LEMMA OwnUnless ==
  ASSUME ClassesTyped, NEW n, NEW p, NEW a \in Nat, a <= Len(order), FoundFirst(n, p, a),
         NEW k \in 1 .. Len(order), n \in ClassesIn[order[k]]
  PROVE  p = order[k] \/ a < k \/ \E j \in k + 1 .. Len(order) : n \in ClassesIn[order[j]]
<1>1. PICK i \in 0 .. a : /\ p = IF i = 0 THEN Host ELSE order[i]
                          /\ \A j \in i + 1 .. a : n \notin ClassesIn[order[j]]
  BY DEF FoundFirst
<1>2. n \in ClassesIn[p] /\ Len(order) \in Nat
  BY DEF FoundFirst, ClassesTyped
<1>3. CASE i < k
  <2>1. a < k \/ k \in i + 1 .. a
    BY <1>3
  <2> QED
    BY <1>1, <2>1
<1>4. CASE i = k
  BY <1>1, <1>4
<1>5. CASE i > k
  <2>1. i \in k + 1 .. Len(order) /\ i # 0
    BY <1>2, <1>5
  <2> QED
    BY <1>1, <1>2, <2>1
<1> QED
  BY <1>3, <1>4, <1>5

\* The name of a component's class is one its plugin has.
LEMMA NamesOfPlugins ==
  ASSUME NEW x \in Plugins
  PROVE  /\ ClassName[x] \in Names /\ ClassName[x] \in ClassesIn[PackageOf[x]]
         /\ PackageOf[x] \in Packages
BY ClassesAssumption DEF Names

\* Loading a class: it comes from where it is found first, and those that are
\* loaded stay what they are.
LEMMA LoadStep ==
  ASSUME ClassesTyped, ClassPath, LoadedFrom, NEW n \in Names, Load(n)
  PROVE  /\ loaded' \in [Names -> Packages \cup {Host, None}] /\ loadedAfter' \in [Names -> Nat]
         /\ UNCHANGED <<dexElements, order>> /\ LoadedFrom'
         /\ loaded'[n] = loadClass(n)
         /\ \A q \in Names : loaded[q] # None =>
              loaded'[q] = loaded[q] /\ loadedAfter'[q] = loadedAfter[q]
<1>0. Len(order) \in Nat /\ None \notin Packages \cup {Host}
  BY ClassesAssumption DEF ClassesTyped
<1>1. /\ loaded' = [loaded EXCEPT ![n] = loadClass(n)]
      /\ loadedAfter' = IF loaded[n] # None THEN loadedAfter
                        ELSE [loadedAfter EXCEPT ![n] = Len(order)]
      /\ UNCHANGED <<dexElements, order>>
  BY DEF Load
<1>2. loadClass(n) = IF loaded[n] # None THEN loaded[n] ELSE Find(n)
  BY DEF loadClass
<1>3. Find(n) \in Packages \cup {Host, None}
  BY FindFirst
<1>4. loaded' \in [Names -> Packages \cup {Host, None}] /\ loadedAfter' \in [Names -> Nat]
  BY <1>0, <1>1, <1>2, <1>3 DEF ClassesTyped
<1>5. \A q \in Names : loaded[q] # None => loaded'[q] = loaded[q] /\ loadedAfter'[q] = loadedAfter[q]
  BY <1>1, <1>2 DEF ClassesTyped
<1>6. loaded'[n] = loadClass(n)
  BY <1>1 DEF ClassesTyped
<1>7. \A q, p, a : FoundFirst(q, p, a)' <=> FoundFirst(q, p, a)
  BY <1>1 DEF FoundFirst
<1>8. ASSUME NEW q \in Names, loaded'[q] # None
      PROVE  loadedAfter'[q] <= Len(order) /\ FoundFirst(q, loaded'[q], loadedAfter'[q])
  <2>1. CASE loaded[q] # None
    BY <1>5, <2>1 DEF LoadedFrom
  <2>2. CASE loaded[q] = None
    <3>1. q = n /\ loaded'[n] = Find(n) /\ loadedAfter'[n] = Len(order)
      BY <1>1, <1>2, <1>8, <2>2 DEF ClassesTyped
    <3> QED
      BY <1>0, <1>8, <3>1, FindFirst
  <2> QED
    BY <2>1, <2>2
<1> QED
  BY <1>1, <1>4, <1>5, <1>6, <1>7, <1>8 DEF LoadedFrom

-----------------------------------------------------------------------------
(* Steps *)

\* What the step that starts an activity asks for.
LEMMA StartedIs ==
  ASSUME TypeOK, NEW a \in Activities, SendLaunch(Wrapped(NewIntent(a), execHooks))
  PROVE  Started = a
<1> DEFINE i == Wrapped(NewIntent(a), execHooks)
           m == Launch(i, TRUE)
<1>1. looper' = Append(looper, m) /\ m.intent = i /\ i.target = a
  BY DEF SendLaunch, Launch, Wrapped, NewIntent
<1>2. looper \in Seq(Messages)
  BY DEF TypeOK
<1> HIDE DEF m
<1>3. looper'[Len(looper')] = m
  BY <1>1, <1>2
<1> QED
  BY <1>1, <1>3, Zenon DEF Started, Last

\* What a step does to the class loader.
LEMMA ClassSteps ==
  ASSUME TypeOK, [ClassesNext]_<<vars, classVars>>
  PROVE  \/ UNCHANGED classes \/ AddPluginDexs \/ CrashAll
         \/ \E n \in Names : Load(n)
<1>1. CASE StartPluginLauncher
  <2>1. PICK a \in Activities : SendLaunch(Wrapped(NewIntent(a), execHooks))
    BY <1>1 DEF StartPluginLauncher, StartLauncher
  <2>2. Started = a /\ a \in Plugins
    BY <2>1, StartedIs DEF Plugins
  <2> QED
    BY <1>1, <2>2, NamesOfPlugins DEF StartPluginLauncher
<1>2. CASE LaunchComponent
  BY <1>2, NamesOfPlugins DEF LaunchComponent, Instantiate
<1>3. CASE CreateComponent
  BY <1>3, NamesOfPlugins DEF CreateComponent, Instantiate
<1>4. CASE UNCHANGED <<vars, classVars>>
  BY <1>4 DEF classVars
<1> QED
  BY <1>1, <1>2, <1>3, <1>4 DEF ClassesNext, Live, BeginPlugin, InstallHooks, CreateAssets, AddAssetPath,
     HookRec, StartOwnActivity, StartOwnService, PassOn, classVars

\* The class path and what was loaded from it, at every step.
LEMMA ClassPathStep ==
  ASSUME TypeOK, ClassesTyped, StaticsBegun, ClassPath, LoadedFrom, [ClassesNext]_<<vars, classVars>>
  PROVE  /\ ClassPath' /\ LoadedFrom'
         /\ order' \in Seq(Packages) /\ dexElements' \in Seq(Packages \cup {Host})
         /\ loaded' \in [Names -> Packages \cup {Host, None}]
         /\ loadedAfter' \in [Names -> Nat]
<1>0. Len(order) \in Nat
  BY DEF ClassesTyped
<1>1. CASE UNCHANGED classes
  BY <1>1 DEF classes, ClassesTyped, ClassPath, LoadedFrom, FoundFirst
<1>2. CASE AddPluginDexs
  <2>1. /\ packageInfo \in Packages /\ order' = Append(order, packageInfo)
        /\ dexElements' = <<packageInfo>> \o dexElements
        /\ UNCHANGED <<loaded, loadedAfter>>
    BY <1>2 DEF AddPluginDexs, AddDexs, Merged, StaticsBegun
  <2>2. /\ order' \in Seq(Packages) /\ Len(order') = Len(order) + 1
        /\ order'[Len(order) + 1] = packageInfo
        /\ \A j \in 1 .. Len(order) : order'[j] = order[j]
    BY <2>1 DEF ClassesTyped
  <2>3. /\ dexElements' \in Seq(Packages \cup {Host}) /\ Len(dexElements') = Len(dexElements) + 1
        /\ dexElements'[1] = packageInfo
        /\ \A j \in 1 .. Len(dexElements) : dexElements'[j + 1] = dexElements[j]
    <3>1. <<packageInfo>> \in Seq(Packages \cup {Host})
      BY <2>1
    <3> QED
      BY <2>1, <3>1 DEF ClassesTyped
  <2>4. ClassPath'
    <3>1. Len(dexElements') = Len(order') + 1 /\ dexElements'[Len(order') + 1] = Host
      BY <1>0, <2>2, <2>3 DEF ClassPath
    <3>2. ASSUME NEW k \in 1 .. Len(order') PROVE dexElements'[k] = order'[Len(order') + 1 - k]
      <4>1. CASE k = 1
        BY <1>0, <2>2, <2>3, <4>1
      <4>2. CASE k # 1
        <5>1. /\ k - 1 \in 1 .. Len(order) /\ Len(order) + 1 - (k - 1) = Len(order') + 1 - k
              /\ Len(order') + 1 - k \in 1 .. Len(order) /\ (k - 1) + 1 = k
          BY <1>0, <2>2, <4>2
        <5>2. dexElements[k - 1] = order[Len(order) + 1 - (k - 1)]
          BY <5>1 DEF ClassPath
        <5>3. k - 1 \in 1 .. Len(dexElements)
          BY <1>0, <5>1 DEF ClassPath
        <5> QED
          BY <2>2, <2>3, <5>1, <5>2, <5>3
      <4> QED
        BY <4>1, <4>2
    <3> QED
      BY <3>1, <3>2 DEF ClassPath
  <2>5. ASSUME NEW n \in Names, loaded'[n] # None
        PROVE  (loadedAfter[n] <= Len(order) /\ FoundFirst(n, loaded[n], loadedAfter[n]))'
    <3>1. loadedAfter[n] \in Nat /\ loadedAfter[n] <= Len(order) /\ FoundFirst(n, loaded[n], loadedAfter[n])
      BY <2>1, <2>5 DEF LoadedFrom, ClassesTyped
    <3>2. \A j \in 1 .. loadedAfter[n] : order'[j] = order[j]
      BY <1>0, <2>2, <3>1
    <3>3. PICK k \in 0 .. loadedAfter[n] :
            /\ loaded[n] = IF k = 0 THEN Host ELSE order[k]
            /\ \A j \in k + 1 .. loadedAfter[n] : n \notin ClassesIn[order[j]]
      BY <3>1 DEF FoundFirst
    <3>4. /\ loaded[n] = IF k = 0 THEN Host ELSE order'[k]
          /\ \A j \in k + 1 .. loadedAfter[n] : n \notin ClassesIn[order'[j]]
      BY <3>1, <3>2, <3>3
    <3>5. FoundFirst(n, loaded[n], loadedAfter[n])'
      BY <2>1, <3>1, <3>4 DEF FoundFirst
    <3>6. loadedAfter[n] <= Len(order')
      BY <1>0, <2>2, <3>1
    <3> QED
      BY <2>1, <3>5, <3>6
  <2>6. LoadedFrom'
    BY <2>5 DEF LoadedFrom
  <2> QED
    BY <2>1, <2>2, <2>3, <2>4, <2>6 DEF ClassesTyped
<1>3. CASE CrashAll
  <2>1. /\ dexElements' = <<Host>> /\ order' = <<>>
        /\ loaded' = [n \in Names |-> None] /\ loadedAfter' = [n \in Names |-> 0]
    BY <1>3 DEF CrashAll, NewProcess
  <2> QED
    BY <2>1 DEF ClassPath, LoadedFrom
<1>4. CASE \E n \in Names : Load(n)
  <2>1. PICK n \in Names : Load(n)
    BY <1>4
  <2> QED
    BY <2>1, LoadStep DEF ClassPath, ClassesTyped
<1> QED
  BY <1>1, <1>2, <1>3, <1>4, ClassSteps

\* How far begin is with the statics, at every step.
LEMMA StaticsStep ==
  ASSUME IInv, ClassesTyped, StaticsBegun, [ClassesNext]_<<vars, classVars>>
  PROVE  StaticsBegun' /\ packageInfo' \in Packages \cup {None}
<1>0. order \in Seq(Packages) /\ packageInfo \in Packages \cup {None}
  BY DEF ClassesTyped
<1>1. CASE BeginPlugin
  BY <1>0, <1>1 DEF BeginPlugin, Begin, StaticsBegun, classes
<1>2. CASE InstallHooks
  BY <1>0, <1>2 DEF InstallHooks, HookExec, HookLaunch, HookStart, HookCreate, StaticsBegun, classVars,
     statics, classes
<1>3. CASE CreateAssets \/ AddAssetPath \/ HookRec
  BY <1>0, <1>3 DEF CreateAssets, AddAssetPath, HookRec, StaticsBegun, vars, classes
<1>4. CASE AddPluginDexs
  <2>1. /\ main = "addDexs" /\ main' = "startLauncher" /\ preloaded = "yes" /\ dexMerged'
        /\ order' = Append(order, packageInfo) /\ UNCHANGED statics
    BY <1>4 DEF AddPluginDexs, AddDexs
  <2>2. packageInfo \in Packages /\ (assetManager \in {packageInfo, "empty"} \/ assetsFailed)
    BY <2>1 DEF StaticsBegun
  <2>3. order' # <<>> /\ Last(order') = packageInfo
    BY <1>0, <2>1, <2>2 DEF Last
  <2> QED
    BY <1>0, <2>1, <2>2, <2>3 DEF StaticsBegun, statics
<1>5. CASE StartPluginLauncher
  BY <1>0, <1>5 DEF StartPluginLauncher, StartLauncher, StaticsBegun, statics, Load
<1>6. ASSUME NEW t \in Callers, StartOwnActivity(t) \/ StartOwnService(t) \/ PassOn(t)
      PROVE  StaticsBegun' /\ packageInfo' \in Packages \cup {None}
  <2>1. main' = main /\ dexMerged' = dexMerged
    BY <1>6 DEF StartOwnActivity, StartOwnService, PassOn, StartActivity, StartService, WrapService,
       SendService
  <2>2. UNCHANGED classVars
    BY <1>6 DEF StartOwnActivity, StartOwnService, PassOn
  <2> QED
    BY <1>0, <2>1, <2>2 DEF StaticsBegun, classVars, statics, classes
<1>7. CASE LaunchComponent \/ CreateComponent
  <2>1. main' = main /\ main = "looper" /\ dexMerged' = dexMerged /\ order' = order
        /\ UNCHANGED <<packageInfo, assetManager, preloaded, assetsFailed>>
    BY <1>7 DEF LaunchComponent, CreateComponent, PerformLaunchActivity, HandleCreateService,
       LaunchAs, CreateAs, statics, Instantiate, Load, classes
  <2> QED
    BY <1>0, <2>1 DEF StaticsBegun
<1>8. CASE (OpenHome \/ Relaunch \/ RestartService \/ Idle) /\ UNCHANGED classVars
  <2>1. main' = main /\ dexMerged' = dexMerged
    BY <1>8 DEF OpenHome, Relaunch, RestartService, Idle, vars
  <2>2. UNCHANGED classVars
    BY <1>8
  <2> QED
    BY <1>0, <2>1, <2>2 DEF StaticsBegun, classVars, statics, classes
<1>9. CASE CrashAll
  <2>1. main' = "looper" /\ ~dexMerged'
    BY <1>9 DEF CrashAll, Crash
  <2>2. packageInfo' = None /\ order' = <<>>
    BY <1>9 DEF CrashAll, NewProcess
  <2> QED
    BY <2>1, <2>2 DEF StaticsBegun
<1>10. CASE UNCHANGED <<vars, classVars>>
  BY <1>0, <1>10 DEF StaticsBegun, vars, classVars, statics, classes
<1> QED
  BY <1>1, <1>2, <1>3, <1>4, <1>5, <1>6, <1>7, <1>8, <1>9, <1>10 DEF ClassesNext, Live

\* Plugins whose dex files were added stay added while the process lives.
LEMMA PresentStays ==
  ASSUME TypeOK, ClassesTyped, StaticsBegun, [ClassesNext]_<<vars, classVars>>, ~CrashAll
  PROVE  Range(order) \subseteq Range(order')
<1>1. CASE order' = order
  BY <1>1
<1>2. CASE AddPluginDexs
  <2>1. packageInfo \in Packages /\ order' = Append(order, packageInfo)
    BY <1>2 DEF AddPluginDexs, AddDexs, StaticsBegun
  <2>2. \A k \in DOMAIN order : k \in DOMAIN order' /\ order'[k] = order[k]
    BY <2>1 DEF ClassesTyped
  <2> QED
    BY <2>2 DEF Range
<1> QED
  BY <1>1, <1>2, ClassSteps DEF classes, Load

\* An activity of a plugin is started only when its plugin's classes are there.
LEMMA StartedPresent ==
  ASSUME IInv, ClassesTyped, StaticsBegun, StartPluginLauncher \/ \E t \in Callers : StartOwnActivity(t)
  PROVE  Started \in Activities /\ PackageOf[Started] \in Range(order)
<1>1. PICK a \in Activities : SendLaunch(Wrapped(NewIntent(a), execHooks))
  BY DEF StartPluginLauncher, StartLauncher, StartOwnActivity, StartActivity
<1>2. Started = a
  BY <1>1, StartedIs DEF IInv
<1>3. CASE StartPluginLauncher
  <2>1. main = "startLauncher" /\ dexMerged /\ PackageOf[Started] = packageInfo
    BY <1>3 DEF StartPluginLauncher, StartLauncher, IInv, HooksPaired
  <2>2. order # <<>> /\ packageInfo = order[Len(order)] /\ Len(order) \in DOMAIN order
    BY <2>1 DEF StaticsBegun, ClassesTyped, Last
  <2> QED
    BY <1>1, <1>2, <2>1, <2>2 DEF Range
<1>4. CASE \E t \in Callers : StartOwnActivity(t)
  <2>1. Present(Started)
    BY <1>4 DEF StartOwnActivity
  <2> QED
    BY <1>1, <1>2, <2>1 DEF Present
<1> QED
  BY <1>3, <1>4

\* The starts in the looper, when it changes by m at the end at most.
LEMMA LaunchesPresent ==
  ASSUME looper \in Seq(Messages), StartsPresent, Range(order) \subseteq Range(order'),
         NEW m \in Messages, looper' \in {looper, Append(looper, m), Tail(looper)},
         looper' = Tail(looper) => looper # <<>>,
         looper' = Append(looper, m) /\ m.kind = "launch" /\ m.fresh /\ m.intent.target \in Plugins =>
           PackageOf[m.intent.target] \in Range(order')
  PROVE  \A k \in 1 .. Len(looper') :
           looper'[k].kind = "launch" /\ looper'[k].fresh /\ looper'[k].intent.target \in Plugins =>
             PackageOf[looper'[k].intent.target] \in Range(order')
<1>1. ASSUME NEW k \in 1 .. Len(looper')
      PROVE  \/ \E j \in 1 .. Len(looper) : looper'[k] = looper[j]
             \/ looper' = Append(looper, m) /\ looper'[k] = m
  <2>1. CASE looper' = looper
    BY <1>1, <2>1
  <2>2. CASE looper' = Append(looper, m)
    BY <1>1, <2>2
  <2>3. CASE looper' = Tail(looper)
    <3>1. looper # <<>>
      BY <2>3
    <3>2. k + 1 \in 1 .. Len(looper) /\ looper'[k] = looper[k + 1]
      BY <1>1, <2>3, <3>1
    <3> QED
      BY <3>2
  <2> QED
    BY <2>1, <2>2, <2>3
<1>2. \A j \in 1 .. Len(looper) :
        looper[j].kind = "launch" /\ looper[j].fresh /\ looper[j].intent.target \in Plugins =>
          PackageOf[looper[j].intent.target] \in Range(order')
  BY DEF StartsPresent, Present
<1> QED
  BY <1>1, <1>2

\* The starts in the looper, at every step of a living process.
LEMMA LooperPresent ==
  ASSUME IInv, ClassesTyped, StaticsBegun, StartsPresent, [ClassesNext]_<<vars, classVars>>, ~CrashAll
  PROVE  \A k \in 1 .. Len(looper') :
           looper'[k].kind = "launch" /\ looper'[k].fresh /\ looper'[k].intent.target \in Plugins =>
             PackageOf[looper'[k].intent.target] \in Range(order')
<1>0. looper \in Seq(Messages) /\ Range(order) \subseteq Range(order') /\ execHooks \in Nat
  BY PresentStays DEF IInv, TypeOK
<1>1. CASE StartPluginLauncher \/ \E t \in Callers : StartOwnActivity(t)
  <2>1. PICK a \in Activities : SendLaunch(Wrapped(NewIntent(a), execHooks))
    BY <1>1 DEF StartPluginLauncher, StartLauncher, StartOwnActivity, StartActivity
  <2> DEFINE i == Wrapped(NewIntent(a), execHooks)
             m == Launch(i, TRUE)
  <2>2. i \in Intents
    BY <1>0 DEF Wrapped, NewIntent, Intents, Targets, Plugins
  <2>3. looper' = Append(looper, m) /\ m.intent = i
    BY <2>1 DEF SendLaunch, Launch
  <2>4. m \in Messages
    BY <2>2, LaunchTyped
  <2>5. PackageOf[i.target] \in Range(order)
    <3>1. Started = a /\ i.target = a
      BY <2>1, StartedIs DEF IInv, Wrapped, NewIntent
    <3> QED
      BY <1>1, <3>1, StartedPresent
  <2> HIDE DEF m, i
  <2> QED
    BY <1>0, <2>3, <2>4, <2>5, LaunchesPresent
<1>2. CASE looper' = looper
  BY <1>0, <1>2 DEF StartsPresent, Present
<1>3. CASE (OpenHome \/ Relaunch \/ RestartService \/ Idle) /\ UNCHANGED classVars
  <2>1. CASE OpenHome
    <3> DEFINE m == Launch(NewIntent(Home), TRUE)
    <3>1. NewIntent(Home) \in Intents
      BY DEF NewIntent, Intents, Targets
    <3>2. looper' = Append(looper, m) /\ m.intent.target \notin Plugins
      BY <2>1, NamesAssumption DEF OpenHome, SendLaunch, Launch, NewIntent, Plugins
    <3>3. m \in Messages
      BY <3>1, LaunchTyped
    <3> HIDE DEF m
    <3> QED
      BY <1>0, <3>2, <3>3, LaunchesPresent
  <2>2. CASE Idle
    BY <2>2, <1>2 DEF Idle, vars
  <2>3. CASE Relaunch
    <3>1. PICK i \in older : looper' = Append(looper, Launch(i, FALSE))
      BY <2>3 DEF Relaunch
    <3> DEFINE m == Launch(i, FALSE)
    <3>2. m \in Messages /\ ~m.fresh /\ looper' = Append(looper, m)
      BY <3>1, LaunchTyped DEF IInv, TypeOK, Launch
    <3> HIDE DEF m
    <3> QED
      BY <1>0, <3>2, LaunchesPresent
  <2>4. CASE RestartService
    <3> DEFINE m == Create(FALSE)
    <3>1. m \in Messages /\ ~m.fresh /\ looper' = Append(looper, m)
      BY <2>4, CreateTyped DEF RestartService, Create
    <3> HIDE DEF m
    <3> QED
      BY <1>0, <3>1, LaunchesPresent
  <2> QED
    BY <1>3, <2>1, <2>2, <2>3, <2>4
<1>4. CASE looper' = Append(looper, Create(TRUE)) \/ (looper # <<>> /\ looper' = Tail(looper))
  <2> DEFINE m == Create(TRUE)
  <2>1. m \in Messages /\ m.kind = "create"
    BY CreateTyped DEF Create
  <2>2. looper' = Append(looper, m) \/ (looper # <<>> /\ looper' = Tail(looper))
    BY <1>4
  <2> HIDE DEF m
  <2>3. looper' = Tail(looper) => looper # <<>>
    BY <1>0, <2>1, <2>2
  <2> QED
    BY <1>0, <2>1, <2>2, <2>3, LaunchesPresent
<1>5. CASE LaunchComponent \/ CreateComponent
  BY <1>4, <1>5 DEF LaunchComponent, CreateComponent, PerformLaunchActivity, HandleCreateService,
     LaunchAs, CreateAs, Current
<1>6. CASE \E t \in Callers : StartOwnService(t) \/ PassOn(t)
  <2>1. looper' = looper \/ looper' = Append(looper, Create(TRUE))
    BY <1>6 DEF StartOwnService, PassOn, StartService, WrapService, SendService
  <2> QED
    BY <1>2, <1>4, <2>1
<1>7. CASE BeginPlugin \/ InstallHooks \/ CreateAssets \/ AddAssetPath \/ HookRec \/ AddPluginDexs
  <2>1. looper' = looper
    BY <1>7 DEF BeginPlugin, InstallHooks, CreateAssets, AddAssetPath, HookRec, AddPluginDexs, Begin,
       HookExec, HookLaunch, HookStart, HookCreate, AddDexs, vars
  <2> QED
    BY <1>2, <2>1
<1>8. CASE UNCHANGED <<vars, classVars>>
  BY <1>2, <1>8 DEF vars
<1> QED
  BY <1>1, <1>3, <1>5, <1>6, <1>7, <1>8 DEF ClassesNext, Live

\* The starts of services, at every step of a living process.
LEMMA CallsPresent ==
  ASSUME IInv, ClassesTyped, StaticsBegun, StartsPresent, [ClassesNext]_<<vars, classVars>>, ~CrashAll
  PROVE  /\ \A t \in Callers : starting'[t] # None => PackageOf[starting'[t].target] \in Range(order')
         /\ ori' # None => PackageOf[ori'.target] \in Range(order')
<1>0. /\ starting \in [Callers -> Intents \cup {None}] /\ Range(order) \subseteq Range(order')
      /\ \A t \in Callers : starting[t] # None => PackageOf[starting[t].target] \in Range(order')
      /\ ori # None => PackageOf[ori.target] \in Range(order')
  BY PresentStays DEF IInv, TypeOK, StartsPresent, Present
<1>1. ASSUME NEW t \in Callers, StartOwnService(t)
      PROVE  /\ \A u \in Callers : starting'[u] # None => PackageOf[starting'[u].target] \in Range(order')
             /\ ori' # None => PackageOf[ori'.target] \in Range(order')
  <2>1. PackageOf[starting'[t].target] \in Range(order)
    BY <1>1 DEF StartOwnService, Present
  <2>2. /\ ori' = ori
        /\ \A u \in Callers \ {t} : starting'[u] = starting[u]
    BY <1>0, <1>1 DEF StartOwnService, StartService
  <2> QED
    BY <1>0, <2>1, <2>2
<1>2. ASSUME NEW t \in Callers, WrapService(t)
      PROVE  /\ \A u \in Callers : starting'[u] # None => PackageOf[starting'[u].target] \in Range(order')
             /\ ori' # None => PackageOf[ori'.target] \in Range(order')
  <2>1. /\ starting[t] # None /\ ori' = starting[t]
        /\ starting'[t].target = starting[t].target
        /\ \A u \in Callers \ {t} : starting'[u] = starting[u]
    BY <1>0, <1>2 DEF WrapService, Wrapped
  <2> QED
    BY <1>0, <2>1
<1>3. ASSUME NEW t \in Callers, SendService(t)
      PROVE  /\ \A u \in Callers : starting'[u] # None => PackageOf[starting'[u].target] \in Range(order')
             /\ ori' # None => PackageOf[ori'.target] \in Range(order')
  <2>1. ori' = ori /\ starting' = [starting EXCEPT ![t] = None]
    BY <1>3 DEF SendService
  <2> QED
    BY <1>0, <2>1
<1>4. CASE \E t \in Callers : StartOwnService(t) \/ PassOn(t)
  BY <1>1, <1>2, <1>3, <1>4 DEF PassOn
<1>5. CASE starting' = starting /\ ori' = ori
  BY <1>0, <1>5
<1>6. CASE BeginPlugin \/ InstallHooks \/ CreateAssets \/ AddAssetPath \/ HookRec \/ AddPluginDexs
  <2>1. starting' = starting /\ ori' = ori
    BY <1>6 DEF BeginPlugin, InstallHooks, CreateAssets, AddAssetPath, HookRec, AddPluginDexs, Begin,
       HookExec, HookLaunch, HookStart, HookCreate, AddDexs, vars, calls
  <2> QED
    BY <1>5, <2>1
<1>7. CASE StartPluginLauncher \/ \E t \in Callers : StartOwnActivity(t)
  BY <1>5, <1>7 DEF StartPluginLauncher, StartLauncher, StartOwnActivity, StartActivity, calls
<1>8. CASE LaunchComponent \/ CreateComponent
  BY <1>5, <1>8 DEF LaunchComponent, CreateComponent, PerformLaunchActivity, HandleCreateService,
     LaunchAs, CreateAs, calls
<1>9. CASE (OpenHome \/ Relaunch \/ RestartService \/ Idle) /\ UNCHANGED classVars
  BY <1>5, <1>9 DEF OpenHome, Relaunch, RestartService, Idle, vars, calls
<1>10. CASE UNCHANGED <<vars, classVars>>
  BY <1>5, <1>10 DEF vars, calls
<1> QED
  BY <1>4, <1>6, <1>7, <1>8, <1>9, <1>10 DEF ClassesNext, Live

\* Starts under way are of plugins whose classes are there, at every step.
LEMMA StartsStep ==
  ASSUME IInv, ClassesTyped, StaticsBegun, StartsPresent, [ClassesNext]_<<vars, classVars>>
  PROVE  StartsPresent'
<1>1. CASE CrashAll
  BY <1>1 DEF CrashAll, Crash, StartsPresent
<1>2. CASE ~CrashAll
  BY <1>2, LooperPresent, CallsPresent DEF StartsPresent, Present
<1> QED
  BY <1>1, <1>2

-----------------------------------------------------------------------------
(* What components are made of *)

\* An activity of a plugin that this process started is only launched when the
\* plugin's classes are there.
LEMMA LaunchedPresent ==
  ASSUME IInv, StartsPresent, PerformLaunchActivity, launched'.got \in Plugins, launched'.fresh
  PROVE  PackageOf[launched'.got] \in Range(order)
<1> DEFINE m == Head(looper)
           i == Unwrapped(m.intent, launchHooks)
<1>1. /\ looper # <<>> /\ m.kind = "launch" /\ launched'.got = Component(i)
  BY DEF PerformLaunchActivity, Current, LaunchAs
<1>2. m \in Messages /\ m = looper[1] /\ 1 \in 1 .. Len(looper)
  BY <1>1 DEF IInv, TypeOK
<1>3. m.intent \in Intents /\ Sendable(m.intent)
  BY <1>1, <1>2 DEF IInv, MessagesOK, MessageOK, Messages
<1>4. launchHooks \in Nat
  BY DEF IInv, TypeOK
<1>5. /\ i \in Intents /\ i.target = m.intent.target
      /\ launchHooks = 0 => i.wraps = m.intent.wraps
  BY <1>3, <1>4, IntentsClosed
<1>6. i.wraps = 0 /\ i.target \in Plugins /\ launched'.got = i.target
  BY <1>1, <1>5, ComponentNames, NamesAssumption DEF Plugins, Intents
<1>7. m.fresh
  BY DEF PerformLaunchActivity, LaunchAs
<1> HIDE DEF m, i
<1> QED
  BY <1>1, <1>2, <1>5, <1>6, <1>7 DEF StartsPresent, Present

\* So for services.
LEMMA CreatedPresent ==
  ASSUME IInv, StartsPresent, HandleCreateService
  PROVE  /\ created'.got \notin Activities \cup {Home}
         /\ created'.got \in Plugins => PackageOf[created'.got] \in Range(order)
<1>1. created'.got = IF createHooks > 0 /\ ori # None /\ Component(ori) # None
                     THEN Component(ori) ELSE Proxy
  BY DEF HandleCreateService, CreateAs
<1>2. CASE created'.got = Proxy
  BY <1>2, NamesAssumption DEF Plugins
<1>3. CASE created'.got # Proxy
  <2>1. ori # None /\ created'.got = Component(ori) /\ Component(ori) # None
    BY <1>1, <1>3
  <2>2. ori \in Intents /\ ori.target \in Services /\ PackageOf[ori.target] \in Range(order)
    BY <2>1 DEF IInv, TypeOK, SlotOK, StartsPresent, Present
  <2>3. created'.got = ori.target
    BY <1>3, <2>1, <2>2 DEF Component
  <2> QED
    BY <2>2, <2>3, NamesAssumption
<1> QED
  BY <1>2, <1>3

\* Where the class of a component that is there comes from.
LEMMA OwnStep ==
  ASSUME ClassesTyped, ClassPath, LoadedFrom, NEW x \in Plugins, PackageOf[x] \in Range(order),
         Load(ClassName[x])
  PROVE  /\ loadClass(ClassName[x]) # None /\ loaded'[ClassName[x]] = loadClass(ClassName[x])
         /\ loadClass(ClassName[x]) = PackageOf[x] \/
              \A k \in DOMAIN order : order[k] = PackageOf[x] =>
                \/ loadedAfter'[ClassName[x]] < k
                \/ \E j \in k + 1 .. Len(order) : ClassName[x] \in ClassesIn[order[j]]
<1> DEFINE n == ClassName[x]
           p == loadClass(n)
           a == loadedAfter'[n]
<1>1. /\ n \in Names /\ n \in ClassesIn[PackageOf[x]] /\ None \notin Packages \cup {Host}
      /\ DOMAIN order = 1 .. Len(order)
  BY NamesOfPlugins, ClassesAssumption DEF ClassesTyped
<1>2. /\ loaded'[n] = p /\ loadedAfter' \in [Names -> Nat] /\ order' = order /\ LoadedFrom'
  BY <1>1, LoadStep
<1>3. p # None
  <2>1. CASE loaded[n] = None
    <3>1. PICK k \in DOMAIN order : order[k] = PackageOf[x]
      BY DEF Range
    <3>2. Find(n) # None
      BY <1>1, <3>1, FindFirst
    <3> QED
      BY <2>1, <3>2 DEF loadClass
  <2>2. CASE loaded[n] # None
    BY <2>2 DEF loadClass
  <2> QED
    BY <2>1, <2>2
<1>4. a \in Nat /\ a <= Len(order) /\ FoundFirst(n, p, a)
  BY <1>1, <1>2, <1>3 DEF LoadedFrom, FoundFirst
<1> HIDE DEF n, p, a
<1>5. ASSUME NEW k \in DOMAIN order, order[k] = PackageOf[x]
      PROVE  p = PackageOf[x] \/ a < k \/ \E j \in k + 1 .. Len(order) : n \in ClassesIn[order[j]]
  BY <1>1, <1>4, <1>5, OwnUnless
<1>6. p = PackageOf[x] \/ \A k \in DOMAIN order : order[k] = PackageOf[x] =>
        a < k \/ \E j \in k + 1 .. Len(order) : n \in ClassesIn[order[j]]
  BY <1>5
<1> QED
  BY <1>2, <1>3, <1>6 DEF n, p, a

\* What was made last, at a step that makes the component x.
LEMMA ClassOfMade ==
  ASSUME ClassesTyped, ClassPath, LoadedFrom, NEW x, NEW old \in BOOLEAN,
         used' = MadeOf(x, old), Instantiate(x),
         x \in Plugins => PackageOf[x] \in Range(order) \/ old
  PROVE  UsedLoaded' /\ ClassIsOwn'
<1>1. used'.class = x /\ used'.source = SourceOf(x) /\ used'.begun = order /\ used'.old = old
  BY DEF MadeOf
<1>2. CASE x \in Plugins /\ PackageOf[x] \in Range(order)
  <2>1. Load(ClassName[x]) /\ SourceOf(x) = loadClass(ClassName[x])
    BY <1>2 DEF Instantiate, SourceOf
  <2>2. /\ loadClass(ClassName[x]) # None /\ loaded'[ClassName[x]] = loadClass(ClassName[x])
        /\ loadClass(ClassName[x]) = PackageOf[x] \/
             \A k \in DOMAIN order : order[k] = PackageOf[x] =>
               \/ loadedAfter'[ClassName[x]] < k
               \/ \E j \in k + 1 .. Len(order) : ClassName[x] \in ClassesIn[order[j]]
    BY <1>2, <2>1, OwnStep
  <2> QED
    BY <1>1, <1>2, <2>1, <2>2 DEF UsedLoaded, ClassIsOwn
<1>3. CASE x \notin Plugins
  BY <1>1, <1>3 DEF UsedLoaded, ClassIsOwn
<1>4. CASE x \in Plugins /\ PackageOf[x] \notin Range(order)
  <2>1. old
    BY <1>4
  <2> QED
    BY <1>1, <1>4, <2>1 DEF UsedLoaded, ClassIsOwn
<1> QED
  BY <1>2, <1>3, <1>4

\* A class that was loaded stays what it is, and so does what was made of it.
LEMMA ClassOfKept ==
  ASSUME TypeOK, ClassesTyped, ClassPath, LoadedFrom, UsedLoaded, ClassIsOwn, used' = used,
         [ClassesNext]_<<vars, classVars>>, ~CrashAll
  PROVE  UsedLoaded' /\ ClassIsOwn'
<1>1. CASE used.class \in Plugins /\ PackageOf[used.class] \in Range(used.begun)
  <2> DEFINE n == ClassName[used.class]
  <2>1. n \in Names /\ loaded[n] # None
    BY <1>1, NamesOfPlugins DEF UsedLoaded
  <2>2. loaded'[n] = loaded[n] /\ loadedAfter'[n] = loadedAfter[n]
    BY <2>1, ClassSteps, LoadStep DEF classes, AddPluginDexs
  <2> QED
    BY <2>1, <2>2 DEF UsedLoaded, ClassIsOwn
<1>2. CASE ~(used.class \in Plugins /\ PackageOf[used.class] \in Range(used.begun))
  BY <1>2 DEF UsedLoaded, ClassIsOwn
<1> QED
  BY <1>1, <1>2

\* One plugin stands behind an activity that is launched.
LEMMA BehindLaunch ==
  ASSUME IInv, ClassesTyped, StaticsBegun, LaunchComponent
  PROVE  OnePluginBehind'
<1>1. /\ used'.begun = order /\ used'.info = applicationInfo' /\ swallowed' = swallowed /\ main = "looper"
      /\ used'.assetsFailed = assetsFailed
      /\ used'.resources = IF recHooks > 0 /\ assetManager # None THEN assetManager ELSE Host
      /\ applicationInfo' = IF launchHooks > 0 THEN packageInfo ELSE applicationInfo
  BY DEF LaunchComponent, PerformLaunchActivity, LaunchAs, MadeOf, InfoAtLaunch
<1>2. ASSUME order # <<>>, ~swallowed PROVE launchHooks > 0
  <2>1. dexMerged /\ execHooks > 0
    BY <1>2 DEF StaticsBegun, IInv, HooksPaired
  <2> QED
    BY <1>1, <1>2, <2>1 DEF IInv, TypeOK, HooksPaired
<1> QED
  BY <1>1, <1>2 DEF StaticsBegun, OnePluginBehind

\* What the last component was made of, at every step.
LEMMA MadeStep ==
  ASSUME IInv, SharedInv, [ClassesNext]_<<vars, classVars>>
  PROVE  UsedLoaded' /\ OnePluginBehind' /\ ClassIsOwn'
<1> USE DEF SharedInv
<1>1. CASE LaunchComponent
  <2>1. /\ used' = MadeOf(launched'.got, ~launched'.fresh) /\ Instantiate(launched'.got)
        /\ PerformLaunchActivity
    BY <1>1 DEF LaunchComponent
  <2>2. launched'.got \in Plugins => PackageOf[launched'.got] \in Range(order) \/ ~launched'.fresh
    BY <2>1, LaunchedPresent
  <2>3. UsedLoaded' /\ ClassIsOwn'
    BY <2>1, <2>2, ClassOfMade
  <2> QED
    BY <1>1, <2>3, BehindLaunch
<1>2. CASE CreateComponent
  <2>1. used' = MadeOf(created'.got, FALSE) /\ Instantiate(created'.got) /\ HandleCreateService
    BY <1>2 DEF CreateComponent
  <2>2. UsedLoaded' /\ ClassIsOwn'
    BY <2>1, ClassOfMade, CreatedPresent
  <2>3. used'.class = created'.got
    BY <2>1 DEF MadeOf
  <2> QED
    BY <2>1, <2>2, <2>3, CreatedPresent DEF OnePluginBehind
<1>3. CASE CrashAll
  <2>1. used' = NothingUsed
    BY <1>3 DEF CrashAll, NewProcess
  <2>2. used'.class \notin Plugins \cup {Home}
    BY <2>1, NamesAssumption DEF NothingUsed, Plugins
  <2> QED
    BY <2>2 DEF UsedLoaded, OnePluginBehind, ClassIsOwn, Plugins
<1>4. CASE ~LaunchComponent /\ ~CreateComponent /\ ~CrashAll
  <2>1. used' = used
    BY <1>4 DEF ClassesNext, Live, BeginPlugin, InstallHooks, CreateAssets, AddAssetPath, HookRec,
       AddPluginDexs, StartPluginLauncher, StartOwnActivity, StartOwnService, PassOn, classVars
  <2>2. swallowed => swallowed'
    BY <1>4 DEF ClassesNext, Live, BeginPlugin, InstallHooks, CreateAssets, AddAssetPath, HookRec,
       AddPluginDexs, StartPluginLauncher, StartOwnActivity, StartOwnService, PassOn, Begin, HookExec,
       HookLaunch, HookStart, HookCreate, AddDexs, StartLauncher, StartActivity, StartService, WrapService,
       SendService, OpenHome, Relaunch, RestartService, Idle, vars, history
  <2>3. OnePluginBehind'
    BY <2>1, <2>2 DEF OnePluginBehind
  <2> QED
    BY <1>4, <2>1, <2>3, ClassOfKept DEF IInv
<1> QED
  BY <1>1, <1>2, <1>3, <1>4

-----------------------------------------------------------------------------
(* Theorems about PluginClasses *)

LEMMA InitShared == ClassesInit => SharedInv
<1> SUFFICES ASSUME ClassesInit PROVE SharedInv
  OBVIOUS
<1>1. /\ main = "looper" /\ looper = <<>> /\ starting = [t \in Callers |-> None] /\ ori = None
      /\ ~dexMerged
  BY DEF ClassesInit, Init
<1>2. /\ packageInfo = None /\ order = <<>> /\ dexElements = <<Host>> /\ used = NothingUsed
      /\ loaded = [n \in Names |-> None] /\ loadedAfter = [n \in Names |-> 0]
  BY DEF ClassesInit, NewProcess
<1>3. used.class \notin Plugins \cup {Home}
  BY <1>2, NamesAssumption DEF NothingUsed, Plugins
<1>4. ClassesTyped /\ ClassPath /\ LoadedFrom
  BY <1>2 DEF ClassesTyped, ClassPath, LoadedFrom
<1>5. StaticsBegun /\ StartsPresent
  BY <1>1, <1>2 DEF StaticsBegun, StartsPresent
<1> QED
  BY <1>3, <1>4, <1>5 DEF SharedInv, UsedLoaded, OnePluginBehind, ClassIsOwn, Plugins

\* Every step preserves the invariant of what plugins share.
LEMMA StepShared ==
  ASSUME IInv, IInv', SharedInv, [ClassesNext]_<<vars, classVars>>
  PROVE  SharedInv'
<1> USE DEF SharedInv
<1>1. ClassesTyped' /\ ClassPath' /\ LoadedFrom' /\ StaticsBegun'
  BY ClassPathStep, StaticsStep DEF ClassesTyped, IInv
<1>2. StartsPresent'
  BY StartsStep
<1> QED
  BY <1>1, <1>2, MadeStep

\* The invariant of PluginLaunch and that of what plugins share hold in every
\* reachable state of PluginClasses.
THEOREM SharedInvariance == ClassesSpec => [](IInv /\ SharedInv)
<1>1. ClassesInit => SharedInv
  BY InitShared
<1>2. IInv /\ IInv' /\ SharedInv /\ [ClassesNext]_<<vars, classVars>> => SharedInv'
  BY StepShared
<1>3. ClassesSpec => []IInv
  BY ClassesImplementLaunch, Invariance, PTL
<1> QED
  BY <1>1, <1>2, <1>3, PTL DEF ClassesSpec

\* However many plugins were begun, the application info and the resources behind
\* an activity are those of one of them, the last begun, unless handle.begin
\* swallowed an exception.
THEOREM OneBehind == ClassesSpec => []OnePluginBehind
<1>1. SharedInv => OnePluginBehind
  BY DEF SharedInv
<1> QED
  BY <1>1, SharedInvariance, PTL

\* A plugin's component is made in a process that has begun the plugin, but for an
\* activity that the system brings back from an older process; where the plugin has
\* been begun its class is found, and is its own unless it was loaded before the
\* plugin came or a later plugin has one of the same name.
THEOREM OwnClass == ClassesSpec => []ClassIsOwn
<1>1. SharedInv => ClassIsOwn
  BY DEF SharedInv
<1> QED
  BY <1>1, SharedInvariance, PTL
=============================================================================
