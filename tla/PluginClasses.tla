---------------------------- MODULE PluginClasses ----------------------------
(***************************************************************************)
(* What the components started in PluginLaunch are made of once several    *)
(* plugins share the process: the class that a name resolves to, and the   *)
(* application info and resources behind an activity.  Each begin leaves   *)
(* its plugin in three statics and in the class path, none of which is     *)
(* per plugin.                                                             *)
(*                                                                         *)
(* A class is named by where it comes from, a package or the host.  The    *)
(* class loader, outside this code, searches dexElements in order and      *)
(* keeps every class it has loaded.                                        *)
(***************************************************************************)
EXTENDS PluginLaunch, SequencesExt

CONSTANTS Packages,   \* plugins
          Host,       \* Vapp itself
          PackageOf,  \* the plugin of a component
          ClassName,  \* the class of a component
          ClassesIn   \* the classes of a package, and those of the host

ASSUME ClassesAssumption ==
  /\ Host \notin Packages /\ None \notin Packages \cup {Host}
  /\ PackageOf \in [Plugins -> Packages] /\ DOMAIN ClassName = Plugins
  /\ DOMAIN ClassesIn = Packages \cup {Host}
  /\ \A x \in Plugins : ClassName[x] \in ClassesIn[PackageOf[x]]

VARIABLES
  packageInfo,   \* BaseData.packageInfo: the plugin begun last, or None
  assetManager,  \* AddPluginResources.assetManager: the package in it, "empty", or None
  preloaded,     \* how far begin is with the resources: "no", "created", "added", "yes"
  assetsFailed,  \* history: the last plugin got no AssetManager
  recHooks,      \* callbacks on ResourcesImpl.getValue
  applicationInfo,  \* LoadedApk.mApplicationInfo: whose it is
  dexElements,   \* whose dex files the class loader searches
  loaded,        \* the classes it has loaded: where each comes from
  order,         \* history: the plugins whose dex files were added, in order
  loadedAfter,   \* history: how many of them, when a class was loaded
  used           \* history: what the last component was made of

statics == <<packageInfo, assetManager, preloaded, assetsFailed, recHooks, applicationInfo>>
classes == <<dexElements, loaded, order, loadedAfter>>
classVars == <<statics, classes, used>>

Names == UNION {ClassesIn[p] : p \in Packages \cup {Host}}
NothingUsed == [class |-> None]

NewProcess(package, assets, progress, failed, hooked, info, elements, cache, added, after, made) ==
  /\ package = None /\ assets = None /\ progress = "no" /\ failed = FALSE /\ hooked = 0 /\ info = Host
  /\ elements = <<Host>> /\ cache = [n \in Names |-> None]
  /\ added = <<>> /\ after = [n \in Names |-> 0] /\ made = NothingUsed

ClassesInit ==
  /\ Init
  /\ NewProcess(packageInfo, assetManager, preloaded, assetsFailed, recHooks, applicationInfo,
                dexElements, loaded, order, loadedAfter, used)

-----------------------------------------------------------------------------
(* The class loader *)

Find(n) ==
  IF \E k \in DOMAIN dexElements : n \in ClassesIn[dexElements[k]]
  THEN dexElements[CHOOSE k \in DOMAIN dexElements :
         /\ n \in ClassesIn[dexElements[k]]
         /\ \A j \in 1 .. k - 1 : n \notin ClassesIn[dexElements[j]]]
  ELSE None

loadClass(n) == IF loaded[n] # None THEN loaded[n] ELSE Find(n)

\* A class is loaded: unless it was already, it is now.
Load(n) ==
  /\ loaded' = [loaded EXCEPT ![n] = loadClass(n)]
  /\ loadedAfter' = IF loaded[n] # None THEN loadedAfter
                    ELSE [loadedAfter EXCEPT ![n] = Len(order)]
  /\ UNCHANGED <<dexElements, order>>

\* The component x is instantiated; one of the manifest brings its own class.
Instantiate(x) ==
  IF x \in Plugins THEN Load(ClassName[x]) ELSE UNCHANGED classes

-----------------------------------------------------------------------------
(* handle.begin: the steps of PluginLaunch with what they do here *)

BeginPlugin == \E p \in Packages :
  /\ Begin
  /\ packageInfo' = p /\ preloaded' = "no"
  /\ UNCHANGED <<assetManager, assetsFailed, recHooks, applicationInfo, classes, used>>

InstallHooks ==
  /\ HookExec \/ HookLaunch \/ HookStart \/ HookCreate
  /\ UNCHANGED classVars

\* preloadResource: the static is assigned first, unless the constructor throws,
\* unnoticed; then nothing more is done and the last plugin's stays.
CreateAssets ==
  /\ main = "addDexs" /\ preloaded = "no"
  /\ \/ preloaded' = "created" /\ assetManager' = "empty" /\ assetsFailed' = FALSE
     \/ preloaded' = "added" /\ assetsFailed' = TRUE /\ UNCHANGED assetManager
  /\ UNCHANGED <<vars, packageInfo, recHooks, applicationInfo, classes, used>>

\* Then the APK is added, which may fail unnoticed or throw unnoticed.
AddAssetPath ==
  /\ main = "addDexs" /\ preloaded = "created" /\ preloaded' = "added"
  /\ assetManager' \in {packageInfo, assetManager}
  /\ UNCHANGED <<vars, packageInfo, assetsFailed, recHooks, applicationInfo, classes, used>>

\* hookRec, which swallows exceptions too
HookRec ==
  /\ main = "addDexs" /\ preloaded = "added" /\ preloaded' = "yes"
  /\ recHooks' \in {recHooks, recHooks + 1}
  /\ UNCHANGED <<vars, packageInfo, assetManager, assetsFailed, applicationInfo, classes, used>>

\* Mutant: the plugin's dex files go behind those that are there.
MergedAppending(elements, p) == elements \o <<p>>

\* The dexElements after addDexs.
Merged(elements, p) == <<p>> \o elements

AddPluginDexs ==
  /\ preloaded = "yes" /\ AddDexs
  /\ dexElements' = Merged(dexElements, packageInfo)
  /\ order' = Append(order, packageInfo)
  /\ UNCHANGED <<statics, loaded, loadedAfter, used>>

\* The activity that the step asks the system for.
Started == Last(looper').intent.target

\* The class of the launcher activity is loaded before it is started.
StartPluginLauncher ==
  /\ StartLauncher
  /\ PackageOf[Started] = packageInfo
  /\ loadClass(ClassName[Started]) # None
  /\ Load(ClassName[Started])
  /\ UNCHANGED <<statics, used>>

-----------------------------------------------------------------------------
(* The components *)

\* Plugin code starts components of plugins that are there.
Present(x) == PackageOf[x] \in Range(order)

StartOwnActivity(t) ==
  /\ StartActivity(t) /\ Present(Started)
  /\ UNCHANGED classVars

StartOwnService(t) ==
  /\ StartService(t) /\ Present(starting'[t].target)
  /\ UNCHANGED classVars

\* Where the class of x comes from, when it is instantiated now.
SourceOf(x) == IF x \in Plugins THEN loadClass(ClassName[x]) ELSE Host

\* What the component x is made of: its application info is in LoadedApk, its
\* resources are what the callbacks of getValue put there.  `old` if x is of an
\* activity that an earlier process showed.
MadeOf(x, old) ==
  [class |-> x, source |-> SourceOf(x), begun |-> order, old |-> old, info |-> applicationInfo',
   resources |-> IF recHooks > 0 /\ assetManager # None THEN assetManager ELSE Host,
   assetsFailed |-> assetsFailed]

\* Mutant: the application info is set for the first plugin only.
InfoAtLaunchOnce == IF launchHooks > 0 /\ applicationInfo = Host THEN packageInfo ELSE applicationInfo

\* performLaunchActivity's callbacks set the application info.
InfoAtLaunch == IF launchHooks > 0 THEN packageInfo ELSE applicationInfo

LaunchComponent ==
  /\ PerformLaunchActivity
  /\ applicationInfo' = InfoAtLaunch
  /\ Instantiate(launched'.got) /\ used' = MadeOf(launched'.got, ~launched'.fresh)
  /\ UNCHANGED <<packageInfo, assetManager, preloaded, assetsFailed, recHooks>>

CreateComponent ==
  /\ HandleCreateService
  /\ Instantiate(created'.got)
  /\ UNCHANGED statics
  /\ used' = MadeOf(created'.got, FALSE)

PassOn(t) == (WrapService(t) \/ SendService(t)) /\ UNCHANGED classVars

CrashAll ==
  /\ Crash
  /\ NewProcess(packageInfo', assetManager', preloaded', assetsFailed', recHooks', applicationInfo',
                dexElements', loaded', order', loadedAfter', used')

\* A component whose class is not found: nobody catches the exception.
Dying == used.class \in Plugins /\ used.source = None

Live ==
  \/ BeginPlugin \/ InstallHooks \/ CreateAssets \/ AddAssetPath \/ HookRec
  \/ AddPluginDexs \/ StartPluginLauncher
  \/ \E t \in Callers : StartOwnActivity(t) \/ StartOwnService(t) \/ PassOn(t)
  \/ LaunchComponent \/ CreateComponent
  \/ (OpenHome \/ Relaunch \/ RestartService \/ Idle) /\ UNCHANGED classVars

\* The process may die at any time; beyond the bound on that, it stays dead.
ClassesNext ==
  \/ ~Dying /\ Live
  \/ CrashAll
  \/ Dying /\ UNCHANGED <<vars, classVars>>

ClassesSpec == ClassesInit /\ [][ClassesNext]_<<vars, classVars>>

-----------------------------------------------------------------------------
(* Properties *)

\* Behind every activity launched after a begin stands one plugin, the last
\* begun: application info and resources are its own, although they are set one
\* by one while older plugins run, unless an exception or a failed addAssetPath
\* was swallowed on the way (handle.java:32-56, AddPluginResources.java:51-113).
OnePluginBehind ==
  used.class \in Activities \cup {Home} /\ used.begun # <<>> =>
    /\ used.info = Last(used.begun) \/ swallowed
    /\ used.resources \in {Last(used.begun), "empty", Host} \/ used.assetsFailed

\* The plugin of a component that is instantiated has been begun in this process,
\* unless the system brought back an older process's activity; and if it has been,
\* the class is found, and is its own unless its name was loaded before the plugin
\* was begun, or a plugin begun since has a class of that name (AddDex.java:56-133).
ClassIsOwn ==
  used.class \in Plugins =>
    LET own == PackageOf[used.class]
        name == ClassName[used.class]
    IN /\ own \in Range(used.begun) \/ used.old
       /\ own \in Range(used.begun) =>
            /\ used.source # None
            /\ used.source = own \/ \A k \in DOMAIN used.begun : used.begun[k] = own =>
                 \/ loadedAfter[name] < k
                 \/ \E j \in k + 1 .. Len(used.begun) : name \in ClassesIn[used.begun[j]]

\* "Class loading isolation: a customised ClassLoader prevents class conflicts"
\* (README.md:21): false, addDexs merges all dex files into one path.
ClassIsIsolated == used.class \in Plugins /\ ~used.old => used.source = PackageOf[used.class]
=============================================================================
