------------------------------ MODULE AppStore ------------------------------
(***************************************************************************)
(* Installing plugins: a click in AddAppActivity deletes the plugin's      *)
(* directory, unpacks its APK there and adds its package to the list that  *)
(* HomeActivity shows.  All of it runs on the main thread, so what can go  *)
(* wrong is failures, which this code swallows, and the death of the       *)
(* process between two file operations.                                    *)
(***************************************************************************)
EXTENDS Naturals, FiniteSets

CONSTANTS Packages,   \* the apps of the device
          Versions,   \* of their APKs
          Entries,    \* names of zip entries
          Manifest,   \* AndroidManifest.xml
          Apk,        \* the entries of each version
          Torn,       \* the content of a file not written to its end
          Absent,     \* no such file
          None,
          MaxInstalls, MaxUpdates, MaxFailures  \* bounds; a failure or a process death

ASSUME BoundsAssumption == MaxInstalls \in Nat /\ MaxUpdates \in Nat /\ MaxFailures \in Nat
ASSUME ApkAssumption ==
  /\ Apk \in [Versions -> SUBSET Entries]
  /\ Manifest \in Entries /\ \A v \in Versions : Manifest \in Apk[v]
ASSUME NamesAssumption ==
  /\ Torn \notin Versions /\ Absent \notin Versions /\ Torn # Absent
  /\ \A list \in SUBSET Packages : list # Torn /\ list # Absent
  /\ None \notin Packages \cup Entries \cup Versions

VARIABLES
  version,     \* the system: the version installed of each package
  known,       \* the version whose sourceDir AddAppActivity's list has
  dir,         \* getFilesDir()/package: what each file holds
  listFile,    \* string_list.dat: a set of packages, or Torn, or Absent
  pc, pkg,     \* where installation is, of which package
  todo,        \* entries still to delete or to unpack
  open,        \* the entry being written, or None
  loaded,      \* the list read by saveString
  installs, updates, failures,
  unpacked,    \* history: the version a package was unpacked from without a failure, or None
  flawed,      \* history: something failed since the click
  saved,       \* history: packages whose saveString succeeded
  lost         \* history: a save was cut short, or the list could not be read

disk == <<dir, listFile>>
control == <<pc, pkg, todo, open, loaded>>
counts == <<installs, updates, failures>>
history == <<unpacked, flawed, saved, lost>>
vars == <<version, known, disk, control, counts, history>>

Empty == [e \in Entries |-> Absent]
Files(d) == {e \in Entries : d[e] # Absent}
\* The directory that holds version v and nothing else.
Exactly(v) == [e \in Entries |-> IF e \in Apk[v] THEN v ELSE Absent]

Init ==
  /\ version \in [Packages -> Versions] /\ known = version
  /\ dir = [p \in Packages |-> Empty] /\ listFile = Absent
  /\ pc = "idle" /\ pkg = None /\ todo = {} /\ open = None /\ loaded = {}
  /\ installs = 0 /\ updates = 0 /\ failures = 0
  /\ unpacked = [p \in Packages |-> None] /\ flawed = FALSE /\ saved = {} /\ lost = FALSE

Fail == failures < MaxFailures /\ failures' = failures + 1

-----------------------------------------------------------------------------
(* InstallApp.installApp *)

Install(p, files) ==
  /\ pc = "idle" /\ pc' = "delete"
  /\ installs < MaxInstalls /\ installs' = installs + 1
  /\ pkg' = p
  /\ todo' = files
  /\ unpacked' = [unpacked EXCEPT ![p] = None]
  /\ flawed' = FALSE
  /\ UNCHANGED <<version, known, disk, open, loaded, updates, failures, saved, lost>>

ClickInstallKeepingFiles(p) == Install(p, {})

\* The click; deleteDirectory will visit the files there are.
ClickInstall(p) == Install(p, Files(dir[p]))

\* file.delete(), whose result is ignored.
DeleteFile == \E e \in todo :
  /\ pc = "delete"
  /\ todo' = todo \ {e}
  /\ \/ dir' = [dir EXCEPT ![pkg][e] = Absent] /\ UNCHANGED <<failures, flawed>>
     \/ Fail /\ flawed' = TRUE /\ UNCHANGED dir
  /\ UNCHANGED <<version, known, listFile, pc, pkg, open, loaded, installs, updates,
                 unpacked, saved, lost>>

\* An exception, printed and forgotten: installApp returns all the same.
GiveUp ==
  /\ pc' = "load" /\ todo' = {} /\ open' = None /\ flawed' = TRUE

\* The directory is made and the APK opened, at the path known when the list of
\* apps was shown: an update of the app since has moved it.
OpenApk ==
  /\ pc = "delete" /\ todo = {}
  /\ \/ /\ known[pkg] = version[pkg]
        /\ pc' = "unpack" /\ todo' = Apk[version[pkg]]
        /\ UNCHANGED <<open, failures, flawed>>
     \/ known[pkg] # version[pkg] /\ GiveUp /\ UNCHANGED failures
     \/ known[pkg] = version[pkg] /\ Fail /\ GiveUp
  /\ UNCHANGED <<version, known, disk, pkg, loaded, installs, updates, unpacked, saved, lost>>

\* FileOutputStream truncates or creates the entry's file.
OpenEntry == \E e \in todo :
  /\ pc = "unpack" /\ open = None
  /\ open' = e
  /\ todo' = todo \ {e}
  /\ dir' = [dir EXCEPT ![pkg][e] = Torn]
  /\ UNCHANGED <<version, known, listFile, pc, pkg, loaded, counts, history>>

\* The entry is copied, or reading or writing it throws.
CopyEntry ==
  /\ pc = "unpack" /\ open # None
  /\ \/ /\ dir' = [dir EXCEPT ![pkg][open] = known[pkg]]
        /\ open' = None
        /\ UNCHANGED <<pc, todo, failures, flawed>>
     \/ Fail /\ GiveUp /\ UNCHANGED dir
  /\ UNCHANGED <<version, known, listFile, pkg, loaded, installs, updates, unpacked, saved, lost>>

FinishUnpack ==
  /\ pc = "unpack" /\ open = None /\ todo = {}
  /\ pc' = "load"
  /\ unpacked' = [unpacked EXCEPT ![pkg] = IF flawed THEN None ELSE known[pkg]]
  /\ UNCHANGED <<version, known, disk, pkg, todo, open, loaded, counts, flawed, saved, lost>>

-----------------------------------------------------------------------------
(* AppInfoUtils.saveString, called whether or not the installation worked *)

Return == pc' = "idle" /\ pkg' = None

\* loadStringList: no file and a file it cannot read are both an empty list.
LoadAs(list, unread) ==
  /\ pc = "load"
  /\ loaded' = list
  /\ lost' = (lost \/ unread)
  /\ IF pkg \in list THEN Return /\ saved' = saved \cup {pkg}
                     ELSE pc' = "truncate" /\ UNCHANGED <<pkg, saved>>
  /\ UNCHANGED <<version, known, disk, todo, open, installs, updates, unpacked, flawed>>

LoadNothing == LoadAs({}, FALSE) /\ UNCHANGED failures

LoadList ==
  \/ LoadAs(IF listFile \in {Torn, Absent} THEN {} ELSE listFile, FALSE) /\ UNCHANGED failures
  \/ Fail /\ LoadAs({}, TRUE)

\* openFileOutput empties the file.
TruncateList ==
  /\ pc = "truncate" /\ pc' = "write"
  /\ listFile' = Torn
  /\ UNCHANGED <<version, known, dir, pkg, todo, open, loaded, counts, history>>

\* writeObject; an exception is swallowed.
WriteList ==
  /\ pc = "write"
  /\ \/ /\ listFile' = loaded \cup {pkg}
        /\ saved' = saved \cup {pkg}
        /\ UNCHANGED <<failures, lost>>
     \/ Fail /\ lost' = TRUE /\ UNCHANGED <<listFile, saved>>
  /\ Return
  /\ UNCHANGED <<version, known, dir, todo, open, loaded, installs, updates, unpacked, flawed>>

-----------------------------------------------------------------------------
(* The system and the user *)

\* The system updates an app, at any time.
UpdateApp == \E p \in Packages, v \in Versions :
  /\ v # version[p]
  /\ updates < MaxUpdates /\ updates' = updates + 1
  /\ version' = [version EXCEPT ![p] = v]
  /\ UNCHANGED <<known, disk, control, installs, failures, history>>

\* AddAppActivity is shown anew: getAllNonSystemApps.
ShowApps ==
  /\ pc = "idle" /\ known # version
  /\ known' = version
  /\ UNCHANGED <<version, disk, control, counts, history>>

\* The process dies; AddAppActivity comes back with a new list.
Crash ==
  /\ Fail
  /\ pc' = "idle" /\ pkg' = None /\ todo' = {} /\ open' = None /\ loaded' = {}
  /\ known' = version
  /\ lost' = (lost \/ pc = "write")
  /\ UNCHANGED <<version, disk, installs, updates, unpacked, flawed, saved>>

\* Nobody clicks.
Idle == pc = "idle" /\ UNCHANGED vars

Next ==
  \/ \E p \in Packages : ClickInstall(p)
  \/ DeleteFile \/ OpenApk \/ OpenEntry \/ CopyEntry \/ FinishUnpack
  \/ LoadList \/ TruncateList \/ WriteList
  \/ UpdateApp \/ ShowApps \/ Crash \/ Idle

Spec == Init /\ [][Next]_vars

-----------------------------------------------------------------------------
(* What HomeActivity shows: getSavedAppInfos *)

Listed == IF listFile \in {Torn, Absent} THEN {} ELSE listFile

-----------------------------------------------------------------------------
(* Properties *)

\* Every variable has its type, and an entry's file is open only while unpacking.
TypeOK ==
  /\ version \in [Packages -> Versions] /\ known \in [Packages -> Versions]
  /\ dir \in [Packages -> [Entries -> Versions \cup {Torn, Absent}]]
  /\ listFile \in (SUBSET Packages) \cup {Torn, Absent}
  /\ pc \in {"idle", "delete", "unpack", "load", "truncate", "write"}
  /\ pkg \in Packages \cup {None} /\ (pc # "idle" => pkg \in Packages)
  /\ todo \subseteq Entries /\ (todo # {} => pc \in {"delete", "unpack"})
  /\ open \in Entries \cup {None} /\ (open # None => pc = "unpack")
  /\ loaded \subseteq Packages
  /\ installs \in 0..MaxInstalls /\ updates \in 0..MaxUpdates /\ failures \in 0..MaxFailures
  /\ unpacked \in [Packages -> Versions \cup {None}]
  /\ flawed \in BOOLEAN /\ saved \subseteq Packages /\ lost \in BOOLEAN

\* A package whose installation met no failure has in its directory the entries of
\* the APK it was unpacked from and nothing of an earlier version, until the next click.
InstallIsExact == \A p \in Packages :
  unpacked[p] # None => dir[p] = Exactly(unpacked[p])

\* A package once saved stays in the list while others are installed, unless a
\* save was cut short between openFileOutput and the end of writeObject, or the
\* list could not be read.
SavedStays == ~lost /\ pc # "write" => saved \subseteq Listed

=============================================================================
