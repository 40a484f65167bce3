# Vapp: specifications, model checking and proofs

Vapp runs Android apps ("plugins") inside its own process on Android 12: the
plugin is unpacked into Vapp's directory, its classes and resources are merged
into Vapp's, and its activities and services, which the system does not know,
are smuggled past the activity manager behind two proxy components that Vapp's
manifest declares. Everything of this is done with method hooks: the Java
bridge `CalvinBridge` over the native engine LSPlant.

This directory holds TLA+ modules that model that logic, TLC configurations that
check them on small instances, and TLAPS proofs of the properties for every
value of the constants. Paths below are relative to `src/app/src/main/`.

## 1. Inventory

| part | where | state | operations | status |
|---|---|---|---|---|
| hook bridge | `java/de/robv/android/xposed/CalvinBridge.java` | `hookRecords` and its monitor; `HookInfo.backup`, `.callbacks` | `hookMethod` and its loops over classes, `unhookMethod`, `invokeOriginalMethod`, `HookInfo.callback` | `CalvinBridge` |
| dispatch of one call | `HookInfo.callback`, `CA_MethodHook.MethodHookParam` | the param, two indices | before loop, backup, after loop | `HookCallback` |
| ordered callbacks | `CopyOnWriteSortedSet`, `callbacks/XCallback.java` | a volatile array | `add`, `remove`, `getSnapshot`, `compareTo` | `SortedCallbacks` |
| plugin start | `java/com/crack/vapp/core/handle.java`, `HookActivty.java`, `HookService.java`, `service/ProxyService.java` | callbacks on four methods, `HookService.map`, the main looper | `begin`; wrap and unwrap Intents | `PluginLaunch` |
| installation | `core/InstallApp.java`, `Utils/FileUtil.java`, `ui/MyAppAdapter.java` | the plugin's directory | delete, unpack | `AppStore` |
| list of plugins | `Utils/AppInfoUtils.java`, `ui/HomeActivity.java` | `string_list.dat` | load, save, show | `AppStore` |
| dex merging | `java/com/crack/vapp/Utils/AddDex.java` | `dexElements` of the app's class loader | `addDexs` | `PluginClasses` |
| native engine | `cpp/lspc/lsp/` (`lsplant.cc`, `common.hpp`, `art/`) | records of hooked methods and classes, saved entry points, JIT movements, trampoline pool | `Hook`, `UnHook`, `Deoptimize`, interceptors of ART | `LSPlant` |
| trampoline pool | `lsplant.cc`, `GenerateTrampolineFor` | one atomic word, a lock, pages | take a trampoline | `TrampolinePool` |
| debuggable guard | `lsplant.cc`, `JavaDebuggableGuard` | an atomic count, the runtime's state | construct, destroy | `DebuggableGuard` |
| generated hooker class | `lsplant.cc`, `BuildDex`; `lsp/external/dex_builder/` | the IR of a dex file, the image | declare, encode, write | `HookerMethod`, `DexImage` |
| inline hooks | `cpp/lspc/aliuhook.cpp`, `Dobby/` for arm64, `lsp/include/utils/hook_helper.hpp` | entries, arenas, patched code | `InlineHooker`, `InlineUnhooker` | `InlineHook` |
| symbol lookup | `cpp/lspc/elf_img.cpp` | section pointers of two images, the decompressed one | open, parse, decompress, look up | `ElfImg` |
| xz decoder | `cpp/lspc/xz/linux/lib/xz/` | stream and block state, range coder, dictionary | `xz_dec_run`, `xz_dec_lzma2_run` | `XzStream`, `XzLzma2` |
| resources, `BaseData` | `java/com/crack/vapp/Utils/AddPluginResources.java`, `BaseData.java` | two statics, the replaced `Resources` | `preloadResource`, `hookRec` | `PluginClasses` |
| manifest parsing, reflection, preloading of `.so` files, JNI utilities, other vendored code | `Utils/`, `axml/`, `cpp/lspc/*.cpp`, `Dobby` | none or static | - | not modelled, section 8 |

**Interaction.** `HomeActivity` shows the list that installation saved; a click
calls `handle.begin` on the main thread, which installs hooks through
`CalvinBridge.hookMethod`; `CalvinBridge` calls LSPlant (`hook0`), which patches the method
so that later calls, on any thread, enter `HookInfo.callback`; the callbacks run
there rewrite Intents on their way to the activity manager and on their way
back. Bridge and native engine share no lock: the bridge's monitor is the only
thing that keeps two `hook0` calls for the same method apart. `hook0` builds a
class for each hooked method, whose one method boxes the arguments and calls
`HookInfo.callback`; LSPlant itself patches ART through Dobby's inline hooks,
at addresses that `ElfImg` finds, some of them in a section of `libart.so` that
the xz decoder has to unpack first.

**What is hard here.** Hooked calls take no lock at all and run against hooks
and unhooks in progress; `hookMethod` adds the callback after it has left the
monitor; a record is patched into the runtime before its fields are set;
callbacks throw, and the dispatcher has to undo what they did; comparisons
overflow or are not antisymmetric; `begin` may run again and stacks its
callbacks; services share one slot for all Intents; the activity manager
outlives the process and brings back what earlier ones showed; almost every
exception of the app's own code is swallowed. Below Java: a reference into a
concurrent map is used after the map's lock is released; trampolines and guards are counted without a lock;
instructions that are relative to their address are moved while threads run
them; the decoder reads with a margin instead of a test per byte and may be
called with any piece of its input; numbers that generated code contains change
when the file is sorted. `PROJECT.json` lists these hazards with their lines and the
properties that cover them.

**What makes each part correct.**

- Bridge: map and runtime agree; patches alternate; a callback runs from the
  end of `hookMethod` to the end of `unhookMethod` and not after.
- Dispatch: callbacks wrap the original like layers; a callback that throws
  leaves no trace; the original runs at most once.
- Ordered callbacks: descending priority, no duplicates, stable.
- Plugin start: the component created is the one that was asked for, and its
  class can be loaded and is its own.
- Installation: a directory holds one APK's entries, and what is listed is
  there.
- Native engine: the two keys of a pair and the list of the class agree; a
  hooked method enters its trampoline and its backup runs the original, whatever
  entry points ART writes meanwhile; a deoptimized method stays interpreted. No
  trampoline is handed out twice; the runtime is debuggable while a guard holds
  and no longer.
- Generated class: it verifies, the arguments arrive, the caller sees what the
  callbacks decided in the method's own type; the image is the class that was
  declared.
- Inline hooks: a function keeps its effects, its replacement runs exactly when
  it is hooked, and no code is lost or overwritten.
- Symbols: only sound files are accepted, to the byte, and a name is found with
  the strings and the base of its own image.
- Decoder: no access out of bounds, every call returns, a sound block comes out
  whole.

## 2. Modules

Each component is a module with its constants and their named assumptions,
`Init`, one action per step, `Next`, `Spec` and its properties. `MC*` modules
only declare the model values of the configurations. `*Proofs` modules hold the
theorems.

### CalvinBridge

Threads call the bridge; `pc`, `mth`, `cb`, `rec`, `pending` and `snap` are a
thread's position and the locals of the Java frame (`method`, `callback`,
`hookRecord`, the rest of the `getDeclaredMethods` loop, `hooks`). One action is one access to
shared state, so that everything the lock does not exclude can interleave:

| action | code |
|---|---|
| `StartHook` | `hookMethod`, `hookAllMethods`, `hookAllConstructors`, `hookClassAllMethods` with `checkMethod` |
| `HookEnter`, `Hook0`, `Hook0Fails`, `SetBackup`, `PutRecord`, `HookExit` | l. 130-139, inside `synchronized (hookRecords)` |
| `AddCallback` | l. 141, outside; then the return or the loop's next member |
| `StartUnhook`, `UnhookEnter`, `RemoveCallback`, `CheckSize`, `RemoveRecord`, `Unhook0`, `UnhookExit` | `unhookMethod`, l. 190-201 |
| `StartCall`, `EnterMethod`, `TakeSnapshot`, `RunBefore`, `InvokeBackup`, `RunAfter` | a call of the method and `HookInfo.callback` |
| `StartInvokeOriginal` | `invokeOriginalMethod`, with its unsynchronized `HashMap.get` |

`entry` is the method's entry point in the runtime, which `hook0`/`unhook0`
(LSPlant, all threads suspended, hence one step) change. `hook0` may fail
whenever it is called. The `get` outside the monitor may miss an entry while
another thread is in `put`. History variables remember which hooks have
returned, which callbacks were unhooked before a call began, and which threads
an unhook has overtaken; no guard reads them.

`HookRegistry` is the promise: `hooks`, a set of pairs of a method and a
callback that `Hook` and `Unhook` change in one step, and `retiring`, the methods
that an unhook has found without callbacks (`Empty`) and gives up (`Retire`) with
whatever was hooked into them meanwhile. `CalvinBridge` implements it
(`ImplementsRegistry`) with `hooks` mapped to what calls are dispatched to
(`Dispatched`) and `retiring` to the methods between l. 195 and 197 (`Retiring`).

`removeCallback` and `add` are synchronized on the set and so one step each; the
order inside the set is the business of `SortedCallbacks`, and what callbacks do
to the call is the business of `HookCallback`.

### HookCallback

One call with `hookCount` callbacks. What each `beforeHookedMethod` and
`afterHookedMethod` does (the last setter it calls, and whether it throws
afterwards) and how the original ends is chosen in `Init`. The actions are the
turns of the two loops with the code's indices; `BeforeTurn` and `AfterTurn`
take what the catch blocks restore as a parameter. `IsOnion` is the reference
definition: callback *i* around the ending of the callbacks inside it.

### HookerMethod

Extends `HookCallback` by what is around it. `BuildDex(m)` is the sequence of
instructions for a signature, with the fields `MethodBuilder` cuts registers to;
`Slots` and `Packing` (the code for the first *i* arguments) are recursive functions.
`Execute`, `RunCallback`, `CallbackEnds`, `CheckCast`, `Unbox` and `Return` are
the runtime's meaning of them. `Accepted` is what ART's verifier demands of an
instruction. A register has a type, the value it is of and which half. Fields of
four and eight bits are scaled to `ShortSpan` 4 and `FieldSpan` 8.

### DexImage

Extends `HookerMethod` by the file the instructions are written into.
`BuildCalls` is what `BuildDex` asks of `DexBuilder`, one request a step
(`Build`); `Normalize` sorts one kind of node a step (strings, types, protos,
fields, methods, the class); then `InitIndexes`, the four data sections,
`CreateMapSection` and `Fill` follow `Writer::CreateImage`. Sections have the sizes
and alignments of the format, strings count a name as one character, and the
order of characters (`rank`) is arbitrary because `Alphabets` has several.
The reader (`ItemAt` to `LoadedClass`) is the runtime and outside the code.

### SortedCallbacks

`add` and `remove` of `CopyOnWriteSortedSet`, with `Arrays.sort` as what it is
for fewer than 32 objects: the initial run, then binary insertion. The result
matters because `compareTo` is not a total order: it subtracts in the int type
(`Wrap`, 2^32 scaled to `2 * HalfRange`) and answers 1 in both directions for
equal identity hash codes.

### PluginLaunch

An Intent is its target and how often it is wrapped. `begin` is a sequence of
actions on the main thread, whose `looper` processes nothing meanwhile, while
plugin threads already start components. `execHooks`, `launchHooks`,
`startHooks` and `createHooks` count the callbacks each `begin` adds to
`execStartActivity`, `performLaunchActivity`, `startService` and
`handleCreateService`; a hooked call runs them all. The callbacks of a
`startService` run one by one (`WrapService`), because other threads overwrite
`map["ori"]` in between; `writer` is the history of whose Intent it holds.

The activity manager is outside the code. It keeps the Intent of every activity
this process was asked for (`records`) and of those earlier processes left
(`older`), whether the proxy service has been started, and whether it is to be
started again (`owed`). `Crash` is the death of the process, which loses any part
of that; `Relaunch` and `RestartService` bring one of them back at any time, before,
during or after later begins. `fresh` tells what this process asked for itself.

### PluginClasses

Extends `PluginLaunch` by what several plugins share: the statics
(`packageInfo`, `assetManager`, `preloaded`, `recHooks`, `applicationInfo`) and
the class path (`dexElements`, `loaded`). Its actions are those of
`PluginLaunch` with what else they do: `BeginPlugin` sets
`BaseData.packageInfo`; `CreateAssets`, `AddAssetPath` and `HookRec` are
`preloadResource` and `hookRec` with the failures they swallow (a constructor that
throws leaves the last plugin's `AssetManager` in the static); `AddPluginDexs`
prepends; `LaunchComponent` and `CreateComponent` resolve the
class and take application info and resources as they are at that time; where no
class is found nobody catches the exception (`Dying`), and only `CrashAll` is left,
which forgets everything. The class loader searches in order and keeps what
it has loaded (`order`, `loadedAfter` are histories).

### AppStore

A click deletes the files of the plugin's directory one by one
(`file.delete()` may fail unnoticed), opens the APK at the path known when
`AddAppActivity` was shown, copies entry after entry, then loads the list,
truncates it and writes it. Every file operation may fail or be the last one
before the process dies. `version`, `UpdateApp` and `known` model an update of
the app that moves its APK.

### LSPlant

`entry` is the entry point of every ArtMethod, a target or the backup a hook
built for it; a trampoline is named by its backup. Three kinds of actors write
it:

| actor | actions | code |
|---|---|---|
| the thread in `CalvinBridge`'s monitor (`hookPC`, `target`, `backup`) | `Hook`, `HookFails`, `DoHook`, `RecordClass`, `RecordTarget`, `RecordBackup`, `RecordDeoptimizedClass`, `EmplaceDeoptimized`, `RecordDeoptimizedMethod`; `UnHook`, `EraseBackup`, `EraseClass`, `DoUnHook` | `Hook`, `UnHook` of `lsplant.cc`, `RecordHooked` and `RecordDeoptimized` of `common.hpp` |
| any thread: `pc`, `mth`, `art` | `Deoptimize`, `EmplaceMethod`, `RecordDeoptimized`, `FindBackup`, `SetInterpreter` | `Deoptimize` of `lsplant.cc` |
| a thread that initialises a class: `pc`, `cls`, `todo` | `SetStatus`, `Fixup`, `PopBackup`, `RestoreBackup` | `BackupClassMethods` in `class.hpp`, ART's own write, `RestoreBackup` in `class_linker.hpp` |
| ART's instrumentation | `UpdateCode` | the stubs of `instrumentation.hpp`, for a debuggable runtime |

`DoHook` and `DoUnHook` run with all threads suspended and are one step each.
Every access to a record is a step of its own, because each map has its own
locks, one per shard. `deoptimized_classes_[c].emplace(a)` (`common.hpp:167`) is two:
`Subscript` is `operator[]`, under the lock, and `Emplace` works on the set
through the reference after it is released. Emplacers that hold a reference to one
set at once, or whose set may have been moved by a new key, are `exposed`: their
`Emplace` may leave any part of what belongs there. An initialisation that iterates over
a set while somebody is about to emplace may miss any part of it (`SetStatus`). Both put
the methods concerned into `lost`, a history that no guard but the bound `Racing` reads.
A crash, which is the other thing such a race may do, ends the program and is left out.
One turn of `RestoreBackup`'s loop is
one step; the variant of `PopBackup` that asks for a thread finds the same
entries as the one that asks for a class. `IsHooked` is as coded: with
`includingBackup` false it answers the partner for backups too. `IsBackup`
always answers null, and nothing in the model asks it.

Nothing in the engine keeps an initialisation, `Deoptimize` or the
instrumentation away from a hook of the same method that is in progress.
`overlap` is the history of the methods on which this happened, and
`Quiet(m)` holds where it never did and nothing is at work on `m`; the last
three properties are stated for quiet methods, and two of them for those of which
no race has lost a record (`HookedIsPatched` does not need that). `Overlapping` and
`Racing` bound which methods may be overlapped or lost at all.

### TrampolinePool

`GenerateTrampolineFor`, one atomic access a step: `FetchAdd`; for the threads
that find the page exhausted `TestAndSet` of the lock, `Wait` until the word
changes, or `Map` or `MapFails`, `Store` and `Clear`; `Write` of the code. The word is
address and count in one integer, so that a count that overflows into the
address is seen. It does overflow after enough failed `mmap` calls:
`carried` is the history of that, and `TrampolinesDistinct` says nothing
afterwards (without the condition TLC finds it violated).

### DebuggableGuard

The constructor and the destructor of `JavaDebuggableGuard`, which are mirror
images and share their actions by `dir`: `ExchangeFirst` and `ExchangeExpected`
are the two compare-and-exchange operations, `SetJavaDebuggable`, `Publish`,
`NotifyAll` what the first or last guard does, `WaitWhileOne` the wait of the others.
A thread may be woken without reason.

### InlineHook

Code is words of four bytes: an instruction and its argument. `InlineHooker` and
`InlineUnhooker` do what `DobbyHook` and `DobbyDestroy` do before code is
written, `UnprotectFails` is their refusal, `PatchWord` writes one word of a
trampoline or of the original, and `Commit` stores the result in the caller's
variable, all interleaved with `Call`, `Execute` and `Replace` of a thread that runs the
functions. `Relocate` covers each kind of instruction that is relative to its
address (`b`, `bl`, `b.cond`, `cbz`, `ldr` of a literal, `adr`, `adrp`). A literal of
four bytes, or one for a SIMD register (`ldrw`), is loaded by an instruction of its own
in the code and by the eight-byte `ldr` of a general register in a block, as the assembler emits
it (`assembler-arm64.h:378-380`): the two loads have different effects, and a call
that comes to such a load in a block (`AtWidened`, told by the instructions the block
was made of) is followed no further. `LDRSW` and 128-bit literals abort the hook
(`UNIMPLEMENTED`) and are not modelled. Scales:
`Page` 16 addresses, an adrp reaches 4 pages, a constant loaded in several
instructions is one word, the data of a label two. What is assumed of hooked
functions is `ImagesAssumption`: no use of the register that Dobby takes for itself
(`Scratch`) and nothing that leads into the words that are patched (`Hookable`), code and
replacements below the arenas, replacements outside the code and one for each function,
and that the functions return when nobody hooks them, within `Fuel` steps (`Run`).

### XzLzma2, Lzma2Format, Decompressor

`XzLzma2` is `xz_dec_lzma2_run` in multi-call mode: `Decode` is one turn of its
loop with the dictionary (`dict_*`), the copying of uncompressed chunks and
`lzma2_lzma`, which switches between the caller's input and the 63 bytes it keeps
between calls. The range coder is the bytes it consumes: a symbol costs at most
`LZMA_IN_REQUIRED - 1` of them (21 scaled to 3), one of which may have been read
ahead; what is decoded is the encoder's as long as the bytes read are, and
`Noise` afterwards. Scales: five initial bytes 2; control bytes 0 to 3 as they are
and 4 to 7 for 0x80, 0xA0, 0xC0 and 0xE0; sizes modulo `Radix` 8.
`Lzma2Format` is the encoder's side: bytes and content of a block, over a history that is
never cut into a ring. `Decompressor` is the promise of the function to its
caller; `XzLzma2` implements it under the mapping at its end.

### XzStream, XzFormat

`xz_dec_run` over `Decompressor`: the stream header, block headers, blocks,
padding, checks, Index and footer, state by state, with a byte a step where the
code may run out of input. `XzFormat` says what a file is. Bytes are tuples that
tell which field they are of; integers have three digits of base 4; padding goes to
2 bytes; checks are equality of what they are computed of.

### ElfImg

Extends `XzStream`: `Open` and `parse` over the sections in any order, `xzdecompress`
with its window and growing buffer, and `GetSymbolOffset` with the strings,
symbols and bias of either image, for a name or for a prefix. A lookup by prefix is what
`aliuhook.cpp:160-161` gives LSPlant, whose `Dlsym` (`hook_helper.hpp:80-87`) tries the
exact name first, and what `hidden_api.cpp:18-22` asks for; it ends at the first dynamic
symbol that begins with the name, before the symbol table is looked at. `OpenFails` is
a file that does not open, `MapFails` one that cannot be mapped, which nobody tests.
`iSkip`, a `uint8_t`, counts modulo `SkipRadix` 3. That a name begins with another
is the constant `Begins`.

## 3. Runs

| run | question | bounds | states | result |
|---|---|---|---|---|
| `calvin_threads` | safety of the bridge under all interleavings; does it keep the registry's promise? | 3 threads, 1 method, 2 callbacks, 6 operations, 6 records, symmetric threads and callbacks | 155 000 | holds |
| `calvin_ops` | class-wide hooks with failing `hook0`; termination | 2 threads, 3 methods (1 abstract), 1 callback, 4 operations | 353 000 | holds |
| `calvin_lost` | does `hookMethod` take effect when it returns? | 2 threads, 4 operations | - | violated |
| `hook_callback` | do the loops compute the nested definition, does the caller see it through the generated method, is the generated file the class, and is the set of callbacks ordered and stable? | 2 callbacks with every behaviour (1 for long signatures), 9 signatures, 5 names, 3 orders of characters; a set of 4 callbacks, 3 priorities that do not overflow, 3 hash codes | 1.5 million | holds |
| `plugin_launch` | is what is created what was asked for, and made of what? | 2 packages with classes of one name, 2 threads, 3 activities, 2 services (1 implicit), 2 begins, 2 starts, 1 death, any activity brought back | 1.9 million | holds |
| `plugin_implicit` | are services started by implicit Intents created? | 1 thread, 1 service, 1 start | - | violated |
| `plugin_isolation` | is a component made of its own plugin's class? | 2 begins | - | violated |
| `app_store` | are directories exact and saved plugins kept? | 2 packages, 2 versions, 3 entries, 3 clicks, 1 update, 2 failures | 275 000 | holds |
| `lsplant` | do hooks, unhooks and deoptimization survive what ART writes and the races in the records? | 2 methods (1 static) of 1 class, 2 threads; of hooks, and methods that are overlapped or lost, 2 in all; overlap on the instance method | 2.5 million | holds |
| `native` | is no trampoline taken twice, is the debuggable state held, do patched functions do what they did, do calls end? | 3 threads; 5 calls, 4 pages of 2 trampolines; 5 guards; 2 images of 2 functions, near and far replacements, 4 hooks and unhooks, 2 calls | 479 000 | holds |
| `xz_lzma2` | does the decoder stay in its buffers, return, and keep its promise? | sound and broken blocks of every kind of chunk, input in pieces of 0 to 2 bytes, room of 0, 1 or 4 | 70 000 | holds |
| `xz_stream` | are exactly the files accepted, and symbols found? | files of up to 2 blocks, three of them cut at five lengths (nothing, inside the header, at a block, before the footer, one byte short), three damaged at every byte, offered in pieces or at once; sections in every order; names and prefixes | 508 000 | holds |

`MCHookerMethod`, `MCNative` and `MCElfImg` check systems that share no
state in one run; a variable says which of them a behaviour is of.

**Why the bounds are enough.** Three threads let a hook, an unhook and a call
of the same method overlap, which is the largest conflict the monitor and the
unlocked parts of the bridge allow; six operations let a method be hooked,
unhooked and hooked again while an old call is still under way, with two
callbacks so that a record survives the removal of one of them. Records are
never short (`MaxRecords >= MaxOps`, and with several methods `>=` what the
operations can create). Two callbacks are one that a catch block resets and one
that comes after it, in both phases; every number of callbacks is covered by the
proof. Four callbacks are the least for which binary insertion compares with
something other than a neighbour. Two begins are the least at which callbacks
stack, and at which an activity can come back after the begin of another plugin;
a death needs one more begin to be followed by anything; and two
starts put one Intent into the slot before, between and after the steps of the other.
Three clicks reinstall one package around another. Two backups let a method be
hooked, unhooked and hooked again, or both methods be hooked at once; two threads
let a class and the generated class of a backup be initialised while the other
thread deoptimizes, and the static method is the only kind that an
initialisation touches. Two threads deoptimize the two methods of the one class while
the hook's backup goes to a set of its own, which their sets may make it move; beside
one hook, one method may be overlapped or lose a record, and without hooks both (`Within`).
With `Overlapping` the static method's behaviours stay free of overlap while the
instance method's have any, which `RegistryPaired` covers as well. The exclusion is
needed: with `m \notin overlap` left out of `Quiet`, TLC finds each of the three properties violated within 11
steps, for instance by a `Deoptimize` that looks for the backup before the hook
records it and writes the target's entry point after. So is `m \notin lost`, by which
`BackupRunsOriginal` and `DeoptimizedInterprets` leave out methods whose record was
lost to the race in `common.hpp`: without it TLC finds the first violated after 12 steps
and the second after 10. The properties say nothing about time or about more than two failures at once.

Nine signatures have a parameter before, on and behind the last register that
each field can name, a long or double across it, and every kind of result. Five names
sort before and after those that `BuildDex` declares, equal one of them, or equal a
shorty. Rooms of 0, 1 and 4 stop a match in the middle, at its end and not at all,
pieces of at most two bytes cut each symbol and each header; blocks of seven symbols
go around a ring of 2, 3 and 4. Four pages let a page be used up while two
threads wait, mapping fail once, and the count carry. Five guards let a guard come while
the last one goes, twice. Four hooks and unhooks hook a function, unhook it and hook
it again while a call is in its relocated instructions.

`hook_callback`, `xz_lzma2`, `xz_stream` and `native` run without deadlock checking:
their calls and files end. The other systems may stop only where nobody starts anything,
which is an explicit step (`Done`, `Idle`).

**Fairness.** A thread that is able to continue does: weak fairness of

- each thread's `Step` in `calvin_ops`; waiting for the monitor is not being able
  to. Starting an operation is never fair. Weak fairness suffices although
  Java monitors promise no fair hand-over, because the number of operations is
  bounded (`MaxOps`): a waiting thread cannot be overtaken for ever. What
  `OperationsEnd` rules out is a thread that leaves with the monitor held, or waits
  for one that waits for it.
- `Decode` in `xz_lzma2`: one thread runs it, and calls of the caller need not come.
- the whole next-state relation in `xz_stream`: both callers loop while the answer
  is `XZ_OK`, as `xzdecompress` does (`elf_img.cpp:180`).
- each thread's step in `native`, in the pool and in the guards; taking a
  trampoline or constructing a guard need not happen, and nothing is assumed of hooks.

## 4. Findings and observations

`calvin_lost` - *a hook can be lost.* Thread 1 finds the record of the method
and leaves the monitor; thread 2 removes the last callback, finds the set
empty, drops the record and unpatches the method; thread 1 adds its callback
to the dropped record (`CalvinBridge.java:141`) and returns normally.
`LostOnlyWhenOvertaken`, which is checked and proved, says that this is the
only way.

`plugin_implicit` - *implicit Intents do not reach a plugin's service.* The name of
the class is taken from the original Intent's component, which is null: the callback
of `handleCreateService` throws, the dispatcher goes on, and `ProxyService` is created
(`HookService.java:55`). `README.md:12` of the repository offers explicit and implicit
Intents. The first service asked for is enough.

`plugin_isolation` - *plugins share one name space of classes.* All dex files go in
front of the one class path (`AddDex.java:127`), so that of two classes of one name the
last plugin's is found, or the one that was loaded before; `README.md:21` promises that
conflicts are prevented. `ClassIsOwn` says that this is the only way to another's class.

What follows was met while modelling. It is part of the models, as a condition of
a property or an assumption, or it explains one. The first four contradict a comment or
the repository's README as well; each is a condition of a checked property, which is
violated without it.

- One start of a service can replace another's. There is one slot for the Intents of all
  calls (`HookService.java:34`): which service is created is decided by the last call whose
  callback ran before `handleCreateService` (against `README.md:12`). After a second begin,
  the second callback of `startService` takes the first one's proxy Intent for the
  original, and `ProxyService` is created, of which `ProxyService.java:19` says that it
  never runs. `ServiceIsRequested` says what holds beside these: the service created is that
  of the call which made the system create it, unless another call wrote the slot meanwhile,
  and `ProxyService` exactly for implicit and for doubly wrapped Intents.
- An activity can come back to a process without its classes. The activity manager keeps
  every wrapped Intent; after the death of the process and the begin of another plugin the
  hook unwraps an older one (`HookActivty.java:50`), and nobody catches the exception for
  the class (against `README.md:11`). `ClassIsOwn` says that only what an earlier process
  left can do so.
- A record of a deoptimized method can be lost. The second half of
  `deoptimized_classes_[class_def].emplace(...)` (`common.hpp:167`) runs after the lock of
  the map's shard is released. Two threads that add to one set, or one that adds while the
  map moves its sets, race; the model loses any of the records that take part. If it is the
  record of a backup, the next initialisation writes its entry point, which the comment at
  `lsplant.cc:772-773` means to prevent. `BackupRunsOriginal` and `DeoptimizedInterprets` leave
  out the methods of lost records.
- A relocated 32-bit literal load loads 64 bits. `Assembler::ldr` encodes the 64-bit form
  whatever register it gets (`InstructionRelocationARM64.cc:203-206`,
  `assembler-arm64.h:378-380`); the upper half of the register is what lies behind the literal,
  and a SIMD register is not loaded at all. The backup is then not quite the function that
  was hooked. `EffectsKept` is stated of calls up to such a load.
- A call between `hook0` (`CalvinBridge.java:134`) and the assignment of `backup`
  (l. 136) meets an empty snapshot and a null backup; the comment at l. 372 takes
  that branch for unreachable. With callbacks in the snapshot it cannot happen
  (`CallbacksHaveBackup`, proved).
- `other.priority - this.priority` (`XCallback.java:64`) wraps when two priorities
  are 2^31 or more apart; the comments at l. 21 and 25-26 offer the whole range.
- `installApp` swallows exceptions (`InstallApp.java:17`), and `MyAppAdapter.java:47-48`
  reports completion and saves the package.
- `onStartCommand` of a plugin's service gets the proxy's Intent
  (`HookService.java:38`); `HomeActivity` gets the plugin's application info after a
  begin; `AddPluginResources.java:55-62` has the host's resource path commented out,
  against its comment; preloaded `.so` files run `JNI_OnLoad` before the plugin's
  classes can be found (`handle.java:39` against 56).
- A method with 255 parameter slots cannot be hooked by the generated code: its last
  parameter is out of reach of eight bits (`dex_builder.h:698-738`); `Addressable`
  excludes it.
- A hooked method that is called `backup` shares its declaration with the generated
  backup (`lsplant.cc:434`). With `SLICER_CHECK` this ends the program
  (`writer.cc:1035`), in release builds the class has two methods of one number.
  `DexIsClass` allows both for this name only.
- `GetOrAddField` looks fields up without their type (`dex_builder.cc:287`); the one
  field of the generated class is not affected.
- The counter of the trampoline pool runs into the address after repeated failures
  of `mmap` (`lsplant.cc:534`). `Hook` calls it with all threads suspended, so that
  concurrency is the function's own claim.
- The comment "We never transition out of this state" (`runtime.hpp:38-40`) is not true
  of the state that the guard sets and resets.
- The test for the ELF magic joins its four comparisons by `&&`: only an image wrong in
  all four bytes is refused. A `.symtab` of the file itself would be read
  with the strings of the decompressed image if both existed. `iSkip` wraps after 256
  windows (`elf_img.cpp:178`): `ImageExact` excludes such images. The results of
  allocations and of `mmap` are not tested there: a file of no bytes ends the program.
- Names of ART's own functions that are not found are looked up as prefixes
  (`aliuhook.cpp:160-161`). A prefix in `.dynsym` then ends the search before `.symtab` is looked at, and among several the
  first in the table; `SymbolsFound` says so.
- The comment "pos <= limit <= end always" (`xz_dec_lzma2.c:31-32`) is not true after
  uncompressed chunks; `DictionaryInBounds` says what is.
- Dobby: the near test lets a target exactly 2^20 pages away wrap in the signed 21 bits
  of `adrp`; `b.al` is inverted to `b.nv`, which always branches around; `x17` is
  clobbered; branches into patched words, literals there and functions shorter than the
  trampoline are not noticed (`Hookable`). `LDRSW` and 128-bit literals are
  not implemented. A patch that ends exactly at the end of a page has the next page as
  its last (`code-patch-tool-posix.cc:14`), and permissions are "restored" to RX
  whatever they were (25-29).
- `Unprotect` always takes two pages (`aliuhook.cpp:41`): an unmapped next page
  refuses the hook. Hooking a hooked function answers null, which
  would overwrite the caller's backup; LSPlant hooks each function once and never
  unhooks one. `HookSym` answers true whatever the hooker did.

## 5. Proofs

All theorems are of the form `Spec => []P`, proved from an inductive invariant,
for every set of threads, methods, callbacks, components,
packages and entries and every bound (the users of the guards are finitely many,
because a count counts them). The assumptions are those named in the
modules: bounds are natural numbers, `None` and the other special values are
distinct from the data, abstract methods are methods, every APK has a manifest,
signatures are made of the types of a shorty, the narrow field of an instruction
divides the wide one, what `ImagesAssumption` says of code that is hooked. `SortedCallbacksProofs` has one hypothesis more,
`NearPriorities`: no two priorities lie as far apart as the int type wraps, which is
what the property itself asks of the callbacks (section 4).

- `CalvinBridgeProofs`. `TypeOK` with the local variables (`LocalsOK`), the
  monitor held exactly by the thread in the critical section (`MonitorHeld`),
  what that thread knows at each position (`HolderView`: e.g. at `put` the
  method is patched with its record and not registered), agreement of map and
  runtime everywhere else (`Agreement`), records used for one method only
  (`RecordsDistinct`), and a backup in every record that has callbacks or is
  registered (`BackupAssigned`). `HolderView` is needed because
  `RegistryAgreesWithArt` says nothing while the monitor is held, which is when
  it is broken and repaired. From it: `RegistryAgreesWithArt`,
  `PatchesAlternate`, `CallbacksHaveBackup`, `EmptyRecordIsTransient`.
- The same module shows that the bridge keeps the promise of `HookRegistry`:
  `RegistryRefinement` maps each step to one of the registry or to a stutter, under
  `Agreement` and `RecordsDistinct`.
- A second invariant there adds who is on the way into which record: an unhooked
  callback is in no record that is or may again become reachable
  (`UnhookedClean`, `FreshRecord`, `RecordOwned`), nor in the record a call under
  way entered (`BannedClean`); a thread about to add holds the current record
  unless overtaken (`AddsCurrent`). From it: `UnhookedNeverRuns` and
  `LostOnlyWhenOvertaken`.
- `HookCallbackProofs`, first part, relates the param to the layers already applied:
  in the first loop it is new, or set by the last callback run; in the second it is
  the onion of the callbacks from `afterIdx + 1` on. `OnionExists` shows that the
  nested definition defines something for every number of callbacks.
- Its second part is about `HookerMethod`, for every signature. The lemmas come first:
  what the recursive `Slots` and `Packing` say (`SlotsAre`, `PackingAre`), where each
  instruction of the generated method is (`Layout`), that the registers of the parameters
  lie apart and behind those of the code (`PlacesApart`, `EnteredIs`), and what a step
  does by the instruction it executes (`DoesConst` and so on). Then two invariants. `CallInv`
  says where the method is while the dispatch has not begun, and behind it what has become
  of its result (`Carried`: uncast, cast, unboxed, moved); `EveryCallerSeesOnion` needs
  nothing of the registers before the call. `ReadyInv`, where the registers can be named
  (`Addressable`), adds what they hold before each instruction (`Stage`): the parameters
  not yet packed as the caller passed them, both halves of each, and the array filled
  up to the one in work. `CodeVerifies` and `ArgumentsArrive` follow. Neither is
  inductive: that `aput` finds an object depends on the two instructions before it and
  on no earlier one having touched the register.
- `PluginLaunchProofs`. `HooksPaired` (between begins as many callbacks unwrap
  as wrap, unless an exception was swallowed), `MessagesOK` (a fresh message is wrapped no
  deeper than the callbacks present now), `RecordsOK` (what the activity manager keeps names an
  activity), `CallsOK` and `SlotOK` (what a call has wrapped and has yet to wrap are no more
  than the callbacks there are, and the slot's Intent lacks one at least), `RunningOK`, and
  `WriterOK`: the call that wrote the slot last has wrapped its Intent once more since, and
  the request with which `ProxyService` is created is that call's, until another one
  writes. From it: `ActivityIsTarget`, `ServiceIsRequested`.
  The invariant of `PluginClasses` (`SharedInv`) adds how far each `begin` is, as the
  statics show it; that the class path is the plugins' dex files, the last first, and then
  the host's; that a class was loaded from where it was first found then (`LoadedFrom`);
  that every start under way is of a plugin whose dex files are there, except the activities
  that the system brings back for an earlier process (`StartsPresent`); and that the class
  of the last component was loaded if its plugin had been begun (`UsedLoaded`). That every step is one of
  `PluginLaunch`'s is a lemma. From it: `OnePluginBehind`, `ClassIsOwn`.
- `LSPlantProofs`. The pair in progress as far as it has been recorded or erased
  (`PairInProgress`), and all others recorded completely or not at all
  (`TargetsPaired`, `BackupsPaired`), for overlapping operations too. From it:
  `RegistryPaired`.
- The invariant for quiet methods there (`QuietInv`) has two more parts. `Structure` is
  about all methods: no two threads initialise a class, what one has saved is a target's
  entry, the lists of a class name its methods, the pairs of a target and a backup
  never mix (`Families`), and what has been deoptimized is recorded, or about to be, or
  lost (`DeoptRecorded`; `Shielded` says the same of a backup).
  `Entries` is about those that no other actor has overlapped: for each position of the hook
  and of the thread that initialises the class, what the entry points of target and backup
  are, whether the target's was saved (`Kept`) or displaced and is about to be put back, and
  who is on the way to set it to the interpreter (`Working`). Without it, a hooked
  method's entry says nothing about the step that restores it. From it: `HookedIsPatched`,
  `BackupRunsOriginal`, `DeoptimizedInterprets`.
- `SortedCallbacksProofs`. Between calls the array descends in priority, ascends in
  identity hash where priorities are equal, and has no element twice; so when `add`
  sorts, the initial run leaves out at most the element appended, and binary insertion
  puts it at the one place where the order goes on (`Place`, a least element). From it:
  `PriorityOrder` and `NeverReordered`. The recursive functions are unfolded by giving
  a function that satisfies their equation.
- `AppStoreProofs`. What has been deleted, unpacked and written so far
  (`DeletedSoFar`, `UnpackedSoFar`, `SaveSoFar`).

- `NativeProofs`, the pool. Which page the word names and which of its trampolines are
  below the count, that only the holder of the lock maps and stores, and that each
  trampoline in `slot` is below the count of its page. From it: `TrampolinesDistinct`.
  For the guards the system is in one of three states: `Idle`, count 0 and
  nobody holding; `Working`, count 1 and exactly one thread at the change; `Held`,
  count one more than the holders. `SecondExpects` says what a failed first exchange
  may have read. From it: `HeldIsDebuggable`.
- `NativeProofs`, inline hooks. Each block lies in an arena, below its cursor and above all
  arenas before it, and has its words (`BlocksKept`); entries hold the instructions that
  were loaded (`EntriesSaved`); a patch under way writes a trampoline over those or those
  over a trampoline (`PatchUnderWay`); and each word under a trampoline is what the patch
  has written of it, or else what the entry says (`Shown`). `CodeIsPatched` alone is not
  inductive: it is silent while a patch is half done, and knows neither what an unhook
  will write nor where the next block goes. That relocation gives finitely many words,
  whatever the instructions, is `RelocatedCode`; a trampoline fits because nothing
  leads into the words under it, so that no two overlap (`SpansApart`). From it:
  `CodeIsPatched`. `Underway` follows a call through the trampoline, word by word;
  `AdrpAdd` is the arithmetic of pages: `adrp` and `add` compute the target, less
  than `Reach` pages away.
- `NativeProofs`, calls. Next to a call goes one of the same function in the code that was
  loaded (`Comes`), and `Followed` says where the two are: they have the same effects and
  flag, their return addresses correspond one by one (`Alike`), and the thread is at the
  other's instruction, or at what that was relocated to (`Elsewhere`), or in the jump that
  ends a block (`Leaving`), or between the two words that stand for one call or load
  (`Halfway`), or on its way through a trampoline (`Entering`). What relocation makes of an
  instruction is `Does`; where its first word is, `First`. `BlockStep`, `HalfwayStep` and
  the lemmas beside them show that a step of the thread either changes the position only or
  is a step of the other too (`Match`). `Backups` adds that every backup is a block of its
  function. Effects alone are not inductive: they say nothing about what a thread in the
  middle of a block will do next. A call is followed up to a load that relocation has widened;
  for that, each block keeps the instructions it was made of (`origin`). From it:
  `EffectsKept`. For `HookedEnters` two more parts are needed, one for each answer: `Expecting`, by which a call of a hooked function that no
  hook overlaps is in the trampoline until it enters, and `Unhooked`, by which a call of a
  function that is not hooked does not get to its replacement, since only the trampoline
  of a function leads there.
- `XzLzma2Proofs`. `IInv` has four parts: `Typed`; `Sequencing`, which states of the
  loop go with which returns; `Kept`, what `temp` holds between calls and how far
  `rc` may read, at most one symbol behind its limit, which is why the margin of
  `LZMA_IN_REQUIRED` suffices; and `Ring`, that `full` is `pos` until the dictionary
  has wrapped and `end` from then on. `MemoryInBounds` alone is not inductive: nothing
  in it bounds `in_limit`. From it: `InputSafety`, `DictionarySafety`,
  `MemorySafety`, `TypeCorrect`. The contents of `dict.buf` and `out` are not typed:
  `dict_repeat` is a recursive function.

Proved, though no run checks them any more: `TypeOK` of `CalvinBridge`, `HookCallback`,
`PluginLaunch`, `AppStore`, `LSPlant` and `XzLzma2`, `EmptyRecordIsTransient`,
`OriginalUnlessSkipped` and `PluginClassesLoadable`.

**Induction.** The provers cannot instantiate an induction theorem, whose parameter is an
operator. Where a set of natural numbers will do instead, it has a least element:
`UpTo` and `Recursion` of `HookCallbackProofs` and `NativeProofs` are induction and definition by recursion
in that form, and the proofs about lists of arguments, callbacks and instructions rest on them.

**Only model-checked.** `OperationsEnd`, `CallsReturn`, `CallersEnd` and `CallsEnd`,
because liveness under fairness and `ENABLED` are out of the prover's reach.
`ImplementsDecompressor`, `AcceptedIsFile` and `SoundIsAccepted` of `XzStream`,
`ImageExact`, `SymbolsFound` and `BuffersInBounds` of `ElfImg`, `DexIsClass`: they compare
what folds and recursive functions over whole files compute, in definitions far longer than
the property. The violated properties are not proved.

**What the premises leave out.** Some properties are stated beside a boundary case that
section 4 or the list of hazards names, and say nothing of it: an image of more than 255
windows (`ImageExact`), priorities that overflow (`PriorityOrder`), a death between the
truncation and the writing of the list (`SavedStays`), a directory where a
deletion failed (`InstallIsExact`, which counts that as a failure), a pool
whose counter has run into the address (`TrampolinesDistinct`), a method with 255 parameter
slots (`CodeVerifies`), and functions that are exactly 2^20 pages away from their
replacement (`Hookable`). No property is stated of a hook during the initialisation of its
class (`lsplant.cc:768`), of JIT movements after an unhook, or of a process that read at
`MAP_FAILED`.

## 6. How to run

    tlc -config CalvinBridge.cfg MCCalvinBridge
    tlapm CalvinBridgeProofs.tla

and likewise for the other rows of section 3 and modules of section 5.

## 7. Plan

1. `InlineHook`: page permissions.
2. `LSPlant`: JIT movements and the collection of the code cache.
3. `XzLzma2`: the refinement of `Decompressor` for dictionaries that do not wrap.
4. `PluginClasses`: delivery of `onStartCommand` and the life of the proxied services.

## 8. Not modelled

- Manifest and package parsing (`PackageParser`, `AndroidManifestParser`,
  `axml`), `ReflectUtils`: lookups without state. That they answer
  null or throw is part of the actions that call them.
- `HookSoLoad`, `lunchApplication` (never called), `invoke_constructor.cpp`,
  `profile_saver.cpp`, `hidden_api.cpp`: straight lines run once.
- `isHooked`, `deoptimizeMethod`, `makeClassInheritable` and the other utilities
  of `CalvinBridge`, which do not touch its registry.
- In `PluginClasses`, what `AddPluginResources.java:61-114` does to fields of the context and
  the activity thread once the `Resources` exist. In `PluginLaunch`, implicit
  starts of activities, plugin services that stop themselves, and activities that
  the system makes again within one process (as after a rotation).
- In `ElfImg`, `RelativeOpen` and the search for the base address in the process's maps.
- In `LSPlant`, that a race in the sets of `common.hpp` may corrupt memory: the model
  loses records and goes on.
- The other `LoadedApk` and theme fields written by the `performLaunchActivity`
  callback and the `getPackageName` hook.
- In `LSPlant`: JIT movements, access flags, the propagation of `RegisterNative`,
  `kInternalMethods`, `MakeClassInheritable` and `ShouldUseInterpreterEntrypoint`.
  Whether ART compiles a deoptimized method again is ART's business.
- Of the generated class: checksum and signature of the image, and the sections it has
  none of (annotations, debug info, try blocks, static values). The slicer's reader and
  `dex_helper` are called by nothing here.
- Of the decoder: single-call mode and the BCJ filters, which the build does not
  enable, the arithmetic of the range coder, the tables of the checks.
- Of Dobby: page permissions, the near-branch plugin (off by default), instrumentation
  of single instructions; and everything for other architectures and platforms:
  `build.gradle` restricts `abiFilters` to `arm64-v8a`.
- `jni_helper.hpp`, `type_traits.hpp`, parallel_hashmap and TINYSTL: templates around
  calls and containers without a state of their own. Layout, icons and logging.
- Failures other than those named: in particular memory exhaustion, and threads
  that are killed without the process.

About half of the native lines are of these kinds: headers that wrap JNI, containers,
assemblers and relocators for processors the build leaves out.
