----------------------------- MODULE InlineHook -----------------------------
(***************************************************************************)
(* Inline hooks of native functions: InlineHooker and InlineUnhooker of     *)
(* aliuhook.cpp, through which LSPlant hooks the runtime, over Dobby's      *)
(* arm64 code: a trampoline over the first instructions of the function,    *)
(* and those instructions relocated into a block of an arena.  Another      *)
(* thread calls functions meanwhile.                                        *)
(*                                                                         *)
(* An address stands for four bytes.  A word is an instruction and its      *)
(* argument, or half of a label's data; an offset is relative to the word.  *)
(* The instructions with 17 use the register TMP_REG_0.  ldr loads a literal *)
(* of eight bytes, ldrw one of four, or into a SIMD register.                *)
(***************************************************************************)
EXTENDS Integers, SequencesExt

CONSTANTS
  Images,       \* the code that may be loaded: [code, targets]
  Replacement,  \* where the replacement of each function is
  Page,         \* addresses in a page
  Reach,        \* pages that an adrp reaches
  ArenaBase,    \* where arenas are mapped, one after the other
  MaxHooks, MaxNativeCalls,  \* bounds: hooks and unhooks, calls
  Fuel,         \* bound: steps of a call
  Null

VARIABLES
  image,    \* what is loaded
  mem,      \* the words of the code and of the arenas
  arenas,   \* code_arenas: [end, cursor_addr] each
  entries,  \* of the Interceptor: [origin_insns, relocated_addr] by patched_addr
  backup,   \* the functions the replacements call for the originals
  patch,    \* the patch under way: [at, words, done, entry]
  blocks,   \* history: the blocks handed out, what was written there, and for what
  hooks,
  cpu,      \* the thread that calls: [state, pc, x17, stack, effects, flag]
  call      \* history of its call: [callee, began, entered, overlapped, exposed, count]

hookVars == <<mem, arenas, entries, backup, patch, blocks, hooks>>
inlineVars == <<image, hookVars, cpu, call>>

I(op, arg) == [op |-> op, arg |-> arg]
NoPatch == [at |-> 0, words |-> <<>>, done |-> 0, entry |-> Null]
NoEntry == [origin_insns |-> <<>>, relocated_addr |-> Null]

-----------------------------------------------------------------------------
(* The assembler *)

\* A buffer and the labels appended to it; ldr17 names its label by number.
NoCode == [code |-> <<>>, labels |-> <<>>]
Emit(e, w) == [code |-> Append(e.code, w), labels |-> e.labels]
LabelBranch(e, to, branch) ==
  [code |-> e.code \o <<I("ldr17", Len(e.labels) + 1), I(branch, 0)>>,
   labels |-> Append(e.labels, to)]

\* The labels' data, two words each, follow the code, and each ldr gets the
\* offset of its label.
RelocBind(e) ==
  LET n == Len(e.code)
  IN [p \in 1 .. n + 2 * Len(e.labels) |->
        IF p > n THEN I(IF (p - n) % 2 = 1 THEN "low" ELSE "high", e.labels[(p - n + 1) \div 2])
        ELSE IF e.code[p].op = "ldr17" THEN I("ldr17", n + 2 * (e.code[p].arg - 1) - (p - 1))
        ELSE e.code[p]]

PageOf(a) == a \div Page

\* The pages between two addresses, as far as an adrp can say.
AdrpPages(from, to) == ((PageOf(to) - PageOf(from) + Reach) % (2 * Reach)) - Reach

GenerateNormalTrampolineBuffer(from, to) ==
  LET distance == IF from < to THEN to - from ELSE from - to
  IN IF distance < Reach * Page
     THEN <<I("adrp17", AdrpPages(from, to)), I("add17", to % Page), I("br17", 0)>>
     ELSE RelocBind(LabelBranch(NoCode, to, "br17"))

Trampoline(f) == GenerateNormalTrampolineBuffer(f, Replacement[f])

\* Mutant: the condition is not inverted.
InvertedNot(op) == op

\* The condition of a branch over the jump to where it led.
Inverted(op) == IF op = "cond" THEN "ncond" ELSE "cond"

\* The instruction at an address in other words, which do not depend on it.
\* Whatever a load loads, the assembler's is of eight bytes.
Relocate(e, w, at) ==
  CASE w.op = "b" -> LabelBranch(e, at + w.arg, "br17")
    [] w.op = "bl" -> LabelBranch(e, at + w.arg, "blr17")
    [] w.op \in {"cond", "ncond"} -> LabelBranch(Emit(e, I(Inverted(w.op), 3)), at + w.arg, "br17")
    [] w.op \in {"ldr", "ldrw"} -> Emit(Emit(e, I("mov17", at + w.arg)), I("ldr_x17", 0))
    [] w.op = "adr" -> Emit(e, I("mov", at + w.arg))
    [] w.op = "adrp" -> Emit(e, I("mov", PageOf(at + w.arg * Page) * Page))
    [] OTHER -> Emit(e, w)

\* The first instructions of origin, so many, in other words.
Relocated(origin, at) ==
  LET upTo[k \in 0 .. Len(origin)] ==
        IF k = 0 THEN NoCode ELSE Relocate(upTo[k - 1], origin[k], at + k - 1)
  IN upTo

relo_relocate(origin, at) ==
  RelocBind(LabelBranch(Relocated(origin, at)[Len(origin)], at + Len(origin), "br17"))

-----------------------------------------------------------------------------
(* Executable memory *)

Fits(arena, size) == arena.end - arena.cursor_addr >= size
NextArena == IF arenas = <<>> THEN ArenaBase ELSE arenas[Len(arenas)].end

\* Mutant: the cursor stays where it is.
TakenTwice(arena, size) == arena

TakenFrom(arena, size) == [arena EXCEPT !.cursor_addr = @ + size]

\* The arenas with a block taken from the first that has room, or from a new
\* one of whole pages; and where the block is.
allocateExecBlock(size) ==
  LET grown == Append(arenas, [end |-> NextArena + (((size + Page - 1) \div Page) * Page), cursor_addr |-> NextArena])
      all == IF \E k \in DOMAIN arenas : Fits(arenas[k], size) THEN arenas ELSE grown
      k == CHOOSE n \in DOMAIN all : Fits(all[n], size) /\ \A l \in 1 .. n - 1 : ~Fits(all[l], size)
  IN [arenas |-> [all EXCEPT ![k] = TakenFrom(@, size)], addr |-> all[k].cursor_addr]

\* Memory with words at an address.
With(memory, at, words) ==
  [a \in DOMAIN memory \cup (at .. at + Len(words) - 1) |->
     IF a \in at .. at + Len(words) - 1 THEN words[a - at + 1] ELSE memory[a]]

-----------------------------------------------------------------------------
(* The processor *)

Junk == -1000

\* One step of a thread.
After(memory, c) ==
  IF c.pc \notin DOMAIN memory THEN [c EXCEPT !.state = "crashed"]
  ELSE LET w == memory[c.pc]
           on == [c EXCEPT !.pc = @ + 1]
           Effect(x) == [on EXCEPT !.effects = Append(@, x)]
           Jump(a) == [c EXCEPT !.pc = a]
           Link(a) == [c EXCEPT !.pc = a, !.stack = <<c.pc + 1>> \o @]
           X17(a) == [on EXCEPT !.x17 = a]
           At(a) == IF a \in DOMAIN memory THEN memory[a] ELSE I("none", 0)
       IN CASE w.op = "op" -> Effect(<<"op", w.arg>>)
            [] w.op = "ret" -> IF c.stack = <<>> THEN [c EXCEPT !.state = "returned"]
                               ELSE [c EXCEPT !.pc = Head(c.stack), !.stack = Tail(@)]
            [] w.op = "b" -> Jump(c.pc + w.arg)
            [] w.op = "bl" -> Link(c.pc + w.arg)
            [] w.op \in {"cond", "ncond"} -> IF c.flag = (w.op = "cond") THEN Jump(c.pc + w.arg) ELSE on
            [] w.op = "ldr" -> Effect(<<"load", c.pc + w.arg>>)
            [] w.op = "ldrw" -> Effect(<<"narrow_load", c.pc + w.arg>>)
            [] w.op = "ldr_x17" -> Effect(<<"load", c.x17>>)
            [] w.op = "adr" -> Effect(<<"address", c.pc + w.arg>>)
            [] w.op = "adrp" -> Effect(<<"address", (PageOf(c.pc) + w.arg) * Page>>)
            [] w.op = "mov" -> Effect(<<"address", w.arg>>)
            [] w.op = "mov17" -> X17(w.arg)
            [] w.op = "adrp17" -> X17((PageOf(c.pc) + w.arg) * Page)
            [] w.op = "add17" -> X17(c.x17 + w.arg)
            [] w.op = "ldr17" -> X17(LET a == c.pc + w.arg
                                     IN IF At(a).op = "low" /\ At(a + 1) = I("high", At(a).arg) THEN At(a).arg ELSE Junk)
            [] w.op = "br17" -> Jump(c.x17)
            [] w.op = "blr17" -> Link(c.x17)
            [] OTHER -> [c EXCEPT !.state = "crashed"]

Called(f, flag) ==
  [state |-> "running", pc |-> f, x17 |-> Junk, stack |-> <<>>, effects |-> <<>>, flag |-> flag]

\* A call of a function of an image that nobody has hooked, step by step.
Run(g, f, flag) ==
  LET run[n \in 0 .. Fuel] ==
        IF n = 0 THEN Called(f, flag)
        ELSE LET last == run[n - 1] IN IF last.state = "running" THEN After(g.code, last) ELSE last
  IN run

\* What it has done in the end.
Original ==
  [c \in {x \in Images \X (DOMAIN Replacement) \X BOOLEAN : x[2] \in x[1].targets} |-> Run(c[1], c[2], c[3])[Fuel]]

\* Those that use TMP_REG_0.
Scratch == {"ldr_x17", "mov17", "adrp17", "add17", "ldr17", "br17", "blr17"}

\* The code that Dobby can hook, which it does not check: none of it needs
\* TMP_REG_0, nothing leads or refers into the words under a trampoline but to
\* the first, and an adrp that is tried reaches (the last page it is tried for
\* is one too far).
Hookable(g) ==
  /\ \A a \in DOMAIN g.code : g.code[a].op \notin Scratch
  /\ \A f \in g.targets :
       LET inside == f + 1 .. f + Len(Trampoline(f)) - 1
       IN /\ inside \subseteq DOMAIN g.code /\ inside \cap g.targets = {}
          /\ \A a \in DOMAIN g.code : g.code[a].op \in {"b", "bl", "cond", "ncond", "ldr", "ldrw"} => a + g.code[a].arg \notin inside
          /\ Trampoline(f)[1].op = "adrp17" => PageOf(Replacement[f]) - PageOf(f) # Reach

Ops == {"op", "ret", "b", "bl", "cond", "ncond", "ldr", "ldrw", "adr", "adrp", "mov", "low", "high"} \cup Scratch
Word == [op : Ops, arg : Int]

ASSUME MachineAssumption ==
  /\ Page \in Nat \ {0} /\ Reach \in Nat \ {0} /\ ArenaBase \in Int /\ Fuel \in Nat
  /\ Replacement \in [DOMAIN Replacement -> Int] /\ Null \notin Int

\* Replacements are other code, one for each function, and arenas are mapped
\* where there is none.
ASSUME ImagesAssumption ==
  \A g \in Images :
    /\ DOMAIN g.code \subseteq Int /\ g.code \in [DOMAIN g.code -> Word]
    /\ \A f, h \in g.targets : Replacement[f] \notin DOMAIN g.code /\ (Replacement[f] = Replacement[h] => f = h)
    /\ g.targets \subseteq DOMAIN Replacement /\ g.targets \subseteq DOMAIN g.code /\ Hookable(g)
    /\ \A a \in DOMAIN g.code : a < ArenaBase
    /\ \A f \in g.targets : Replacement[f] < ArenaBase
    /\ \A f \in g.targets, flag \in BOOLEAN : Original[<<g, f, flag>>].state = "returned"

-----------------------------------------------------------------------------
InlineInit ==
  /\ image \in Images /\ mem = image.code
  /\ arenas = <<>> /\ blocks = {} /\ patch = NoPatch /\ hooks = 0
  /\ entries = [f \in image.targets |-> NoEntry]
  /\ backup = [f \in image.targets |-> Null]
  /\ cpu = [Called(0, FALSE) EXCEPT !.state = "idle"]
  /\ call = [callee |-> Null, began |-> FALSE, entered |-> FALSE, overlapped |-> FALSE,
             exposed |-> FALSE, count |-> 0]

Hooked(f) == entries[f] # NoEntry

\* Where the thread is, or will return to, among words being patched.
Inside(c) ==
  \E a \in {c.pc} \cup Range(c.stack) : a \in patch.at + 1 .. patch.at + Len(patch.words) - 1

\* ---- hooks: one thread ----

Hook == patch = NoPatch /\ hooks < MaxHooks /\ hooks' = hooks + 1
Overlap == call' = [call EXCEPT !.overlapped = TRUE]

\* mprotect refuses, as the page after the function's is not mapped, and the
\* backup goes that an earlier hook may have left.
UnprotectFails(f) ==
  /\ Hook /\ ~Hooked(f)
  /\ backup' = [backup EXCEPT ![f] = Null]
  /\ call' = [call EXCEPT !.exposed = @ \/ backup[f] # Null]
  /\ UNCHANGED <<image, mem, arenas, entries, patch, blocks, cpu>>

\* InlineHooker up to Commit: the trampoline is made, the instructions under
\* it are relocated into a block and saved.
InlineHooker(f) ==
  /\ Hook /\ ~Hooked(f)
  /\ LET buffer == Trampoline(f)
         origin == [k \in 1 .. Len(buffer) |-> mem[f + k - 1]]
         code == relo_relocate(origin, f)
         block == allocateExecBlock(Len(code))
     IN /\ arenas' = block.arenas
        /\ mem' = With(mem, block.addr, code)
        /\ blocks' = blocks \cup {[at |-> block.addr, words |-> code, origin |-> origin]}
        /\ patch' = [at |-> f, words |-> buffer, done |-> 0,
                     entry |-> [origin_insns |-> origin, relocated_addr |-> block.addr]]
  /\ Overlap
  /\ UNCHANGED <<image, entries, backup, cpu>>

\* Mutant: the entry goes, and the code stays.
UnhookLeavingCode(f) ==
  /\ Hook /\ Hooked(f)
  /\ entries' = [entries EXCEPT ![f] = NoEntry]
  /\ Overlap
  /\ UNCHANGED <<image, mem, arenas, backup, blocks, patch, cpu>>

\* InlineUnhooker: the instructions that were saved go back.
InlineUnhooker(f) ==
  /\ Hook /\ Hooked(f)
  /\ patch' = [at |-> f, words |-> entries[f].origin_insns, done |-> 0, entry |-> NoEntry]
  /\ Overlap
  /\ UNCHANGED <<image, mem, arenas, entries, backup, blocks, cpu>>

\* memcpy of DobbyCodePatch, word by word.
PatchWord ==
  /\ patch.done < Len(patch.words)
  /\ mem' = [mem EXCEPT ![patch.at + patch.done] = patch.words[patch.done + 1]]
  /\ patch' = [patch EXCEPT !.done = @ + 1]
  /\ call' = [call EXCEPT !.exposed = @ \/ (cpu.state = "running" /\ Inside(cpu))]
  /\ UNCHANGED <<image, arenas, entries, backup, blocks, hooks, cpu>>

\* The entry is added or removed, and the hooker's caller gets to know the
\* relocated function.
Commit ==
  /\ patch # NoPatch /\ patch.done = Len(patch.words)
  /\ entries' = [entries EXCEPT ![patch.at] = patch.entry]
  /\ backup' = [backup EXCEPT ![patch.at] = IF patch.entry = NoEntry THEN @ ELSE patch.entry.relocated_addr]
  /\ patch' = NoPatch
  /\ UNCHANGED <<image, mem, arenas, blocks, hooks, cpu, call>>

\* ---- calls: another thread ----

\* A call is followed until it is exposed: words of two kinds may lead anywhere,
\* and so may four bytes too many in a register.
Running == cpu.state = "running" /\ ~call.exposed

\* The thread is at a load in a block, with a narrow one among the origins.
AtWidened(c) ==
  \E b \in blocks :
    /\ c.pc \in b.at .. b.at + Len(b.words) - 1 /\ mem[c.pc].op = "ldr_x17"
    /\ \E k \in DOMAIN b.origin : b.origin[k].op = "ldrw"

Call(f) ==
  /\ ~Running /\ call.count < MaxNativeCalls
  /\ \E flag \in BOOLEAN : cpu' = Called(f, flag)
  /\ call' = [callee |-> f, began |-> Hooked(f), entered |-> FALSE, overlapped |-> patch # NoPatch,
              exposed |-> FALSE, count |-> call.count + 1]
  /\ UNCHANGED <<image, hookVars>>

Execute ==
  /\ Running /\ \A f \in image.targets : cpu.pc # Replacement[f]
  /\ cpu' = After(mem, cpu)
  /\ call' = [call EXCEPT !.exposed = @ \/ AtWidened(cpu) \/ (patch.done \in 1 .. Len(patch.words) - 1 /\ Inside(cpu'))]
  /\ UNCHANGED <<image, hookVars>>

\* A replacement calls its backup, which is not there yet if the patch came
\* before the assignment of InlineHooker's result.
Replace(f) ==
  /\ Running /\ cpu.pc = Replacement[f]
  /\ cpu' = IF backup[f] = Null THEN [cpu EXCEPT !.state = "crashed"] ELSE [cpu EXCEPT !.pc = backup[f]]
  /\ call' = [call EXCEPT !.entered = @ \/ f = call.callee,
                          !.exposed = @ \/ (backup[f] = Null /\ patch # NoPatch)]
  /\ UNCHANGED <<image, hookVars>>

InlineNext ==
  \/ PatchWord \/ Commit \/ Execute
  \/ \E f \in image.targets : UnprotectFails(f) \/ InlineHooker(f) \/ InlineUnhooker(f) \/ Call(f) \/ Replace(f)

InlineSpec == InlineInit /\ [][InlineNext]_inlineVars

-----------------------------------------------------------------------------
(* Properties *)

\* Functions do what they did before, one effect after the other, in hooks and
\* out of them, whatever is hooked and unhooked while they run: the relocated
\* instructions mean the same elsewhere, blocks outlive their hooks, and no
\* replacement is without its original.  Excepted are threads caught among the
\* words of a patch, those in a replacement between the patch and the
\* assignment of the backup, those whose backup a refused hook takes away, and
\* what follows a load in a block that was made of narrow ones
\* (InstructionRelocationARM64.cc:151-344, hook_helper.hpp:170-177).
EffectsKept ==
  cpu.state # "idle" /\ ~call.exposed =>
    LET original == Original[<<image, call.callee, cpu.flag>>].effects
    IN /\ cpu.state # "crashed"
       /\ IsPrefix(cpu.effects, original)
       /\ cpu.state = "returned" => cpu.effects = original

\* A call that no hook or unhook overlaps enters the replacement exactly if its
\* function is hooked then, however far away the replacement is
\* (trampoline_arm64.cc:15-39, dobby.cpp:15-31).
HookedEnters ==
  cpu.state = "returned" /\ ~call.overlapped => call.entered = call.began

\* Between operations the code is the one loaded, with the trampolines of the
\* hooks in place over it, and every block ever handed out holds its
\* instructions: threads may still be in those of functions unhooked since
\* (MemoryAllocator.cc:5-53, FunctionInlineHook.cc:26-49, dobby.cpp:21-27).
CodeIsPatched ==
  /\ patch = NoPatch =>
       \A a \in DOMAIN image.code :
         mem[a] = LET over == {f \in image.targets : Hooked(f) /\ a \in f .. f + Len(Trampoline(f)) - 1}
                  IN IF over = {} THEN image.code[a]
                     ELSE LET f == CHOOSE x \in over : TRUE IN Trampoline(f)[a - f + 1]
  /\ \A b \in blocks : \A k \in DOMAIN b.words : mem[b.at + k - 1] = b.words[k]
=============================================================================
