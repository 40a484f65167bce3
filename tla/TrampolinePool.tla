--------------------------- MODULE TrampolinePool ---------------------------
(***************************************************************************)
(* GenerateTrampolineFor of lsplant.cc: trampolines are cut from pages,    *)
(* without a lock while the page lasts.  One atomic word holds the page's  *)
(* address and, in its low bits, how many trampolines were taken.          *)
(*                                                                         *)
(* Hook calls it with all threads suspended; the function itself relies on *)
(* nothing but its atomics, and so does this module.                       *)
(***************************************************************************)
EXTENDS Integers, FiniteSets

CONSTANTS
  Threads,
  Pages,        \* the numbers of pages mmap may return, 0 excluded
  CountSpan,    \* values of the count: 2^12 or 2^14, and the size of a page
  AddressSpan,  \* kAddressMask + 1
  PerPage,      \* kTrampolineNumPerPage
  MaxCalls,     \* bound: calls
  None

ASSUME PagesAssumption ==
  /\ Pages \subseteq Nat \ {0} /\ None \notin (Nat \X Nat) \cup Nat
  /\ CountSpan \in Nat /\ AddressSpan \in Nat /\ PerPage \in Nat \ {0}
  /\ PerPage < AddressSpan /\ AddressSpan <= CountSpan /\ CountSpan % AddressSpan = 0
  /\ MaxCalls \in Nat

VARIABLES
  trampoline_pool,  \* the word
  trampoline_lock,
  mapped,           \* the pages mmap has returned
  pc,               \* per thread: what it does next, or "idle"
  slot,             \* per thread: the trampoline it got, or None
  page,             \* per thread: the page it has mapped, or None
  written,          \* the trampolines in use
  calls,
  carried           \* history: the count has run into the address

vars == <<trampoline_pool, trampoline_lock, mapped, pc, slot, page, written, calls, carried>>

\* Fields of the word; a trampoline is the address of its page and its number.
Count(word) == word % CountSpan
Address(word) == word - (word % AddressSpan)
Start(p) == p * CountSpan

Init ==
  /\ trampoline_pool = 0 /\ trampoline_lock = FALSE
  /\ mapped = {} /\ written = {} /\ calls = 0 /\ carried = FALSE
  /\ pc = [t \in Threads |-> "idle"]
  /\ slot = [t \in Threads |-> None] /\ page = [t \in Threads |-> None]

Goto(t, position) == pc' = [pc EXCEPT ![t] = position]

GenerateTrampolineFor(t) ==
  /\ pc[t] = "idle" /\ Goto(t, "add")
  /\ calls < MaxCalls /\ calls' = calls + 1
  /\ UNCHANGED <<trampoline_pool, trampoline_lock, mapped, slot, page, written, carried>>

\* Mutant: one trampoline more than fits is taken from a page.
ExhaustedLate(word) == Address(word) = 0 \/ Count(word) > PerPage

\* There is no page yet, or nothing left of it.
Exhausted(word) == Address(word) = 0 \/ Count(word) >= PerPage

FetchAdd(t) ==
  /\ pc[t] = "add"
  /\ trampoline_pool' = trampoline_pool + 1
  /\ carried' = (carried \/ (trampoline_pool + 1) % AddressSpan = 0)
  /\ IF Exhausted(trampoline_pool)
     THEN Goto(t, "test") /\ UNCHANGED slot
     ELSE /\ Goto(t, "write")
          /\ slot' = [slot EXCEPT ![t] = <<Address(trampoline_pool), Count(trampoline_pool)>>]
  /\ UNCHANGED <<trampoline_lock, mapped, page, written, calls>>

TestAndSet(t) ==
  /\ pc[t] = "test"
  /\ IF trampoline_lock THEN Goto(t, "wait") /\ UNCHANGED trampoline_lock
     ELSE Goto(t, "map") /\ trampoline_lock' = TRUE
  /\ UNCHANGED <<trampoline_pool, mapped, slot, page, written, calls, carried>>

Wait(t) ==
  /\ pc[t] = "wait" /\ ~trampoline_lock /\ Goto(t, "add")
  /\ UNCHANGED <<trampoline_pool, trampoline_lock, mapped, slot, page, written, calls, carried>>

Map(t) ==
  /\ pc[t] = "map"
  /\ \E p \in Pages \ mapped :
       /\ mapped' = mapped \cup {p}
       /\ page' = [page EXCEPT ![t] = p]
  /\ Goto(t, "store")
  /\ UNCHANGED <<trampoline_pool, trampoline_lock, slot, written, calls, carried>>

\* Mutant: the lock is kept.
MapFailsLocked(t) ==
  /\ pc[t] = "map" /\ Goto(t, "idle")
  /\ UNCHANGED <<trampoline_pool, trampoline_lock, mapped, slot, page, written, calls, carried>>

\* mmap fails: the call returns null.
MapFails(t) ==
  /\ pc[t] = "map" /\ Goto(t, "idle")
  /\ trampoline_lock' = FALSE
  /\ UNCHANGED <<trampoline_pool, mapped, slot, page, written, calls, carried>>

\* Mutant: the first trampoline of a new page is not counted.
StoredUncounted(p) == Start(p)

\* The word for a new page, from which its mapper takes the first trampoline.
Stored(p) == Start(p) + 1

Store(t) ==
  /\ pc[t] = "store" /\ Goto(t, "clear")
  /\ trampoline_pool' = Stored(page[t])
  /\ slot' = [slot EXCEPT ![t] = <<Start(page[t]), 0>>]
  /\ UNCHANGED <<trampoline_lock, mapped, page, written, calls, carried>>

Clear(t) ==
  /\ pc[t] = "clear" /\ Goto(t, "write")
  /\ trampoline_lock' = FALSE
  /\ page' = [page EXCEPT ![t] = None]
  /\ UNCHANGED <<trampoline_pool, mapped, slot, written, calls, carried>>

\* The trampoline is written and returned.
Write(t) ==
  /\ pc[t] = "write" /\ Goto(t, "idle")
  /\ written' = written \cup {slot[t]}
  /\ slot' = [slot EXCEPT ![t] = None]
  /\ UNCHANGED <<trampoline_pool, trampoline_lock, mapped, page, calls, carried>>

Step(t) ==
  \/ FetchAdd(t) \/ TestAndSet(t) \/ Wait(t) \/ Map(t) \/ MapFails(t) \/ Store(t)
  \/ Clear(t) \/ Write(t)

Next == \E t \in Threads : GenerateTrampolineFor(t) \/ Step(t)

Spec == Init /\ [][Next]_vars

\* A thread that can go on does.
FairSpec == Spec /\ \A t \in Threads : WF_vars(Step(t))

-----------------------------------------------------------------------------
(* Properties *)

\* A trampoline that a thread has taken is nobody else's, is not in use, and
\* lies in a page that was mapped, whoever runs out of a page at the same time;
\* as long as calls that find no page have not counted into the address bits
\* (lsplant.cc:531-557).
TrampolinesDistinct ==
  ~carried => \A t \in Threads : slot[t] # None =>
    /\ slot[t] \notin written
    /\ \A u \in Threads \ {t} : slot[u] # slot[t]
    /\ \E p \in mapped : slot[t][1] = Start(p)
    /\ slot[t][2] \in 0 .. PerPage - 1
=============================================================================
