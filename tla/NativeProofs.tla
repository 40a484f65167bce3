---------------------------- MODULE NativeProofs ----------------------------
(***************************************************************************)
(* TrampolinePool: no trampoline is handed out twice.  DebuggableGuard:    *)
(* the runtime is debuggable while a guard holds.  InlineHook: code stays  *)
(* what it was but for the trampolines, calls of hooked functions and no   *)
(* others enter the replacements, and all calls do what they did before.   *)
(* For any number of threads (of the guards' finitely many), pages, images *)
(* and hooks.                                                              *)
(*                                                                         *)
(* The guards' invariant ties the count to who holds: 0 nobody, 1 one      *)
(* thread between its exchange and its publication and nobody holding,     *)
(* otherwise one more than the holders.  A thread that compares for the    *)
(* second time must have seen enough for neither the first nor the last    *)
(* guard.                                                                  *)
(*                                                                         *)
(* The inline hooks' invariant places every block below the cursor of its  *)
(* arena and above the arenas before it, so that a block that is taken     *)
(* next meets no other and no code; and it says of every word under a      *)
(* trampoline what it is while a patch is half done.  Next to a call then  *)
(* goes one of the same function in the code that was loaded: the thread   *)
(* is where the other is, at the place in a block that the other's         *)
(* instruction was relocated to, between two words of a block that do what *)
(* one instruction did, or on its way through a trampoline; and a step     *)
(* brings it closer to there or keeps up with a step of the other.         *)
(***************************************************************************)
EXTENDS TrampolinePool, DebuggableGuard, InlineHook, FiniteSetTheorems, WellFoundedInduction, TLAPS

\* What is left of a number when a multiple is taken away.
LEMMA Remainder ==
  ASSUME NEW b \in Nat \ {0}, NEW q \in Nat, NEW r \in 0 .. b - 1
  PROVE  (q * b + r) % b = r
<1> DEFINE a == q * b + r
           d == a \div b
<1>1. q * b \in Nat /\ a \in Nat
  BY SMT
<1>2. d \in Int /\ a % b \in 0 .. b - 1 /\ a = d * b + (a % b)
  BY <1>1, SMT
<1>3. (q - d) * b = (a % b) - r
  BY <1>2, <1>1, SMT
<1>4. q - d <= 0
  BY <1>2, <1>3, SMT
<1>5. QED
  BY <1>2, <1>3, SMT

\* Pages do not overlap.
LEMMA StartInjective ==
  ASSUME NEW p \in Nat, NEW q \in Nat, Start(p) = Start(q)
  PROVE  p = q
<1>1. CountSpan \in Nat \ {0}
  BY PagesAssumption
<1>2. (p - q) * CountSpan = 0
  BY <1>1 DEF Start
<1>3. QED
  BY <1>1, <1>2

\* The address span divides the count span.
LEMMA Spans ==
  \E k \in Nat : CountSpan = k * AddressSpan
<1> DEFINE k == CountSpan \div AddressSpan
<1>1. AddressSpan \in Nat \ {0} /\ CountSpan \in Nat /\ CountSpan % AddressSpan = 0
  BY PagesAssumption
<1>2. k \in Nat /\ CountSpan = k * AddressSpan
  BY <1>1
<1>3. QED
  BY <1>2

\* The fields of the word while the count is below the address bits, and that
\* one more overflows only from the last.
LEMMA Fields ==
  ASSUME NEW p \in Nat, NEW c \in 0 .. AddressSpan - 1
  PROVE  /\ Start(p) \in Nat
         /\ Count(Start(p) + c) = c
         /\ Address(Start(p) + c) = Start(p)
         /\ (Start(p) + c + 1) % AddressSpan # 0 => c + 1 \in 0 .. AddressSpan - 1
<1>1. /\ CountSpan \in Nat \ {0} /\ AddressSpan \in Nat \ {0} /\ AddressSpan <= CountSpan
      /\ c \in 0 .. CountSpan - 1
  BY PagesAssumption
<1>2. Start(p) \in Nat
  BY <1>1 DEF Start
<1>3. Count(Start(p) + c) = c
  BY <1>1, Remainder DEF Count, Start
<1>4. PICK k \in Nat : CountSpan = k * AddressSpan
  BY Spans
<1>5. p * k \in Nat /\ Start(p) = (p * k) * AddressSpan
  BY <1>1, <1>4 DEF Start
<1>6. (Start(p) + c) % AddressSpan = c
  BY <1>1, <1>5, Remainder
<1>7. ASSUME c + 1 = AddressSpan
      PROVE  (Start(p) + c + 1) % AddressSpan = 0
  <2>1. Start(p) + c + 1 = (p * k + 1) * AddressSpan + 0
    BY <1>1, <1>5, <1>7
  <2>2. p * k + 1 \in Nat /\ 0 \in 0 .. AddressSpan - 1
    BY <1>1, <1>5
  <2>3. QED
    BY <1>1, <2>1, <2>2, Remainder
<1>8. QED
  BY <1>1, <1>2, <1>3, <1>6, <1>7 DEF Address

-----------------------------------------------------------------------------
(* The inductive invariant *)

Trampolines == Nat \X Nat

TypeInv ==
  /\ trampoline_pool \in Nat
  /\ mapped \subseteq Pages
  /\ pc \in [Threads -> {"idle", "add", "test", "wait", "map", "store", "clear", "write"}]
  /\ slot \in [Threads -> Trampolines \cup {None}]
  /\ page \in [Threads -> Pages \cup {None}]
  /\ written \subseteq Trampolines

\* A thread has a trampoline exactly when it is about to write it, and a page
\* when it is about to store it.
PerThread == \A t \in Threads :
  /\ slot[t] # None <=> pc[t] \in {"clear", "write"}
  /\ pc[t] = "store" => page[t] \in mapped

\* The trampolines handed out so far.
Taken == written \cup {slot[t] : t \in {u \in Threads : slot[u] # None}}

\* They lie in mapped pages, and those of the pool's page are counted.
TakenCounted == \E p \in mapped \cup {0}, c \in 0 .. AddressSpan - 1 :
  /\ trampoline_pool = Start(p) + c
  /\ \A s \in Taken : s[1] = Start(p) => s[2] < c

TakenMapped == \A s \in Taken : \E p \in mapped, c \in 0 .. PerPage - 1 : s = <<Start(p), c>>

\* A page about to be stored is neither the pool's nor another thread's, and
\* nothing was taken from it.
Fresh(p) ==
  /\ \A s \in Taken : s[1] # Start(p)
  /\ Address(trampoline_pool) # Start(p)

PagesFresh ==
  /\ \A t \in Threads : pc[t] = "store" => Fresh(page[t])
  /\ \A t, u \in Threads : t # u /\ pc[t] = "store" /\ pc[u] = "store" => page[t] # page[u]

\* Nobody else has a thread's trampoline.
Apart == \A t \in Threads : slot[t] # None =>
  /\ slot[t] \notin written
  /\ \A u \in Threads \ {t} : slot[u] # slot[t]

IInv ==
  /\ TypeInv
  /\ PerThread
  /\ ~carried => TakenCounted /\ TakenMapped /\ PagesFresh /\ Apart

-----------------------------------------------------------------------------
(* It is one *)

LEMMA InitInvariant == Init => IInv
<1> SUFFICES ASSUME Init PROVE IInv
  OBVIOUS
<1>1. TypeInv /\ PerThread /\ PagesFresh /\ Apart
  BY DEF Init, TypeInv, PerThread, PagesFresh, Apart
<1>2. Taken = {}
  BY DEF Init, Taken
<1>3. Start(0) = 0 /\ 0 \in 0 .. AddressSpan - 1
  BY PagesAssumption DEF Start
<1>4. TakenCounted /\ TakenMapped
  BY <1>2, <1>3 DEF Init, TakenCounted, TakenMapped
<1>5. QED
  BY <1>1, <1>4 DEF IInv

\* A step that neither takes a trampoline, changes the word nor brings a page
\* keeps the invariant.
LEMMA Quiet ==
  ASSUME IInv, TypeInv', PerThread',
         UNCHANGED <<trampoline_pool, mapped, slot, written, carried>>,
         \A t \in Threads : pc'[t] = "store" => pc[t] = "store" /\ page'[t] = page[t]
  PROVE  IInv'
<1> SUFFICES ASSUME ~carried PROVE (TakenCounted /\ TakenMapped /\ PagesFresh /\ Apart)'
  BY DEF IInv
<1>1. Taken' = Taken
  BY DEF Taken
<1>2. TakenCounted' /\ TakenMapped'
  BY <1>1 DEF IInv, TakenCounted, TakenMapped
<1>3. PagesFresh'
  BY <1>1 DEF IInv, PagesFresh, Fresh
<1>4. Apart'
  BY DEF IInv, Apart
<1>5. QED
  BY <1>2, <1>3, <1>4

LEMMA FetchAddInvariant ==
  ASSUME IInv, NEW t \in Threads, FetchAdd(t)
  PROVE  IInv'
<1> USE DEF IInv
<1>0. pc[t] = "add" /\ slot[t] = None
  BY DEF FetchAdd, PerThread
<1>1. TypeInv'
  <2>1. trampoline_pool' \in Nat
    BY DEF FetchAdd, TypeInv
  <2>2. slot' \in [Threads -> Trampolines \cup {None}]
    <3>1. Address(trampoline_pool) \in Nat /\ Count(trampoline_pool) \in Nat
      BY PagesAssumption DEF TypeInv, Address, Count
    <3>2. QED
      BY <3>1 DEF FetchAdd, TypeInv, Trampolines
  <2>3. QED
    BY <2>1, <2>2 DEF FetchAdd, Goto, TypeInv
<1>2. PerThread'
  <2>1. <<Address(trampoline_pool), Count(trampoline_pool)>> # None
    <3>1. Address(trampoline_pool) \in Nat /\ Count(trampoline_pool) \in Nat
      BY PagesAssumption DEF TypeInv, Address, Count
    <3>2. QED
      BY <3>1, PagesAssumption
  <2>2. QED
    BY <1>0, <2>1 DEF FetchAdd, Goto, PerThread, TypeInv
<1> SUFFICES ASSUME ~carried' PROVE (TakenCounted /\ TakenMapped /\ PagesFresh /\ Apart)'
  BY <1>1, <1>2
<1>3. ~carried /\ (trampoline_pool + 1) % AddressSpan # 0
  BY DEF FetchAdd
<1>4. PICK p \in mapped \cup {0}, c \in 0 .. AddressSpan - 1 :
        /\ trampoline_pool = Start(p) + c
        /\ \A s \in Taken : s[1] = Start(p) => s[2] < c
  BY <1>3 DEF TakenCounted
<1>5. p \in Nat
  BY PagesAssumption DEF TypeInv
<1>6. /\ Start(p) \in Nat /\ c + 1 \in 0 .. AddressSpan - 1
      /\ Count(trampoline_pool) = c /\ Address(trampoline_pool) = Start(p)
  BY <1>3, <1>4, <1>5, Fields
<1>7. trampoline_pool' = Start(p) + (c + 1) /\ Address(trampoline_pool') = Start(p)
  <2>1. trampoline_pool' = Start(p) + (c + 1)
    BY <1>4, <1>6 DEF FetchAdd
  <2>2. QED
    BY <2>1, <1>5, <1>6, Fields
<1>8. CASE Exhausted(trampoline_pool)
  <2>1. slot' = slot /\ Taken' = Taken
    BY <1>8 DEF FetchAdd, Taken
  <2>2. TakenCounted'
    <3>1. \A s \in Taken : s \in Trampolines
      BY DEF Taken, TypeInv
    <3>2. \A s \in Taken : s[1] = Start(p) => s[2] < c + 1
      BY <1>4, <3>1 DEF Trampolines
    <3>3. QED
      BY <1>6, <1>7, <2>1, <3>2 DEF FetchAdd, TakenCounted
  <2>3. TakenMapped' /\ Apart'
    BY <1>3, <2>1 DEF FetchAdd, TakenMapped, Apart
  <2>4. PagesFresh'
    BY <1>3, <1>6, <1>7, <1>8, <2>1 DEF FetchAdd, Goto, PagesFresh, Fresh, TypeInv
  <2>5. QED
    BY <2>2, <2>3, <2>4
<1>9. CASE ~Exhausted(trampoline_pool)
  <2> DEFINE s0 == <<Start(p), c>>
  <2>1. /\ slot' = [slot EXCEPT ![t] = s0]
        /\ pc' = [pc EXCEPT ![t] = "write"]
    BY <1>6, <1>9 DEF FetchAdd, Goto
  <2>2. s0 # None /\ s0 \notin Taken
    BY <1>4, <1>6, PagesAssumption
  <2>3. Taken' = Taken \cup {s0}
    BY <1>0, <2>1, <2>2 DEF FetchAdd, Taken, TypeInv
  <2>4. p \in mapped /\ c \in 0 .. PerPage - 1
    <3>1. Start(p) # 0 /\ c < PerPage
      BY <1>6, <1>9, PagesAssumption DEF Exhausted
    <3>2. Start(0) = 0
      BY PagesAssumption DEF Start
    <3>3. QED
      BY <3>1, <3>2, PagesAssumption
  <2>5. TakenCounted'
    <3>1. \A s \in Taken : s \in Trampolines
      BY DEF Taken, TypeInv
    <3>2. \A s \in Taken' : s[1] = Start(p) => s[2] < c + 1
      BY <1>4, <2>3, <3>1 DEF Trampolines
    <3>3. QED
      BY <1>6, <1>7, <3>2 DEF FetchAdd, TakenCounted
  <2>6. TakenMapped'
    BY <1>3, <2>3, <2>4 DEF FetchAdd, TakenMapped
  <2>7. PagesFresh'
    <3>1. \A u \in Threads : pc'[u] = "store" => pc[u] = "store"
      BY <2>1 DEF TypeInv
    <3>2. \A u \in Threads : pc'[u] = "store" => Start(p) # Start(page[u])
      BY <1>3, <1>6, <3>1 DEF PagesFresh, Fresh
    <3>3. QED
      BY <1>3, <1>6, <1>7, <2>3, <3>1, <3>2 DEF FetchAdd, PagesFresh, Fresh
  <2>8. Apart'
    BY <1>3, <2>1, <2>2 DEF FetchAdd, Apart, Taken, TypeInv
  <2>9. QED
    BY <2>5, <2>6, <2>7, <2>8
<1>10. QED
  BY <1>8, <1>9

LEMMA MapInvariant ==
  ASSUME IInv, NEW t \in Threads, Map(t)
  PROVE  IInv'
<1> USE DEF IInv
<1>1. PICK q \in Pages \ mapped :
        /\ mapped' = mapped \cup {q} /\ page' = [page EXCEPT ![t] = q]
        /\ pc[t] = "map" /\ pc' = [pc EXCEPT ![t] = "store"]
        /\ UNCHANGED <<trampoline_pool, slot, written, carried>>
  BY DEF Map, Goto
<1>2. TypeInv'
  BY <1>1 DEF TypeInv
<1>3. PerThread'
  BY <1>1 DEF PerThread, TypeInv
<1> SUFFICES ASSUME ~carried PROVE (TakenCounted /\ TakenMapped /\ PagesFresh /\ Apart)'
  BY <1>1, <1>2, <1>3
<1>4. Taken' = Taken
  BY <1>1 DEF Taken
<1>5. TakenCounted' /\ TakenMapped' /\ Apart'
  BY <1>1, <1>4 DEF TakenCounted, TakenMapped, Apart
<1>6. \A p \in mapped \cup {0} : Start(p) # Start(q)
  <2> SUFFICES ASSUME NEW p \in mapped \cup {0}, Start(p) = Start(q) PROVE FALSE
    OBVIOUS
  <2>1. p \in Nat /\ q \in Nat /\ p # q
    BY PagesAssumption DEF TypeInv
  <2>2. p = q
    BY <2>1, StartInjective
  <2>3. QED
    BY <2>1, <2>2
<1>7. Fresh(q)
  <2>1. \A s \in Taken : s[1] # Start(q)
    BY <1>6 DEF TakenMapped
  <2>2. PICK p \in mapped \cup {0}, c \in 0 .. AddressSpan - 1 : trampoline_pool = Start(p) + c
    BY DEF TakenCounted
  <2>3. Address(trampoline_pool) = Start(p)
    BY <2>2, Fields, PagesAssumption DEF TypeInv
  <2>4. QED
    BY <2>1, <2>3, <1>6 DEF Fresh
<1>8. PagesFresh'
  <2>1. \A u \in Threads : pc'[u] = "store" => Fresh(page'[u])
    BY <1>1, <1>7 DEF PagesFresh, TypeInv
  <2>2. \A u, v \in Threads : u # v /\ pc'[u] = "store" /\ pc'[v] = "store" => page'[u] # page'[v]
    BY <1>1 DEF PagesFresh, PerThread, TypeInv
  <2>3. QED
    BY <1>1, <1>4, <2>1, <2>2 DEF PagesFresh, Fresh
<1>9. QED
  BY <1>5, <1>8

LEMMA StoreInvariant ==
  ASSUME IInv, NEW t \in Threads, Store(t)
  PROVE  IInv'
<1> USE DEF IInv
<1> DEFINE q == page[t]
           s0 == <<Start(q), 0>>
<1>1. /\ pc[t] = "store" /\ pc' = [pc EXCEPT ![t] = "clear"]
      /\ trampoline_pool' = Start(q) + 1
      /\ slot' = [slot EXCEPT ![t] = s0]
      /\ UNCHANGED <<mapped, page, written, carried>>
  BY DEF Store, Goto, Stored
<1>2. q \in mapped /\ q \in Pages /\ q \in Nat /\ slot[t] = None
  BY <1>1, PagesAssumption DEF PerThread, TypeInv
<1>3. /\ 1 \in 0 .. AddressSpan - 1 /\ Start(q) \in Nat
      /\ Address(Start(q) + 1) = Start(q)
  <2>1. 1 \in 0 .. AddressSpan - 1
    BY PagesAssumption
  <2>2. QED
    BY <1>2, <2>1, Fields
<1>4. s0 \in Trampolines /\ s0 # None
  BY <1>3, PagesAssumption DEF Trampolines
<1>5. TypeInv'
  BY <1>1, <1>3, <1>4 DEF TypeInv
<1>6. PerThread'
  BY <1>1, <1>4 DEF PerThread, TypeInv
<1> SUFFICES ASSUME ~carried PROVE (TakenCounted /\ TakenMapped /\ PagesFresh /\ Apart)'
  BY <1>1, <1>5, <1>6
<1>7. Taken' = Taken \cup {s0}
  BY <1>1, <1>2, <1>4 DEF Taken, TypeInv
<1>8. \A s \in Taken : s[1] # Start(q)
  BY <1>1 DEF PagesFresh, Fresh
<1>9. TakenCounted'
  <2>1. \A s \in Taken' : s[1] = Start(q) => s[2] < 1
    BY <1>7, <1>8
  <2>2. QED
    BY <1>1, <1>2, <1>3, <2>1 DEF TakenCounted
<1>10. TakenMapped'
  <2>1. 0 \in 0 .. PerPage - 1
    BY PagesAssumption
  <2>2. QED
    BY <1>1, <1>2, <1>7, <2>1 DEF TakenMapped
<1>11. PagesFresh'
  <2>1. \A u \in Threads : pc'[u] = "store" =>
          u # t /\ pc[u] = "store" /\ page[u] \in Nat /\ page[u] # q
    BY <1>1, <1>2, PagesAssumption DEF PagesFresh, PerThread, TypeInv
  <2>2. \A u \in Threads : pc'[u] = "store" => Start(page[u]) # Start(q)
    BY <1>2, <2>1, StartInjective
  <2>3. QED
    BY <1>1, <1>3, <1>7, <2>1, <2>2 DEF PagesFresh, Fresh
<1>12. Apart'
  <2>1. s0 \notin Taken
    BY <1>8
  <2>2. QED
    BY <1>1, <1>4, <2>1 DEF Apart, Taken, TypeInv
<1>13. QED
  BY <1>9, <1>10, <1>11, <1>12

LEMMA WriteInvariant ==
  ASSUME IInv, NEW t \in Threads, Write(t)
  PROVE  IInv'
<1> USE DEF IInv
<1>1. /\ pc[t] = "write" /\ pc' = [pc EXCEPT ![t] = "idle"]
      /\ written' = written \cup {slot[t]} /\ slot' = [slot EXCEPT ![t] = None]
      /\ UNCHANGED <<trampoline_pool, mapped, page, carried>>
  BY DEF Write, Goto
<1>2. slot[t] # None
  BY <1>1 DEF PerThread
<1>3. TypeInv' /\ PerThread'
  BY <1>1, <1>2 DEF TypeInv, PerThread
<1> SUFFICES ASSUME ~carried PROVE (TakenCounted /\ TakenMapped /\ PagesFresh /\ Apart)'
  BY <1>1, <1>3
<1>4. Taken' = Taken
  BY <1>1, <1>2 DEF Taken, TypeInv
<1>5. TakenCounted' /\ TakenMapped'
  BY <1>1, <1>4 DEF TakenCounted, TakenMapped
<1>6. PagesFresh'
  BY <1>1, <1>4 DEF PagesFresh, Fresh, TypeInv
<1>7. Apart'
  BY <1>1 DEF Apart, TypeInv
<1>8. QED
  BY <1>5, <1>6, <1>7

LEMMA NextInvariant == IInv /\ [Next]_vars => IInv'
<1> SUFFICES ASSUME IInv, [Next]_vars PROVE IInv'
  OBVIOUS
<1>1. ASSUME NEW t \in Threads, GenerateTrampolineFor(t) PROVE IInv'
  <2>1. TypeInv' /\ PerThread'
    BY <1>1 DEF IInv, TypeInv, PerThread, GenerateTrampolineFor, Goto
  <2>2. QED
    BY <1>1, <2>1, Quiet DEF IInv, TypeInv, GenerateTrampolineFor, Goto
<1>2. ASSUME NEW t \in Threads, FetchAdd(t) PROVE IInv'
  BY <1>2, FetchAddInvariant
<1>3. ASSUME NEW t \in Threads, TestAndSet(t) PROVE IInv'
  <2>1. TypeInv' /\ PerThread'
    BY <1>3 DEF IInv, TypeInv, PerThread, TestAndSet, Goto
  <2>2. QED
    BY <1>3, <2>1, Quiet DEF IInv, TypeInv, TestAndSet, Goto
<1>4. ASSUME NEW t \in Threads, Wait(t) PROVE IInv'
  <2>1. TypeInv' /\ PerThread'
    BY <1>4 DEF IInv, TypeInv, PerThread, Wait, Goto
  <2>2. QED
    BY <1>4, <2>1, Quiet DEF IInv, TypeInv, Wait, Goto
<1>5. ASSUME NEW t \in Threads, Map(t) PROVE IInv'
  BY <1>5, MapInvariant
<1>6. ASSUME NEW t \in Threads, MapFails(t) PROVE IInv'
  <2>1. TypeInv' /\ PerThread'
    BY <1>6 DEF IInv, TypeInv, PerThread, MapFails, Goto
  <2>2. QED
    BY <1>6, <2>1, Quiet DEF IInv, TypeInv, MapFails, Goto
<1>7. ASSUME NEW t \in Threads, Store(t) PROVE IInv'
  BY <1>7, StoreInvariant
<1>8. ASSUME NEW t \in Threads, Clear(t) PROVE IInv'
  <2>1. TypeInv' /\ PerThread'
    BY <1>8 DEF IInv, TypeInv, PerThread, Clear, Goto
  <2>2. \A u \in Threads : pc'[u] = "store" => pc[u] = "store" /\ page'[u] = page[u]
    BY <1>8 DEF IInv, TypeInv, Clear, Goto
  <2>3. QED
    BY <1>8, <2>1, <2>2, Quiet DEF Clear
<1>9. ASSUME NEW t \in Threads, Write(t) PROVE IInv'
  BY <1>9, WriteInvariant
<1>10. CASE UNCHANGED vars
  <2>1. TypeInv' /\ PerThread'
    BY <1>10 DEF IInv, TypeInv, PerThread, vars
  <2>2. QED
    BY <1>10, <2>1, Quiet DEF vars
<1>11. QED
  BY <1>1, <1>2, <1>3, <1>4, <1>5, <1>6, <1>7, <1>8, <1>9, <1>10 DEF Next, Step

\* What the calls know of the pool, its pages and each other, for any number of
\* threads and any pages mmap returns, is kept by every step.
THEOREM Invariance == Spec => []IInv
<1>1. IInv /\ [Next]_vars => IInv'
  BY NextInvariant
<1>2. QED
  BY InitInvariant, <1>1, PTL DEF Spec

\* However many threads race for a page and for the next one, a trampoline that
\* one has taken is in a mapped page, in range, and nobody else's, until the
\* count has run into the address (lsplant.cc:525-568).
THEOREM Distinct == Spec => []TrampolinesDistinct
<1>1. IInv => TrampolinesDistinct
  <2> SUFFICES ASSUME IInv, ~carried, NEW t \in Threads, slot[t] # None
               PROVE  /\ slot[t] \notin written
                      /\ \A u \in Threads \ {t} : slot[u] # slot[t]
                      /\ \E p \in mapped : slot[t][1] = Start(p)
                      /\ slot[t][2] \in 0 .. PerPage - 1
    BY DEF TrampolinesDistinct
  <2>1. slot[t] \in Taken
    BY DEF Taken
  <2>2. QED
    BY <2>1 DEF IInv, Apart, TakenMapped
<1>2. QED
  BY Invariance, <1>1, PTL

-----------------------------------------------------------------------------
(* DebuggableGuard *)

GuardTypes ==
  /\ count \in Nat
  /\ debug_state \in {"kNonJavaDebuggable", "kJavaDebuggableAtInit"}
  /\ gpc \in [Users -> GuardPC]
  /\ dir \in [Users -> {"enter", "leave"}]
  /\ expected \in [Users -> Nat]

\* A thread that counts as holding: from its share of the count on, to the
\* exchange that gives it back.
Holding(t) ==
  \/ gpc[t] = "held"
  \/ dir[t] = "enter" /\ gpc[t] = "notify"
  \/ dir[t] = "leave" /\ gpc[t] \in {"first", "second", "wait", "asleep"}

Holders == {t \in Users : Holding(t)}

\* A thread that changes the runtime, the count being 1.
AtWork(t) == gpc[t] \in {"set", "publish"}

Idle ==
  /\ count = 0 /\ Holders = {} /\ debug_state = "kNonJavaDebuggable"
  /\ \A t \in Users : ~AtWork(t)

Working ==
  /\ count = 1 /\ Holders = {}
  /\ \E t \in Users : AtWork(t) /\ \A u \in Users \ {t} : ~AtWork(u)
  /\ \A t \in Users : gpc[t] = "publish" =>
       debug_state = IF dir[t] = "enter" THEN "kJavaDebuggableAtInit" ELSE "kNonJavaDebuggable"

Held ==
  /\ count >= 2 /\ count = Cardinality(Holders) + 1
  /\ debug_state = "kJavaDebuggableAtInit"
  /\ \A t \in Users : ~AtWork(t)

\* What the second exchange may expect.
SecondExpects == \A t \in Users : gpc[t] = "second" =>
  expected[t] >= IF dir[t] = "enter" THEN 2 ELSE 3

GuardInvariant == GuardTypes /\ SecondExpects /\ (Idle \/ Working \/ Held)

-----------------------------------------------------------------------------
LEMMA HoldersFinite == IsFiniteSet(Holders)
<1>1. Holders \subseteq Users
  BY DEF Holders
<1> QED BY <1>1, UsersAssumption, FS_Subset

LEMMA HoldersFinitePrime == IsFiniteSet(Holders')
<1>1. Holders' \subseteq Users
  BY DEF Holders
<1> QED BY <1>1, UsersAssumption, FS_Subset

LEMMA GuardInitInvariant == GuardInit => GuardInvariant
BY DEF GuardInit, GuardInvariant, GuardTypes, GuardPC, SecondExpects, Idle, Holders, Holding, AtWork

\* A step that leaves the count, the runtime and who holds or is at work keeps
\* the invariant.
LEMMA GuardQuiet ==
  ASSUME GuardInvariant, GuardTypes', SecondExpects',
         UNCHANGED <<count, debug_state>>,
         Holders' = Holders,
         \A t \in Users : gpc[t] \in {"set", "publish"} \/ gpc'[t] \in {"set", "publish"}
                            => gpc'[t] = gpc[t] /\ dir'[t] = dir[t]
  PROVE  GuardInvariant'
<1>1. \A t \in Users : AtWork(t)' <=> AtWork(t)
  BY DEF AtWork
<1>2. Idle => Idle'
  BY <1>1 DEF Idle
<1>3. Working => Working'
  BY <1>1 DEF Working
<1>4. Held => Held'
  BY <1>1 DEF Held
<1>5. QED
  BY <1>2, <1>3, <1>4 DEF GuardInvariant

LEMMA ConstructInvariant ==
  ASSUME GuardInvariant, NEW t \in Users, Construct(t)
  PROVE  GuardInvariant'
<1>1. GuardTypes' /\ SecondExpects'
  BY DEF GuardInvariant, GuardTypes, GuardPC, SecondExpects, Construct, Proceed
<1>2. Holders' = Holders
  BY DEF GuardInvariant, GuardTypes, Holders, Holding, Construct, Proceed
<1>3. QED
  BY <1>1, <1>2, GuardQuiet DEF GuardInvariant, GuardTypes, Construct, Proceed

LEMMA DestroyInvariant ==
  ASSUME GuardInvariant, NEW t \in Users, Destroy(t)
  PROVE  GuardInvariant'
<1>1. GuardTypes' /\ SecondExpects'
  BY DEF GuardInvariant, GuardTypes, GuardPC, SecondExpects, Destroy, Proceed
<1>2. Holders' = Holders
  BY DEF GuardInvariant, GuardTypes, Holders, Holding, Destroy, Proceed
<1>3. QED
  BY <1>1, <1>2, GuardQuiet DEF GuardInvariant, GuardTypes, Destroy, Proceed

\* The first guard and the last find the count they look for, and nobody holds.
LEMMA FirstTaken ==
  ASSUME GuardInvariant, NEW t \in Users, ExchangeFirst(t), count = Turning(dir[t])
  PROVE  GuardInvariant'
<1>1. /\ gpc[t] = "first" /\ gpc' = [gpc EXCEPT ![t] = "set"] /\ count' = 1
      /\ UNCHANGED <<debug_state, dir, expected>>
  BY DEF ExchangeFirst, Proceed
<1>2. GuardTypes' /\ SecondExpects'
  BY <1>1 DEF GuardInvariant, GuardTypes, GuardPC, SecondExpects
<1>3. Holders' = Holders \ {t}
  BY <1>1 DEF GuardInvariant, GuardTypes, Holders, Holding
<1>4. Holders' = {}
  <2>1. CASE dir[t] = "enter"
    BY <1>3, <2>1 DEF GuardInvariant, Turning, Idle, Working, Held
  <2>2. CASE dir[t] = "leave"
    <3>1. Held /\ t \in Holders /\ Cardinality(Holders) \in Nat /\ Cardinality(Holders) = 1
      BY <1>1, <2>2, HoldersFinite, FS_CardinalityType DEF GuardInvariant, GuardTypes, Turning, Idle, Working, Held, Holders, Holding
    <3>2. IsFiniteSet(Holders \ {t}) /\ Cardinality(Holders \ {t}) = 0
      BY <3>1, HoldersFinite, FS_RemoveElement
    <3>3. QED
      BY <1>3, <3>2, FS_EmptySet
  <2>3. QED
    BY <2>1, <2>2 DEF GuardInvariant, GuardTypes
<1>5. \A u \in Users : ~AtWork(u)
  BY DEF GuardInvariant, GuardTypes, Turning, Idle, Working, Held
<1>6. Working'
  BY <1>1, <1>4, <1>5 DEF GuardInvariant, GuardTypes, Working, AtWork
<1>7. QED
  BY <1>2, <1>6 DEF GuardInvariant

LEMMA FirstMissed ==
  ASSUME GuardInvariant, NEW t \in Users, ExchangeFirst(t), count # Turning(dir[t])
  PROVE  GuardInvariant'
<1>1. /\ gpc[t] = "first" /\ gpc' = [gpc EXCEPT ![t] = IF count = 1 THEN "wait" ELSE "second"]
      /\ expected' = [expected EXCEPT ![t] = count]
      /\ UNCHANGED <<count, debug_state, dir>>
  BY DEF ExchangeFirst, Proceed
<1>2. GuardTypes'
  BY <1>1 DEF GuardInvariant, GuardTypes, GuardPC
<1>3. dir[t] = "leave" => t \in Holders
  BY <1>1 DEF Holders, Holding
<1>4. count # 1 => count >= IF dir[t] = "enter" THEN 2 ELSE 3
  BY <1>3 DEF GuardInvariant, GuardTypes, Turning, Idle, Working, Held
<1>5. SecondExpects'
  BY <1>1, <1>4 DEF GuardInvariant, GuardTypes, SecondExpects
<1>6. Holders' = Holders
  BY <1>1 DEF GuardInvariant, GuardTypes, Holders, Holding
<1>7. QED
  BY <1>1, <1>2, <1>5, <1>6, GuardQuiet DEF GuardInvariant, GuardTypes

\* A guard that is neither first nor last joins or leaves the holders.
LEMMA SecondTaken ==
  ASSUME GuardInvariant, NEW t \in Users, ExchangeExpected(t), count = expected[t]
  PROVE  GuardInvariant'
<1>1. /\ gpc[t] = "second" /\ gpc' = [gpc EXCEPT ![t] = Settled(dir[t])]
      /\ count' = count + Delta(dir[t])
      /\ UNCHANGED <<debug_state, dir, expected>>
  BY DEF ExchangeExpected, Proceed
<1>2. count >= IF dir[t] = "enter" THEN 2 ELSE 3
  BY <1>1 DEF GuardInvariant, SecondExpects
<1>3. Held
  BY <1>2 DEF GuardInvariant, GuardTypes, Idle, Working
<1>4. GuardTypes' /\ SecondExpects'
  BY <1>1, <1>2 DEF GuardInvariant, GuardTypes, GuardPC, SecondExpects, Settled, Delta
<1>5. Cardinality(Holders) \in Nat
  BY HoldersFinite, FS_CardinalityType
<1>6. count' = Cardinality(Holders') + 1
  <2>1. CASE dir[t] = "enter"
    <3>1. t \notin Holders /\ Holders' = Holders \cup {t}
      BY <1>1, <2>1 DEF GuardInvariant, GuardTypes, Holders, Holding, Settled
    <3>2. Cardinality(Holders') = Cardinality(Holders) + 1
      BY <3>1, HoldersFinite, FS_AddElement
    <3>3. QED
      BY <1>1, <1>3, <1>5, <2>1, <3>2 DEF Held, Delta
  <2>2. CASE dir[t] = "leave"
    <3>1. t \in Holders /\ Holders' = Holders \ {t}
      BY <1>1, <2>2 DEF GuardInvariant, GuardTypes, Holders, Holding, Settled
    <3>2. Cardinality(Holders') = Cardinality(Holders) - 1
      BY <3>1, HoldersFinite, FS_RemoveElement
    <3>3. QED
      BY <1>1, <1>3, <1>5, <2>2, <3>2 DEF Held, Delta
  <2>3. QED
    BY <2>1, <2>2 DEF GuardInvariant, GuardTypes
<1>7. count' >= 2
  BY <1>1, <1>2 DEF GuardInvariant, GuardTypes, Delta
<1>8. \A u \in Users : ~AtWork(u)'
  BY <1>1, <1>3 DEF GuardInvariant, GuardTypes, Held, AtWork, Settled
<1>9. Held'
  BY <1>1, <1>3, <1>6, <1>7, <1>8 DEF Held
<1>10. QED
  BY <1>4, <1>9 DEF GuardInvariant

LEMMA SecondMissed ==
  ASSUME GuardInvariant, NEW t \in Users, ExchangeExpected(t), count # expected[t]
  PROVE  GuardInvariant'
<1>1. /\ gpc[t] = "second" /\ gpc' = [gpc EXCEPT ![t] = "first"]
      /\ UNCHANGED <<count, debug_state, dir, expected>>
  BY DEF ExchangeExpected, Proceed
<1>2. GuardTypes' /\ SecondExpects'
  BY <1>1 DEF GuardInvariant, GuardTypes, GuardPC, SecondExpects
<1>3. Holders' = Holders
  BY <1>1 DEF GuardInvariant, GuardTypes, Holders, Holding
<1>4. QED
  BY <1>1, <1>2, <1>3, GuardQuiet DEF GuardInvariant, GuardTypes

\* Who is at work is alone.
LEMMA Alone ==
  ASSUME GuardInvariant, NEW t \in Users, AtWork(t)
  PROVE  Working /\ \A u \in Users \ {t} : ~AtWork(u)
BY DEF GuardInvariant, Idle, Working, Held

LEMMA SetInvariant ==
  ASSUME GuardInvariant, NEW t \in Users, SetJavaDebuggable(t)
  PROVE  GuardInvariant'
<1>1. /\ gpc[t] = "set" /\ gpc' = [gpc EXCEPT ![t] = "publish"]
      /\ debug_state' = IF dir[t] = "enter" THEN "kJavaDebuggableAtInit" ELSE "kNonJavaDebuggable"
      /\ UNCHANGED <<count, dir, expected>>
  BY DEF SetJavaDebuggable, Proceed
<1>2. Working /\ \A u \in Users \ {t} : ~AtWork(u)
  BY <1>1, Alone DEF AtWork
<1>3. GuardTypes' /\ SecondExpects'
  BY <1>1 DEF GuardInvariant, GuardTypes, GuardPC, SecondExpects
<1>4. Holders' = Holders
  BY <1>1 DEF GuardInvariant, GuardTypes, Holders, Holding
<1>5. AtWork(t)' /\ \A u \in Users \ {t} : ~AtWork(u)'
  BY <1>1, <1>2 DEF GuardInvariant, GuardTypes, AtWork
<1>6. \A u \in Users : gpc'[u] = "publish" => u = t
  BY <1>5 DEF AtWork
<1>7. Working'
  BY <1>1, <1>2, <1>4, <1>5, <1>6 DEF Working
<1>8. QED
  BY <1>3, <1>7 DEF GuardInvariant

LEMMA PublishInvariant ==
  ASSUME GuardInvariant, NEW t \in Users, Publish(t)
  PROVE  GuardInvariant'
<1>1. /\ gpc[t] = "publish" /\ gpc' = [gpc EXCEPT ![t] = "notify"]
      /\ count' = count + Delta(dir[t])
      /\ UNCHANGED <<debug_state, dir, expected>>
  BY DEF Publish, Proceed
<1>2. Working /\ \A u \in Users \ {t} : ~AtWork(u)
  BY <1>1, Alone DEF AtWork
<1>3. GuardTypes' /\ SecondExpects'
  BY <1>1, <1>2 DEF GuardInvariant, GuardTypes, GuardPC, SecondExpects, Delta, Working
<1>4. \A u \in Users : ~AtWork(u)'
  BY <1>1, <1>2 DEF GuardInvariant, GuardTypes, AtWork
<1>5. CASE dir[t] = "enter"
  <2>1. Holders' = {t} /\ count' = 2 /\ debug_state' = "kJavaDebuggableAtInit"
    BY <1>1, <1>2, <1>5 DEF GuardInvariant, GuardTypes, Working, Holders, Holding, Delta
  <2>2. Cardinality(Holders') = 1
    BY <2>1, FS_Singleton
  <2>3. Held'
    BY <1>4, <2>1, <2>2 DEF Held
  <2>4. QED
    BY <1>3, <2>3 DEF GuardInvariant
<1>6. CASE dir[t] = "leave"
  <2>1. Holders' = {} /\ count' = 0 /\ debug_state' = "kNonJavaDebuggable"
    BY <1>1, <1>2, <1>6 DEF GuardInvariant, GuardTypes, Working, Holders, Holding, Delta
  <2>2. Idle'
    BY <1>4, <2>1 DEF Idle
  <2>3. QED
    BY <1>3, <2>2 DEF GuardInvariant
<1>7. QED
  BY <1>5, <1>6 DEF GuardInvariant, GuardTypes

LEMMA NotifyInvariant ==
  ASSUME GuardInvariant, NEW t \in Users, NotifyAll(t)
  PROVE  GuardInvariant'
<1>1. /\ gpc[t] = "notify"
      /\ gpc' = [u \in Users |-> IF u = t THEN Settled(dir[t])
                                 ELSE IF gpc[u] = "asleep" THEN "wait" ELSE gpc[u]]
      /\ UNCHANGED <<count, debug_state, dir, expected>>
  BY DEF NotifyAll
<1>2. GuardTypes' /\ SecondExpects'
  BY <1>1 DEF GuardInvariant, GuardTypes, GuardPC, SecondExpects, Settled
<1>3. \A u \in Users : Holding(u)' <=> Holding(u)
  BY <1>1 DEF GuardInvariant, GuardTypes, Holding, Settled
<1>4. Holders' = Holders
  BY <1>3 DEF Holders
<1>5. QED
  BY <1>1, <1>2, <1>4, GuardQuiet DEF GuardInvariant, GuardTypes, Settled

LEMMA WaitInvariant ==
  ASSUME GuardInvariant, NEW t \in Users, WaitWhileOne(t)
  PROVE  GuardInvariant'
<1>1. /\ gpc[t] = "wait" /\ gpc' = [gpc EXCEPT ![t] = IF count = expected[t] THEN "asleep" ELSE "first"]
      /\ UNCHANGED <<count, debug_state, dir, expected>>
  BY DEF WaitWhileOne, Proceed
<1>2. GuardTypes' /\ SecondExpects'
  BY <1>1 DEF GuardInvariant, GuardTypes, GuardPC, SecondExpects
<1>3. Holders' = Holders
  BY <1>1 DEF GuardInvariant, GuardTypes, Holders, Holding
<1>4. QED
  BY <1>1, <1>2, <1>3, GuardQuiet DEF GuardInvariant, GuardTypes

LEMMA GuardNextInvariant == GuardInvariant /\ [GuardNext]_guardVars => GuardInvariant'
<1> SUFFICES ASSUME GuardInvariant, [GuardNext]_guardVars PROVE GuardInvariant'
  OBVIOUS
<1>1. CASE UNCHANGED guardVars
  BY <1>1 DEF guardVars, GuardInvariant, GuardTypes, SecondExpects, Idle, Working, Held, Holders, Holding, AtWork
<1>2. ASSUME NEW t \in Users, ExchangeFirst(t) PROVE GuardInvariant'
  BY <1>2, FirstTaken, FirstMissed
<1>3. ASSUME NEW t \in Users, ExchangeExpected(t) PROVE GuardInvariant'
  BY <1>3, SecondTaken, SecondMissed
<1>4. QED
  BY <1>1, <1>2, <1>3, ConstructInvariant, DestroyInvariant, SetInvariant, PublishInvariant,
     NotifyInvariant, WaitInvariant DEF GuardNext, GuardStep

-----------------------------------------------------------------------------
\* The invariant of the guards.
THEOREM GuardInvariance == GuardSpec => []GuardInvariant
BY GuardInitInvariant, GuardNextInvariant, PTL DEF GuardSpec

\* For any threads and any number of guards the runtime is debuggable while a
\* guard holds, and as it was when none is left (lsplant.cc:309-352).
THEOREM DebuggableWhileHeld == GuardSpec => []HeldIsDebuggable
<1>1. GuardInvariant => HeldIsDebuggable
  <2> SUFFICES ASSUME GuardInvariant PROVE HeldIsDebuggable
    OBVIOUS
  <2>1. ASSUME NEW t \in Users, gpc[t] = "held" PROVE debug_state = "kJavaDebuggableAtInit"
    <3>1. t \in Holders
      BY <2>1 DEF Holders, Holding
    <3>2. QED
      BY <3>1 DEF GuardInvariant, Idle, Working, Held
  <2>2. ASSUME \A t \in Users : gpc[t] = "out"
        PROVE  debug_state = "kNonJavaDebuggable" /\ count = 0
    <3>1. Holders = {} /\ ~Working
      BY <2>2 DEF Holders, Holding, Working, AtWork
    <3>2. ~Held
      BY <3>1, FS_EmptySet DEF Held
    <3>3. QED
      BY <3>1, <3>2 DEF GuardInvariant, Idle
  <2>3. QED
    BY <2>1, <2>2 DEF HeldIsDebuggable
<1>2. QED
  BY <1>1, GuardInvariance, PTL

-----------------------------------------------------------------------------
(* Inline hooks: trampolines, induction *)

\* Instructions are words.
LEMMA InstructionIsWord ==
  ASSUME NEW op \in Ops, NEW arg \in Int
  PROVE  I(op, arg) \in Word
BY DEF I, Word

\* The two shapes of a trampoline.
Near(f, to) == <<I("adrp17", AdrpPages(f, to)), I("add17", to % Page), I("br17", 0)>>
Far(to) == <<I("ldr17", 2), I("br17", 0), I("low", to), I("high", to)>>

\* The label of a far trampoline is bound behind its branch.
LEMMA FarIs ==
  ASSUME NEW to \in Int
  PROVE  RelocBind(LabelBranch(NoCode, to, "br17")) = Far(to)
<1> DEFINE e == LabelBranch(NoCode, to, "br17")
           b == RelocBind(e)
<1>1. /\ e.code = <<I("ldr17", 1), I("br17", 0)>>
      /\ e.labels = <<to>>
  BY DEF LabelBranch, NoCode
<1>2. Len(e.code) = 2 /\ Len(e.labels) = 1
  BY <1>1
<1> HIDE DEF e
<1>3. b = [p \in 1 .. 4 |->
            IF p > 2 THEN I(IF (p - 2) % 2 = 1 THEN "low" ELSE "high", e.labels[(p - 2 + 1) \div 2])
            ELSE IF e.code[p].op = "ldr17" THEN I("ldr17", 2 + 2 * (e.code[p].arg - 1) - (p - 1))
            ELSE e.code[p]]
  BY <1>2 DEF RelocBind
<1> HIDE DEF b
<1>4. b[1] = I("ldr17", 2) /\ b[2] = I("br17", 0)
  BY <1>1, <1>3 DEF I
<1>5. b[3] = I("low", to)
  <2>1. (3 - 2) % 2 = 1 /\ (3 - 2 + 1) \div 2 = 1
    OBVIOUS
  <2> QED BY <1>1, <1>3, <2>1
<1>6. b[4] = I("high", to)
  <2>1. (4 - 2) % 2 = 0 /\ (4 - 2 + 1) \div 2 = 1
    OBVIOUS
  <2> QED BY <1>1, <1>3, <2>1
<1> QED
  BY <1>3, <1>4, <1>5, <1>6 DEF e, b, Far

\* Which of the two it is.
LEMMA TrampolineIs ==
  ASSUME NEW f \in Int, NEW to \in Int, to = Replacement[f]
  PROVE  Trampoline(f) = IF (IF f < to THEN to - f ELSE f - to) < Reach * Page THEN Near(f, to) ELSE Far(to)
BY FarIs DEF Trampoline, GenerateNormalTrampolineBuffer, Near

\* A trampoline is three or four words.
LEMMA TrampolineTypes ==
  ASSUME NEW f \in Int, NEW to \in Int, to = Replacement[f]
  PROVE  Trampoline(f) \in Seq(Word) /\ Len(Trampoline(f)) \in {3, 4}
<1>1. AdrpPages(f, to) \in Int /\ to % Page \in Int
  BY MachineAssumption DEF AdrpPages, PageOf
<1>2. Near(f, to) \in Seq(Word) /\ Len(Near(f, to)) = 3
  <2> DEFINE a == I("adrp17", AdrpPages(f, to))
             b == I("add17", to % Page)
             c == I("br17", 0)
  <2>1. a \in Word /\ b \in Word /\ c \in Word
    BY <1>1, InstructionIsWord DEF Ops, Scratch
  <2>2. Near(f, to) = <<a, b, c>>
    BY DEF Near
  <2> HIDE DEF a, b, c
  <2> QED BY <2>1, <2>2
<1>3. Far(to) \in Seq(Word) /\ Len(Far(to)) = 4
  <2> DEFINE a == I("ldr17", 2)
             b == I("br17", 0)
             c == I("low", to)
             d == I("high", to)
  <2>1. a \in Word /\ b \in Word /\ c \in Word /\ d \in Word
    BY InstructionIsWord DEF Ops, Scratch
  <2>2. Far(to) = <<a, b, c, d>>
    BY DEF Far
  <2> HIDE DEF a, b, c, d
  <2> QED BY <2>1, <2>2
<1> QED
  BY <1>2, <1>3, TrampolineIs

\* A set of numbers has a least one.
LEMMA Least ==
  ASSUME NEW T \in SUBSET Nat, T # {}
  PROVE  \E x \in T : \A y \in T : x <= y
<1> DEFINE R == {ss \in Nat \X Nat : ss[1] < ss[2]}
<1>1. IsWellFoundedOn(R, Nat)
  BY NatLessThanWellFounded DEF OpToRel
<1>2. \A x, y \in Nat : x <= y \/ <<y, x>> \in R
  OBVIOUS
<1> HIDE DEF R
<1>3. PICK x \in T : \A y \in T : ~(<<y, x>> \in R)
  BY <1>1, WFMin, Zenon
<1> QED BY <1>2, <1>3

\* Induction up to n.
LEMMA UpTo ==
  ASSUME NEW n \in Nat, NEW S, 0 \in S, \A k \in 0..(n - 1) : k \in S => k + 1 \in S
  PROVE  \A k \in 0..n : k \in S
<1> SUFFICES ASSUME NEW j \in 0..n, j \notin S PROVE FALSE
  OBVIOUS
<1> DEFINE T == {k \in 0..n : k \notin S}
<1>1. T \in SUBSET Nat /\ T # {}
  OBVIOUS
<1>2. PICK x \in T : \A y \in T : x <= y
  <2> HIDE DEF T
  <2> QED BY <1>1, Least, Zenon
<1>3. x \in 1..n
  OBVIOUS
<1>4. x - 1 \in S
  <2>1. x - 1 \in T => x <= x - 1
    BY <1>2
  <2> QED BY <1>3, <2>1
<1> QED BY <1>2, <1>3, <1>4

\* A function that F continues, from base on.
Continued(n, V, base, F) ==
  \E f \in [0..n -> V] : f[0] = base /\ \A k \in 1..n : f[k] = F[<<k, f[k - 1]>>]

\* What a recursive function is defined by has a solution.
LEMMA Recursion ==
  ASSUME NEW n \in Nat, NEW V, NEW base \in V, NEW F \in [(1..n) \X V -> V]
  PROVE  Continued(n, V, base, F)
<1> DEFINE Good(m, f) == f[0] = base /\ \A k \in 1..m : f[k] = F[<<k, f[k - 1]>>]
           S == {m \in 0..n : \E f \in [0..m -> V] : Good(m, f)}
<1>1. 0 \in S
  <2>1. [k \in 0..0 |-> base] \in [0..0 -> V] /\ Good(0, [k \in 0..0 |-> base])
    OBVIOUS
  <2> HIDE DEF Good
  <2> QED BY <2>1
<1>2. ASSUME NEW m \in 0..(n - 1), m \in S PROVE m + 1 \in S
  <2>1. PICK f \in [0..m -> V] : Good(m, f)
    BY <1>2
  <2> DEFINE g == [k \in 0..(m + 1) |-> IF k = m + 1 THEN F[<<m + 1, f[m]>>] ELSE f[k]]
  <2>2. F[<<m + 1, f[m]>>] \in V
    <3>1. <<m + 1, f[m]>> \in (1..n) \X V
      OBVIOUS
    <3> QED BY <3>1
  <2>3. g \in [0..(m + 1) -> V]
    BY <2>2
  <2>4. g[0] = base
    BY <2>1
  <2>5. ASSUME NEW k \in 1..(m + 1) PROVE g[k] = F[<<k, g[k - 1]>>]
    <3>1. CASE k = m + 1
      <4>1. g[m + 1] = F[<<m + 1, f[m]>>] /\ g[m] = f[m]
        OBVIOUS
      <4>2. k - 1 = m
        BY <3>1
      <4> HIDE DEF g
      <4> QED BY <3>1, <4>1, <4>2
    <3>2. CASE k \in 1..m
      BY <2>1, <3>2
    <3> QED BY <3>1, <3>2
  <2>6. Good(m + 1, g)
    BY <2>4, <2>5
  <2> HIDE DEF g, Good
  <2> QED BY <2>3, <2>6
<1>3. \A k \in 0..n : k \in S
  <2> HIDE DEF S
  <2> QED BY <1>1, <1>2, UpTo
<1>4. n \in S
  <2> HIDE DEF S
  <2> QED BY <1>3
<1> QED BY <1>4 DEF Continued

-----------------------------------------------------------------------------
(* Inline hooks: relocated instructions *)

\* Buffers of the assembler.
Buffers == [code : Seq(Word), labels : Seq(Int)]

\* Emitting a word, or a branch to a label, keeps a buffer one.
LEMMA Emitted ==
  ASSUME NEW e \in Buffers, NEW w \in Word
  PROVE  Emit(e, w) \in Buffers
BY DEF Emit, Buffers

\* The same of a branch.
LEMMA Branched ==
  ASSUME NEW e \in Buffers, NEW to \in Int, NEW branch \in {"br17", "blr17"}
  PROVE  LabelBranch(e, to, branch) \in Buffers
<1> DEFINE v == I("ldr17", Len(e.labels) + 1)
           w == I(branch, 0)
<1>1. e.code \in Seq(Word) /\ e.labels \in Seq(Int)
  BY DEF Buffers
<1>2. Len(e.labels) + 1 \in Int
  BY <1>1
<1>3. v \in Word /\ w \in Word
  BY <1>2, InstructionIsWord DEF Ops, Scratch
<1> HIDE DEF v, w
<1>4. e.code \o <<v, w>> \in Seq(Word) /\ Append(e.labels, to) \in Seq(Int)
  BY <1>1, <1>3
<1> QED
  BY <1>4 DEF LabelBranch, Buffers, v, w

\* The same of a relocated instruction.
LEMMA RelocateTypes ==
  ASSUME NEW e \in Buffers, NEW w \in Word, NEW at \in Int
  PROVE  Relocate(e, w, at) \in Buffers
<1>1. w.op \in Ops /\ w.arg \in Int /\ at + w.arg \in Int
  BY DEF Word
<1>2. PageOf(at + w.arg * Page) * Page \in Int
  <2>1. w.arg * Page \in Int
    BY <1>1, MachineAssumption
  <2>2. (at + w.arg * Page) \div Page \in Int
    BY <2>1, MachineAssumption
  <2> QED BY <2>2, MachineAssumption DEF PageOf
<1>3. Inverted(w.op) \in Ops
  BY DEF Inverted, Ops
<1> DEFINE to == at + w.arg
           paged == PageOf(at + w.arg * Page) * Page
           a == I(Inverted(w.op), 3)
           b == I("mov17", to)
           c == I("ldr_x17", 0)
           d == I("mov", to)
           g == I("mov", paged)
<1>4. a \in Word /\ b \in Word /\ c \in Word /\ d \in Word /\ g \in Word
  BY <1>1, <1>2, <1>3, InstructionIsWord DEF Ops, Scratch
<1>5. /\ LabelBranch(e, to, "br17") \in Buffers /\ LabelBranch(e, to, "blr17") \in Buffers
      /\ LabelBranch(Emit(e, a), to, "br17") \in Buffers
      /\ Emit(Emit(e, b), c) \in Buffers
      /\ Emit(e, d) \in Buffers /\ Emit(e, g) \in Buffers /\ Emit(e, w) \in Buffers
  <2>1. Emit(e, a) \in Buffers /\ Emit(e, b) \in Buffers /\ to \in Int
    BY <1>1, <1>4, Emitted
  <2> HIDE DEF a, b, c, d, g, to, paged
  <2>2. Emit(Emit(e, b), c) \in Buffers
    BY <1>4, <2>1, Emitted
  <2>3. Emit(e, d) \in Buffers /\ Emit(e, g) \in Buffers /\ Emit(e, w) \in Buffers
    BY <1>4, Emitted
  <2>4. /\ LabelBranch(e, to, "br17") \in Buffers /\ LabelBranch(e, to, "blr17") \in Buffers
        /\ LabelBranch(Emit(e, a), to, "br17") \in Buffers
    BY <2>1, Branched
  <2> QED BY <2>2, <2>3, <2>4
<1>6. Relocate(e, w, at) \in
        {LabelBranch(e, to, "br17"), LabelBranch(e, to, "blr17"), LabelBranch(Emit(e, a), to, "br17"),
         Emit(Emit(e, b), c), Emit(e, d), Emit(e, g), Emit(e, w)}
  BY DEF Relocate
<1> HIDE DEF to, paged, a, b, c, d, g
<1> QED
  BY <1>5, <1>6

\* With its labels a buffer is a sequence of words.
LEMMA BindTypes ==
  ASSUME NEW e \in Buffers
  PROVE  RelocBind(e) \in Seq(Word)
<1> DEFINE n == Len(e.code)
           m == Len(e.labels)
           Kind(p) == IF (p - n) % 2 = 1 THEN "low" ELSE "high"
<1>1. e.code \in [1 .. n -> Word] /\ e.labels \in [1 .. m -> Int] /\ n \in Nat /\ m \in Nat
  BY DEF Buffers
<1> HIDE DEF n, m
<1>2. n + 2 * m \in Nat
  BY <1>1
<1> DEFINE k == n + 2 * m
           Bound(p) == IF p > n THEN I(Kind(p), e.labels[(p - n + 1) \div 2])
                       ELSE IF e.code[p].op = "ldr17" THEN I("ldr17", n + 2 * (e.code[p].arg - 1) - (p - 1))
                       ELSE e.code[p]
<1>3. ASSUME NEW p \in 1 .. k PROVE Bound(p) \in Word
  <2>1. CASE p > n
    <3>1. (p - n + 1) \div 2 \in 1 .. m
      BY <1>1, <2>1
    <3>2. Kind(p) \in Ops
      BY DEF Ops
    <3>3. e.labels[(p - n + 1) \div 2] \in Int
      BY <1>1, <3>1
    <3> HIDE DEF Kind
    <3>4. I(Kind(p), e.labels[(p - n + 1) \div 2]) \in Word
      BY <3>2, <3>3, InstructionIsWord
    <3> QED BY <2>1, <3>4
  <2>2. CASE ~(p > n)
    <3>1. p \in 1 .. n
      BY <1>1, <2>2
    <3>2. e.code[p] \in Word
      BY <1>1, <3>1
    <3>3. n + 2 * (e.code[p].arg - 1) - (p - 1) \in Int
      BY <1>1, <3>2 DEF Word
    <3>4. I("ldr17", n + 2 * (e.code[p].arg - 1) - (p - 1)) \in Word
      BY <3>3, InstructionIsWord DEF Ops, Scratch
    <3> QED BY <2>2, <3>2, <3>4
  <2> QED BY <2>1, <2>2
<1>4. RelocBind(e) = [p \in 1 .. k |-> Bound(p)]
  BY DEF RelocBind, n, m
<1> HIDE DEF Bound, k
<1>5. [p \in 1 .. k |-> Bound(p)] \in [1 .. k -> Word]
  BY <1>3
<1>6. k \in Nat
  BY <1>2 DEF k
<1> QED
  BY <1>4, <1>5, <1>6

\* All are relocated one after the other.
LEMMA RelocatedIs ==
  ASSUME NEW origin \in Seq(Word), NEW at \in Int
  PROVE  /\ Relocated(origin, at)[0] = NoCode
         /\ \A k \in 0 .. Len(origin) : Relocated(origin, at)[k] \in Buffers
         /\ \A k \in 1 .. Len(origin) :
              Relocated(origin, at)[k] = Relocate(Relocated(origin, at)[k - 1], origin[k], at + k - 1)
<1> DEFINE n == Len(origin)
           F == [r \in (1 .. n) \X Buffers |-> Relocate(r[2], origin[r[1]], at + r[1] - 1)]
           Body(f) == [k \in 0 .. n |-> IF k = 0 THEN NoCode ELSE Relocate(f[k - 1], origin[k], at + k - 1)]
<1>0. n \in Nat
  OBVIOUS
<1>1. F \in [(1 .. n) \X Buffers -> Buffers]
  <2>1. ASSUME NEW r \in (1 .. n) \X Buffers PROVE Relocate(r[2], origin[r[1]], at + r[1] - 1) \in Buffers
    <3>1. r[2] \in Buffers /\ origin[r[1]] \in Word /\ at + r[1] - 1 \in Int
      OBVIOUS
    <3> QED BY <3>1, RelocateTypes
  <2> QED BY <2>1
<1>2. NoCode \in Buffers
  BY DEF NoCode, Buffers
<1>3. PICK f \in [0 .. n -> Buffers] : f[0] = NoCode /\ \A k \in 1 .. n : f[k] = F[<<k, f[k - 1]>>]
  <2> HIDE DEF F, n
  <2>1. Continued(n, Buffers, NoCode, F)
    BY <1>0, <1>1, <1>2, Recursion, Zenon
  <2> QED BY <2>1 DEF Continued
<1>4. f = Body(f)
  <2> HIDE DEF n
  <2>1. ASSUME NEW k \in 1 .. n PROVE f[k] = Relocate(f[k - 1], origin[k], at + k - 1)
    <3>1. <<k, f[k - 1]>> \in (1 .. n) \X Buffers
      BY <1>0, <1>3
    <3> QED BY <1>3, <3>1
  <2>2. \A k \in 0 .. n : f[k] = Body(f)[k]
    BY <1>0, <1>3, <2>1
  <2>3. f = [k \in 0 .. n |-> f[k]]
    BY <1>3
  <2>4. Body(f) = [k \in 0 .. n |-> Body(f)[k]]
    OBVIOUS
  <2> HIDE DEF Body
  <2> QED BY <2>2, <2>3, <2>4
<1> DEFINE c == CHOOSE g : g = Body(g)
<1>5. c = Body(c)
  <2> HIDE DEF Body
  <2> QED BY <1>4, Zenon
<1>6. Relocated(origin, at) = c
  BY DEF Relocated
<1> HIDE DEF c
<1> DEFINE S == {k \in 0 .. n : c[k] \in Buffers}
<1> HIDE DEF n
<1>7. 0 \in S
  <2>1. c[0] = NoCode
    BY <1>0, <1>5
  <2> QED BY <1>0, <1>2, <2>1
<1>8. ASSUME NEW k \in 0 .. (n - 1), k \in S PROVE k + 1 \in S
  <2>1. k + 1 \in 1 .. n /\ k + 1 \in 0 .. n /\ k + 1 - 1 = k
    BY <1>0
  <2>2. c[k + 1] = Relocate(c[k], origin[k + 1], at + (k + 1) - 1)
    <3>1. c[k + 1] = IF k + 1 = 0 THEN NoCode ELSE Relocate(c[(k + 1) - 1], origin[k + 1], at + (k + 1) - 1)
      BY <1>5, <2>1
    <3> QED BY <1>0, <2>1, <3>1
  <2>3. c[k] \in Buffers /\ origin[k + 1] \in Word /\ at + (k + 1) - 1 \in Int
    BY <1>8, <2>1 DEF n
  <2>4. c[k + 1] \in Buffers
    BY <2>2, <2>3, RelocateTypes
  <2> QED BY <2>1, <2>4
<1>9. \A k \in 0 .. n : k \in S
  <2> HIDE DEF S
  <2> QED BY <1>0, <1>7, <1>8, UpTo
<1>10. c[0] = NoCode
  BY <1>0, <1>5
<1>11. ASSUME NEW k \in 1 .. n PROVE c[k] = Relocate(c[k - 1], origin[k], at + k - 1)
  <2>1. k \in 0 .. n /\ k # 0
    BY <1>0
  <2> QED BY <1>5, <2>1
<1> QED
  BY <1>6, <1>9, <1>10, <1>11 DEF n

\* They are a buffer in the end.
LEMMA RelocatedTypes ==
  ASSUME NEW origin \in Seq(Word), NEW at \in Int
  PROVE  Relocated(origin, at)[Len(origin)] \in Buffers
<1>1. Len(origin) \in 0 .. Len(origin)
  OBVIOUS
<1> QED
  BY <1>1, RelocatedIs

\* Relocated instructions are finitely many words.
LEMMA RelocatedCode ==
  ASSUME NEW origin \in Seq(Word), NEW at \in Int
  PROVE  relo_relocate(origin, at) \in Seq(Word)
<1>1. Relocated(origin, at)[Len(origin)] \in Buffers /\ at + Len(origin) \in Int
  BY RelocatedTypes
<1>2. LabelBranch(Relocated(origin, at)[Len(origin)], at + Len(origin), "br17") \in Buffers
  BY <1>1, Branched
<1> QED
  BY <1>2, BindTypes DEF relo_relocate
-----------------------------------------------------------------------------
(* Inline hooks: blocks *)

\* Arenas.
ArenaRecords == [end : Int, cursor_addr : Int]

\* Arenas follow one another, and what is taken of one is its beginning.
InOrder(s) ==
  /\ s \in Seq(ArenaRecords)
  /\ \A k \in 1 .. Len(s) : ArenaBase <= s[k].cursor_addr /\ s[k].cursor_addr <= s[k].end
  /\ \A k \in 1 .. Len(s), j \in 1 .. Len(s) : j < k => s[j].end <= s[k].cursor_addr

\* size addresses from at on were taken from the k-th arena.
Within(s, k, at, size) ==
  /\ k \in 1 .. Len(s)
  /\ ArenaBase <= at /\ at + size <= s[k].cursor_addr
  /\ \A j \in 1 .. Len(s) : j < k => s[j].end <= at

\* Whole pages have room.
LEMMA Whole ==
  ASSUME NEW size \in Nat
  PROVE  /\ ((size + Page - 1) \div Page) * Page \in Int
         /\ size <= ((size + Page - 1) \div Page) * Page
<1> DEFINE a == size + Page - 1
           d == a \div Page
<1>1. Page \in Nat \ {0}
  BY MachineAssumption
<1>2. a \in Nat
  BY <1>1
<1> HIDE DEF a
<1>3. d \in Int /\ a % Page \in 0 .. Page - 1 /\ a = d * Page + (a % Page)
  BY <1>1, <1>2, SMT
<1> HIDE DEF d
<1>4. d * Page \in Int
  BY <1>1, <1>3
<1>5. size <= d * Page
  BY <1>1, <1>3, <1>4, SMT DEF a
<1> QED
  BY <1>4, <1>5 DEF a, d

\* The arenas after one was mapped.
Grown(size) ==
  Append(arenas, [end |-> NextArena + (((size + Page - 1) \div Page) * Page), cursor_addr |-> NextArena])

\* They are in order, and the new one has room.
LEMMA GrownInOrder ==
  ASSUME InOrder(arenas), NEW size \in Nat
  PROVE  /\ InOrder(Grown(size))
         /\ Len(Grown(size)) = Len(arenas) + 1
         /\ Fits(Grown(size)[Len(arenas) + 1], size)
         /\ \A k \in 1 .. Len(arenas) : Grown(size)[k] = arenas[k]
<1> DEFINE n == Len(arenas)
           w == ((size + Page - 1) \div Page) * Page
           x == [end |-> NextArena + w, cursor_addr |-> NextArena]
           s == Append(arenas, x)
<1>0. arenas \in Seq(ArenaRecords) /\ n \in Nat
  BY DEF InOrder
<1>1. w \in Int /\ 0 <= w /\ size <= w
  BY Whole
<1> HIDE DEF w
<1>2. /\ NextArena \in Int /\ ArenaBase <= NextArena
      /\ \A k \in 1 .. n : arenas[k].end <= NextArena
  <2>1. CASE n = 0
    BY <1>0, <2>1, MachineAssumption DEF NextArena
  <2>2. CASE n # 0
    <3>1. n \in 1 .. n /\ NextArena = arenas[n].end
      BY <1>0, <2>2 DEF NextArena
    <3>2. arenas[n] \in ArenaRecords
      BY <1>0, <3>1
    <3>3. arenas[n].cursor_addr \in Int /\ arenas[n].end \in Int
      BY <3>2 DEF ArenaRecords
    <3>4. ArenaBase <= arenas[n].cursor_addr /\ arenas[n].cursor_addr <= arenas[n].end
      BY <3>1 DEF InOrder
    <3>5. ASSUME NEW k \in 1 .. n PROVE arenas[k].end <= NextArena
      <4>1. CASE k = n
        BY <3>1, <3>3, <4>1
      <4>2. CASE k < n
        <5>1. arenas[k].end <= arenas[n].cursor_addr
          BY <3>1, <4>2 DEF InOrder
        <5>2. arenas[k].end \in Int
          <6>1. arenas[k] \in ArenaRecords
            BY <1>0
          <6> QED BY <6>1 DEF ArenaRecords
        <5> QED BY <3>1, <3>3, <3>4, <5>1, <5>2
      <4> QED BY <1>0, <4>1, <4>2
    <3> QED BY <3>1, <3>3, <3>4, <3>5, MachineAssumption
  <2> QED BY <2>1, <2>2
<1>3. x \in ArenaRecords /\ x.cursor_addr = NextArena /\ x.end = NextArena + w
  BY <1>1, <1>2 DEF ArenaRecords
<1> HIDE DEF x
<1>4. /\ s \in Seq(ArenaRecords) /\ Len(s) = n + 1 /\ s[n + 1] = x
      /\ \A k \in 1 .. n : s[k] = arenas[k]
  BY <1>0, <1>3
<1> HIDE DEF s
<1>5. ASSUME NEW k \in 1 .. (n + 1)
      PROVE  ArenaBase <= s[k].cursor_addr /\ s[k].cursor_addr <= s[k].end
  <2>1. CASE k = n + 1
    BY <1>1, <1>2, <1>3, <1>4, <2>1
  <2>2. CASE k \in 1 .. n
    BY <1>4, <2>2 DEF InOrder
  <2> QED BY <1>0, <2>1, <2>2
<1>6. ASSUME NEW k \in 1 .. (n + 1), NEW j \in 1 .. (n + 1), j < k
      PROVE  s[j].end <= s[k].cursor_addr
  <2>1. j \in 1 .. n
    BY <1>0, <1>6
  <2>2. CASE k = n + 1
    BY <1>2, <1>3, <1>4, <2>1, <2>2
  <2>3. CASE k \in 1 .. n
    BY <1>4, <1>6, <2>1, <2>3 DEF InOrder
  <2> QED BY <1>0, <2>2, <2>3
<1>7. InOrder(s)
  BY <1>4, <1>5, <1>6 DEF InOrder
<1>8. Fits(s[n + 1], size)
  BY <1>1, <1>2, <1>3, <1>4 DEF Fits
<1>9. Grown(size) = s
  BY DEF Grown, s, x, w
<1> QED
  BY <1>4, <1>7, <1>8, <1>9 DEF n

\* A block is taken from the first arena with room, of the old ones or the old ones and one more.
Choice(size, all, k) ==
  /\ InOrder(all) /\ Len(arenas) <= Len(all) /\ k \in 1 .. Len(all)
  /\ \A j \in 1 .. Len(arenas) : all[j] = arenas[j]
  /\ Fits(all[k], size)
  /\ allocateExecBlock(size) = [arenas |-> [all EXCEPT ![k] = TakenFrom(@, size)], addr |-> all[k].cursor_addr]

\* There is such an arena.
LEMMA Chosen ==
  ASSUME InOrder(arenas), NEW size \in Nat
  PROVE  \E all, k : Choice(size, all, k)
<1> DEFINE all == IF \E k \in DOMAIN arenas : Fits(arenas[k], size) THEN arenas ELSE Grown(size)
           First(n) == Fits(all[n], size) /\ \A l \in 1 .. n - 1 : ~Fits(all[l], size)
           k == CHOOSE n \in DOMAIN all : First(n)
           T == {n \in 1 .. Len(all) : Fits(all[n], size)}
<1>1. /\ InOrder(all) /\ Len(arenas) <= Len(all) /\ Len(all) \in Nat
      /\ \A j \in 1 .. Len(arenas) : all[j] = arenas[j]
      /\ DOMAIN all = 1 .. Len(all)
  <2>1. arenas \in Seq(ArenaRecords)
    BY DEF InOrder
  <2>2. CASE all = arenas
    BY <2>1, <2>2
  <2>3. CASE all = Grown(size)
    <3>1. Grown(size) \in Seq(ArenaRecords)
      BY GrownInOrder DEF InOrder
    <3>2. /\ InOrder(all) /\ Len(all) = Len(arenas) + 1
          /\ \A j \in 1 .. Len(arenas) : all[j] = arenas[j]
      BY <2>3, GrownInOrder
    <3>3. all \in Seq(ArenaRecords)
      BY <2>3, <3>1
    <3> HIDE DEF all
    <3> QED BY <2>1, <3>2, <3>3
  <2> QED BY <2>2, <2>3
<1>2. T # {}
  <2>1. CASE \E j \in DOMAIN arenas : Fits(arenas[j], size)
    <3>1. all = arenas
      BY <2>1
    <3> HIDE DEF all
    <3> QED BY <1>1, <2>1, <3>1
  <2>2. CASE ~\E j \in DOMAIN arenas : Fits(arenas[j], size)
    <3>1. all = Grown(size)
      BY <2>2
    <3>2. Len(arenas) \in Nat
      BY DEF InOrder
    <3>3. Len(all) = Len(arenas) + 1 /\ Fits(all[Len(arenas) + 1], size)
      BY <3>1, GrownInOrder
    <3> HIDE DEF all
    <3>4. Len(arenas) + 1 \in 1 .. Len(all)
      BY <3>2, <3>3
    <3> QED BY <3>3, <3>4
  <2> QED BY <2>1, <2>2
<1> HIDE DEF all
<1>3. PICK x \in T : \A y \in T : x <= y
  <2>1. T \in SUBSET Nat
    BY <1>1
  <2> HIDE DEF T
  <2> QED BY <1>2, <2>1, Least, Zenon
<1>4. x \in DOMAIN all /\ First(x)
  <2>1. x \in 1 .. Len(all) /\ Fits(all[x], size)
    BY <1>3
  <2>2. ASSUME NEW l \in 1 .. x - 1 PROVE ~Fits(all[l], size)
    <3>1. l \in 1 .. Len(all)
      BY <1>1, <2>1
    <3>2. l \in T => x <= l
      BY <1>3
    <3>3. l \notin T
      BY <1>1, <2>1, <3>2
    <3> QED BY <3>1, <3>3
  <2> QED BY <1>1, <2>1, <2>2
<1>5. k \in DOMAIN all /\ First(k)
  <2> HIDE DEF First
  <2> QED BY <1>4
<1>6. allocateExecBlock(size) = [arenas |-> [all EXCEPT ![k] = TakenFrom(@, size)], addr |-> all[k].cursor_addr]
  BY DEF allocateExecBlock, all, Grown
<1> HIDE DEF k
<1> QED
  BY <1>1, <1>5, <1>6 DEF Choice

-----------------------------------------------------------------------------
(* Inline hooks: the invariant *)

\* The words under the trampoline of f, and the instructions loaded there.
Span(f) == f .. f + Len(Trampoline(f)) - 1
Saved(f) == [k \in 1 .. Len(Trampoline(f)) |-> image.code[f + k - 1]]

\* A block is in an arena, and it has its words.
BlocksKept ==
  \A b \in blocks :
    /\ b.at \in Int /\ b.words \in Seq(Word)
    /\ \E k \in 1 .. Len(arenas) : Within(arenas, k, b.at, Len(b.words))
    /\ \A k \in 1 .. Len(b.words) : b.at + k - 1 \in DOMAIN mem /\ mem[b.at + k - 1] = b.words[k]

\* Entries hold the instructions that were loaded.
EntriesSaved ==
  /\ DOMAIN entries = image.targets
  /\ \A f \in image.targets : Hooked(f) => entries[f].origin_insns = Saved(f)

Hooking == /\ ~Hooked(patch.at) /\ patch.words = Trampoline(patch.at)
           /\ patch.entry # NoEntry /\ patch.entry.origin_insns = Saved(patch.at)
Unhooking == Hooked(patch.at) /\ patch.words = Saved(patch.at) /\ patch.entry = NoEntry

\* A patch replaces the instructions of a function by a trampoline or back.
PatchUnderWay ==
  patch = NoPatch \/
  /\ patch = [at |-> patch.at, words |-> patch.words, done |-> patch.done, entry |-> patch.entry]
  /\ patch.at \in image.targets /\ patch.done \in 0 .. Len(patch.words)
  /\ Hooking \/ Unhooking

\* The k-th word of f, as far as it is patched.
Shown(f, k) == IF f = patch.at /\ k <= patch.done THEN patch.words[k]
               ELSE IF Hooked(f) THEN Trampoline(f)[k] ELSE image.code[f + k - 1]

\* Memory shows that, and elsewhere what was loaded.
CodeShown ==
  /\ DOMAIN image.code \subseteq DOMAIN mem
  /\ \A f \in image.targets : \A k \in 1 .. Len(Trampoline(f)) : mem[f + k - 1] = Shown(f, k)
  /\ \A a \in DOMAIN image.code : (\A f \in image.targets : a \notin Span(f)) => mem[a] = image.code[a]

\* The invariant.
InlineInv ==
  /\ image \in Images /\ InOrder(arenas)
  /\ BlocksKept /\ EntriesSaved /\ PatchUnderWay /\ CodeShown

\* What is assumed of images.
LEMMA Loaded ==
  ASSUME image \in Images
  PROVE  /\ \A a \in DOMAIN image.code : a \in Int /\ a < ArenaBase /\ image.code[a] \in Word
         /\ \A f \in image.targets : f \in DOMAIN image.code /\ f \in Int /\ Replacement[f] \in Int
<1>1. /\ DOMAIN image.code \subseteq Int /\ image.code \in [DOMAIN image.code -> Word]
      /\ image.targets \subseteq DOMAIN Replacement /\ image.targets \subseteq DOMAIN image.code
      /\ \A a \in DOMAIN image.code : a < ArenaBase
  BY ImagesAssumption
<1>2. \A f \in DOMAIN Replacement : Replacement[f] \in Int
  BY MachineAssumption
<1> QED
  BY <1>1, <1>2

\* The words under a trampoline are code.
LEMMA Spanned ==
  ASSUME image \in Images, NEW f \in image.targets
  PROVE  /\ f \in Int /\ Trampoline(f) \in Seq(Word) /\ Len(Trampoline(f)) \in {3, 4}
         /\ \A k \in 1 .. Len(Trampoline(f)) : f + k - 1 \in DOMAIN image.code /\ f + k - 1 \in Span(f)
         /\ Saved(f) \in Seq(Word) /\ Len(Saved(f)) = Len(Trampoline(f))
         /\ \A a \in Span(f) : a - f + 1 \in 1 .. Len(Trampoline(f)) /\ f + (a - f + 1) - 1 = a
<1> DEFINE n == Len(Trampoline(f))
<1>1. f \in DOMAIN image.code /\ f \in Int /\ Replacement[f] \in Int
  BY Loaded
<1>2. Trampoline(f) \in Seq(Word) /\ n \in {3, 4}
  BY <1>1, TrampolineTypes
<1>3. f + 1 .. f + n - 1 \subseteq DOMAIN image.code
  BY ImagesAssumption DEF Hookable
<1> HIDE DEF n
<1>4. ASSUME NEW k \in 1 .. n PROVE f + k - 1 \in DOMAIN image.code /\ f + k - 1 \in f .. f + n - 1
  <2>1. CASE k = 1
    BY <1>1, <1>2, <2>1
  <2>2. CASE k # 1
    BY <1>1, <1>2, <1>3, <2>2
  <2> QED BY <2>1, <2>2
<1>5. Saved(f) = [k \in 1 .. n |-> image.code[f + k - 1]]
  BY DEF Saved, n
<1>6. \A k \in 1 .. n : image.code[f + k - 1] \in Word
  BY <1>4, Loaded
<1>7. Saved(f) \in Seq(Word) /\ Len(Saved(f)) = n
  BY <1>2, <1>5, <1>6
<1>8. \A a \in f .. f + n - 1 : a - f + 1 \in 1 .. n /\ f + (a - f + 1) - 1 = a
  BY <1>1, <1>2
<1> QED
  BY <1>1, <1>2, <1>4, <1>7, <1>8 DEF Span, n

\* Trampolines are apart.
LEMMA SpansApart ==
  ASSUME image \in Images, NEW f \in image.targets, NEW g \in image.targets, f # g,
         NEW a \in Span(f)
  PROVE  a \notin Span(g)
<1> DEFINE n == Len(Trampoline(f))
           m == Len(Trampoline(g))
<1>1. f \in Int /\ g \in Int /\ n \in {3, 4} /\ m \in {3, 4}
  BY Spanned
<1>2. g \notin f + 1 .. f + n - 1 /\ f \notin g + 1 .. g + m - 1
  BY ImagesAssumption DEF Hookable
<1> HIDE DEF n, m
<1>3. a \in f .. f + n - 1
  BY DEF Span, n
<1>4. a \notin g .. g + m - 1
  BY <1>1, <1>2, <1>3
<1> QED
  BY <1>4 DEF Span, m

\* The invariant holds at first, and the steps keep it.
LEMMA InlineInitInv == InlineInit => InlineInv
<1> SUFFICES ASSUME InlineInit PROVE InlineInv
  OBVIOUS
<1>1. image \in Images /\ mem = image.code /\ arenas = <<>> /\ blocks = {} /\ patch = NoPatch
  BY DEF InlineInit
<1>2. DOMAIN entries = image.targets /\ \A f \in image.targets : ~Hooked(f)
  BY DEF InlineInit, Hooked
<1>3. InOrder(arenas)
  BY <1>1 DEF InOrder
<1>4. BlocksKept /\ PatchUnderWay /\ EntriesSaved
  BY <1>1, <1>2 DEF BlocksKept, PatchUnderWay, EntriesSaved
<1>5. ASSUME NEW f \in image.targets, NEW k \in 1 .. Len(Trampoline(f))
      PROVE  mem[f + k - 1] = Shown(f, k)
  <2>1. patch.done = 0 /\ ~(k <= patch.done)
    BY <1>1, Spanned DEF NoPatch
  <2> QED BY <1>1, <1>2, <2>1 DEF Shown
<1>6. CodeShown
  BY <1>1, <1>5 DEF CodeShown
<1> QED
  BY <1>1, <1>3, <1>4, <1>6 DEF InlineInv

\* Steps that leave the code alone.
LEMMA CodeUntouched ==
  ASSUME InlineInv, UNCHANGED <<image, mem, arenas, entries, patch, blocks>>
  PROVE  InlineInv'
BY DEF InlineInv, BlocksKept, EntriesSaved, PatchUnderWay, Hooking, Unhooking, Shown, CodeShown,
       Hooked, Saved, Span, InOrder, Within

\* The last step of a patch enters what the words already show.
LEMMA CommitInv ==
  ASSUME InlineInv, Commit
  PROVE  InlineInv'
<1> DEFINE p == patch.at
           n == Len(Trampoline(p))
<1>1. /\ patch # NoPatch /\ patch.done = Len(patch.words)
      /\ entries' = [entries EXCEPT ![p] = patch.entry]
      /\ patch' = NoPatch /\ UNCHANGED <<image, mem, arenas, blocks>>
  BY DEF Commit
<1>2. p \in image.targets /\ (Hooking \/ Unhooking)
  BY <1>1 DEF InlineInv, PatchUnderWay
<1>3. image \in Images /\ DOMAIN entries = image.targets
  BY DEF InlineInv, EntriesSaved
<1>4. n \in {3, 4} /\ Len(Saved(p)) = n /\ patch.done = n
  BY <1>1, <1>2, <1>3, Spanned DEF Hooking, Unhooking
<1>5. \A f \in image.targets : Saved(f)' = Saved(f)
  BY <1>1 DEF Saved
<1>6. entries'[p] = patch.entry /\ \A f \in image.targets : f # p => entries'[f] = entries[f]
  BY <1>1, <1>2, <1>3
<1>7. EntriesSaved'
  <2>1. \A f \in image.targets : f # p /\ entries'[f] # NoEntry => entries'[f].origin_insns = Saved(f)
    BY <1>6 DEF InlineInv, EntriesSaved, Hooked
  <2>2. entries'[p] # NoEntry => entries'[p].origin_insns = Saved(p)
    BY <1>2, <1>6 DEF Hooking, Unhooking
  <2>3. DOMAIN entries' = image.targets
    BY <1>1, <1>3
  <2> QED BY <1>1, <1>5, <2>1, <2>2, <2>3 DEF EntriesSaved, Hooked
<1>8. ASSUME NEW f \in image.targets, NEW k \in 1 .. Len(Trampoline(f))
      PROVE  mem[f + k - 1] = IF entries'[f] # NoEntry THEN Trampoline(f)[k] ELSE image.code[f + k - 1]
  <2>1. mem[f + k - 1] = Shown(f, k)
    BY DEF InlineInv, CodeShown
  <2>2. CASE f = p
    <3>1. k <= patch.done
      BY <1>4, <2>2
    <3>2. mem[f + k - 1] = patch.words[k]
      BY <2>1, <2>2, <3>1 DEF Shown
    <3>3. CASE Hooking
      BY <1>6, <2>2, <3>2, <3>3 DEF Hooking
    <3>4. CASE Unhooking
      BY <1>6, <2>2, <3>2, <3>4 DEF Unhooking, Saved
    <3> QED BY <1>2, <3>3, <3>4
  <2>3. CASE f # p
    BY <1>6, <2>1, <2>3 DEF Shown, Hooked
  <2> QED BY <2>2, <2>3
<1>9. ASSUME NEW f \in image.targets, NEW k \in 1 .. Len(Trampoline(f))
      PROVE  mem[f + k - 1] = Shown(f, k)'
  <2>1. patch'.done = 0 /\ ~(k <= patch'.done)
    BY <1>1, <1>3, Spanned DEF NoPatch
  <2> QED BY <1>1, <1>8, <2>1 DEF Shown, Hooked
<1>10. CodeShown'
  BY <1>1, <1>9 DEF InlineInv, CodeShown, Span
<1>11. BlocksKept' /\ InOrder(arenas)' /\ PatchUnderWay'
  BY <1>1 DEF InlineInv, BlocksKept, InOrder, Within, PatchUnderWay
<1> QED
  BY <1>1, <1>3, <1>7, <1>10, <1>11 DEF InlineInv

\* An unhook begins with nothing patched.
LEMMA UnhookInv ==
  ASSUME InlineInv, NEW f \in image.targets, InlineUnhooker(f)
  PROVE  InlineInv'
<1>1. /\ patch = NoPatch /\ Hooked(f)
      /\ patch' = [at |-> f, words |-> entries[f].origin_insns, done |-> 0, entry |-> NoEntry]
      /\ UNCHANGED <<image, mem, arenas, entries, blocks>>
  BY DEF InlineUnhooker, Hook
<1>2. image \in Images
  BY DEF InlineInv
<1>3. entries[f].origin_insns = Saved(f)
  BY <1>1 DEF InlineInv, EntriesSaved
<1>4. patch'.at = f /\ patch'.words = Saved(f) /\ patch'.done = 0 /\ patch'.entry = NoEntry
  BY <1>1, <1>3
<1>5. Len(Saved(f)) \in Nat
  BY <1>2, Spanned
<1>6. PatchUnderWay'
  <2>1. Unhooking'
    BY <1>1, <1>4 DEF Unhooking, Hooked, Saved
  <2>2. patch'.done \in 0 .. Len(patch'.words)
    BY <1>4, <1>5
  <2>3. patch' = [at |-> patch'.at, words |-> patch'.words, done |-> patch'.done, entry |-> patch'.entry]
    BY <1>1
  <2> QED BY <1>1, <1>4, <2>1, <2>2, <2>3 DEF PatchUnderWay
<1>7. ASSUME NEW g \in image.targets, NEW k \in 1 .. Len(Trampoline(g))
      PROVE  Shown(g, k)' = Shown(g, k)
  <2>1. ~(k <= 0)
    BY <1>2, Spanned
  <2>2. patch.done = 0
    BY <1>1 DEF NoPatch
  <2> QED BY <1>1, <1>4, <2>1, <2>2 DEF Shown, Hooked
<1>8. CodeShown'
  BY <1>1, <1>7 DEF InlineInv, CodeShown, Span
<1>9. BlocksKept' /\ InOrder(arenas)' /\ EntriesSaved'
  BY <1>1 DEF InlineInv, BlocksKept, InOrder, Within, EntriesSaved, Hooked, Saved
<1> QED
  BY <1>1, <1>2, <1>6, <1>8, <1>9 DEF InlineInv

\* A word is patched under the trampoline of the patch and nowhere else.
LEMMA PatchWordInv ==
  ASSUME InlineInv, PatchWord
  PROVE  InlineInv'
<1> DEFINE p == patch.at
           d == patch.done
           n == Len(Trampoline(p))
<1>1. /\ d < Len(patch.words)
      /\ mem' = [mem EXCEPT ![p + d] = patch.words[d + 1]]
      /\ patch' = [patch EXCEPT !.done = @ + 1]
      /\ UNCHANGED <<image, arenas, entries, blocks>>
  BY DEF PatchWord
<1>2. patch # NoPatch
  BY <1>1 DEF NoPatch
<1>3. /\ patch = [at |-> p, words |-> patch.words, done |-> d, entry |-> patch.entry]
      /\ p \in image.targets /\ d \in 0 .. Len(patch.words) /\ (Hooking \/ Unhooking)
  BY <1>2 DEF InlineInv, PatchUnderWay
<1>4. image \in Images
  BY DEF InlineInv
<1>5. n \in {3, 4} /\ Len(patch.words) = n /\ p \in Int /\ d \in 0 .. n - 1
  <2>1. n \in {3, 4} /\ Len(Saved(p)) = n /\ p \in Int
    BY <1>3, <1>4, Spanned
  <2>2. Len(patch.words) = n
    BY <1>3, <2>1 DEF Hooking, Unhooking
  <2> QED BY <1>1, <1>3, <2>1, <2>2
<1>6. patch'.at = p /\ patch'.words = patch.words /\ patch'.done = d + 1 /\ patch'.entry = patch.entry
  BY <1>1, <1>3
<1>7. PatchUnderWay'
  <2>1. Hooking' \/ Unhooking'
    BY <1>1, <1>3, <1>6 DEF Hooking, Unhooking, Hooked, Saved
  <2>2. patch' = [at |-> patch'.at, words |-> patch'.words, done |-> patch'.done, entry |-> patch'.entry]
    BY <1>1, <1>3
  <2>3. patch'.done \in 0 .. Len(patch'.words)
    BY <1>5, <1>6
  <2> QED BY <1>1, <1>3, <1>6, <2>1, <2>2, <2>3 DEF PatchUnderWay
<1>8. /\ p + d \in Span(p) /\ p + d \in DOMAIN image.code /\ p + d \in Int
      /\ p + d \in DOMAIN mem
  <2>1. d + 1 \in 1 .. n /\ p + (d + 1) - 1 = p + d
    BY <1>5
  <2>2. p + (d + 1) - 1 \in Span(p) /\ p + (d + 1) - 1 \in DOMAIN image.code
    BY <1>3, <1>4, <2>1, Spanned
  <2> QED BY <1>5, <2>1, <2>2 DEF InlineInv, CodeShown
<1>9. /\ DOMAIN mem' = DOMAIN mem /\ mem'[p + d] = patch.words[d + 1]
      /\ \A a \in DOMAIN mem : a # p + d => mem'[a] = mem[a]
  BY <1>1, <1>8
<1>10. ASSUME NEW f \in image.targets, NEW k \in 1 .. Len(Trampoline(f))
       PROVE  mem'[f + k - 1] = Shown(f, k)'
  <2>1. /\ f \in Int /\ f + k - 1 \in Span(f) /\ f + k - 1 \in DOMAIN mem
        /\ mem[f + k - 1] = Shown(f, k) /\ k \in Int
    <3>1. f \in Int /\ Len(Trampoline(f)) \in {3, 4}
      BY <1>4, Spanned
    <3>2. f + k - 1 \in Span(f) /\ f + k - 1 \in DOMAIN image.code
      BY <1>4, Spanned
    <3> QED BY <3>1, <3>2 DEF InlineInv, CodeShown
  <2>2. CASE f = p /\ k = d + 1
    <3>1. f + k - 1 = p + d
      BY <1>5, <2>2
    <3>2. mem'[f + k - 1] = patch.words[d + 1]
      BY <1>9, <3>1
    <3>3. Shown(f, k)' = patch'.words[k]
      BY <1>5, <1>6, <2>2 DEF Shown
    <3> QED BY <1>6, <2>2, <3>2, <3>3
  <2>3. CASE f = p /\ k # d + 1
    <3>1. f + k - 1 # p + d /\ (k <= d + 1 <=> k <= d)
      <4>1. p \in Int /\ d \in Int /\ k \in Int /\ f = p /\ k # d + 1
        BY <1>5, <2>1, <2>3
      <4> HIDE DEF p, d
      <4> QED BY <4>1
    <3> QED BY <1>1, <1>6, <1>9, <2>1, <2>3, <3>1 DEF Shown, Hooked
  <2>4. CASE f # p
    <3>1. f + k - 1 # p + d
      BY <1>3, <1>4, <1>8, <2>1, <2>4, SpansApart
    <3> QED BY <1>1, <1>6, <1>9, <2>1, <2>4, <3>1 DEF Shown, Hooked
  <2> QED BY <2>2, <2>3, <2>4
<1>11. ASSUME NEW a \in DOMAIN image.code, \A f \in image.targets : a \notin Span(f)
       PROVE  mem'[a] = image.code[a]
  <2>1. a # p + d
    BY <1>3, <1>8, <1>11
  <2>2. a \in DOMAIN mem /\ mem[a] = image.code[a]
    BY <1>11 DEF InlineInv, CodeShown
  <2> QED BY <1>9, <2>1, <2>2
<1>12. CodeShown'
  BY <1>1, <1>9, <1>10, <1>11 DEF InlineInv, CodeShown, Span
<1>13. BlocksKept'
  <2>1. ASSUME NEW b \in blocks, NEW k \in 1 .. Len(b.words)
        PROVE  b.at + k - 1 # p + d
    <3>1. b.at \in Int /\ ArenaBase <= b.at /\ k \in Nat \ {0}
      BY DEF InlineInv, BlocksKept, Within
    <3>2. p + d < ArenaBase
      BY <1>4, <1>8, Loaded
    <3> QED BY <1>8, <3>1, <3>2, MachineAssumption
  <2>2. ASSUME NEW b \in blocks
        PROVE  /\ b.at \in Int /\ b.words \in Seq(Word)
               /\ \E k \in 1 .. Len(arenas) : Within(arenas, k, b.at, Len(b.words))
    BY DEF InlineInv, BlocksKept
  <2>3. ASSUME NEW b \in blocks, NEW k \in 1 .. Len(b.words)
        PROVE  b.at + k - 1 \in DOMAIN mem' /\ mem'[b.at + k - 1] = b.words[k]
    <3>1. b.at + k - 1 \in DOMAIN mem /\ mem[b.at + k - 1] = b.words[k]
      BY DEF InlineInv, BlocksKept
    <3> QED BY <1>9, <2>1, <3>1
  <2>4. \A k, at, size : Within(arenas', k, at, size) <=> Within(arenas, k, at, size)
    BY <1>1
  <2> QED BY <1>1, <2>2, <2>3, <2>4 DEF BlocksKept
<1>14. InOrder(arenas)' /\ EntriesSaved'
  BY <1>1 DEF InlineInv, InOrder, EntriesSaved, Hooked, Saved
<1> QED
  BY <1>1, <1>4, <1>7, <1>12, <1>13, <1>14 DEF InlineInv

\* A block that is taken is in its arena, and nothing else is there.
LEMMA Allocated ==
  ASSUME InOrder(arenas), NEW size \in Nat, NEW all, NEW k, Choice(size, all, k),
         NEW r, r = allocateExecBlock(size)
  PROVE  /\ InOrder(r.arenas) /\ r.addr \in Int /\ ArenaBase <= r.addr
         /\ Within(r.arenas, k, r.addr, size)
         /\ \A j \in 1 .. Len(arenas), at \in Int, n \in Nat :
              Within(arenas, j, at, n) => /\ Within(r.arenas, j, at, n)
                                          /\ at + n <= r.addr \/ r.addr + size <= at
<1> DEFINE s == [all EXCEPT ![k] = TakenFrom(@, size)]
           c == all[k].cursor_addr
           e == all[k].end
<1>1. /\ all \in Seq(ArenaRecords) /\ k \in 1 .. Len(all) /\ Len(all) \in Nat /\ Len(arenas) \in Nat
      /\ Len(arenas) <= Len(all) /\ \A j \in 1 .. Len(arenas) : all[j] = arenas[j]
      /\ r = [arenas |-> s, addr |-> c] /\ Fits(all[k], size)
  BY DEF Choice, InOrder
<1>2. \A j \in 1 .. Len(all) : all[j] \in ArenaRecords /\ all[j].cursor_addr \in Int /\ all[j].end \in Int
  <2>1. ASSUME NEW j \in 1 .. Len(all) PROVE all[j] \in ArenaRecords
    BY <1>1
  <2> QED BY <2>1 DEF ArenaRecords
<1>3. /\ \A j \in 1 .. Len(all) : ArenaBase <= all[j].cursor_addr /\ all[j].cursor_addr <= all[j].end
      /\ \A j \in 1 .. Len(all), l \in 1 .. Len(all) : l < j => all[l].end <= all[j].cursor_addr
  BY DEF Choice, InOrder
<1>4. c \in Int /\ e \in Int /\ ArenaBase <= c /\ c + size <= e
  BY <1>1, <1>2, <1>3 DEF Fits
<1>5. TakenFrom(all[k], size) = [end |-> e, cursor_addr |-> c + size]
  <2>1. all[k] \in ArenaRecords
    BY <1>1, <1>2
  <2> QED BY <2>1 DEF TakenFrom, ArenaRecords
<1>6. /\ s \in Seq(ArenaRecords) /\ Len(s) = Len(all)
      /\ s[k].end = e /\ s[k].cursor_addr = c + size
      /\ \A j \in 1 .. Len(all) : j # k => s[j] = all[j]
  <2> DEFINE x == [end |-> e, cursor_addr |-> c + size]
  <2>1. x \in ArenaRecords /\ x.end = e /\ x.cursor_addr = c + size
    BY <1>4 DEF ArenaRecords
  <2>2. s = [all EXCEPT ![k] = x]
    BY <1>5
  <2> HIDE DEF x, s, e, c
  <2>3. s \in Seq(ArenaRecords) /\ Len(s) = Len(all) /\ s[k] = x
        /\ \A j \in 1 .. Len(all) : j # k => s[j] = all[j]
    BY <1>1, <2>1, <2>2
  <2> QED BY <2>1, <2>3
<1> HIDE DEF s, c, e
<1>7. \A j \in 1 .. Len(all) : s[j].end = all[j].end /\ s[j].cursor_addr \in Int /\ all[j].cursor_addr <= s[j].cursor_addr
  <2>1. e = all[k].end /\ c = all[k].cursor_addr
    BY DEF e, c
  <2>2. c <= c + size /\ c + size \in Int
    BY <1>4
  <2>3. ASSUME NEW j \in 1 .. Len(all)
        PROVE  s[j].end = all[j].end /\ s[j].cursor_addr \in Int /\ all[j].cursor_addr <= s[j].cursor_addr
    <3>1. CASE j = k
      BY <1>6, <2>1, <2>2, <3>1
    <3>2. CASE j # k
      <4>1. s[j] = all[j] /\ all[j].cursor_addr \in Int
        BY <1>2, <1>6, <3>2
      <4> DEFINE old == all[j].cursor_addr
      <4>2. old \in Int /\ s[j].cursor_addr = old
        BY <4>1
      <4> HIDE DEF old
      <4>3. old <= old
        BY <4>2
      <4> QED BY <4>1, <4>2, <4>3 DEF old
    <3> QED BY <3>1, <3>2
  <2> QED BY <2>3
<1>8. ASSUME NEW j \in 1 .. Len(all)
      PROVE  ArenaBase <= s[j].cursor_addr /\ s[j].cursor_addr <= s[j].end
  <2>1. CASE j = k
    BY <1>4, <1>6, <2>1, MachineAssumption
  <2>2. CASE j # k
    BY <1>3, <1>6, <2>2
  <2> QED BY <2>1, <2>2
<1>9. ASSUME NEW j \in 1 .. Len(all), NEW l \in 1 .. Len(all), l < j
      PROVE  s[l].end <= s[j].cursor_addr
  <2>1. all[l].end <= all[j].cursor_addr /\ s[l].end = all[l].end /\ all[j].cursor_addr <= s[j].cursor_addr
    BY <1>3, <1>7, <1>9
  <2> QED BY <1>2, <1>7, <2>1
<1>10. InOrder(s)
  BY <1>6, <1>8, <1>9 DEF InOrder
<1>11. Within(s, k, c, size)
  <2>1. \A j \in 1 .. Len(all) : j < k => s[j].end <= c
    BY <1>1, <1>3, <1>7 DEF c
  <2>2. c + size <= s[k].cursor_addr
    BY <1>4, <1>6
  <2> QED BY <1>1, <1>4, <1>6, <2>1, <2>2 DEF Within
<1>12. ASSUME NEW j \in 1 .. Len(arenas), NEW at \in Int, NEW n \in Nat, Within(arenas, j, at, n)
       PROVE  Within(s, j, at, n) /\ (at + n <= c \/ c + size <= at)
  <2>1. /\ j \in 1 .. Len(all) /\ all[j] = arenas[j]
        /\ ArenaBase <= at /\ at + n <= all[j].cursor_addr
        /\ \A l \in 1 .. Len(all) : l < j => all[l].end <= at
    <3>1. j \in 1 .. Len(all) /\ all[j] = arenas[j]
      BY <1>1
    <3>2. ASSUME NEW l \in 1 .. Len(all), l < j PROVE all[l].end <= at
      <4>1. l \in 1 .. Len(arenas)
        BY <1>1, <3>2
      <4> QED BY <1>1, <1>12, <3>2, <4>1 DEF Within
    <3> QED BY <1>12, <3>1, <3>2 DEF Within
  <2>2. Within(s, j, at, n)
    <3>1. at + n <= s[j].cursor_addr
      <4> DEFINE old == all[j].cursor_addr
                 new == s[j].cursor_addr
      <4>1. old \in Int /\ new \in Int /\ old <= new /\ at + n <= old
        BY <1>2, <1>7, <2>1
      <4> HIDE DEF old, new
      <4>2. at + n <= new
        BY <4>1
      <4> QED BY <4>2 DEF new
    <3>2. \A l \in 1 .. Len(all) : l < j => s[l].end <= at
      BY <1>7, <2>1
    <3> QED BY <1>6, <2>1, <3>1, <3>2 DEF Within
  <2>3. at + n <= c \/ c + size <= at
    <3>1. CASE j < k
      <4>1. at + n <= all[j].cursor_addr /\ all[j].cursor_addr <= all[j].end /\ all[j].end <= c
        BY <1>1, <1>3, <2>1, <3>1 DEF c
      <4> DEFINE cursor == all[j].cursor_addr
                 end == all[j].end
      <4>2. cursor \in Int /\ end \in Int
        BY <1>2, <2>1
      <4>3. at + n <= cursor /\ cursor <= end /\ end <= c
        BY <4>1
      <4> HIDE DEF cursor, end
      <4> QED BY <1>4, <4>2, <4>3
    <3>2. CASE j = k
      BY <2>1, <3>2 DEF c
    <3>3. CASE k < j
      <4>1. e <= at
        BY <1>1, <2>1, <3>3 DEF e
      <4> QED BY <1>4, <4>1
    <3> QED BY <1>1, <2>1, <3>1, <3>2, <3>3
  <2> QED BY <2>2, <2>3
<1>13. r.arenas = s /\ r.addr = c
  BY <1>1
<1> QED
  BY <1>4, <1>10, <1>11, <1>12, <1>13

\* A hook begins: its block is new, and what it saves is what was loaded.
LEMMA HookInv ==
  ASSUME InlineInv, NEW f \in image.targets, InlineHooker(f)
  PROVE  InlineInv'
<1> DEFINE buffer == Trampoline(f)
           origin == [k \in 1 .. Len(buffer) |-> mem[f + k - 1]]
           code == relo_relocate(origin, f)
           r == allocateExecBlock(Len(code))
           entry == [origin_insns |-> origin, relocated_addr |-> r.addr]
<1>1. /\ patch = NoPatch /\ ~Hooked(f)
      /\ arenas' = r.arenas /\ mem' = With(mem, r.addr, code)
      /\ blocks' = blocks \cup {[at |-> r.addr, words |-> code, origin |-> origin]}
      /\ patch' = [at |-> f, words |-> buffer, done |-> 0, entry |-> entry]
      /\ UNCHANGED <<image, entries>>
  BY DEF InlineHooker, Hook
<1>2. image \in Images /\ InOrder(arenas) /\ patch.done = 0
  BY <1>1 DEF InlineInv, NoPatch
<1>3. origin = Saved(f)
  <2>1. ASSUME NEW k \in 1 .. Len(buffer) PROVE mem[f + k - 1] = image.code[f + k - 1]
    <3>1. mem[f + k - 1] = Shown(f, k)
      BY DEF InlineInv, CodeShown
    <3>2. ~(k <= patch.done)
      BY <1>2, Spanned
    <3> QED BY <1>1, <3>1, <3>2 DEF Shown
  <2> QED BY <2>1 DEF Saved
<1>4. /\ f \in Int /\ buffer \in Seq(Word) /\ Len(buffer) \in {3, 4}
      /\ Saved(f) \in Seq(Word) /\ Len(Saved(f)) = Len(buffer)
  BY <1>2, Spanned
<1>5. code \in Seq(Word)
  <2> HIDE DEF origin
  <2> QED BY <1>3, <1>4, RelocatedCode
<1>6. Len(code) \in Nat
  BY <1>5
<1>7. patch'.at = f /\ patch'.words = buffer /\ patch'.done = 0 /\ patch'.entry = entry
  BY <1>1
<1>8. entry.origin_insns = Saved(f) /\ entry # NoEntry
  <2>1. entry.origin_insns = Saved(f)
    BY <1>3
  <2>2. Saved(f) # <<>>
    BY <1>4
  <2> HIDE DEF entry
  <2> QED BY <2>1, <2>2 DEF NoEntry
<1> HIDE DEF code, r, entry
<1>9. PICK all, k : Choice(Len(code), all, k)
  BY <1>2, <1>6, Chosen
<1>10. /\ InOrder(r.arenas) /\ r.addr \in Int /\ ArenaBase <= r.addr
       /\ Within(r.arenas, k, r.addr, Len(code))
       /\ \A j \in 1 .. Len(arenas), at \in Int, n \in Nat :
            Within(arenas, j, at, n) => /\ Within(r.arenas, j, at, n)
                                        /\ at + n <= r.addr \/ r.addr + Len(code) <= at
  BY <1>2, <1>6, <1>9, Allocated DEF r
<1>11. /\ DOMAIN mem' = DOMAIN mem \cup (r.addr .. r.addr + Len(code) - 1)
       /\ \A a \in DOMAIN mem : a \notin r.addr .. r.addr + Len(code) - 1 => mem'[a] = mem[a]
       /\ \A a \in r.addr .. r.addr + Len(code) - 1 : mem'[a] = code[a - r.addr + 1]
  BY <1>1 DEF With
<1>12. PatchUnderWay'
  <2>1. Hooking'
    BY <1>1, <1>7, <1>8 DEF Hooking, Hooked, Saved
  <2>2. patch'.done \in 0 .. Len(patch'.words)
    BY <1>4, <1>7
  <2>3. patch' = [at |-> patch'.at, words |-> patch'.words, done |-> patch'.done, entry |-> patch'.entry]
    BY <1>1
  <2> QED BY <1>1, <1>7, <2>1, <2>2, <2>3 DEF PatchUnderWay
<1>13. \A a \in DOMAIN image.code : a \in DOMAIN mem /\ mem'[a] = mem[a]
  <2>1. ASSUME NEW a \in DOMAIN image.code PROVE a \in DOMAIN mem /\ mem'[a] = mem[a]
    <3>1. a \in Int /\ a < ArenaBase /\ a \in DOMAIN mem
      BY <1>2, Loaded DEF InlineInv, CodeShown
    <3>2. a \notin r.addr .. r.addr + Len(code) - 1
      BY <1>6, <1>10, <3>1, MachineAssumption
    <3> QED BY <1>11, <3>1, <3>2
  <2> QED BY <2>1
<1>14. CodeShown'
  <2>1. ASSUME NEW g \in image.targets, NEW i \in 1 .. Len(Trampoline(g))
        PROVE  mem'[g + i - 1] = Shown(g, i)'
    <3>1. mem[g + i - 1] = Shown(g, i) /\ g + i - 1 \in DOMAIN image.code /\ ~(i <= 0)
      <4>1. g + i - 1 \in DOMAIN image.code /\ ~(i <= 0)
        BY <1>2, Spanned
      <4> QED BY <4>1 DEF InlineInv, CodeShown
    <3>2. Shown(g, i)' = Shown(g, i)
      BY <1>1, <1>2, <1>7, <3>1 DEF Shown, Hooked
    <3> QED BY <1>13, <3>1, <3>2
  <2>2. \A a \in DOMAIN image.code :
          (\A g \in image.targets : a \notin Span(g)) => mem'[a] = image.code[a]
    BY <1>13 DEF InlineInv, CodeShown
  <2>3. DOMAIN image.code \subseteq DOMAIN mem'
    BY <1>11, <1>13
  <2> QED BY <1>1, <2>1, <2>2, <2>3 DEF CodeShown, Span
<1>15. BlocksKept'
  <2>1. ASSUME NEW b \in blocks
        PROVE  /\ b.at \in Int /\ b.words \in Seq(Word)
               /\ \E j \in 1 .. Len(arenas') : Within(arenas', j, b.at, Len(b.words))
               /\ \A i \in 1 .. Len(b.words) : /\ b.at + i - 1 \in DOMAIN mem'
                                               /\ mem'[b.at + i - 1] = b.words[i]
    <3>1. /\ b.at \in Int /\ b.words \in Seq(Word) /\ Len(b.words) \in Nat
          /\ \A i \in 1 .. Len(b.words) : b.at + i - 1 \in DOMAIN mem /\ mem[b.at + i - 1] = b.words[i]
      BY DEF InlineInv, BlocksKept
    <3>2. PICK j \in 1 .. Len(arenas) : Within(arenas, j, b.at, Len(b.words))
      BY DEF InlineInv, BlocksKept
    <3>3. /\ Within(arenas', j, b.at, Len(b.words))
          /\ b.at + Len(b.words) <= r.addr \/ r.addr + Len(code) <= b.at
      BY <1>1, <1>10, <3>1, <3>2
    <3>4. ASSUME NEW i \in 1 .. Len(b.words) PROVE b.at + i - 1 \notin r.addr .. r.addr + Len(code) - 1
      <4> DEFINE at == b.at
                 n == Len(b.words)
                 start == r.addr
                 size == Len(code)
      <4>1. at \in Int /\ n \in Nat /\ start \in Int /\ size \in Nat /\ (at + n <= start \/ start + size <= at)
        BY <1>6, <1>10, <3>1, <3>3
      <4>2. i \in 1 .. n
        OBVIOUS
      <4> HIDE DEF at, n, start, size
      <4>3. at + i - 1 \notin start .. start + size - 1
        BY <4>1, <4>2
      <4> QED BY <4>3 DEF at, n, start, size
    <3>5. j \in 1 .. Len(arenas')
      BY <3>3 DEF Within
    <3> QED BY <1>11, <3>1, <3>3, <3>4, <3>5
  <2> DEFINE b == [at |-> r.addr, words |-> code, origin |-> origin]
  <2>2. /\ b.at \in Int /\ b.words \in Seq(Word)
        /\ \E j \in 1 .. Len(arenas') : Within(arenas', j, b.at, Len(b.words))
        /\ \A i \in 1 .. Len(b.words) : /\ b.at + i - 1 \in DOMAIN mem'
                                        /\ mem'[b.at + i - 1] = b.words[i]
    <3>1. b.at = r.addr /\ b.words = code
      OBVIOUS
    <3> HIDE DEF b
    <3>2. k \in 1 .. Len(arenas') /\ Within(arenas', k, r.addr, Len(code))
      BY <1>1, <1>10 DEF Within
    <3>3. ASSUME NEW i \in 1 .. Len(code)
          PROVE  r.addr + i - 1 \in DOMAIN mem' /\ mem'[r.addr + i - 1] = code[i]
      <4>1. r.addr + i - 1 \in r.addr .. r.addr + Len(code) - 1 /\ (r.addr + i - 1) - r.addr + 1 = i
        BY <1>6, <1>10
      <4> QED BY <1>11, <4>1
    <3> QED BY <1>5, <1>10, <3>1, <3>2, <3>3
  <2>3. blocks' = blocks \cup {b}
    BY <1>1
  <2> HIDE DEF b
  <2> QED BY <2>1, <2>2, <2>3 DEF BlocksKept
<1>16. InOrder(arenas)' /\ EntriesSaved'
  BY <1>1, <1>10 DEF InlineInv, InOrder, EntriesSaved, Hooked, Saved
<1> QED
  BY <1>1, <1>2, <1>12, <1>14, <1>15, <1>16 DEF InlineInv

\* Every step keeps the invariant.
LEMMA InlineNextInv == InlineInv /\ [InlineNext]_inlineVars => InlineInv'
<1> SUFFICES ASSUME InlineInv, [InlineNext]_inlineVars PROVE InlineInv'
  OBVIOUS
<1>1. CASE UNCHANGED inlineVars
  BY <1>1, CodeUntouched DEF inlineVars, hookVars
<1>2. CASE PatchWord
  BY <1>2, PatchWordInv
<1>3. CASE Commit
  BY <1>3, CommitInv
<1>4. CASE Execute
  BY <1>4, CodeUntouched DEF Execute, hookVars
<1>5. ASSUME NEW f \in image.targets, UnprotectFails(f) \/ Call(f) \/ Replace(f)
      PROVE  InlineInv'
  BY <1>5, CodeUntouched DEF UnprotectFails, Call, Replace, hookVars
<1>6. ASSUME NEW f \in image.targets, InlineHooker(f) \/ InlineUnhooker(f)
      PROVE  InlineInv'
  BY <1>6, HookInv, UnhookInv
<1> QED
  BY <1>1, <1>2, <1>3, <1>4, <1>5, <1>6 DEF InlineNext

\* Blocks are apart from one another and from the code, whose words are those
\* loaded or those of a trampoline, patched so far (MemoryAllocator.cc:5-53,
\* FunctionInlineHook.cc:26-49).
THEOREM CodeInvariance == InlineSpec => []InlineInv
<1> QED
  BY InlineInitInv, InlineNextInv, PTL DEF InlineSpec

\* Code is what was loaded with the trampolines in place, and every block keeps
\* its instructions, whatever the images, pages, hooks and calls
\* (dobby.cpp:21-27).
THEOREM HookedCodeIsPatched == InlineSpec => []CodeIsPatched
<1>1. ASSUME InlineInv PROVE CodeIsPatched
  <2>1. ASSUME patch = NoPatch, NEW a \in DOMAIN image.code
        PROVE  mem[a] = LET over == {f \in image.targets : Hooked(f) /\ a \in f .. f + Len(Trampoline(f)) - 1}
                        IN IF over = {} THEN image.code[a]
                           ELSE LET f == CHOOSE x \in over : TRUE IN Trampoline(f)[a - f + 1]
    <3> DEFINE over == {f \in image.targets : Hooked(f) /\ a \in f .. f + Len(Trampoline(f)) - 1}
               f == CHOOSE x \in over : TRUE
    <3>1. image \in Images /\ patch.done = 0
      BY <1>1, <2>1 DEF InlineInv, NoPatch
    <3>2. ASSUME NEW g \in image.targets, a \in Span(g)
          PROVE  mem[a] = IF Hooked(g) THEN Trampoline(g)[a - g + 1] ELSE image.code[a]
      <4>1. a - g + 1 \in 1 .. Len(Trampoline(g)) /\ g + (a - g + 1) - 1 = a /\ Len(Trampoline(g)) \in {3, 4}
        BY <3>1, <3>2, Spanned
      <4>2. mem[g + (a - g + 1) - 1] = Shown(g, a - g + 1)
        BY <1>1, <4>1 DEF InlineInv, CodeShown
      <4>3. ~(a - g + 1 <= patch.done)
        BY <3>1, <4>1
      <4> QED BY <4>1, <4>2, <4>3 DEF Shown
    <3>3. CASE over = {}
      <4>1. \A g \in image.targets : a \in Span(g) => mem[a] = image.code[a]
        BY <3>2, <3>3 DEF Span
      <4>2. (\A g \in image.targets : a \notin Span(g)) => mem[a] = image.code[a]
        BY <1>1 DEF InlineInv, CodeShown
      <4> QED BY <3>3, <4>1, <4>2
    <3>4. CASE over # {}
      <4>1. f \in over
        BY <3>4
      <4>2. f \in image.targets /\ Hooked(f) /\ a \in Span(f)
        BY <4>1 DEF Span
      <4> HIDE DEF f
      <4>3. mem[a] = Trampoline(f)[a - f + 1]
        BY <3>2, <4>2
      <4> QED BY <3>4, <4>3 DEF f
    <3> QED BY <3>3, <3>4
  <2>2. ASSUME NEW b \in blocks, NEW k \in DOMAIN b.words PROVE mem[b.at + k - 1] = b.words[k]
    <3>1. k \in 1 .. Len(b.words)
      BY <1>1 DEF InlineInv, BlocksKept
    <3> QED BY <1>1, <3>1 DEF InlineInv, BlocksKept
  <2> QED BY <2>1, <2>2 DEF CodeIsPatched
<1> QED
  BY <1>1, CodeInvariance, PTL

-----------------------------------------------------------------------------
(* Inline hooks: calls of hooked functions *)

\* Products of a positive factor are in order.
LEMMA Times ==
  ASSUME NEW p \in Nat \ {0}, NEW a \in Int, NEW b \in Int, a <= b
  PROVE  a * p \in Int /\ b * p \in Int /\ a * p <= b * p
<1> DEFINE d == b - a
<1>1. d \in Nat /\ d * p \in Nat
  BY SMT
<1>2. b * p = a * p + d * p /\ a * p \in Int /\ b * p \in Int
  BY SMT
<1> HIDE DEF d
<1> QED
  BY <1>1, <1>2, SMT

\* What adrp and add compute, as far as adrp reaches.
LEMMA AdrpAdd ==
  ASSUME NEW f \in Int, NEW to \in Int,
         (IF f < to THEN to - f ELSE f - to) < Reach * Page,
         PageOf(to) - PageOf(f) # Reach
  PROVE  (PageOf(f) + AdrpPages(f, to)) * Page + (to % Page) = to
<1> DEFINE p == PageOf(f)
           q == PageOf(to)
           r == f % Page
           s == to % Page
<1>1. Page \in Nat \ {0} /\ Reach \in Nat \ {0}
  BY MachineAssumption
<1>2. p \in Int /\ r \in 0 .. Page - 1 /\ f = p * Page + r
  BY <1>1, SMT DEF PageOf
<1>3. q \in Int /\ s \in 0 .. Page - 1 /\ to = q * Page + s
  BY <1>1, SMT DEF PageOf
<1>4. AdrpPages(f, to) = ((q - p + Reach) % (2 * Reach)) - Reach
  BY DEF AdrpPages
<1>5. q - p # Reach
  OBVIOUS
<1> HIDE DEF p, q, r, s
<1> DEFINE a == p * Page
           b == q * Page
           c == Reach * Page
<1>6. a \in Int /\ b \in Int /\ c \in Int
  BY <1>1, <1>2, <1>3, SMT
<1>7. f = a + r /\ to = b + s /\ (IF f < to THEN to - f ELSE f - to) < c
  BY <1>2, <1>3
<1>8. ~(q >= p + Reach + 1)
  <2> SUFFICES ASSUME q >= p + Reach + 1 PROVE FALSE
    OBVIOUS
  <2>1. (p + Reach + 1) * Page <= b /\ (p + Reach + 1) * Page \in Int
    BY <1>1, <1>2, <1>3, Times
  <2>2. (p + Reach + 1) * Page = a + c + Page
    BY <1>1, <1>2, SMT
  <2> HIDE DEF a, b, c
  <2> QED BY <1>1, <1>2, <1>3, <1>6, <1>7, <2>1, <2>2
<1>9. ~(q + Reach + 1 <= p)
  <2> SUFFICES ASSUME q + Reach + 1 <= p PROVE FALSE
    OBVIOUS
  <2>1. (q + Reach + 1) * Page <= a /\ (q + Reach + 1) * Page \in Int
    BY <1>1, <1>2, <1>3, Times
  <2>2. (q + Reach + 1) * Page = b + c + Page
    BY <1>1, <1>3, SMT
  <2> HIDE DEF a, b, c
  <2> QED BY <1>1, <1>2, <1>3, <1>6, <1>7, <2>1, <2>2
<1>10. q - p + Reach \in 0 .. 2 * Reach - 1
  BY <1>1, <1>2, <1>3, <1>5, <1>8, <1>9
<1>11. (q - p + Reach) % (2 * Reach) = q - p + Reach
  <2> DEFINE x == q - p + Reach
             y == 2 * Reach
  <2>1. y \in Nat \ {0} /\ x \in 0 .. y - 1
    BY <1>1, <1>10
  <2> HIDE DEF x, y
  <2>2. x % y = x
    BY <2>1
  <2> QED BY <2>2 DEF x, y
<1>12. p + AdrpPages(f, to) = q
  BY <1>1, <1>2, <1>3, <1>4, <1>11
<1> QED
  BY <1>3, <1>12 DEF p, s

\* A thread on its way from f through the trampoline to the replacement.
Underway(c, f) ==
  /\ c.state = "running"
  /\ \/ c.pc = f
     \/ c.pc = Replacement[f]
     \/ /\ Trampoline(f) = Near(f, Replacement[f])
        /\ \/ c.pc = f + 1 /\ c.x17 + (Replacement[f] % Page) = Replacement[f]
           \/ c.pc = f + 2 /\ c.x17 = Replacement[f]
     \/ /\ Trampoline(f) = Far(Replacement[f])
        /\ c.pc = f + 1 /\ c.x17 = Replacement[f]

\* The call is of a hooked function, was not disturbed and has not got there.
Expected == call.began /\ ~call.overlapped /\ ~call.entered

\* A thread is a record.
Thread(c) ==
  c = [state |-> c.state, pc |-> c.pc, x17 |-> c.x17, stack |-> c.stack, effects |-> c.effects, flag |-> c.flag]

\* The history of a call is a record.
CallKept ==
  call = [callee |-> call.callee, began |-> call.began, entered |-> call.entered,
          overlapped |-> call.overlapped, exposed |-> call.exposed, count |-> call.count]

\* Then its thread is on the way.
Expecting ==
  Expected => /\ Thread(cpu)
              /\ call.callee \in image.targets /\ patch = NoPatch /\ Hooked(call.callee)
              /\ cpu.pc \in Int /\ Underway(cpu, call.callee)

\* Between patches the trampoline of a hooked function is there.
LEMMA TrampolineInPlace ==
  ASSUME InlineInv, patch = NoPatch, NEW f \in image.targets, Hooked(f)
  PROVE  \A k \in 1 .. Len(Trampoline(f)) : f + k - 1 \in DOMAIN mem /\ mem[f + k - 1] = Trampoline(f)[k]
<1> SUFFICES ASSUME NEW k \in 1 .. Len(Trampoline(f))
             PROVE  f + k - 1 \in DOMAIN mem /\ mem[f + k - 1] = Trampoline(f)[k]
  OBVIOUS
<1>1. image \in Images /\ patch.done = 0
  BY DEF InlineInv, NoPatch
<1>2. f + k - 1 \in DOMAIN image.code /\ ~(k <= patch.done)
  BY <1>1, Spanned
<1>3. mem[f + k - 1] = Shown(f, k)
  BY DEF InlineInv, CodeShown
<1> QED
  BY <1>2, <1>3 DEF Shown, InlineInv, CodeShown

\* What the instructions of trampolines do.
LEMMA LoadStep ==
  ASSUME NEW memory, NEW c, Thread(c), c.pc \in DOMAIN memory, c.pc \in Int,
         NEW to \in Int, NEW arg \in Int,
         \/ memory[c.pc] = I("adrp17", arg) /\ to = (PageOf(c.pc) + arg) * Page
         \/ memory[c.pc] = I("add17", arg) /\ to = c.x17 + arg
         \/ /\ memory[c.pc] = I("ldr17", arg)
            /\ c.pc + arg \in DOMAIN memory /\ memory[c.pc + arg] = I("low", to)
            /\ c.pc + arg + 1 \in DOMAIN memory /\ memory[c.pc + arg + 1] = I("high", to)
  PROVE  After(memory, c) = [state |-> c.state, pc |-> c.pc + 1, x17 |-> to, stack |-> c.stack,
                             effects |-> c.effects, flag |-> c.flag]
<1> DEFINE on == [c EXCEPT !.pc = @ + 1]
           end == [state |-> c.state, pc |-> c.pc + 1, x17 |-> to, stack |-> c.stack,
                   effects |-> c.effects, flag |-> c.flag]
<1>1. on = [state |-> c.state, pc |-> c.pc + 1, x17 |-> c.x17, stack |-> c.stack,
            effects |-> c.effects, flag |-> c.flag]
  BY DEF Thread
<1>2. [on EXCEPT !.x17 = to] = end
  <2> HIDE DEF on
  <2> QED BY <1>1
<1>3. CASE memory[c.pc] = I("adrp17", arg) /\ to = (PageOf(c.pc) + arg) * Page
  <2>1. memory[c.pc].op = "adrp17" /\ memory[c.pc].arg = arg
    BY <1>3 DEF I
  <2>2. After(memory, c) = [on EXCEPT !.x17 = (PageOf(c.pc) + memory[c.pc].arg) * Page]
    BY <2>1 DEF After
  <2> QED BY <1>2, <1>3, <2>1, <2>2
<1>4. CASE memory[c.pc] = I("add17", arg) /\ to = c.x17 + arg
  <2>1. memory[c.pc].op = "add17" /\ memory[c.pc].arg = arg
    BY <1>4 DEF I
  <2>2. After(memory, c) = [on EXCEPT !.x17 = c.x17 + memory[c.pc].arg]
    BY <2>1 DEF After
  <2> QED BY <1>2, <1>4, <2>1, <2>2
<1>5. CASE /\ memory[c.pc] = I("ldr17", arg)
           /\ c.pc + arg \in DOMAIN memory /\ memory[c.pc + arg] = I("low", to)
           /\ c.pc + arg + 1 \in DOMAIN memory /\ memory[c.pc + arg + 1] = I("high", to)
  <2>1. memory[c.pc].op = "ldr17" /\ memory[c.pc].arg = arg
    BY <1>5 DEF I
  <2> DEFINE At(a) == IF a \in DOMAIN memory THEN memory[a] ELSE I("none", 0)
             a == c.pc + memory[c.pc].arg
             v == IF At(a).op = "low" /\ At(a + 1) = I("high", At(a).arg) THEN At(a).arg ELSE Junk
  <2>2. After(memory, c) = [on EXCEPT !.x17 = v]
    BY <2>1 DEF After
  <2>3. At(a) = I("low", to) /\ At(a + 1) = I("high", to)
    BY <1>5, <2>1
  <2>4. At(a).op = "low" /\ At(a).arg = to
    BY <2>3 DEF I
  <2>5. v = to
    <3> HIDE DEF At, a
    <3> QED BY <2>3, <2>4
  <2> HIDE DEF v
  <2> QED BY <1>2, <2>2, <2>5
<1> QED
  BY <1>3, <1>4, <1>5

LEMMA BranchStep ==
  ASSUME NEW memory, NEW c, Thread(c), c.pc \in DOMAIN memory, memory[c.pc] = I("br17", 0)
  PROVE  After(memory, c) = [state |-> c.state, pc |-> c.x17, x17 |-> c.x17, stack |-> c.stack,
                             effects |-> c.effects, flag |-> c.flag]
<1>1. memory[c.pc].op = "br17"
  BY DEF I
<1>2. After(memory, c) = [c EXCEPT !.pc = c.x17]
  BY <1>1 DEF After
<1> QED
  BY <1>2 DEF Thread

\* Three or four words include three.
LEMMA ThreeWords ==
  ASSUME NEW n \in {3, 4}
  PROVE  1 \in 1 .. n /\ 2 \in 1 .. n /\ 3 \in 1 .. n
OBVIOUS

\* One step on the way.
LEMMA UnderwayStep ==
  ASSUME image \in Images, NEW f \in image.targets,
         \A k \in 1 .. Len(Trampoline(f)) : f + k - 1 \in DOMAIN mem /\ mem[f + k - 1] = Trampoline(f)[k],
         NEW d, Thread(d), d.pc \in Int, Underway(d, f), d.pc # Replacement[f],
         NEW c, c = After(mem, d)
  PROVE  /\ Thread(c) /\ c.pc \in Int /\ Underway(c, f)
         /\ c.state = d.state /\ c.stack = d.stack /\ c.effects = d.effects /\ c.flag = d.flag
<1> DEFINE to == Replacement[f]
           n == Len(Trampoline(f))
<1>2. f \in Int /\ to \in Int /\ n \in {3, 4}
  BY Loaded, Spanned
<1>3. \A k \in 1 .. n : f + k - 1 \in DOMAIN mem /\ mem[f + k - 1] = Trampoline(f)[k]
  OBVIOUS
<1>4. d.state = "running"
  BY DEF Underway
<1>5. /\ f \in DOMAIN mem /\ mem[f] = Trampoline(f)[1]
      /\ f + 1 \in DOMAIN mem /\ mem[f + 1] = Trampoline(f)[2]
      /\ f + 2 \in DOMAIN mem /\ mem[f + 2] = Trampoline(f)[3]
  <2>1. 1 \in 1 .. n /\ 2 \in 1 .. n /\ 3 \in 1 .. n
    BY <1>2, ThreeWords
  <2> HIDE DEF n, to
  <2>2. f + 1 - 1 = f /\ f + 2 - 1 = f + 1 /\ f + 3 - 1 = f + 2
    <3>1. f \in Int
      BY <1>2
    <3> QED BY <3>1
  <2>3. /\ f + 1 - 1 \in DOMAIN mem /\ mem[f + 1 - 1] = Trampoline(f)[1]
        /\ f + 2 - 1 \in DOMAIN mem /\ mem[f + 2 - 1] = Trampoline(f)[2]
        /\ f + 3 - 1 \in DOMAIN mem /\ mem[f + 3 - 1] = Trampoline(f)[3]
    BY <1>3, <2>1
  <2> QED BY <2>2, <2>3
<1> HIDE DEF to
<1>6. CASE Trampoline(f) = Near(f, to)
  <2>1. /\ mem[f] = I("adrp17", AdrpPages(f, to)) /\ mem[f + 1] = I("add17", to % Page)
        /\ mem[f + 2] = I("br17", 0)
    BY <1>5, <1>6 DEF Near
  <2>2. Trampoline(f)[1].op = "adrp17"
    BY <1>5, <2>1 DEF I
  <2>3. PageOf(to) - PageOf(f) # Reach
    BY <2>2, ImagesAssumption DEF Hookable, to
  <2>4. (IF f < to THEN to - f ELSE f - to) < Reach * Page
    <3>1. Trampoline(f) = IF (IF f < to THEN to - f ELSE f - to) < Reach * Page THEN Near(f, to) ELSE Far(to)
      BY <1>2, TrampolineIs DEF to
    <3>2. Near(f, to) # Far(to)
      BY DEF Near, Far
    <3> QED BY <1>6, <3>1, <3>2
  <2> DEFINE v == (PageOf(f) + AdrpPages(f, to)) * Page
  <2>5. v + (to % Page) = to
    BY <1>2, <2>3, <2>4, AdrpAdd
  <2>6. v \in Int /\ AdrpPages(f, to) \in Int /\ to % Page \in Int
    <3>1. PageOf(f) \in Int /\ AdrpPages(f, to) \in Int /\ to % Page \in Int
      <4>1. Page \in Nat \ {0} /\ Reach \in Nat \ {0} /\ f \in Int /\ to \in Int
        BY <1>2, MachineAssumption
      <4>2. PageOf(f) \in Int /\ PageOf(to) \in Int /\ to % Page \in Int
        BY <4>1 DEF PageOf
      <4>3. (PageOf(to) - PageOf(f) + Reach) % (2 * Reach) \in Int
        <5> DEFINE y == PageOf(to) - PageOf(f) + Reach
                   z == 2 * Reach
        <5>1. y \in Int /\ z \in Nat \ {0}
          BY <4>1, <4>2
        <5> HIDE DEF y, z
        <5>2. y % z \in Int
          BY <5>1
        <5> QED BY <5>2 DEF y, z
      <4> QED BY <4>1, <4>2, <4>3 DEF AdrpPages
    <3> HIDE DEF v
    <3>2. v = (PageOf(f) + AdrpPages(f, to)) * Page
      BY DEF v
    <3> QED BY <3>1, <3>2, MachineAssumption
  <2> HIDE DEF v
  <2>7. CASE d.pc = f
    <3>1. mem[d.pc] = I("adrp17", AdrpPages(f, to)) /\ v = (PageOf(d.pc) + AdrpPages(f, to)) * Page
      BY <2>1, <2>7 DEF v
    <3>2. c = [state |-> d.state, pc |-> d.pc + 1, x17 |-> v, stack |-> d.stack,
               effects |-> d.effects, flag |-> d.flag]
      BY <1>5, <2>6, <2>7, <3>1, LoadStep
    <3> QED BY <1>2, <1>4, <1>6, <2>5, <2>7, <3>2 DEF Underway, Thread, to
  <2>8. CASE d.pc = f + 1 /\ d.x17 + (to % Page) = to
    <3>1. mem[d.pc] = I("add17", to % Page) /\ to = d.x17 + (to % Page)
      BY <2>1, <2>8
    <3>2. c = [state |-> d.state, pc |-> d.pc + 1, x17 |-> to, stack |-> d.stack,
               effects |-> d.effects, flag |-> d.flag]
      BY <1>2, <1>5, <2>6, <2>8, <3>1, LoadStep
    <3>3. d.pc + 1 = f + 2 /\ f + 2 \in Int
      BY <1>2, <2>8
    <3> QED BY <1>4, <1>6, <3>2, <3>3 DEF Underway, Thread, to
  <2>9. CASE d.pc = f + 2 /\ d.x17 = to
    <3>1. c = [state |-> d.state, pc |-> d.x17, x17 |-> d.x17, stack |-> d.stack,
               effects |-> d.effects, flag |-> d.flag]
      BY <1>5, <2>1, <2>9, BranchStep
    <3> QED BY <1>2, <1>4, <2>9, <3>1 DEF Underway, Thread, to
  <2>10. Near(f, to) # Far(to)
    BY DEF Near, Far
  <2> QED BY <1>6, <2>7, <2>8, <2>9, <2>10 DEF Underway, to
<1>7. CASE Trampoline(f) = Far(to)
  <2>1. n = 4
    BY <1>7 DEF Far
  <2>2. f + 3 \in DOMAIN mem /\ mem[f + 3] = Trampoline(f)[4]
    <3>1. 4 \in 1 .. n /\ f + 4 - 1 = f + 3
      BY <1>2, <2>1
    <3> HIDE DEF n
    <3>2. f + 4 - 1 \in DOMAIN mem /\ mem[f + 4 - 1] = Trampoline(f)[4]
      BY <1>3, <3>1
    <3> QED BY <3>1, <3>2
  <2>3. /\ mem[f] = I("ldr17", 2) /\ mem[f + 1] = I("br17", 0)
        /\ mem[f + 2] = I("low", to) /\ mem[f + 3] = I("high", to)
    BY <1>5, <1>7, <2>2 DEF Far
  <2>4. CASE d.pc = f
    <3>1. d.pc + 2 = f + 2 /\ d.pc + 2 + 1 = f + 3
      BY <1>2, <2>4
    <3>2. c = [state |-> d.state, pc |-> d.pc + 1, x17 |-> to, stack |-> d.stack,
               effects |-> d.effects, flag |-> d.flag]
      BY <1>2, <1>5, <2>2, <2>3, <2>4, <3>1, LoadStep
    <3> QED BY <1>2, <1>4, <1>7, <2>4, <3>2 DEF Underway, Thread, to
  <2>5. CASE d.pc = f + 1 /\ d.x17 = to
    <3>1. c = [state |-> d.state, pc |-> d.x17, x17 |-> d.x17, stack |-> d.stack,
               effects |-> d.effects, flag |-> d.flag]
      BY <1>5, <2>3, <2>5, BranchStep
    <3> QED BY <1>2, <1>4, <2>5, <3>1 DEF Underway, Thread, to
  <2>6. Near(f, to) # Far(to)
    BY DEF Near, Far
  <2> QED BY <1>7, <2>4, <2>5, <2>6 DEF Underway, to
<1>8. Trampoline(f) = Near(f, to) \/ Trampoline(f) = Far(to)
  BY <1>2, TrampolineIs DEF to
<1> QED
  BY <1>6, <1>7, <1>8

\* Where a thread is underway nobody but its own replacement is.
LEMMA OwnReplacement ==
  ASSUME image \in Images, NEW f \in image.targets, NEW c, Underway(c, f), NEW g \in image.targets,
         c.pc = Replacement[g]
  PROVE  g = f
<1>1. image \in Images
  OBVIOUS
<1>2. Replacement[g] \notin DOMAIN image.code /\ (Replacement[f] = Replacement[g] => f = g)
  BY <1>1, ImagesAssumption
<1>3. f \in Int /\ f \in DOMAIN image.code /\ f + 1 \in DOMAIN image.code /\ f + 2 \in DOMAIN image.code
  <2>1. /\ f \in Int /\ Len(Trampoline(f)) \in {3, 4}
        /\ \A k \in 1 .. Len(Trampoline(f)) : f + k - 1 \in DOMAIN image.code
    BY <1>1, Spanned
  <2>2. f \in DOMAIN image.code
    BY <1>1, Loaded
  <2>3. 2 \in 1 .. Len(Trampoline(f)) /\ 3 \in 1 .. Len(Trampoline(f))
    BY <2>1, ThreeWords
  <2>4. f + 2 - 1 \in DOMAIN image.code /\ f + 3 - 1 \in DOMAIN image.code
    BY <2>1, <2>3
  <2>5. f + 2 - 1 = f + 1 /\ f + 3 - 1 = f + 2
    <3>1. f \in Int
      BY <2>1
    <3> QED BY <3>1
  <2> QED BY <2>1, <2>2, <2>4, <2>5
<1> QED
  BY <1>2, <1>3 DEF Underway

\* The history of a call stays one.
LEMMA CallKeptInv == CallKept /\ [InlineNext]_inlineVars => CallKept'
<1> SUFFICES ASSUME CallKept, [InlineNext]_inlineVars PROVE CallKept'
  OBVIOUS
<1>1. CASE call' = call
  BY <1>1 DEF CallKept
<1>2. ASSUME NEW x, call' = [call EXCEPT !.exposed = x] PROVE CallKept'
  BY <1>2 DEF CallKept
<1>3. CASE Overlap
  BY <1>3 DEF CallKept, Overlap
<1>4. ASSUME NEW f \in image.targets, Call(f) PROVE CallKept'
  BY <1>4 DEF Call, CallKept
<1>5. CASE PatchWord \/ Execute
  BY <1>2, <1>5 DEF PatchWord, Execute
<1>6. ASSUME NEW f \in image.targets, UnprotectFails(f) PROVE CallKept'
  BY <1>2, <1>6 DEF UnprotectFails
<1>7. ASSUME NEW f \in image.targets, Replace(f) PROVE CallKept'
  <2> DEFINE x == call.entered \/ f = call.callee
             y == call.exposed \/ (backup[f] = Null /\ patch # NoPatch)
  <2>1. call' = [call EXCEPT !.entered = x, !.exposed = y]
    BY <1>7 DEF Replace
  <2> HIDE DEF x, y
  <2> QED BY <2>1 DEF CallKept
<1>8. ASSUME NEW f \in image.targets, InlineHooker(f) \/ InlineUnhooker(f) PROVE CallKept'
  BY <1>3, <1>8 DEF InlineHooker, InlineUnhooker
<1>9. CASE Commit \/ UNCHANGED inlineVars
  BY <1>1, <1>9 DEF Commit, inlineVars
<1> QED
  BY <1>4, <1>5, <1>6, <1>7, <1>8, <1>9 DEF InlineNext

\* A call that goes undisturbed stays on its way to the replacement.
LEMMA ExpectingInv == InlineInv /\ CallKept /\ Expecting /\ [InlineNext]_inlineVars => Expecting'
<1> SUFFICES ASSUME InlineInv, CallKept, Expecting, [InlineNext]_inlineVars PROVE Expecting'
  OBVIOUS
<1>1. CASE UNCHANGED inlineVars
  BY <1>1 DEF inlineVars, hookVars, Expecting, Expected, Thread, Hooked, Underway
<1>2. CASE PatchWord
  <2>1. patch # NoPatch
    BY <1>2 DEF PatchWord, NoPatch
  <2>2. ~Expected
    BY <2>1 DEF Expecting
  <2>3. call' = [call EXCEPT !.exposed = @ \/ (cpu.state = "running" /\ Inside(cpu))]
    BY <1>2 DEF PatchWord
  <2>4. ~Expected'
    BY <2>2, <2>3 DEF Expected, CallKept
  <2> QED BY <2>4 DEF Expecting
<1>3. CASE Commit
  <2>1. ~Expected
    BY <1>3 DEF Commit, Expecting
  <2>2. ~Expected'
    BY <1>3, <2>1 DEF Commit, Expected
  <2> QED BY <2>2 DEF Expecting
<1>4. CASE Execute
  <2>1. /\ \A f \in image.targets : cpu.pc # Replacement[f]
        /\ cpu' = After(mem, cpu)
        /\ call' = [call EXCEPT !.exposed = @ \/ AtWidened(cpu) \/ (patch.done \in 1 .. Len(patch.words) - 1 /\ Inside(cpu'))]
        /\ UNCHANGED <<image, patch, entries>>
    BY <1>4 DEF Execute, hookVars
  <2>2. Expected' => Expected /\ call'.callee = call.callee
    BY <2>1 DEF Expected, CallKept
  <2>3. ASSUME Expected PROVE Thread(cpu') /\ cpu'.pc \in Int /\ Underway(cpu', call.callee)
    <3>1. /\ Thread(cpu) /\ cpu.pc \in Int /\ Underway(cpu, call.callee)
            /\ call.callee \in image.targets /\ patch = NoPatch /\ Hooked(call.callee) /\ image \in Images
        BY <2>3 DEF Expecting, InlineInv
      <3>2. \A k \in 1 .. Len(Trampoline(call.callee)) :
              call.callee + k - 1 \in DOMAIN mem /\ mem[call.callee + k - 1] = Trampoline(call.callee)[k]
        BY <3>1, TrampolineInPlace
      <3>3. cpu.pc # Replacement[call.callee]
        BY <2>1, <3>1
      <3>4. cpu' = After(mem, cpu)
        BY <2>1
      <3> QED BY <3>1, <3>2, <3>3, <3>4, UnderwayStep
  <2> QED BY <2>1, <2>2, <2>3 DEF Expecting, Hooked, Thread, Underway
<1>5. ASSUME NEW f \in image.targets, UnprotectFails(f)
      PROVE  Expecting'
  <2>1. /\ call' = [call EXCEPT !.exposed = @ \/ backup[f] # Null]
        /\ UNCHANGED <<image, entries, patch, cpu>>
    BY <1>5 DEF UnprotectFails
  <2>2. Expected' => Expected /\ call'.callee = call.callee
    BY <2>1 DEF Expected, CallKept
  <2> QED BY <2>1, <2>2 DEF Expecting, Thread, Hooked, Underway
<1>6. ASSUME NEW f \in image.targets, InlineHooker(f) \/ InlineUnhooker(f)
      PROVE  Expecting'
  <2>1. call' = [call EXCEPT !.overlapped = TRUE]
    BY <1>6 DEF InlineHooker, InlineUnhooker, Overlap
  <2>2. ~Expected'
    BY <2>1 DEF Expected, CallKept
  <2> QED BY <2>2 DEF Expecting
<1>7. ASSUME NEW f \in image.targets, Call(f)
      PROVE  Expecting'
  <2>1. /\ \E flag \in BOOLEAN : cpu' = Called(f, flag)
        /\ call'.callee = f /\ call'.began = Hooked(f) /\ call'.overlapped = (patch # NoPatch)
        /\ UNCHANGED <<image, entries, patch>>
    BY <1>7 DEF Call, hookVars
  <2>2. Thread(cpu') /\ cpu'.pc = f /\ cpu'.state = "running"
    BY <2>1 DEF Called, Thread
  <2>3. f \in Int
    BY Loaded DEF InlineInv
  <2>4. Underway(cpu', f)
    BY <2>2 DEF Underway
  <2>5. Expected' => Hooked(f) /\ patch = NoPatch
    BY <2>1 DEF Expected, CallKept
  <2> QED BY <2>1, <2>2, <2>3, <2>4, <2>5 DEF Expecting, Hooked, Thread, Underway
<1>8. ASSUME NEW f \in image.targets, Replace(f)
      PROVE  Expecting'
  <2>1. /\ cpu.pc = Replacement[f]
        /\ call' = [call EXCEPT !.entered = @ \/ f = call.callee,
                                !.exposed = @ \/ (backup[f] = Null /\ patch # NoPatch)]
    BY <1>8 DEF Replace
  <2>2. Expected => f = call.callee
    <3>1. image \in Images
      BY DEF InlineInv
    <3> QED BY <2>1, <3>1, OwnReplacement DEF Expecting
  <2>3. ~Expected'
    <3>1. call' = [callee |-> call.callee, began |-> call.began, entered |-> TRUE,
                   overlapped |-> call.overlapped, exposed |-> call'.exposed, count |-> call.count]
          \/ ~Expected
      BY <2>1, <2>2 DEF CallKept
    <3>2. ~Expected => call'.began = call.began /\ call'.overlapped = call.overlapped /\ (call.entered => call'.entered)
      BY <2>1 DEF CallKept
    <3> QED BY <3>1, <3>2 DEF Expected
  <2> QED BY <2>3 DEF Expecting
<1> QED
  BY <1>1, <1>2, <1>3, <1>4, <1>5, <1>6, <1>7, <1>8 DEF InlineNext

\* A call that no hook or unhook overlaps, of a function hooked when it began.
HookedCallsEnter ==
  cpu.state = "returned" /\ ~call.overlapped /\ call.began => call.entered

\* The calls of hooked functions enter the replacement, by an adrp or by an
\* address loaded, however far away the replacement is.
LEMMA HookedCallsReplaced == InlineSpec => []HookedCallsEnter
<1>1. InlineInit => Expecting
  BY DEF InlineInit, Expecting, Expected
<1>3. InlineInit => CallKept
  BY DEF InlineInit, CallKept
<1>2. Expecting => HookedCallsEnter
  BY DEF Expecting, Expected, HookedCallsEnter, Underway
<1> QED
  BY <1>1, <1>2, <1>3, CallKeptInv, ExpectingInv, CodeInvariance, PTL DEF InlineSpec

-----------------------------------------------------------------------------
(* Inline hooks: what relocated instructions say *)

\* A buffer that goes on where another ends.
Longer(d, e) ==
  /\ Len(e.code) <= Len(d.code) /\ \A i \in 1 .. Len(e.code) : d.code[i] = e.code[i]
  /\ Len(e.labels) <= Len(d.labels) /\ \A i \in 1 .. Len(e.labels) : d.labels[i] = e.labels[i]

\* The i-th word of a buffer, or a branch to a label in two.
Has(d, i, w) == i \in 1 .. Len(d.code) /\ d.code[i] = w
Leads(d, i, to, branch) ==
  \E l \in 1 .. Len(d.labels) :
    Has(d, i, I("ldr17", l)) /\ Has(d, i + 1, I(branch, 0)) /\ d.labels[l] = to

\* The words of a buffer from the i-th to before the j-th are those of an
\* instruction at an address, relocated.
Moves(d, i, w, at, j) ==
  /\ w.op = "b" => Leads(d, i, at + w.arg, "br17")
  /\ w.op = "bl" => Leads(d, i, at + w.arg, "blr17") /\ j = i + 2
  /\ w.op \in {"cond", "ncond"} =>
       Has(d, i, I(Inverted(w.op), 3)) /\ Leads(d, i + 1, at + w.arg, "br17") /\ j = i + 3
  /\ w.op \in {"ldr", "ldrw"} => Has(d, i, I("mov17", at + w.arg)) /\ Has(d, i + 1, I("ldr_x17", 0)) /\ j = i + 2
  /\ w.op = "adr" => Has(d, i, I("mov", at + w.arg)) /\ j = i + 1
  /\ w.op = "adrp" => Has(d, i, I("mov", PageOf(at + w.arg * Page) * Page)) /\ j = i + 1
  /\ w.op \in {"op", "ret", "mov", "low", "high"} => Has(d, i, w) /\ j = i + 1

\* What a buffer says a longer one says.
LEMMA LongerSays ==
  ASSUME NEW e \in Buffers, NEW d \in Buffers, Longer(d, e), NEW i \in Int
  PROVE  /\ \A w : Has(e, i, w) => Has(d, i, w)
         /\ \A to, branch : Leads(e, i, to, branch) => Leads(d, i, to, branch)
<1>0. /\ Len(e.code) \in Nat /\ Len(d.code) \in Nat /\ Len(e.labels) \in Nat /\ Len(d.labels) \in Nat
  BY DEF Buffers
<1>1. ASSUME NEW j \in Int, NEW w, Has(e, j, w) PROVE Has(d, j, w)
  BY <1>0, <1>1 DEF Has, Longer
<1>2. ASSUME NEW to, NEW branch, Leads(e, i, to, branch) PROVE Leads(d, i, to, branch)
  <2>1. PICK l \in 1 .. Len(e.labels) :
          Has(e, i, I("ldr17", l)) /\ Has(e, i + 1, I(branch, 0)) /\ e.labels[l] = to
    BY <1>2 DEF Leads
  <2>2. Has(d, i, I("ldr17", l)) /\ Has(d, i + 1, I(branch, 0))
    BY <1>1, <2>1
  <2>3. l \in 1 .. Len(d.labels) /\ d.labels[l] = to
    BY <1>0, <2>1 DEF Longer
  <2> QED BY <2>2, <2>3 DEF Leads
<1> QED
  BY <1>1, <1>2

\* Nor do the instructions change that it holds.
LEMMA LongerMoves ==
  ASSUME NEW e \in Buffers, NEW d \in Buffers, Longer(d, e), NEW i \in Int,
         NEW w, NEW at, NEW j, Moves(e, i, w, at, j)
  PROVE  Moves(d, i, w, at, j)
<1>1. /\ \A v : Has(e, i, v) => Has(d, i, v)
      /\ \A v : Has(e, i + 1, v) => Has(d, i + 1, v)
      /\ \A to, branch : Leads(e, i, to, branch) => Leads(d, i, to, branch)
      /\ \A to, branch : Leads(e, i + 1, to, branch) => Leads(d, i + 1, to, branch)
  <2>1. i + 1 \in Int
    OBVIOUS
  <2> QED BY <2>1, LongerSays
<1> QED
  BY <1>1, Zenon DEF Moves

\* Longer buffers are longer than what those are longer than.
LEMMA LongerStill ==
  ASSUME NEW c \in Buffers, NEW d \in Buffers, NEW e \in Buffers, Longer(c, d), Longer(d, e)
  PROVE  Longer(c, e)
<1>0. /\ Len(e.code) \in Nat /\ Len(d.code) \in Nat /\ Len(e.labels) \in Nat /\ Len(d.labels) \in Nat
      /\ Len(c.code) \in Nat /\ Len(c.labels) \in Nat
  BY DEF Buffers
<1> QED
  BY <1>0 DEF Longer

\* A word emitted is the last.
LEMMA EmitSays ==
  ASSUME NEW e \in Buffers, NEW w \in Word, NEW d, d = Emit(e, w)
  PROVE  /\ d \in Buffers /\ Longer(d, e)
         /\ Len(d.code) = Len(e.code) + 1 /\ Has(d, Len(e.code) + 1, w)
<1>1. d.code = Append(e.code, w) /\ d.labels = e.labels /\ e.code \in Seq(Word) /\ e.labels \in Seq(Int)
  BY DEF Emit, Buffers
<1>2. d \in Buffers
  BY Emitted
<1> QED
  BY <1>1, <1>2 DEF Longer, Has

\* A branch appended is two.
LEMMA BranchSays ==
  ASSUME NEW e \in Buffers, NEW to \in Int, NEW branch \in {"br17", "blr17"},
         NEW d, d = LabelBranch(e, to, branch)
  PROVE  /\ d \in Buffers /\ Longer(d, e)
         /\ Len(d.code) = Len(e.code) + 2 /\ Leads(d, Len(e.code) + 1, to, branch)
<1> DEFINE v == I("ldr17", Len(e.labels) + 1)
           w == I(branch, 0)
           n == Len(e.code)
           m == Len(e.labels)
<1>1. e.code \in Seq(Word) /\ e.labels \in Seq(Int) /\ m + 1 \in Int /\ n \in Nat /\ m \in Nat
  BY DEF Buffers
<1>2. v \in Word /\ w \in Word
  BY <1>1, InstructionIsWord DEF Ops, Scratch
<1>3. d.code = e.code \o <<v, w>> /\ d.labels = Append(e.labels, to)
  BY DEF LabelBranch
<1>4. d \in Buffers
  BY Branched
<1>5. /\ Len(d.code) = n + 2 /\ \A i \in 1 .. n : d.code[i] = e.code[i]
      /\ d.code[n + 1] = v /\ d.code[n + 2] = w
  <2> HIDE DEF v, w
  <2> QED BY <1>1, <1>2, <1>3
<1>6. /\ Len(d.labels) = m + 1 /\ \A i \in 1 .. m : d.labels[i] = e.labels[i]
      /\ d.labels[m + 1] = to
  BY <1>1, <1>3
<1>7. Longer(d, e)
  <2>1. n <= Len(d.code) /\ m <= Len(d.labels)
    BY <1>1, <1>5, <1>6
  <2> QED BY <1>5, <1>6, <2>1, Zenon DEF Longer
<1>8. Has(d, n + 1, v) /\ Has(d, n + 1 + 1, w)
  BY <1>1, <1>5 DEF Has
<1>9. m + 1 \in 1 .. Len(d.labels)
  BY <1>1, <1>6
<1>10. Leads(d, n + 1, to, branch)
  BY <1>6, <1>8, <1>9, Zenon DEF Leads
<1> QED
  BY <1>4, <1>5, <1>7, <1>10

\* A relocated instruction goes on where the buffer ended.
LEMMA RelocateSays ==
  ASSUME NEW e \in Buffers, NEW w \in Word, NEW at \in Int,
         NEW d, d = Relocate(e, w, at)
  PROVE  d \in Buffers /\ Longer(d, e) /\ Moves(d, Len(e.code) + 1, w, at, Len(d.code) + 1)
<1> DEFINE n == Len(e.code)
           to == at + w.arg
           paged == PageOf(at + w.arg * Page) * Page
<1>1. w.op \in Ops /\ w.arg \in Int /\ to \in Int /\ n \in Nat
  BY DEF Word, Buffers
<1>2. paged \in Int
  <2>1. w.arg * Page \in Int
    BY <1>1, MachineAssumption
  <2>2. (at + w.arg * Page) \div Page \in Int
    BY <2>1, MachineAssumption
  <2> QED BY <2>2, MachineAssumption DEF PageOf
<1>3. Inverted(w.op) \in Ops
  BY DEF Inverted, Ops
<1> DEFINE a == I(Inverted(w.op), 3)
           b == I("mov17", to)
           c == I("ldr_x17", 0)
           v == I("mov", to)
           g == I("mov", paged)
           Goal == d \in Buffers /\ Longer(d, e) /\ Moves(d, n + 1, w, at, Len(d.code) + 1)
<1>4. a \in Word /\ b \in Word /\ c \in Word /\ v \in Word /\ g \in Word
  BY <1>1, <1>2, <1>3, InstructionIsWord DEF Ops, Scratch
<1>5. CASE w.op = "b"
  <2>1. d = LabelBranch(e, to, "br17")
    BY <1>5 DEF Relocate
  <2>2. d \in Buffers /\ Longer(d, e) /\ Len(d.code) = n + 2 /\ Leads(d, n + 1, to, "br17")
    BY <1>1, <2>1, BranchSays
  <2> QED BY <1>5, <2>2 DEF Moves
<1>6. CASE w.op = "bl"
  <2>1. d = LabelBranch(e, to, "blr17")
    BY <1>6 DEF Relocate
  <2>2. d \in Buffers /\ Longer(d, e) /\ Len(d.code) = n + 2 /\ Leads(d, n + 1, to, "blr17")
    BY <1>1, <2>1, BranchSays
  <2>3. Len(d.code) + 1 = n + 1 + 2
    BY <1>1, <2>2
  <2> QED BY <1>6, <2>2, <2>3 DEF Moves
<1>7. CASE w.op \in {"cond", "ncond"}
  <2> DEFINE f == Emit(e, a)
  <2>1. d = LabelBranch(f, to, "br17")
    BY <1>7 DEF Relocate
  <2>2. f \in Buffers /\ Longer(f, e) /\ Len(f.code) = n + 1 /\ Has(f, n + 1, a)
    BY <1>4, EmitSays
  <2> HIDE DEF f, a, to
  <2>3. d \in Buffers /\ Longer(d, f) /\ Len(d.code) = Len(f.code) + 2 /\ Leads(d, Len(f.code) + 1, to, "br17")
    BY <1>1, <2>1, <2>2, BranchSays
  <2>4. Longer(d, e)
    BY <2>2, <2>3, LongerStill
  <2>5. n + 1 \in Int
    BY <1>1
  <2>6. Has(d, n + 1, a)
    BY <2>2, <2>3, <2>5, LongerSays
  <2>7. Len(d.code) + 1 = n + 1 + 3 /\ Len(f.code) + 1 = n + 1 + 1
    BY <1>1, <2>2, <2>3
  <2>8. Leads(d, n + 1 + 1, to, "br17")
    BY <2>3, <2>7
  <2> QED BY <1>7, <2>3, <2>4, <2>6, <2>7, <2>8 DEF Moves, a, to
<1>8. CASE w.op \in {"ldr", "ldrw"}
  <2> DEFINE f == Emit(e, b)
  <2>1. d = Emit(f, c)
    BY <1>8 DEF Relocate
  <2>2. f \in Buffers /\ Longer(f, e) /\ Len(f.code) = n + 1 /\ Has(f, n + 1, b)
    BY <1>4, EmitSays
  <2> HIDE DEF f, b, c, to
  <2>3. d \in Buffers /\ Longer(d, f) /\ Len(d.code) = Len(f.code) + 1 /\ Has(d, Len(f.code) + 1, c)
    BY <1>4, <2>1, <2>2, EmitSays
  <2>4. Longer(d, e)
    BY <2>2, <2>3, LongerStill
  <2>5. n + 1 \in Int
    BY <1>1
  <2>6. Has(d, n + 1, b)
    BY <2>2, <2>3, <2>5, LongerSays
  <2>7. Len(d.code) + 1 = n + 1 + 2 /\ Len(f.code) + 1 = n + 1 + 1
    BY <1>1, <2>2, <2>3
  <2>8. Has(d, n + 1 + 1, c)
    BY <2>3, <2>7
  <2> QED BY <1>8, <2>3, <2>4, <2>6, <2>7, <2>8 DEF Moves, b, c, to
<1>9. ASSUME NEW x \in Word, d = Emit(e, x)
      PROVE  d \in Buffers /\ Longer(d, e) /\ Has(d, n + 1, x) /\ Len(d.code) + 1 = n + 1 + 1
  <2>1. d \in Buffers /\ Longer(d, e) /\ Len(d.code) = n + 1 /\ Has(d, n + 1, x)
    BY <1>9, EmitSays
  <2> QED BY <1>1, <2>1
<1>10. CASE w.op = "adr"
  <2>1. d = Emit(e, v)
    BY <1>10 DEF Relocate
  <2> QED BY <1>4, <1>9, <1>10, <2>1 DEF Moves
<1>11. CASE w.op = "adrp"
  <2>1. d = Emit(e, g)
    BY <1>11 DEF Relocate
  <2> QED BY <1>4, <1>9, <1>11, <2>1 DEF Moves
<1>12. CASE w.op \notin {"b", "bl", "cond", "ncond", "ldr", "ldrw", "adr", "adrp"}
  <2>1. d = Emit(e, w)
    BY <1>12 DEF Relocate
  <2> QED BY <1>9, <1>12, <2>1 DEF Moves
<1> QED
  BY <1>5, <1>6, <1>7, <1>8, <1>10, <1>11, <1>12

\* The i-th word of a code, or a branch by an address among the words.
Holds(W, i, w) == i \in 1 .. Len(W) /\ W[i] = w
Jumps(W, i, to, branch) ==
  \E s \in Int : /\ Holds(W, i, I("ldr17", s)) /\ Holds(W, i + 1, I(branch, 0))
                 /\ Holds(W, i + s, I("low", to)) /\ Holds(W, i + s + 1, I("high", to))

\* The words from the i-th to before the j-th do what an instruction does at
\* an address.
Does(W, i, w, at, j) ==
  /\ w.op = "b" => Jumps(W, i, at + w.arg, "br17")
  /\ w.op = "bl" => Jumps(W, i, at + w.arg, "blr17") /\ j = i + 2
  /\ w.op \in {"cond", "ncond"} =>
       Holds(W, i, I(Inverted(w.op), 3)) /\ Jumps(W, i + 1, at + w.arg, "br17") /\ j = i + 3
  /\ w.op \in {"ldr", "ldrw"} => Holds(W, i, I("mov17", at + w.arg)) /\ Holds(W, i + 1, I("ldr_x17", 0)) /\ j = i + 2
  /\ w.op = "adr" => Holds(W, i, I("mov", at + w.arg)) /\ j = i + 1
  /\ w.op = "adrp" => Holds(W, i, I("mov", PageOf(at + w.arg * Page) * Page)) /\ j = i + 1
  /\ w.op \in {"op", "ret", "mov", "low", "high"} => Holds(W, i, w) /\ j = i + 1

\* Twice a number, and one less.
LEMMA Halves ==
  ASSUME NEW l \in Int
  PROVE  (2 * l - 1) % 2 = 1 /\ (2 * l) % 2 = 0 /\ (2 * l - 1 + 1) \div 2 = l /\ (2 * l + 1) \div 2 = l
OBVIOUS

\* Bound, a buffer's branches find their labels.
LEMMA BindSays ==
  ASSUME NEW d \in Buffers, NEW W, W = RelocBind(d), NEW i \in Int
  PROVE  /\ \A w : Has(d, i, w) /\ w.op # "ldr17" => Holds(W, i, w)
         /\ \A to : \A branch \in {"br17", "blr17"} : Leads(d, i, to, branch) => Jumps(W, i, to, branch)
<1> DEFINE n == Len(d.code)
           m == Len(d.labels)
           k == n + 2 * m
           Kind(p) == IF (p - n) % 2 = 1 THEN "low" ELSE "high"
           Bound(p) == IF p > n THEN I(Kind(p), d.labels[(p - n + 1) \div 2])
                       ELSE IF d.code[p].op = "ldr17" THEN I("ldr17", n + 2 * (d.code[p].arg - 1) - (p - 1))
                       ELSE d.code[p]
<1>1. n \in Nat /\ m \in Nat
  BY DEF Buffers
<1>2. W = [p \in 1 .. k |-> Bound(p)]
  BY DEF RelocBind
<1>3. \A j : j \in 1 .. Len(d.code) => j \in 1 .. n
  OBVIOUS
<1>4. \A l : l \in 1 .. Len(d.labels) => l \in 1 .. m
  OBVIOUS
<1>5. \A j, w : Has(d, j, w) => j \in 1 .. n /\ d.code[j] = w
  BY DEF Has
<1>6. ASSUME NEW to, NEW branch, Leads(d, i, to, branch)
      PROVE  \E l \in 1 .. m : Has(d, i, I("ldr17", l)) /\ Has(d, i + 1, I(branch, 0)) /\ d.labels[l] = to
  BY <1>6 DEF Leads
<1> HIDE DEF n, m
<1>7. k \in Nat /\ n <= k /\ \A j \in 1 .. n : j \in 1 .. k /\ ~(j > n)
  BY <1>1
<1>8. ASSUME NEW l \in 1 .. m
      PROVE  /\ n + 2 * l - 1 \in 1 .. k /\ n + 2 * l \in 1 .. k /\ n + 2 * l - 1 > n /\ n + 2 * l > n
             /\ l \in Int
  BY <1>1
<1> HIDE DEF k
<1>9. ASSUME NEW p \in 1 .. k PROVE Holds(W, p, Bound(p))
  <2> HIDE DEF Bound
  <2>1. Len(W) = k /\ W[p] = Bound(p)
    BY <1>2, <1>7
  <2> QED BY <2>1 DEF Holds
<1>10. ASSUME NEW j \in Int, NEW w, Has(d, j, w), w.op # "ldr17" PROVE Holds(W, j, w)
  <2>1. j \in 1 .. k /\ ~(j > n) /\ d.code[j] = w
    BY <1>5, <1>7, <1>10
  <2>2. Bound(j) = w
    BY <1>10, <2>1
  <2> QED BY <1>9, <2>1, <2>2
<1>11. ASSUME NEW to, NEW branch \in {"br17", "blr17"}, Leads(d, i, to, branch) PROVE Jumps(W, i, to, branch)
  <2>1. PICK l \in 1 .. m :
          Has(d, i, I("ldr17", l)) /\ Has(d, i + 1, I(branch, 0)) /\ d.labels[l] = to
    BY <1>6, <1>11
  <2> DEFINE p == n + 2 * l - 1
             q == n + 2 * l
             s == n + 2 * (l - 1) - (i - 1)
  <2>2. p \in 1 .. k /\ q \in 1 .. k /\ p > n /\ q > n /\ l \in Int
    BY <1>8
  <2>3. s \in Int /\ i + s = p /\ i + s + 1 = q
    BY <1>1, <2>2
  <2>4. (p - n) % 2 = 1 /\ (q - n) % 2 = 0 /\ (p - n + 1) \div 2 = l /\ (q - n + 1) \div 2 = l
    <3>1. p - n = 2 * l - 1 /\ q - n = 2 * l /\ p - n + 1 = 2 * l - 1 + 1 /\ q - n + 1 = 2 * l + 1
      BY <1>1, <2>2
    <3> HIDE DEF p, q
    <3> QED BY <2>2, <3>1, Halves
  <2>5. Holds(W, i, I("ldr17", s))
    <3>1. i \in 1 .. k /\ ~(i > n) /\ d.code[i] = I("ldr17", l)
      BY <1>5, <1>7, <2>1
    <3>2. d.code[i].op = "ldr17" /\ d.code[i].arg = l
      BY <3>1 DEF I
    <3>3. Bound(i) = I("ldr17", s)
      BY <3>1, <3>2
    <3> QED BY <1>9, <3>1, <3>3
  <2>6. Holds(W, i + 1, I(branch, 0))
    <3>1. I(branch, 0).op # "ldr17" /\ i + 1 \in Int
      BY DEF I
    <3> QED BY <1>10, <2>1, <3>1
  <2> HIDE DEF p, q
  <2>7. Bound(p) = I("low", to) /\ Bound(q) = I("high", to)
    BY <2>1, <2>2, <2>4
  <2>8. Holds(W, p, I("low", to)) /\ Holds(W, q, I("high", to))
    BY <1>9, <2>2, <2>7
  <2>9. Holds(W, i + s, I("low", to)) /\ Holds(W, i + s + 1, I("high", to))
    BY <2>3, <2>8
  <2> HIDE DEF s
  <2> QED BY <2>3, <2>5, <2>6, <2>9, Zenon DEF Jumps
<1> QED
  BY <1>10, <1>11

\* Bound, it does what its instructions do.
LEMMA BoundDoes ==
  ASSUME NEW d \in Buffers, NEW W, W = RelocBind(d), NEW i \in Int,
         NEW w, NEW at, NEW j, Moves(d, i, w, at, j)
  PROVE  Does(W, i, w, at, j)
<1>1. /\ \A v : Has(d, i, v) /\ v.op # "ldr17" => Holds(W, i, v)
      /\ \A v : Has(d, i + 1, v) /\ v.op # "ldr17" => Holds(W, i + 1, v)
      /\ \A to : \A branch \in {"br17", "blr17"} : Leads(d, i, to, branch) => Jumps(W, i, to, branch)
      /\ \A to : \A branch \in {"br17", "blr17"} : Leads(d, i + 1, to, branch) => Jumps(W, i + 1, to, branch)
  <2>1. i + 1 \in Int
    OBVIOUS
  <2> QED BY <2>1, BindSays
<1>2. \A op, arg : I(op, arg).op = op
  BY DEF I
<1>3. Inverted(w.op) # "ldr17"
  BY DEF Inverted
<1>4. CASE w.op = "b"
  BY <1>1, <1>4 DEF Moves, Does
<1>5. CASE w.op = "bl"
  BY <1>1, <1>5 DEF Moves, Does
<1>6. CASE w.op \in {"cond", "ncond"}
  BY <1>1, <1>2, <1>3, <1>6 DEF Moves, Does
<1>7. CASE w.op \in {"ldr", "ldrw"}
  BY <1>1, <1>2, <1>7 DEF Moves, Does
<1>8. CASE w.op = "adr" \/ w.op = "adrp"
  BY <1>1, <1>2, <1>8 DEF Moves, Does
<1>9. CASE w.op \in {"op", "ret", "mov", "low", "high"}
  BY <1>1, <1>9 DEF Moves, Does
<1> QED
  BY <1>4, <1>5, <1>6, <1>7, <1>8, <1>9 DEF Does

\* Where the k-th of the relocated instructions begins, or after the last the
\* jump back.
Place(origin, at, k) == Len(Relocated(origin, at)[k - 1].code) + 1

\* Each of the relocated instructions does what it did, and after the last is
\* a jump to what follows.
LEMMA RelocatedSays ==
  ASSUME NEW origin \in Seq(Word), NEW at \in Int, NEW W, W = relo_relocate(origin, at)
  PROVE  /\ \A k \in 1 .. Len(origin) :
              Does(W, Place(origin, at, k), origin[k], at + k - 1, Place(origin, at, k + 1))
         /\ Jumps(W, Place(origin, at, Len(origin) + 1), at + Len(origin), "br17")
         /\ Place(origin, at, 1) = 1
         /\ \A k \in 1 .. Len(origin) + 1 : Place(origin, at, k) \in Int
<1> DEFINE n == Len(origin)
           r == Relocated(origin, at)
           e == LabelBranch(r[n], at + n, "br17")
<1>1. /\ r[0] = NoCode
      /\ \A k \in 0 .. n : r[k] \in Buffers
      /\ \A k \in 1 .. n : r[k] = Relocate(r[k - 1], origin[k], at + k - 1)
  BY RelocatedIs
<1>2. n \in Nat /\ at + n \in Int /\ n \in 0 .. n /\ \A k \in 1 .. n : origin[k] \in Word
  OBVIOUS
<1>3. W = RelocBind(e)
  BY DEF relo_relocate
<1>4. \A k : Place(origin, at, k) = Len(r[k - 1].code) + 1
  BY DEF Place
<1> HIDE DEF n, r
<1>5. r[n] \in Buffers
  BY <1>1, <1>2
<1>6. /\ e \in Buffers /\ Longer(e, r[n])
      /\ Leads(e, Len(r[n].code) + 1, at + n, "br17")
  <2>1. "br17" \in {"br17", "blr17"}
    OBVIOUS
  <2> HIDE DEF e
  <2> QED BY <1>2, <1>5, <2>1, BranchSays DEF e
<1> HIDE DEF e
<1>7. ASSUME NEW k \in 1 .. n + 1 PROVE Place(origin, at, k) \in Int
  <2>1. k - 1 \in 0 .. n
    BY <1>2
  <2>2. Len(r[k - 1].code) \in Nat
    BY <1>1, <2>1 DEF Buffers
  <2> QED BY <1>4, <2>2
<1>8. ASSUME NEW k \in 1 .. n
      PROVE  Does(W, Place(origin, at, k), origin[k], at + k - 1, Place(origin, at, k + 1))
  <2> DEFINE i == Place(origin, at, k)
             j == Place(origin, at, k + 1)
             w == origin[k]
             S == {m \in 0 .. n - k : Moves(r[k + m], i, w, at + k - 1, j)}
  <2>1. k \in Int /\ k - 1 \in 0 .. n /\ k \in 0 .. n /\ n - k \in Nat /\ k + 1 \in 1 .. n + 1 /\ k \in 1 .. n + 1
        /\ at + k - 1 \in Int /\ k + 1 - 1 = k /\ k + 0 = k /\ k + (n - k) = n /\ n - k \in 0 .. n - k
        /\ 0 \in 0 .. n - k
    BY <1>2
  <2>2. i = Len(r[k - 1].code) + 1 /\ j = Len(r[k].code) + 1 /\ i \in Int
    <3>1. i = Len(r[k - 1].code) + 1 /\ j = Len(r[(k + 1) - 1].code) + 1
      BY Zenon DEF Place, r
    <3>2. i \in Int
      BY <1>7, <2>1
    <3> HIDE DEF i, j
    <3>3. (k + 1) - 1 = k
      BY <2>1
    <3> QED BY <3>1, <3>2, <3>3, Zenon
  <2>3. Moves(r[k], i, w, at + k - 1, j)
    <3>1. r[k - 1] \in Buffers /\ w \in Word /\ r[k] = Relocate(r[k - 1], w, at + k - 1)
      BY <1>1, <1>2, <2>1
    <3>2. Moves(r[k], Len(r[k - 1].code) + 1, w, at + k - 1, Len(r[k].code) + 1)
      BY <2>1, <3>1, RelocateSays
    <3> QED BY <2>2, <3>2
  <2> HIDE DEF i, j, w
  <2>4. 0 \in S
    BY <2>1, <2>3
  <2>5. ASSUME NEW m \in 0 .. (n - k) - 1, m \in S PROVE m + 1 \in S
    <3>1. /\ k + m \in 0 .. n /\ k + (m + 1) \in 1 .. n /\ k + (m + 1) \in 0 .. n /\ k + (m + 1) - 1 = k + m
          /\ m + 1 \in 0 .. n - k /\ at + (k + (m + 1)) - 1 \in Int
      BY <1>2, <2>1
    <3> DEFINE x == k + m
               y == k + (m + 1)
    <3> HIDE DEF x, y
    <3>2. /\ r[x] \in Buffers /\ r[y] \in Buffers /\ origin[y] \in Word
          /\ r[y] = Relocate(r[x], origin[y], at + y - 1) /\ at + y - 1 \in Int
      BY <1>1, <1>2, <3>1 DEF x, y
    <3>3. Longer(r[y], r[x])
      BY <3>2, RelocateSays
    <3>4. Moves(r[x], i, w, at + k - 1, j)
      BY <2>5 DEF x
    <3>5. Moves(r[y], i, w, at + k - 1, j)
      BY <2>2, <3>2, <3>3, <3>4, LongerMoves
    <3> QED BY <3>1, <3>5 DEF y
  <2>6. n - k \in S
    <3> HIDE DEF S
    <3>1. \A m \in 0 .. n - k : m \in S
      BY <2>1, <2>4, <2>5, UpTo
    <3> QED BY <2>1, <3>1
  <2>7. Moves(r[n], i, w, at + k - 1, j)
    BY <2>1, <2>6
  <2>8. Moves(e, i, w, at + k - 1, j)
    BY <1>5, <1>6, <2>2, <2>7, LongerMoves
  <2>9. Does(W, i, w, at + k - 1, j)
    BY <1>3, <1>6, <2>2, <2>8, BoundDoes
  <2> QED BY <2>9 DEF i, j, w
<1>9. Jumps(W, Place(origin, at, n + 1), at + n, "br17")
  <2>1. n + 1 \in 1 .. n + 1 /\ (n + 1) - 1 = n
    BY <1>2
  <2>2. Place(origin, at, n + 1) = Len(r[n].code) + 1 /\ Place(origin, at, n + 1) \in Int
    <3>1. Place(origin, at, n + 1) = Len(r[(n + 1) - 1].code) + 1
      BY Zenon DEF Place, r
    <3>2. Place(origin, at, n + 1) \in Int
      BY <1>7, <2>1
    <3> QED BY <2>1, <3>1, <3>2, Zenon
  <2> QED BY <1>3, <1>6, <2>2, BindSays
<1>10. Place(origin, at, 1) = 1
  <2>1. 1 - 1 = 0 /\ Len(NoCode.code) = 0
    BY DEF NoCode
  <2> QED BY <1>1, <1>4, <2>1
<1> QED
  BY <1>7, <1>8, <1>9, <1>10 DEF n

-----------------------------------------------------------------------------
(* Inline hooks: what a step does *)

\* A thread that goes on as it was but for this.
Going(c, at, x, stack, effects) ==
  [state |-> c.state, pc |-> at, x17 |-> x, stack |-> stack, effects |-> effects, flag |-> c.flag]

\* Instructions with an effect.
LEMMA EffectStep ==
  ASSUME NEW memory, NEW c, Thread(c), c.pc \in DOMAIN memory, NEW w, w = memory[c.pc], NEW x,
         \/ w.op = "op" /\ x = <<"op", w.arg>>
         \/ w.op = "ldr" /\ x = <<"load", c.pc + w.arg>>
         \/ w.op = "ldrw" /\ x = <<"narrow_load", c.pc + w.arg>>
         \/ w.op = "ldr_x17" /\ x = <<"load", c.x17>>
         \/ w.op = "adr" /\ x = <<"address", c.pc + w.arg>>
         \/ w.op = "adrp" /\ x = <<"address", (PageOf(c.pc) + w.arg) * Page>>
         \/ w.op = "mov" /\ x = <<"address", w.arg>>
  PROVE  After(memory, c) = Going(c, c.pc + 1, c.x17, c.stack, Append(c.effects, x))
<1> DEFINE on == [c EXCEPT !.pc = @ + 1]
           more == Append(c.effects, x)
<1>1. on = [state |-> c.state, pc |-> c.pc + 1, x17 |-> c.x17, stack |-> c.stack,
            effects |-> c.effects, flag |-> c.flag]
  BY DEF Thread
<1>2. on.effects = c.effects
  <2> HIDE DEF on
  <2> QED BY <1>1
<1>3. After(memory, c) = [on EXCEPT !.effects = Append(@, x)]
  <2>1. CASE w.op = "op" /\ x = <<"op", w.arg>>
    BY <2>1, Zenon DEF After
  <2>2. CASE w.op = "ldr" /\ x = <<"load", c.pc + w.arg>>
    BY <2>2, Zenon DEF After
  <2>3. CASE w.op = "ldr_x17" /\ x = <<"load", c.x17>>
    BY <2>3, Zenon DEF After
  <2>4. CASE w.op = "adr" /\ x = <<"address", c.pc + w.arg>>
    BY <2>4, Zenon DEF After
  <2>5. CASE w.op = "adrp" /\ x = <<"address", (PageOf(c.pc) + w.arg) * Page>>
    BY <2>5, Zenon DEF After
  <2>6. CASE w.op = "mov" /\ x = <<"address", w.arg>>
    BY <2>6, Zenon DEF After
  <2>7. CASE w.op = "ldrw" /\ x = <<"narrow_load", c.pc + w.arg>>
    BY <2>7, Zenon DEF After
  <2> QED BY <2>1, <2>2, <2>3, <2>4, <2>5, <2>6, <2>7
<1>4. [on EXCEPT !.effects = Append(@, x)] = [on EXCEPT !.effects = more]
  <2> HIDE DEF on
  <2> QED BY <1>2
<1> HIDE DEF on, more
<1>5. After(memory, c) = Going(c, c.pc + 1, c.x17, c.stack, more)
  BY <1>1, <1>3, <1>4 DEF Going
<1> QED
  BY <1>5 DEF more

\* Branches.
LEMMA JumpStep ==
  ASSUME NEW memory, NEW c, Thread(c), c.pc \in DOMAIN memory, NEW w, w = memory[c.pc], NEW to,
         \/ w.op = "b" /\ to = c.pc + w.arg
         \/ w.op \in {"cond", "ncond"} /\ c.flag = (w.op = "cond") /\ to = c.pc + w.arg
         \/ w.op \in {"cond", "ncond"} /\ c.flag # (w.op = "cond") /\ to = c.pc + 1
         \/ w.op = "br17" /\ to = c.x17
  PROVE  After(memory, c) = Going(c, to, c.x17, c.stack, c.effects)
<1>1. After(memory, c) = [c EXCEPT !.pc = to]
  <2>1. CASE w.op = "b" /\ to = c.pc + w.arg
    BY <2>1 DEF After
  <2>2. CASE w.op \in {"cond", "ncond"} /\ c.flag = (w.op = "cond") /\ to = c.pc + w.arg
    BY <2>2 DEF After
  <2>3. CASE w.op \in {"cond", "ncond"} /\ c.flag # (w.op = "cond") /\ to = c.pc + 1
    BY <2>3 DEF After
  <2>4. CASE w.op = "br17" /\ to = c.x17
    BY <2>4 DEF After
  <2> QED BY <2>1, <2>2, <2>3, <2>4
<1> QED
  BY <1>1 DEF Thread, Going

\* Calls and returns.
LEMMA LinkStep ==
  ASSUME NEW memory, NEW c, Thread(c), c.pc \in DOMAIN memory, NEW w, w = memory[c.pc], NEW to,
         \/ w.op = "bl" /\ to = c.pc + w.arg
         \/ w.op = "blr17" /\ to = c.x17
  PROVE  After(memory, c) = Going(c, to, c.x17, <<c.pc + 1>> \o c.stack, c.effects)
<1> DEFINE more == <<c.pc + 1>> \o c.stack
<1>1. After(memory, c) = [c EXCEPT !.pc = to, !.stack = more]
  <2>1. CASE w.op = "bl" /\ to = c.pc + w.arg
    BY <2>1 DEF After
  <2>2. CASE w.op = "blr17" /\ to = c.x17
    BY <2>2 DEF After
  <2> QED BY <2>1, <2>2
<1> HIDE DEF more
<1>2. After(memory, c) = Going(c, to, c.x17, more, c.effects)
  BY <1>1 DEF Thread, Going
<1> QED
  BY <1>2 DEF more

\* The instruction that returns.
LEMMA ReturnStep ==
  ASSUME NEW memory, NEW c, Thread(c), c.pc \in DOMAIN memory, memory[c.pc].op = "ret"
  PROVE  /\ c.stack = <<>> =>
              After(memory, c) = [state |-> "returned", pc |-> c.pc, x17 |-> c.x17, stack |-> c.stack,
                                  effects |-> c.effects, flag |-> c.flag]
         /\ c.stack # <<>> => After(memory, c) = Going(c, Head(c.stack), c.x17, Tail(c.stack), c.effects)
<1>1. CASE c.stack = <<>>
  <2>1. After(memory, c) = [c EXCEPT !.state = "returned"]
    BY <1>1 DEF After
  <2> QED BY <1>1, <2>1 DEF Thread
<1>2. CASE c.stack # <<>>
  <2> DEFINE to == Head(c.stack)
             rest == Tail(c.stack)
  <2>1. After(memory, c) = [c EXCEPT !.pc = to, !.stack = rest]
    BY <1>2 DEF After
  <2> HIDE DEF to, rest
  <2>2. After(memory, c) = Going(c, to, c.x17, rest, c.effects)
    BY <2>1 DEF Thread, Going
  <2> QED BY <1>2, <2>2 DEF to, rest
<1> QED
  BY <1>1, <1>2

\* Addresses into TMP_REG_0.
LEMMA AddressStep ==
  ASSUME NEW memory, NEW c, Thread(c), c.pc \in DOMAIN memory, NEW to, memory[c.pc] = I("mov17", to)
  PROVE  After(memory, c) = Going(c, c.pc + 1, to, c.stack, c.effects)
<1> DEFINE on == [c EXCEPT !.pc = @ + 1]
<1>1. memory[c.pc].op = "mov17" /\ memory[c.pc].arg = to
  BY DEF I
<1>2. After(memory, c) = [on EXCEPT !.x17 = memory[c.pc].arg]
  BY <1>1 DEF After
<1>3. on = [state |-> c.state, pc |-> c.pc + 1, x17 |-> c.x17, stack |-> c.stack,
            effects |-> c.effects, flag |-> c.flag]
  BY DEF Thread
<1> HIDE DEF on
<1> QED
  BY <1>1, <1>2, <1>3 DEF Going

\* The first word of a trampoline.
LEMMA FirstStep ==
  ASSUME NEW memory, NEW c, Thread(c), c.pc \in DOMAIN memory, memory[c.pc].op \in {"adrp17", "ldr17"}
  PROVE  After(memory, c).pc = c.pc + 1
<1> DEFINE on == [c EXCEPT !.pc = @ + 1]
<1>1. on = [state |-> c.state, pc |-> c.pc + 1, x17 |-> c.x17, stack |-> c.stack,
            effects |-> c.effects, flag |-> c.flag]
  BY DEF Thread
<1>2. PICK x : After(memory, c) = [on EXCEPT !.x17 = x]
  <2>1. CASE memory[c.pc].op = "adrp17"
    BY <2>1, Zenon DEF After
  <2>2. CASE memory[c.pc].op = "ldr17"
    BY <2>2, Zenon DEF After
  <2> QED BY <2>1, <2>2, Zenon
<1> HIDE DEF on
<1> QED
  BY <1>1, <1>2

-----------------------------------------------------------------------------
(* Inline hooks: where a thread is *)

\* The words under the trampoline of f but the first.
Interior(f) == f + 1 .. f + Len(Trampoline(f)) - 1
Outside(a) == \A f \in image.targets : a \notin Interior(f)

\* The instructions of f are there, or its trampoline is.
Bare(f) == \A k \in 1 .. Len(Trampoline(f)) : mem[f + k - 1] = image.code[f + k - 1]
Covered(f) == \A k \in 1 .. Len(Trampoline(f)) : mem[f + k - 1] = Trampoline(f)[k]
Torn(f) == patch # NoPatch /\ patch.at = f /\ patch.done \in 1 .. Len(patch.words) - 1

\* The address of the k-th instruction of f in a block, after the last that of
\* the jump back.
First(f, k) == Place(Saved(f), f, k)
IsBlock(b, f) ==
  b \in blocks /\ f \in image.targets /\ b.words = relo_relocate(Saved(f), f) /\ b.origin = Saved(f)

\* A thread at x does what one of the code that was loaded does at a: x is a,
\* where the words are, or where a was relocated to.
There(x, a) == x = a /\ \A f \in image.targets : a \in Interior(f) => Bare(f)
Elsewhere(x, a) ==
  \E b \in blocks, f \in image.targets : \E k \in 1 .. Len(Trampoline(f)) + 1 :
    IsBlock(b, f) /\ x = b.at + First(f, k) - 1 /\ a = f + k - 1
AtPlace(x, a) == There(x, a) \/ Elsewhere(x, a)

\* It is on the way through the trampoline of f, whose backup is there or comes
\* with the end of the patch.
Backed(f) == backup[f] # Null \/ (patch # NoPatch /\ patch.at = f /\ ~Hooked(f))
Entering(c, f) ==
  f \in image.targets /\ Backed(f) /\ Underway(c, f) /\ (c.pc # Replacement[f] => Covered(f))

\* It is in a jump out of a block.
Leaving(c, a) ==
  Outside(a) /\ \E b \in blocks : \E i \in Int :
    Jumps(b.words, i, a, "br17") /\ (c.pc = b.at + i - 1 \/ (c.pc = b.at + i /\ c.x17 = a))

\* It is after the first of the two words of a call or a load.
Halfway(c, a) ==
  \E b \in blocks, f \in image.targets : \E k \in 1 .. Len(Trampoline(f)) :
    /\ IsBlock(b, f) /\ a = f + k - 1 /\ image.code[a].op \in {"bl", "ldr", "ldrw"}
    /\ c.pc = b.at + First(f, k) /\ c.x17 = a + image.code[a].arg

Position(c, a) == AtPlace(c.pc, a) \/ Leaving(c, a) \/ Halfway(c, a)

\* It has done what the other has, and will return to where the other will.
Alike(c, o) ==
  /\ Thread(c) /\ c.pc \in Int /\ c.stack \in Seq(Int)
  /\ c.state = o.state /\ c.flag = o.flag /\ c.effects = o.effects
  /\ Len(c.stack) = Len(o.stack) /\ \A i \in 1 .. Len(c.stack) : AtPlace(c.stack[i], o.stack[i])

Match(c, o) == Alike(c, o) /\ (c.state = "running" => Position(c, o.pc))
Follows(c, o) == Alike(c, o) /\ (c.state = "running" => Position(c, o.pc) \/ Entering(c, o.pc))

-----------------------------------------------------------------------------
(* Inline hooks: what is where *)

\* Instructions of the code that was loaded.
Plain == {"op", "ret", "b", "bl", "cond", "ncond", "ldr", "ldrw", "adr", "adrp", "mov", "low", "high"}

\* None of them uses the register or leads under a trampoline.
LEMMA CodeIsPlain ==
  ASSUME image \in Images, NEW a \in DOMAIN image.code
  PROVE  /\ a \in Int /\ image.code[a] \in Word /\ image.code[a].op \in Plain /\ image.code[a].arg \in Int
         /\ image.code[a].op \in {"b", "bl", "cond", "ncond", "ldr", "ldrw"} => Outside(a + image.code[a].arg)
<1>1. a \in Int /\ image.code[a] \in Word
  BY Loaded
<1>2. image.code[a].op \in Ops /\ image.code[a].arg \in Int
  BY <1>1 DEF Word
<1>3. Hookable(image)
  BY ImagesAssumption
<1>4. image.code[a].op \notin Scratch
  BY <1>3 DEF Hookable
<1>5. image.code[a].op \in Plain
  BY <1>2, <1>4 DEF Ops, Plain
<1>6. ASSUME image.code[a].op \in {"b", "bl", "cond", "ncond", "ldr", "ldrw"}, NEW f \in image.targets
      PROVE  a + image.code[a].arg \notin Interior(f)
  BY <1>3, <1>6 DEF Hookable, Interior
<1> QED
  BY <1>1, <1>2, <1>5, <1>6 DEF Outside

\* The first word of a trampoline is none of them.
LEMMA TrampolineFirst ==
  ASSUME image \in Images, NEW f \in image.targets
  PROVE  Trampoline(f)[1].op \in {"adrp17", "ldr17"} /\ Trampoline(f)[1] # image.code[f]
<1> DEFINE to == Replacement[f]
<1>1. f \in Int /\ to \in Int /\ f \in DOMAIN image.code
  BY Loaded
<1>2. Trampoline(f) = Near(f, to) \/ Trampoline(f) = Far(to)
  BY <1>1, TrampolineIs
<1>3. Near(f, to)[1] = I("adrp17", AdrpPages(f, to)) /\ Far(to)[1] = I("ldr17", 2)
  BY DEF Near, Far
<1>4. Trampoline(f)[1].op \in {"adrp17", "ldr17"}
  BY <1>2, <1>3 DEF I
<1>5. image.code[f].op \in Plain
  BY <1>1, CodeIsPlain
<1>6. image.code[f].op \notin {"adrp17", "ldr17"}
  BY <1>5 DEF Plain
<1> QED
  BY <1>4, <1>6

\* What follows the words under a trampoline, and functions, are outside.
LEMMA EndsOutside ==
  ASSUME image \in Images, NEW f \in image.targets
  PROVE  Outside(f) /\ Outside(f + Len(Trampoline(f)))
<1> SUFFICES ASSUME NEW g \in image.targets PROVE f \notin Interior(g) /\ f + Len(Trampoline(f)) \notin Interior(g)
  BY DEF Outside
<1> DEFINE n == Len(Trampoline(f))
           m == Len(Trampoline(g))
<1>1. f \in Int /\ g \in Int /\ n \in {3, 4} /\ m \in {3, 4}
  BY Spanned
<1>2. g \notin f + 1 .. f + n - 1 /\ f \notin g + 1 .. g + m - 1
  BY ImagesAssumption DEF Hookable
<1>3. Interior(g) = g + 1 .. g + m - 1
  BY DEF Interior
<1> HIDE DEF n, m
<1>4. f + n \notin g + 1 .. g + m - 1
  <2>1. CASE f = g
    <3>1. n = m
      BY <2>1 DEF n, m
    <3> QED BY <1>1, <2>1, <3>1
  <2>2. CASE f # g
    BY <1>1, <1>2, <2>2
  <2> QED BY <2>1, <2>2
<1> QED
  BY <1>2, <1>3, <1>4 DEF n

\* Under a trampoline are the instructions, or the trampoline, or a patch is
\* half done.
LEMMA Shapes ==
  ASSUME InlineInv, NEW f \in image.targets
  PROVE  /\ Bare(f) \/ Covered(f) \/ Torn(f)
         /\ Covered(f) => Hooked(f) \/ (patch # NoPatch /\ patch.at = f)
         /\ mem[f] = image.code[f] \/ mem[f] = Trampoline(f)[1]
<1> DEFINE n == Len(Trampoline(f))
<1>1. image \in Images /\ f \in Int /\ n \in {3, 4} /\ Len(Saved(f)) = n
  BY Spanned DEF InlineInv
<1>2. \A k \in 1 .. n : mem[f + k - 1] = Shown(f, k)
  BY DEF InlineInv, CodeShown
<1>3. Saved(f) = [k \in 1 .. n |-> image.code[f + k - 1]]
  BY DEF Saved
<1>4. 1 \in 1 .. n /\ f + 1 - 1 = f
  BY <1>1, ThreeWords
<1>5. ASSUME f # patch.at \/ patch = NoPatch
      PROVE  \A k \in 1 .. n : mem[f + k - 1] = IF Hooked(f) THEN Trampoline(f)[k] ELSE image.code[f + k - 1]
  <2> SUFFICES ASSUME NEW k \in 1 .. n
               PROVE  mem[f + k - 1] = IF Hooked(f) THEN Trampoline(f)[k] ELSE image.code[f + k - 1]
    OBVIOUS
  <2>1. patch = NoPatch => patch.done = 0
    BY DEF NoPatch
  <2>2. ~(k <= 0)
    BY <1>1
  <2> QED BY <1>2, <1>5, <2>1, <2>2 DEF Shown
<1>6. ASSUME f = patch.at, patch # NoPatch
      PROVE  /\ Len(patch.words) = n /\ patch.done \in 0 .. n /\ (Hooking \/ Unhooking)
             /\ \A k \in 1 .. n : patch.words[k] = IF Hooking THEN Trampoline(f)[k] ELSE image.code[f + k - 1]
  <2>1. patch.done \in 0 .. Len(patch.words) /\ (Hooking \/ Unhooking)
    BY <1>6 DEF InlineInv, PatchUnderWay
  <2>2. Len(patch.words) = n
    BY <1>1, <1>6, <2>1 DEF Hooking, Unhooking
  <2>3. \A k \in 1 .. n : patch.words[k] = IF Hooking THEN Trampoline(f)[k] ELSE image.code[f + k - 1]
    BY <1>3, <1>6, <2>1 DEF Hooking, Unhooking
  <2> QED BY <2>1, <2>2, <2>3
<1>7. mem[f] = image.code[f] \/ mem[f] = Trampoline(f)[1]
  <2>1. mem[f + 1 - 1] = Shown(f, 1)
    BY <1>2, <1>4
  <2>2. CASE f # patch.at \/ patch = NoPatch
    BY <1>4, <1>5, <2>2
  <2>3. CASE f = patch.at /\ patch # NoPatch
    <3>1. patch.words[1] = Trampoline(f)[1] \/ patch.words[1] = image.code[f]
      BY <1>4, <1>6, <2>3
    <3> QED BY <1>4, <2>1, <3>1 DEF Shown
  <2> QED BY <2>2, <2>3
<1>8. Bare(f) \/ Covered(f) \/ Torn(f)
  <2>1. CASE f # patch.at \/ patch = NoPatch
    BY <1>5, <2>1 DEF Bare, Covered
  <2>2. CASE f = patch.at /\ patch # NoPatch
    <3>1. CASE patch.done = 0
      <4>1. \A k \in 1 .. n : ~(k <= patch.done)
        BY <1>1, <3>1
      <4>2. \A k \in 1 .. n : mem[f + k - 1] = IF Hooked(f) THEN Trampoline(f)[k] ELSE image.code[f + k - 1]
        BY <1>2, <4>1 DEF Shown
      <4> QED BY <4>2 DEF Bare, Covered
    <3>2. CASE patch.done = n
      <4>1. \A k \in 1 .. n : k <= patch.done
        BY <1>1, <3>2
      <4>2. \A k \in 1 .. n : mem[f + k - 1] = patch.words[k]
        BY <1>2, <2>2, <4>1 DEF Shown
      <4> QED BY <1>6, <2>2, <4>2 DEF Bare, Covered
    <3>3. CASE patch.done # 0 /\ patch.done # n
      <4>1. Len(patch.words) = n /\ patch.done \in 0 .. n
        BY <1>6, <2>2
      <4>2. patch.done \in 1 .. Len(patch.words) - 1
        BY <1>1, <3>3, <4>1
      <4> QED BY <2>2, <4>2 DEF Torn
    <3> QED BY <3>1, <3>2, <3>3
  <2> QED BY <2>1, <2>2
<1>9. Covered(f) => Hooked(f) \/ (patch # NoPatch /\ patch.at = f)
  <2> SUFFICES ASSUME Covered(f), ~Hooked(f), f # patch.at \/ patch = NoPatch PROVE FALSE
    OBVIOUS
  <2>1. mem[f] = image.code[f]
    BY <1>4, <1>5
  <2>2. mem[f] = Trampoline(f)[1]
    BY <1>4 DEF Covered
  <2> QED BY <1>1, <2>1, <2>2, TrampolineFirst
<1> QED
  BY <1>7, <1>8, <1>9

\* Code that is under no trampoline is there.
LEMMA CodeThere ==
  ASSUME InlineInv, NEW a \in DOMAIN image.code, There(a, a), a \notin image.targets
  PROVE  mem[a] = image.code[a]
<1>1. image \in Images
  BY DEF InlineInv
<1>2. CASE \A f \in image.targets : a \notin Span(f)
  BY <1>2 DEF InlineInv, CodeShown
<1>3. ASSUME NEW f \in image.targets, a \in Span(f) PROVE mem[a] = image.code[a]
  <2> DEFINE n == Len(Trampoline(f))
             k == a - f + 1
  <2>1. f \in Int /\ k \in 1 .. n /\ f + k - 1 = a /\ n \in {3, 4}
    BY <1>1, <1>3, Spanned
  <2>2. a \in Interior(f)
    <3>1. a # f /\ Interior(f) = f + 1 .. f + n - 1 /\ a \in f .. f + n - 1 /\ a \in Int
      BY <1>1, <1>3, Loaded DEF Interior, Span
    <3> HIDE DEF n, k
    <3> QED BY <2>1, <3>1
  <2>3. Bare(f)
    BY <2>2 DEF There
  <2>4. mem[f + k - 1] = image.code[f + k - 1]
    BY <2>1, <2>3 DEF Bare
  <2> HIDE DEF k
  <2> QED BY <2>1, <2>4
<1> QED
  BY <1>2, <1>3

\* The words of a block are in memory.
LEMMA BlockWord ==
  ASSUME InlineInv, NEW b \in blocks, NEW i, NEW w, Holds(b.words, i, w)
  PROVE  b.at \in Int /\ b.at + i - 1 \in DOMAIN mem /\ mem[b.at + i - 1] = w
BY DEF InlineInv, BlocksKept, Holds

\* What the k-th instruction of a block does.
LEMMA BlockDoes ==
  ASSUME InlineInv, NEW b, NEW f, IsBlock(b, f)
  PROVE  /\ b.at \in Int /\ f \in Int /\ Len(Trampoline(f)) \in {3, 4}
         /\ \A k \in 1 .. Len(Trampoline(f)) :
              /\ Does(b.words, First(f, k), image.code[f + k - 1], f + k - 1, First(f, k + 1))
              /\ f + k - 1 \in DOMAIN image.code
         /\ Jumps(b.words, First(f, Len(Trampoline(f)) + 1), f + Len(Trampoline(f)), "br17")
         /\ First(f, 1) = 1
         /\ \A k \in 1 .. Len(Trampoline(f)) + 1 : First(f, k) \in Int
<1>1. image \in Images /\ f \in image.targets /\ b \in blocks /\ b.words = relo_relocate(Saved(f), f)
  BY DEF InlineInv, IsBlock
<1>2. /\ f \in Int /\ Len(Trampoline(f)) \in {3, 4} /\ Saved(f) \in Seq(Word) /\ Len(Saved(f)) = Len(Trampoline(f))
      /\ \A k \in 1 .. Len(Trampoline(f)) : f + k - 1 \in DOMAIN image.code
  BY <1>1, Spanned
<1>3. b.at \in Int
  BY <1>1 DEF InlineInv, BlocksKept
<1>4. \A k \in 1 .. Len(Trampoline(f)) : Saved(f)[k] = image.code[f + k - 1]
  BY DEF Saved
<1>5. /\ \A k \in 1 .. Len(Saved(f)) :
           Does(b.words, Place(Saved(f), f, k), Saved(f)[k], f + k - 1, Place(Saved(f), f, k + 1))
      /\ Jumps(b.words, Place(Saved(f), f, Len(Saved(f)) + 1), f + Len(Saved(f)), "br17")
      /\ Place(Saved(f), f, 1) = 1
      /\ \A k \in 1 .. Len(Saved(f)) + 1 : Place(Saved(f), f, k) \in Int
  BY <1>1, <1>2, RelocatedSays
<1> QED
  BY <1>2, <1>3, <1>4, <1>5 DEF First

-----------------------------------------------------------------------------
(* Inline hooks: both threads step *)

\* Threads in code that nobody hooks.
Cpus == [state : {"running", "returned", "crashed"}, pc : Int, x17 : Int, stack : Seq(Int),
         effects : Seq({"op", "load", "narrow_load", "address"} \X Int), flag : BOOLEAN]

\* They are threads.
LEMMA CpusAreThreads ==
  ASSUME NEW o \in Cpus
  PROVE  Thread(o) /\ o.pc \in Int /\ o.stack \in Seq(Int) /\ o.flag \in BOOLEAN
BY DEF Cpus, Thread

\* Code that does not crash is there.
LEMMA OriginalStep ==
  ASSUME image \in Images, NEW o \in Cpus, o.state = "running", After(image.code, o).state # "crashed"
  PROVE  /\ o.pc \in DOMAIN image.code
         /\ image.code[o.pc].op \in Plain \ {"low", "high"}
<1>0. [o EXCEPT !.state = "crashed"].state = "crashed"
  BY DEF Cpus
<1>1. o.pc \in DOMAIN image.code
  BY <1>0 DEF After
<1>2. image.code[o.pc].op \in Plain
  BY <1>1, CodeIsPlain
<1>3. ASSUME image.code[o.pc].op \in {"low", "high"} PROVE FALSE
  <2>1. After(image.code, o) = [o EXCEPT !.state = "crashed"]
    <3>1. CASE image.code[o.pc].op = "low"
      BY <1>1, <3>1 DEF After
    <3>2. CASE image.code[o.pc].op = "high"
      BY <1>1, <3>2 DEF After
    <3> QED BY <1>3, <3>1, <3>2
  <2> QED BY <1>0, <2>1
<1> QED
  BY <1>1, <1>2, <1>3

\* Two threads go on alike.
LEMMA AlongAlike ==
  ASSUME NEW d, NEW o, Alike(d, o), NEW at \in Int, NEW x, NEW to, NEW y, NEW effects,
         NEW c, c = Going(d, at, x, d.stack, effects),
         NEW p, p = Going(o, to, y, o.stack, effects), Position(c, p.pc)
  PROVE  Match(c, p)
BY DEF Alike, Match, Going, Thread

\* One goes on and the other is where it was.
LEMMA StillAlike ==
  ASSUME NEW d, NEW o, Alike(d, o), NEW at \in Int, NEW x,
         NEW c, c = Going(d, at, x, d.stack, d.effects), Position(c, o.pc)
  PROVE  Match(c, o)
BY DEF Alike, Match, Going, Thread

\* Both call.
LEMMA LinkAlike ==
  ASSUME NEW d, NEW o, Alike(d, o), o.stack \in Seq(Int), NEW at \in Int, NEW x, NEW to, NEW y,
         NEW r \in Int, NEW s \in Int, AtPlace(r, s),
         NEW c, c = Going(d, at, x, <<r>> \o d.stack, d.effects),
         NEW p, p = Going(o, to, y, <<s>> \o o.stack, o.effects), Position(c, p.pc)
  PROVE  Match(c, p)
<1> DEFINE cs == <<r>> \o d.stack
           ps == <<s>> \o o.stack
<1>0. /\ d.stack \in Seq(Int) /\ Len(d.stack) = Len(o.stack)
      /\ \A i \in 1 .. Len(d.stack) : AtPlace(d.stack[i], o.stack[i])
  BY DEF Alike
<1>1. Len(o.stack) \in Nat
  OBVIOUS
<1>2. /\ cs \in Seq(Int) /\ Len(cs) = Len(o.stack) + 1 /\ Len(ps) = Len(o.stack) + 1
      /\ cs[1] = r /\ ps[1] = s
      /\ \A i \in 2 .. Len(o.stack) + 1 : cs[i] = d.stack[i - 1] /\ ps[i] = o.stack[i - 1]
  <2> DEFINE v == d.stack
             w == o.stack
  <2>1. v \in Seq(Int) /\ w \in Seq(Int) /\ Len(v) = Len(w)
    BY <1>0
  <2> HIDE DEF v, w
  <2>2. <<r>> \o v \in Seq(Int) /\ Len(<<r>> \o v) = Len(w) + 1 /\ Len(<<s>> \o w) = Len(w) + 1
    BY <2>1
  <2>3. (<<r>> \o v)[1] = r /\ (<<s>> \o w)[1] = s
    BY <2>1
  <2>4. \A i \in 2 .. Len(w) + 1 : (<<r>> \o v)[i] = v[i - 1] /\ (<<s>> \o w)[i] = w[i - 1]
    BY <2>1
  <2> QED BY <2>2, <2>3, <2>4 DEF v, w
<1> HIDE DEF cs, ps
<1>3. ASSUME NEW i \in 1 .. Len(cs) PROVE AtPlace(cs[i], ps[i])
  <2>1. CASE i = 1
    BY <1>2, <2>1
  <2>2. CASE i # 1
    <3>1. i \in 2 .. Len(o.stack) + 1 /\ i - 1 \in 1 .. Len(d.stack)
      <4> DEFINE m == Len(o.stack)
      <4>1. i \in 1 .. m + 1 /\ Len(d.stack) = m /\ m \in Nat
        BY <1>0, <1>1, <1>2
      <4> HIDE DEF m
      <4>2. i \in 2 .. m + 1 /\ i - 1 \in 1 .. m
        BY <2>2, <4>1
      <4> QED BY <4>1, <4>2 DEF m
    <3> QED BY <1>0, <1>2, <3>1
  <2> QED BY <2>1, <2>2
<1>4. c = Going(d, at, x, cs, d.effects) /\ p = Going(o, to, y, ps, o.effects)
  BY DEF cs, ps
<1>5. Len(cs) = Len(ps)
  BY <1>2
<1> QED
  BY <1>2, <1>3, <1>4, <1>5 DEF Alike, Match, Going, Thread

\* Both return.
LEMMA ReturnAlike ==
  ASSUME NEW d, NEW o, Alike(d, o), Thread(o), o.stack \in Seq(Int), NEW memory, NEW code,
         d.pc \in DOMAIN memory, memory[d.pc].op = "ret", o.pc \in DOMAIN code, code[o.pc].op = "ret",
         NEW c, c = After(memory, d), NEW p, p = After(code, o)
  PROVE  Match(c, p)
<1>1. /\ d.stack \in Seq(Int) /\ Len(d.stack) = Len(o.stack) /\ Len(o.stack) \in Nat /\ Thread(d)
      /\ \A i \in 1 .. Len(d.stack) : AtPlace(d.stack[i], o.stack[i])
  BY DEF Alike
<1>2. CASE d.stack = <<>>
  <2>1. o.stack = <<>>
    BY <1>1, <1>2
  <2>2. c = [state |-> "returned", pc |-> d.pc, x17 |-> d.x17, stack |-> d.stack,
             effects |-> d.effects, flag |-> d.flag]
    BY <1>1, <1>2, ReturnStep
  <2>3. p = [state |-> "returned", pc |-> o.pc, x17 |-> o.x17, stack |-> o.stack,
             effects |-> o.effects, flag |-> o.flag]
    BY <2>1, ReturnStep
  <2> QED BY <1>1, <2>2, <2>3 DEF Match, Alike, Thread
<1>3. CASE d.stack # <<>>
  <2> DEFINE at == Head(d.stack)
             to == Head(o.stack)
             cs == Tail(d.stack)
             ps == Tail(o.stack)
  <2>1. o.stack # <<>>
    BY <1>1, <1>3
  <2>2. c = Going(d, at, d.x17, cs, d.effects)
    BY <1>1, <1>3, ReturnStep
  <2>3. p = Going(o, to, o.x17, ps, o.effects)
    BY <2>1, ReturnStep
  <2>4. at \in Int /\ at = d.stack[1] /\ to = o.stack[1] /\ 1 \in 1 .. Len(d.stack)
    BY <1>1, <1>3, <2>1
  <2>5. /\ cs \in Seq(Int) /\ Len(cs) = Len(d.stack) - 1 /\ Len(ps) = Len(d.stack) - 1
        /\ \A i \in 1 .. Len(d.stack) - 1 : cs[i] = d.stack[i + 1] /\ ps[i] = o.stack[i + 1]
    BY <1>1, <1>3, <2>1
  <2> HIDE DEF at, to, cs, ps
  <2>6. ASSUME NEW i \in 1 .. Len(cs) PROVE AtPlace(cs[i], ps[i])
    <3>1. i \in 1 .. Len(d.stack) - 1 /\ i + 1 \in 1 .. Len(d.stack)
      BY <1>1, <2>5
    <3> QED BY <1>1, <2>5, <3>1
  <2>7. AtPlace(at, to)
    BY <1>1, <2>4
  <2>8. Len(cs) = Len(ps)
    BY <2>5
  <2>9. Position(c, p.pc)
    BY <2>2, <2>3, <2>7 DEF Position, Going
  <2> QED BY <2>2, <2>3, <2>4, <2>5, <2>6, <2>8, <2>9 DEF Match, Alike, Going, Thread
<1> QED
  BY <1>2, <1>3

\* A patch that is half done is seen by threads among its words.
Disturbed(c) == patch.done \in 1 .. Len(patch.words) - 1 /\ Inside(c)

\* What follows an instruction that is there is there.
LEMMA NextThere ==
  ASSUME InlineInv, NEW a \in DOMAIN image.code, There(a, a), mem[a] = image.code[a],
         NEW c, a + 1 \in {c.pc} \cup Range(c.stack), ~Disturbed(c)
  PROVE  There(a + 1, a + 1)
<1> SUFFICES ASSUME NEW f \in image.targets, a + 1 \in Interior(f) PROVE Bare(f)
  BY DEF There
<1> DEFINE n == Len(Trampoline(f))
<1>1. image \in Images /\ f \in Int /\ n \in {3, 4} /\ a \in Int
  BY Spanned, Loaded DEF InlineInv
<1>2. Interior(f) = f + 1 .. f + n - 1
  BY DEF Interior
<1> HIDE DEF n
<1>3. CASE a \in Interior(f)
  BY <1>3 DEF There
<1>4. CASE a \notin Interior(f)
  <2>1. a = f
    BY <1>1, <1>2, <1>4
  <2>2. ~Covered(f)
    <3>1. Trampoline(f)[1] # image.code[f]
      BY <1>1, TrampolineFirst
    <3>2. 1 \in 1 .. n /\ f + 1 - 1 = f
      BY <1>1, ThreeWords
    <3> QED BY <2>1, <3>1, <3>2 DEF Covered, n
  <2>3. ~Torn(f)
    <3> SUFFICES ASSUME Torn(f) PROVE FALSE
      OBVIOUS
    <3>1. patch # NoPatch /\ patch.at = f /\ patch.done \in 1 .. Len(patch.words) - 1
      BY DEF Torn
    <3>2. Len(patch.words) = n
      <4>1. Hooking \/ Unhooking
        BY <3>1 DEF InlineInv, PatchUnderWay
      <4> QED BY <1>1, <3>1, <4>1, Spanned DEF Hooking, Unhooking, n
    <3>3. a + 1 \in patch.at + 1 .. patch.at + Len(patch.words) - 1
      BY <1>2, <3>1, <3>2
    <3> QED BY <3>1, <3>3 DEF Disturbed, Inside
  <2> QED BY <2>2, <2>3, Shapes
<1> QED
  BY <1>3, <1>4

\* An instruction that is where it was loaded does what it did.
LEMMA PlainStep ==
  ASSUME InlineInv, NEW o \in Cpus, o.state = "running", NEW p, p = After(image.code, o), p.state # "crashed",
         NEW d, Alike(d, o), There(d.pc, o.pc), mem[d.pc] = image.code[o.pc],
         NEW c, c = After(mem, d), ~Disturbed(c)
  PROVE  Match(c, p)
<1> DEFINE a == o.pc
           w == image.code[a]
<1>1. image \in Images /\ DOMAIN image.code \subseteq DOMAIN mem
  BY DEF InlineInv, CodeShown
<1>2. a \in DOMAIN image.code /\ w.op \in Plain \ {"low", "high"}
  BY <1>1, OriginalStep
<1>3. a \in Int /\ w.arg \in Int
  BY <1>1, <1>2, CodeIsPlain
<1>4. d.pc = a /\ There(a, a) /\ a \in DOMAIN mem /\ mem[a] = w
  BY <1>1, <1>2 DEF There
<1>5. Thread(d) /\ Thread(o) /\ o.stack \in Seq(Int) /\ d.flag = o.flag /\ d.effects = o.effects
      /\ d.stack \in Seq(Int)
  BY CpusAreThreads DEF Alike
<1> HIDE DEF w, a
<1>6. ASSUME a + 1 \in {c.pc} \cup Range(c.stack) PROVE AtPlace(a + 1, a + 1)
  BY <1>2, <1>4, <1>6, NextThere DEF AtPlace, w
<1>7. w.op \in {"b", "bl", "cond", "ncond"} => AtPlace(a + w.arg, a + w.arg)
  <2>1. w.op \in {"b", "bl", "cond", "ncond"} => Outside(a + w.arg)
    BY <1>1, <1>2, CodeIsPlain DEF w
  <2> QED BY <2>1 DEF Outside, AtPlace, There
<1>8. w = image.code[o.pc] /\ w = mem[d.pc] /\ o.pc \in DOMAIN image.code /\ d.pc \in DOMAIN mem
  BY <1>2, <1>4 DEF a, w
<1>9. d.pc = a /\ o.pc = a
  BY <1>4 DEF a
<1>10. ASSUME NEW x,
              \/ w.op = "op" /\ x = <<"op", w.arg>>
              \/ w.op = "ldr" /\ x = <<"load", a + w.arg>>
              \/ w.op = "ldrw" /\ x = <<"narrow_load", a + w.arg>>
              \/ w.op = "adr" /\ x = <<"address", a + w.arg>>
              \/ w.op = "adrp" /\ x = <<"address", (PageOf(a) + w.arg) * Page>>
              \/ w.op = "mov" /\ x = <<"address", w.arg>>
       PROVE  Match(c, p)
  <2> DEFINE effects == Append(d.effects, x)
  <2>1. c = Going(d, a + 1, d.x17, d.stack, effects)
    <3>1. \/ w.op = "op" /\ x = <<"op", w.arg>>
          \/ w.op = "ldr" /\ x = <<"load", d.pc + w.arg>>
          \/ w.op = "ldrw" /\ x = <<"narrow_load", d.pc + w.arg>>
          \/ w.op = "adr" /\ x = <<"address", d.pc + w.arg>>
          \/ w.op = "adrp" /\ x = <<"address", (PageOf(d.pc) + w.arg) * Page>>
          \/ w.op = "mov" /\ x = <<"address", w.arg>>
      BY <1>9, <1>10, Zenon
    <3>2. After(mem, d) = Going(d, d.pc + 1, d.x17, d.stack, Append(d.effects, x))
      BY <1>5, <1>8, <3>1, EffectStep, SMTT(30)
    <3> QED BY <1>9, <3>2, Zenon
  <2>2. p = Going(o, a + 1, o.x17, o.stack, effects)
    <3>1. \/ w.op = "op" /\ x = <<"op", w.arg>>
          \/ w.op = "ldr" /\ x = <<"load", o.pc + w.arg>>
          \/ w.op = "ldrw" /\ x = <<"narrow_load", o.pc + w.arg>>
          \/ w.op = "adr" /\ x = <<"address", o.pc + w.arg>>
          \/ w.op = "adrp" /\ x = <<"address", (PageOf(o.pc) + w.arg) * Page>>
          \/ w.op = "mov" /\ x = <<"address", w.arg>>
      BY <1>9, <1>10, Zenon
    <3>2. After(image.code, o) = Going(o, o.pc + 1, o.x17, o.stack, Append(o.effects, x))
      BY <1>5, <1>8, <3>1, EffectStep, SMTT(30)
    <3> QED BY <1>5, <1>9, <3>2, Zenon
  <2> HIDE DEF effects
  <2>3. c.pc = a + 1 /\ p.pc = a + 1 /\ a + 1 \in Int
    BY <1>3, <2>1, <2>2 DEF Going
  <2>4. Position(c, p.pc)
    BY <1>6, <2>3 DEF Position
  <2> QED BY <2>1, <2>2, <2>3, <2>4, AlongAlike
<1>11. CASE w.op \in {"op", "ldr", "ldrw", "adr", "adrp", "mov"}
  BY <1>10, <1>11, Zenon
<1>12. ASSUME NEW to \in Int, AtPlace(to, to) \/ to = a + 1,
              \/ w.op = "b" /\ to = a + w.arg
              \/ w.op \in {"cond", "ncond"} /\ d.flag = (w.op = "cond") /\ to = a + w.arg
              \/ w.op \in {"cond", "ncond"} /\ d.flag # (w.op = "cond") /\ to = a + 1
       PROVE  Match(c, p)
  <2>0. /\ \/ w.op = "b" /\ to = d.pc + w.arg
           \/ w.op \in {"cond", "ncond"} /\ d.flag = (w.op = "cond") /\ to = d.pc + w.arg
           \/ w.op \in {"cond", "ncond"} /\ d.flag # (w.op = "cond") /\ to = d.pc + 1
        /\ \/ w.op = "b" /\ to = o.pc + w.arg
           \/ w.op \in {"cond", "ncond"} /\ o.flag = (w.op = "cond") /\ to = o.pc + w.arg
           \/ w.op \in {"cond", "ncond"} /\ o.flag # (w.op = "cond") /\ to = o.pc + 1
    BY <1>5, <1>9, <1>12, Zenon
  <2>1. c = Going(d, to, d.x17, d.stack, d.effects)
    BY <1>5, <1>8, <2>0, JumpStep, Zenon
  <2>2. p = Going(o, to, o.x17, o.stack, d.effects)
    <3>1. /\ Thread(o) /\ o.pc \in DOMAIN image.code /\ w = image.code[o.pc]
          /\ \/ w.op = "b" /\ to = o.pc + w.arg
             \/ w.op \in {"cond", "ncond"} /\ o.flag = (w.op = "cond") /\ to = o.pc + w.arg
             \/ w.op \in {"cond", "ncond"} /\ o.flag # (w.op = "cond") /\ to = o.pc + 1
      BY <1>5, <1>8, <2>0, Zenon
    <3>2. p = Going(o, to, o.x17, o.stack, o.effects)
      BY <3>1, JumpStep
    <3> QED BY <1>5, <3>2, Zenon
  <2>3. c.pc = to /\ p.pc = to
    BY <2>1, <2>2 DEF Going
  <2>4. Position(c, p.pc)
    BY <1>6, <1>12, <2>3 DEF Position
  <2> QED BY <2>1, <2>2, <2>4, AlongAlike
<1>13. CASE w.op \in {"b", "cond", "ncond"}
  <2>1. a + w.arg \in Int /\ a + 1 \in Int
    BY <1>3
  <2>2. CASE w.op = "b" \/ d.flag = (w.op = "cond")
    <3>1. AtPlace(a + w.arg, a + w.arg)
      BY <1>7, <1>13
    <3> QED BY <1>12, <1>13, <2>1, <2>2, <3>1
  <2>3. CASE w.op # "b" /\ d.flag # (w.op = "cond")
    BY <1>12, <1>13, <2>1, <2>3
  <2> QED BY <2>2, <2>3
<1>14. CASE w.op = "bl"
  <2> DEFINE to == a + w.arg
             r == a + 1
             stack == <<r>> \o d.stack
  <2>1. to \in Int /\ r \in Int /\ AtPlace(to, to)
    BY <1>3, <1>7, <1>14
  <2>6. d.pc + 1 = r /\ o.pc + 1 = r /\ to = d.pc + w.arg /\ to = o.pc + w.arg
    BY <1>9
  <2> HIDE DEF to, r, stack
  <2>2. c = Going(d, to, d.x17, <<r>> \o d.stack, d.effects)
    <3>1. Thread(d) /\ d.pc \in DOMAIN mem /\ w = mem[d.pc] /\ w.op = "bl" /\ to = d.pc + w.arg
      BY <1>5, <1>8, <1>14, <2>6, Zenon
    <3>2. After(mem, d) = Going(d, to, d.x17, <<d.pc + 1>> \o d.stack, d.effects)
      BY <3>1, LinkStep, Zenon
    <3>3. c = Going(d, to, d.x17, <<d.pc + 1>> \o d.stack, d.effects)
      BY <3>2, Zenon
    <3> QED BY <2>6, <3>3, Zenon
  <2>3. p = Going(o, to, o.x17, <<r>> \o o.stack, o.effects)
    <3>1. Thread(o) /\ o.pc \in DOMAIN image.code /\ w = image.code[o.pc] /\ to = o.pc + w.arg
      BY <1>5, <1>8, <2>6
    <3>2. p = Going(o, to, o.x17, <<o.pc + 1>> \o o.stack, o.effects)
      BY <1>14, <3>1, LinkStep, Zenon
    <3> QED BY <2>6, <3>2, Zenon
  <2>4. AtPlace(r, r)
    <3>1. stack[1] = r /\ 1 \in DOMAIN stack
      BY <1>5, <2>1 DEF stack
    <3>2. c.stack = stack
      BY <2>2 DEF Going, stack
    <3>3. r \in Range(c.stack)
      BY <3>1, <3>2 DEF Range
    <3> QED BY <1>6, <3>3 DEF r
  <2>5. Position(c, p.pc)
    BY <2>1, <2>2, <2>3 DEF Position, Going
  <2> QED BY <1>5, <2>1, <2>2, <2>3, <2>4, <2>5, LinkAlike
<1>15. CASE w.op = "ret"
  BY <1>5, <1>8, <1>15, ReturnAlike
<1> QED
  BY <1>2, <1>11, <1>13, <1>14, <1>15 DEF Plain

\* Pages further on.
LEMMA PagesOn ==
  ASSUME NEW a \in Int, NEW n \in Int
  PROVE  PageOf(a + n * Page) = PageOf(a) + n
<1> DEFINE q == a \div Page
           r == a % Page
           z == n * Page
<1>1. Page \in Nat \ {0}
  BY MachineAssumption
<1>2. q \in Int /\ r \in 0 .. Page - 1 /\ a = Page * q + r
  BY <1>1, SMT
<1> HIDE DEF q, r
<1>3. a + n * Page = Page * (q + n) + r /\ q + n \in Int
  BY <1>1, <1>2, SMT
<1> DEFINE t == q + n
<1> HIDE DEF t
<1>4. t \in Int /\ (Page * t + r) \div Page = t
  <2>1. t \in Int
    BY <1>3 DEF t
  <2> QED BY <1>1, <1>2, <2>1, SMT
<1>5. (a + n * Page) \div Page = q + n
  BY <1>3, <1>4 DEF t
<1> QED
  BY <1>5 DEF PageOf, q

\* A jump in a block finds its label.
LEMMA BlockJump ==
  ASSUME InlineInv, NEW b \in blocks, NEW i \in Int, NEW to \in Int, NEW branch,
         Jumps(b.words, i, to, branch), NEW d, Thread(d)
  PROVE  /\ d.pc = b.at + i - 1 => After(mem, d) = Going(d, b.at + i, to, d.stack, d.effects)
         /\ b.at + i \in DOMAIN mem /\ mem[b.at + i] = I(branch, 0)
<1>1. PICK s \in Int : /\ Holds(b.words, i, I("ldr17", s)) /\ Holds(b.words, i + 1, I(branch, 0))
                       /\ Holds(b.words, i + s, I("low", to)) /\ Holds(b.words, i + s + 1, I("high", to))
  BY DEF Jumps
<1>2. /\ b.at \in Int
      /\ b.at + i - 1 \in DOMAIN mem /\ mem[b.at + i - 1] = I("ldr17", s)
      /\ b.at + (i + 1) - 1 \in DOMAIN mem /\ mem[b.at + (i + 1) - 1] = I(branch, 0)
      /\ b.at + (i + s) - 1 \in DOMAIN mem /\ mem[b.at + (i + s) - 1] = I("low", to)
      /\ b.at + (i + s + 1) - 1 \in DOMAIN mem /\ mem[b.at + (i + s + 1) - 1] = I("high", to)
  BY <1>1, BlockWord
<1>3. /\ b.at + (i + 1) - 1 = b.at + i
      /\ b.at + (i + s) - 1 = (b.at + i - 1) + s /\ b.at + (i + s + 1) - 1 = (b.at + i - 1) + s + 1
      /\ b.at + i - 1 \in Int /\ (b.at + i - 1) + 1 = b.at + i
  BY <1>2
<1>4. ASSUME d.pc = b.at + i - 1
      PROVE  After(mem, d) = Going(d, b.at + i, to, d.stack, d.effects)
  <2> DEFINE x == d.pc
  <2>1. /\ x \in DOMAIN mem /\ x \in Int /\ mem[x] = I("ldr17", s)
        /\ x + s \in DOMAIN mem /\ mem[x + s] = I("low", to)
        /\ x + s + 1 \in DOMAIN mem /\ mem[x + s + 1] = I("high", to)
        /\ x + 1 = b.at + i
    BY <1>2, <1>3, <1>4
  <2>2. After(mem, d) = [state |-> d.state, pc |-> d.pc + 1, x17 |-> to, stack |-> d.stack,
                         effects |-> d.effects, flag |-> d.flag]
    BY <2>1, LoadStep
  <2> QED BY <2>1, <2>2 DEF Going
<1> QED
  BY <1>2, <1>3, <1>4

\* A jump out of a block leads to where the other thread is.
LEMMA LeavingStep ==
  ASSUME InlineInv, NEW o \in Cpus, NEW d, Alike(d, o), Leaving(d, o.pc), NEW c, c = After(mem, d)
  PROVE  Match(c, o)
<1> DEFINE a == o.pc
<1>1. Thread(d) /\ a \in Int
  BY CpusAreThreads DEF Alike
<1>2. Outside(a) /\ AtPlace(a, a)
  BY DEF Leaving, Outside, AtPlace, There
<1> HIDE DEF a
<1>3. PICK b \in blocks : \E i \in Int :
        Jumps(b.words, i, a, "br17") /\ (d.pc = b.at + i - 1 \/ (d.pc = b.at + i /\ d.x17 = a))
  BY DEF Leaving, a
<1>4. PICK i \in Int :
        Jumps(b.words, i, a, "br17") /\ (d.pc = b.at + i - 1 \/ (d.pc = b.at + i /\ d.x17 = a))
  BY <1>3
<1>5. /\ d.pc = b.at + i - 1 => c = Going(d, b.at + i, a, d.stack, d.effects)
      /\ b.at + i \in DOMAIN mem /\ mem[b.at + i] = I("br17", 0)
  BY <1>1, <1>4, BlockJump
<1>6. CASE d.pc = b.at + i - 1
  <2>1. c = Going(d, b.at + i, a, d.stack, d.effects)
    BY <1>5, <1>6
  <2>2. c.pc = b.at + i /\ c.x17 = a /\ b.at + i \in Int
    <3>1. b.at \in Int
      BY DEF InlineInv, BlocksKept
    <3> QED BY <2>1, <3>1 DEF Going
  <2>3. Leaving(c, a)
    BY <1>2, <1>4, <2>2 DEF Leaving
  <2>4. Position(c, o.pc)
    BY <2>3 DEF Position, a
  <2> QED BY <2>1, <2>2, <2>4, StillAlike
<1>7. CASE d.pc = b.at + i /\ d.x17 = a
  <2>1. I("br17", 0).op = "br17"
    BY DEF I
  <2>2. c = Going(d, a, d.x17, d.stack, d.effects)
    BY <1>1, <1>5, <1>7, <2>1, JumpStep
  <2>3. c.pc = a
    BY <2>2 DEF Going
  <2>4. Position(c, o.pc)
    BY <1>2, <2>3 DEF Position, a
  <2> QED BY <1>1, <2>2, <2>4, StillAlike
<1> QED
  BY <1>4, <1>6, <1>7

\* What follows an instruction in a block is at its place.
LEMMA NextElsewhere ==
  ASSUME InlineInv, NEW b, NEW f, IsBlock(b, f), NEW k \in 1 .. Len(Trampoline(f)), NEW a, a = f + k - 1,
         NEW j, j = First(f, k + 1)
  PROVE  b.at + j - 1 \in Int /\ AtPlace(b.at + j - 1, a + 1)
<1>1. /\ b.at \in Int /\ f \in Int /\ Len(Trampoline(f)) \in {3, 4}
      /\ \A l \in 1 .. Len(Trampoline(f)) + 1 : First(f, l) \in Int
  BY BlockDoes
<1> DEFINE n == Len(Trampoline(f))
<1> HIDE DEF n
<1>2. k + 1 \in 1 .. n + 1 /\ a + 1 = f + (k + 1) - 1
  BY <1>1 DEF n
<1>3. j \in Int
  BY <1>1, <1>2 DEF n
<1>4. b \in blocks /\ f \in image.targets
  BY DEF IsBlock
<1>5. Elsewhere(b.at + j - 1, a + 1)
  BY <1>2, <1>4 DEF Elsewhere, n
<1> QED
  BY <1>1, <1>3, <1>5 DEF AtPlace

\* The second word of a call or of a load that is not widened.
LEMMA HalfwayStep ==
  ASSUME InlineInv, NEW o \in Cpus, o.state = "running", NEW p, p = After(image.code, o), p.state # "crashed",
         NEW d, Alike(d, o), Halfway(d, o.pc), ~AtWidened(d), NEW c, c = After(mem, d)
  PROVE  Match(c, p)
<1> DEFINE a == o.pc
           w == image.code[a]
<1>1. image \in Images
  BY DEF InlineInv
<1>2. /\ a \in DOMAIN image.code /\ w \in Word /\ a \in Int /\ w.arg \in Int
      /\ w.op \in {"b", "bl", "cond", "ncond", "ldr", "ldrw"} => Outside(a + w.arg)
  BY <1>1, OriginalStep, CodeIsPlain
<1>3. /\ Thread(d) /\ Thread(o) /\ d.effects = o.effects /\ o.stack \in Seq(Int) /\ d.stack \in Seq(Int)
  BY CpusAreThreads DEF Alike
<1>4. PICK b \in blocks, f \in image.targets : \E k \in 1 .. Len(Trampoline(f)) :
        /\ IsBlock(b, f) /\ a = f + k - 1 /\ w.op \in {"bl", "ldr", "ldrw"}
        /\ d.pc = b.at + First(f, k) /\ d.x17 = a + w.arg
  BY Zenon DEF Halfway
<1>5. PICK k \in 1 .. Len(Trampoline(f)) :
        /\ IsBlock(b, f) /\ a = f + k - 1 /\ w.op \in {"bl", "ldr", "ldrw"}
        /\ d.pc = b.at + First(f, k) /\ d.x17 = a + w.arg
  BY <1>4
<1> DEFINE i == First(f, k)
           j == First(f, k + 1)
<1>6. Does(b.words, i, w, a, j) /\ i \in Int /\ b.at \in Int
  <2>1. k \in 1 .. Len(Trampoline(f)) + 1
    BY <1>5, BlockDoes
  <2> QED BY <1>5, <2>1, BlockDoes
<1>7. b.at + j - 1 \in Int /\ AtPlace(b.at + j - 1, a + 1)
  BY <1>5, NextElsewhere
<1>8. o.pc = a /\ o.pc \in DOMAIN image.code /\ w = image.code[o.pc]
  BY <1>2
<1>9. d.pc = b.at + i /\ d.x17 = a + w.arg
  BY <1>5
<1>12. b.origin = Saved(f) /\ k \in DOMAIN Saved(f) /\ Saved(f)[k] = w
  BY <1>5 DEF IsBlock, Saved
<1> HIDE DEF i, j, a, w
<1>10. CASE w.op = "bl"
  <2> DEFINE to == a + w.arg
             r == b.at + j - 1
             s == a + 1
  <2>1. Jumps(b.words, i, to, "blr17") /\ j = i + 2
    BY <1>6, <1>10 DEF Does
  <2>2. to \in Int /\ AtPlace(to, to) /\ s \in Int
    BY <1>2, <1>10 DEF AtPlace, There, Outside
  <2>3. d.pc \in DOMAIN mem /\ mem[d.pc] = I("blr17", 0)
    BY <1>3, <1>6, <1>9, <2>1, <2>2, BlockJump
  <2>4. I("blr17", 0).op = "blr17"
    BY DEF I
  <2>5. d.pc + 1 = r /\ d.x17 = to /\ o.pc + 1 = s /\ o.pc + w.arg = to
    BY <1>6, <1>8, <1>9, <2>1
  <2>6. r \in Int /\ AtPlace(r, s)
    BY <1>7
  <2> HIDE DEF to, r, s
  <2>7. c = Going(d, to, d.x17, <<r>> \o d.stack, d.effects)
    <3>1. c = Going(d, to, d.x17, <<d.pc + 1>> \o d.stack, d.effects)
      BY <1>3, <2>3, <2>4, <2>5, LinkStep
    <3> QED BY <2>5, <3>1
  <2>8. p = Going(o, to, o.x17, <<s>> \o o.stack, o.effects)
    <3>1. Thread(o) /\ o.pc \in DOMAIN image.code /\ w = image.code[o.pc] /\ w.op = "bl" /\ to = o.pc + w.arg
      BY <1>3, <1>8, <1>10, <2>5
    <3>2. After(image.code, o) = Going(o, to, o.x17, <<o.pc + 1>> \o o.stack, o.effects)
      BY <3>1, LinkStep, ZenonT(60)
    <3>3. p = Going(o, to, o.x17, <<o.pc + 1>> \o o.stack, o.effects)
      BY <3>2, Zenon
    <3> QED BY <2>5, <3>3
  <2>9. Position(c, p.pc)
    BY <2>2, <2>7, <2>8 DEF Position, Going
  <2> QED BY <1>3, <2>2, <2>6, <2>7, <2>8, <2>9, LinkAlike
<1>11. CASE w.op = "ldr"
  <2> DEFINE x == <<"load", a + w.arg>>
             effects == Append(d.effects, x)
  <2>1. Holds(b.words, i + 1, I("ldr_x17", 0)) /\ j = i + 2
    BY <1>6, <1>11 DEF Does
  <2>2. d.pc \in DOMAIN mem /\ mem[d.pc] = I("ldr_x17", 0)
    <3>1. b.at + (i + 1) - 1 = d.pc
      BY <1>6, <1>9
    <3>2. b.at + (i + 1) - 1 \in DOMAIN mem /\ mem[b.at + (i + 1) - 1] = I("ldr_x17", 0)
      BY <2>1, BlockWord
    <3> QED BY <3>1, <3>2
  <2>3. I("ldr_x17", 0).op = "ldr_x17" /\ x = <<"load", d.x17>>
    BY <1>9 DEF I
  <2>4. c = Going(d, d.pc + 1, d.x17, d.stack, effects)
    BY <1>3, <2>2, <2>3, EffectStep
  <2>5. p = Going(o, o.pc + 1, o.x17, o.stack, effects)
    <3>1. Thread(o) /\ o.pc \in DOMAIN image.code /\ w = image.code[o.pc] /\ x = <<"load", o.pc + w.arg>>
      BY <1>3, <1>8
    <3>2. p = Going(o, o.pc + 1, o.x17, o.stack, Append(o.effects, x))
      BY <1>11, <3>1, EffectStep
    <3> QED BY <1>3, <3>2
  <2> HIDE DEF effects
  <2>6. d.pc + 1 = b.at + j - 1 /\ o.pc + 1 = a + 1
    BY <1>6, <1>8, <1>9, <2>1
  <2>7. Position(c, p.pc) /\ d.pc + 1 \in Int
    BY <1>7, <2>4, <2>5, <2>6 DEF Position, Going
  <2> QED BY <2>4, <2>5, <2>7, AlongAlike
<1>13. w.op # "ldrw"
  <2> SUFFICES ASSUME w.op = "ldrw" PROVE FALSE
    OBVIOUS
  <2>1. Holds(b.words, i + 1, I("ldr_x17", 0))
    BY <1>6 DEF Does
  <2>2. b.at + (i + 1) - 1 = d.pc
    BY <1>6, <1>9
  <2>3. mem[d.pc] = I("ldr_x17", 0)
    <3>1. mem[b.at + (i + 1) - 1] = I("ldr_x17", 0)
      BY <2>1, BlockWord
    <3> QED BY <2>2, <3>1
  <2>4. i + 1 \in 1 .. Len(b.words) /\ Len(b.words) \in Nat
    BY <2>1 DEF Holds, InlineInv, BlocksKept
  <2>5. d.pc \in b.at .. b.at + Len(b.words) - 1
    BY <1>6, <1>9, <2>4
  <2>6. mem[d.pc].op = "ldr_x17"
    BY <2>3 DEF I
  <2>7. k \in DOMAIN b.origin /\ b.origin[k].op = "ldrw"
    BY <1>12
  <2> QED BY <2>5, <2>6, <2>7 DEF AtWidened
<1> QED
  BY <1>5, <1>10, <1>11, <1>13 DEF w

\* A thread that has reached a jump out of a block, and one that is in it.
LEMMA JumpReached ==
  ASSUME NEW b \in blocks, NEW i \in Int, NEW to, Outside(to), Jumps(b.words, i, to, "br17"),
         NEW c, c.pc = b.at + i - 1
  PROVE  Leaving(c, to)
BY DEF Leaving

\* It begins there.
LEMMA JumpBegun ==
  ASSUME InlineInv, NEW b \in blocks, NEW i \in Int, NEW to \in Int, Outside(to), Jumps(b.words, i, to, "br17"),
         NEW d, Thread(d), d.pc = b.at + i - 1, NEW c, c = After(mem, d)
  PROVE  c = Going(d, b.at + i, to, d.stack, d.effects) /\ b.at + i \in Int /\ Leaving(c, to)
<1>1. c = Going(d, b.at + i, to, d.stack, d.effects)
  <2>1. /\ d.pc = b.at + i - 1 => c = Going(d, b.at + i, to, d.stack, d.effects)
        /\ b.at + i \in DOMAIN mem /\ mem[b.at + i] = I("br17", 0)
    BY BlockJump
  <2> QED BY <2>1
<1>2. c.pc = b.at + i /\ c.x17 = to
  BY <1>1 DEF Going
<1>3. Leaving(c, to)
  BY <1>2 DEF Leaving
<1>4. b.at \in Int
  BY DEF InlineInv, BlocksKept
<1> QED
  BY <1>1, <1>3, <1>4

\* In a block.
LEMMA BlockStep ==
  ASSUME InlineInv, NEW o \in Cpus, o.state = "running", NEW p, p = After(image.code, o), p.state # "crashed",
         NEW d, Alike(d, o), Elsewhere(d.pc, o.pc), NEW c, c = After(mem, d)
  PROVE  Match(c, o) \/ Match(c, p)
<1> DEFINE a == o.pc
           w == image.code[a]
<1>1. image \in Images
  BY DEF InlineInv
<1>2. /\ a \in DOMAIN image.code /\ w \in Word /\ a \in Int /\ w.arg \in Int
      /\ w.op \in Plain \ {"low", "high"}
      /\ w.op \in {"b", "bl", "cond", "ncond", "ldr", "ldrw"} => Outside(a + w.arg)
  BY <1>1, OriginalStep, CodeIsPlain
<1>3. /\ Thread(d) /\ Thread(o) /\ d.effects = o.effects /\ o.stack \in Seq(Int) /\ d.stack \in Seq(Int)
      /\ d.flag = o.flag /\ d.flag \in BOOLEAN
  BY CpusAreThreads DEF Alike
<1>4. PICK b \in blocks, f \in image.targets : \E k \in 1 .. Len(Trampoline(f)) + 1 :
        IsBlock(b, f) /\ d.pc = b.at + First(f, k) - 1 /\ a = f + k - 1
  BY Zenon DEF Elsewhere
<1>5. PICK k \in 1 .. Len(Trampoline(f)) + 1 :
        IsBlock(b, f) /\ d.pc = b.at + First(f, k) - 1 /\ a = f + k - 1
  BY <1>4
<1> DEFINE i == First(f, k)
           j == First(f, k + 1)
           n == Len(Trampoline(f))
<1>6. i \in Int /\ b.at \in Int /\ n \in {3, 4} /\ f \in Int
  BY <1>5, BlockDoes
<1>7. /\ o.pc = a /\ o.pc \in DOMAIN image.code /\ w = image.code[o.pc]
      /\ d.pc = b.at + i - 1 /\ d.pc \in Int
  BY <1>2, <1>5, <1>6
<1>11. /\ d.pc + 1 = b.at + i /\ d.pc + 1 = b.at + (i + 1) - 1
       /\ d.pc + 1 \in Int /\ d.pc + 3 \in Int /\ b.at + i \in Int /\ i + 1 \in Int
       /\ j = i + 1 => d.pc + 1 = b.at + j - 1
       /\ j = i + 3 => d.pc + 3 = b.at + j - 1
  <2> DEFINE x == d.pc
             z == b.at
  <2>1. x = z + i - 1 /\ z \in Int /\ i \in Int
    BY <1>6, <1>7
  <2> HIDE DEF x, z, i, j
  <2>2. /\ x + 1 = z + i /\ x + 1 = z + (i + 1) - 1
        /\ x + 1 \in Int /\ x + 3 \in Int /\ z + i \in Int /\ i + 1 \in Int
    BY <2>1
  <2>3. j = i + 1 => x + 1 = z + j - 1
    BY <2>1
  <2>4. j = i + 3 => x + 3 = z + j - 1
    BY <2>1
  <2> QED BY <2>2, <2>3, <2>4 DEF x, z
<1>12. o.pc + 1 = a + 1
  OBVIOUS
<1>8. ASSUME NEW to \in Int, Jumps(b.words, i, to, "br17"), Outside(to)
      PROVE  /\ c = Going(d, b.at + i, to, d.stack, d.effects)
             /\ b.at + i \in Int /\ Leaving(c, to)
  <2> HIDE DEF i, a, w
  <2>1. d.pc = b.at + i - 1 /\ i \in Int /\ Thread(d)
    BY <1>3, <1>6, <1>7
  <2> QED BY <1>8, <2>1, JumpBegun
<1>9. CASE k = n + 1
  <2>1. Jumps(b.words, i, a, "br17") /\ Outside(a)
    <3>1. a = f + n
      BY <1>5, <1>6, <1>9
    <3> QED BY <1>1, <1>5, <1>9, <3>1, BlockDoes, EndsOutside
  <2>2. c = Going(d, b.at + i, a, d.stack, d.effects) /\ b.at + i \in Int /\ Leaving(c, a)
    BY <1>2, <1>8, <2>1
  <2>3. Position(c, o.pc)
    BY <2>2 DEF Position
  <2> HIDE DEF a, i
  <2> QED BY <2>2, <2>3, StillAlike
<1>10. CASE k # n + 1
  <2>1. k \in 1 .. n
    <3>1. k \in 1 .. n + 1
      BY <1>5
    <3> HIDE DEF n
    <3> QED BY <1>6, <1>10, <3>1
  <2>2. Does(b.words, i, w, a, j)
    BY <1>5, <2>1, BlockDoes
  <2>3. b.at + j - 1 \in Int /\ AtPlace(b.at + j - 1, a + 1)
    BY <1>5, <2>1, NextElsewhere
  <2>4. ASSUME w.op \in {"bl", "ldr", "ldrw"}, c.pc = b.at + i, c.x17 = a + w.arg PROVE Halfway(c, a)
    BY <1>4, <1>5, <2>1, <2>4 DEF Halfway
  <2>5. ASSUME NEW v, Holds(b.words, i, v) PROVE d.pc \in DOMAIN mem /\ mem[d.pc] = v
    BY <1>7, <2>5, BlockWord
  <2> HIDE DEF i, j, a, w, n
  <2>6. ASSUME NEW v, Holds(b.words, i, v), j = i + 1, NEW x,
               \/ w.op = "op" /\ x = <<"op", w.arg>>
               \/ w.op = "adr" /\ x = <<"address", o.pc + w.arg>>
               \/ w.op = "adrp" /\ x = <<"address", (PageOf(o.pc) + w.arg) * Page>>
               \/ w.op = "mov" /\ x = <<"address", w.arg>>,
               \/ v.op = "op" /\ x = <<"op", v.arg>>
               \/ v.op = "mov" /\ x = <<"address", v.arg>>
        PROVE  Match(c, p)
    <3> DEFINE effects == Append(d.effects, x)
    <3>1. c = Going(d, d.pc + 1, d.x17, d.stack, effects)
      <4>1. d.pc \in DOMAIN mem /\ v = mem[d.pc]
        BY <2>5, <2>6
      <4> QED BY <1>3, <2>6, <4>1, EffectStep
    <3>2. p = Going(o, o.pc + 1, o.x17, o.stack, effects)
      <4>1. Thread(o) /\ o.pc \in DOMAIN image.code /\ w = image.code[o.pc]
        BY <1>3, <1>7
      <4>2. p = Going(o, o.pc + 1, o.x17, o.stack, Append(o.effects, x))
        BY <2>6, <4>1, EffectStep
      <4> QED BY <1>3, <4>2
    <3> HIDE DEF effects
    <3>3. d.pc + 1 = b.at + j - 1 /\ o.pc + 1 = a + 1
      BY <1>11, <1>12, <2>6
    <3>4. Position(c, p.pc) /\ d.pc + 1 \in Int
      BY <2>3, <3>1, <3>2, <3>3 DEF Position, Going
    <3> QED BY <3>1, <3>2, <3>4, AlongAlike
  <2>7. CASE w.op = "op" \/ w.op = "mov"
    <3>1. Holds(b.words, i, w) /\ j = i + 1
      BY <2>2, <2>7 DEF Does
    <3> QED BY <2>6, <2>7, <3>1
  <2>8. CASE w.op = "adr"
    <3>1. Holds(b.words, i, I("mov", a + w.arg)) /\ j = i + 1
      BY <2>2, <2>8 DEF Does
    <3>2. I("mov", a + w.arg).op = "mov" /\ I("mov", a + w.arg).arg = o.pc + w.arg
      BY <1>7 DEF I
    <3> QED BY <2>6, <2>8, <3>1, <3>2
  <2>9. CASE w.op = "adrp"
    <3> DEFINE to == PageOf(a + w.arg * Page) * Page
    <3>1. Holds(b.words, i, I("mov", to)) /\ j = i + 1
      BY <2>2, <2>9 DEF Does
    <3>2. to = (PageOf(o.pc) + w.arg) * Page
      BY <1>2, <1>7, PagesOn DEF a
    <3> HIDE DEF to
    <3>3. I("mov", to).op = "mov" /\ I("mov", to).arg = to
      BY DEF I
    <3> QED BY <2>6, <2>9, <3>1, <3>2, <3>3
  <2>10. CASE w.op = "ret"
    <3>1. Holds(b.words, i, w)
      BY <2>2, <2>10 DEF Does
    <3>2. d.pc \in DOMAIN mem /\ mem[d.pc].op = "ret" /\ image.code[o.pc].op = "ret"
      BY <1>7, <2>5, <2>10, <3>1
    <3> QED BY <1>3, <1>7, <3>2, ReturnAlike
  <2>11. CASE w.op = "b"
    <3> DEFINE to == o.pc + w.arg
    <3>1. Jumps(b.words, i, to, "br17") /\ to \in Int /\ Outside(to)
      BY <1>2, <1>7, <2>2, <2>11 DEF Does, a, w
    <3>2. c = Going(d, b.at + i, to, d.stack, d.effects) /\ b.at + i \in Int /\ Leaving(c, to)
      BY <1>8, <3>1
    <3> HIDE DEF to
    <3>3. p = Going(o, to, o.x17, o.stack, d.effects)
      <4>1. Thread(o) /\ o.pc \in DOMAIN image.code /\ w = image.code[o.pc] /\ to = o.pc + w.arg
        BY <1>3, <1>7 DEF to
      <4>2. p = Going(o, to, o.x17, o.stack, o.effects)
        BY <2>11, <4>1, JumpStep
      <4> QED BY <1>3, <4>2
    <3>4. Position(c, p.pc)
      BY <3>2, <3>3 DEF Position, Going
    <3> QED BY <3>2, <3>3, <3>4, <3>1, AlongAlike
  <2>12. CASE w.op = "bl"
    <3> DEFINE to == a + w.arg
    <3>1. Jumps(b.words, i, to, "blr17") /\ to \in Int
      BY <1>2, <2>2, <2>12 DEF Does, a, w
    <3> HIDE DEF to
    <3>2. c = Going(d, b.at + i, to, d.stack, d.effects)
      <4>1. d.pc = b.at + i - 1 /\ i \in Int /\ Thread(d)
        BY <1>3, <1>6, <1>7
      <4>2. /\ d.pc = b.at + i - 1 => After(mem, d) = Going(d, b.at + i, to, d.stack, d.effects)
            /\ b.at + i \in DOMAIN mem /\ mem[b.at + i] = I("blr17", 0)
        BY <3>1, <4>1, BlockJump, Zenon
      <4> QED BY <4>1, <4>2
    <3>3. Halfway(c, a)
      BY <2>4, <2>12, <3>2 DEF Going, to
    <3>4. Position(c, o.pc) /\ b.at + i \in Int
      BY <1>7, <1>11, <3>3 DEF Position
    <3> QED BY <3>2, <3>4, StillAlike, <3>1
  <2>13. CASE w.op \in {"ldr", "ldrw"}
    <3> DEFINE to == a + w.arg
    <3>1. Holds(b.words, i, I("mov17", to))
      BY <2>2, <2>13 DEF Does
    <3> HIDE DEF to
    <3>2. c = Going(d, d.pc + 1, to, d.stack, d.effects)
      <4>1. d.pc \in DOMAIN mem /\ mem[d.pc] = I("mov17", to)
        BY <2>5, <3>1
      <4> QED BY <1>3, <4>1, AddressStep
    <3>3. d.pc + 1 = b.at + i /\ d.pc + 1 \in Int
      BY <1>11
    <3>4. Halfway(c, a)
      BY <2>4, <2>13, <3>2, <3>3 DEF Going, to
    <3>5. Position(c, o.pc)
      BY <1>7, <3>4 DEF Position
    <3> QED BY <3>2, <3>3, <3>5, StillAlike
  <2>14. CASE w.op \in {"cond", "ncond"}
    <3> DEFINE to == o.pc + w.arg
               v == I(Inverted(w.op), 3)
    <3>1. Holds(b.words, i, v) /\ Jumps(b.words, i + 1, to, "br17") /\ j = i + 3
      BY <1>7, <2>2, <2>14 DEF Does
    <3>2. to \in Int /\ Outside(to)
      BY <1>2, <1>7, <2>14 DEF a, w
    <3>3. v.op \in {"cond", "ncond"} /\ v.arg = 3 /\ (v.op = "cond") = (w.op # "cond")
      BY <2>14 DEF Inverted, I
    <3> HIDE DEF to, v
    <3>4. d.pc \in DOMAIN mem /\ v = mem[d.pc]
      BY <2>5, <3>1
    <3>5. Thread(o) /\ o.pc \in DOMAIN image.code /\ w = image.code[o.pc] /\ to = o.pc + w.arg
      BY <1>3, <1>7 DEF to
    <3>6. CASE d.flag = (w.op = "cond")
      <4>1. d.flag # (v.op = "cond")
        BY <1>3, <3>3, <3>6
      <4>2. c = Going(d, d.pc + 1, d.x17, d.stack, d.effects)
        <5>1. v.op \in {"cond", "ncond"} /\ d.flag # (v.op = "cond") /\ Thread(d)
          BY <1>3, <3>3, <4>1
        <5> QED BY <3>4, <5>1, JumpStep
      <4>3. p = Going(o, to, o.x17, o.stack, d.effects)
        <5>1. o.flag = (w.op = "cond")
          BY <1>3, <3>6
        <5>2. p = Going(o, to, o.x17, o.stack, o.effects)
          BY <2>14, <3>5, <5>1, JumpStep
        <5> QED BY <1>3, <5>2
      <4>4. d.pc + 1 = b.at + (i + 1) - 1 /\ i + 1 \in Int /\ d.pc + 1 \in Int
        BY <1>11
      <4>5. Leaving(c, to)
        <5>1. c.pc = b.at + (i + 1) - 1
          BY <4>2, <4>4 DEF Going
        <5> DEFINE y == i + 1
        <5>2. /\ Jumps(b.words, y, to, "br17") /\ y \in Int /\ Outside(to)
              /\ c.pc = b.at + y - 1
          BY <3>1, <3>2, <4>4, <5>1
        <5> HIDE DEF y
        <5> QED BY <5>2, JumpReached
      <4>6. Position(c, p.pc)
        BY <4>3, <4>5 DEF Position, Going
      <4> QED BY <3>2, <4>2, <4>3, <4>4, <4>6, AlongAlike
    <3>7. CASE d.flag # (w.op = "cond")
      <4>1. d.flag = (v.op = "cond")
        BY <1>3, <3>3, <3>7
      <4>2. c = Going(d, d.pc + 3, d.x17, d.stack, d.effects)
        <5> DEFINE x == d.pc + 3
        <5>1. /\ v.op \in {"cond", "ncond"} /\ d.flag = (v.op = "cond") /\ Thread(d)
              /\ x = d.pc + v.arg
          BY <1>3, <3>3, <4>1
        <5> HIDE DEF x
        <5>2. After(mem, d) = Going(d, x, d.x17, d.stack, d.effects)
          BY <3>4, <5>1, JumpStep
        <5> QED BY <5>2 DEF x
      <4>3. p = Going(o, o.pc + 1, o.x17, o.stack, d.effects)
        <5>1. o.flag # (w.op = "cond")
          BY <1>3, <3>7
        <5>2. p = Going(o, o.pc + 1, o.x17, o.stack, o.effects)
          BY <2>14, <3>5, <5>1, JumpStep
        <5> QED BY <1>3, <5>2
      <4>4. d.pc + 3 = b.at + j - 1 /\ d.pc + 3 \in Int /\ o.pc + 1 = a + 1
        BY <1>11, <1>12, <3>1
      <4>5. Position(c, p.pc)
        BY <2>3, <4>2, <4>3, <4>4 DEF Position, Going
      <4> QED BY <4>2, <4>3, <4>4, <4>5, AlongAlike
    <3> QED BY <3>6, <3>7
  <2> QED BY <1>2, <2>7, <2>8, <2>9, <2>10, <2>11, <2>12, <2>13, <2>14 DEF Plain, w, a
<1> QED
  BY <1>9, <1>10

\* Hooked functions have a backup.
HookedBacked == \A f \in image.targets : Hooked(f) => backup[f] # Null

\* On the way through a trampoline.
Enters(c, o) == Alike(c, o) /\ Entering(c, o.pc) /\ Covered(o.pc)

\* It goes on as far as the replacement.
LEMMA EnteringStep ==
  ASSUME InlineInv, NEW o, NEW d, Alike(d, o), Entering(d, o.pc), d.pc # Replacement[o.pc],
         NEW c, c = After(mem, d)
  PROVE  Enters(c, o)
<1> DEFINE f == o.pc
<1>1. /\ image \in Images /\ f \in image.targets /\ Covered(f) /\ Underway(d, f) /\ d.pc # Replacement[f]
      /\ Thread(d) /\ d.pc \in Int /\ Backed(f)
  BY DEF InlineInv, Entering, Alike
<1> HIDE DEF f
<1>2. \A k \in 1 .. Len(Trampoline(f)) : f + k - 1 \in DOMAIN mem /\ mem[f + k - 1] = Trampoline(f)[k]
  BY <1>1, Spanned DEF InlineInv, CodeShown, Covered
<1>3. /\ Thread(c) /\ c.pc \in Int /\ Underway(c, f)
      /\ c.state = d.state /\ c.stack = d.stack /\ c.effects = d.effects /\ c.flag = d.flag
  BY <1>1, <1>2, UnderwayStep
<1>4. c = Going(d, c.pc, c.x17, d.stack, d.effects)
  BY <1>3 DEF Thread, Going
<1>5. Entering(c, o.pc) /\ Covered(o.pc)
  BY <1>1, <1>3 DEF Entering, f
<1>6. Alike(c, o)
  BY <1>3, <1>4 DEF Alike
<1> QED
  BY <1>5, <1>6 DEF Enters

\* Where both are.
LEMMA ThereStep ==
  ASSUME InlineInv, HookedBacked,
         NEW o \in Cpus, o.state = "running", NEW p, p = After(image.code, o), p.state # "crashed",
         NEW d, Alike(d, o), There(d.pc, o.pc), \A f \in image.targets : d.pc # Replacement[f],
         NEW c, c = After(mem, d), ~Disturbed(c)
  PROVE  Match(c, o) \/ Match(c, p) \/ Enters(c, o)
<1> DEFINE a == o.pc
<1>1. image \in Images /\ DOMAIN image.code \subseteq DOMAIN mem
  BY DEF InlineInv, CodeShown
<1>2. a \in DOMAIN image.code /\ d.pc = a /\ There(a, a) /\ a \in DOMAIN mem /\ a \in Int
  BY <1>1, OriginalStep, Loaded DEF There
<1>3. Thread(d) /\ d.pc \in Int /\ d.state = "running"
  BY DEF Alike
<1>4. CASE mem[a] = image.code[a]
  BY <1>2, <1>4, PlainStep
<1>5. CASE mem[a] # image.code[a]
  <2>1. a \in image.targets
    BY <1>2, <1>5, CodeThere
  <2>2. mem[a] = Trampoline(a)[1] /\ (Covered(a) \/ Torn(a))
    <3>1. 1 \in 1 .. Len(Trampoline(a)) /\ a + 1 - 1 = a
      <4>1. Len(Trampoline(a)) \in {3, 4}
        BY <1>1, <2>1, Spanned
      <4>2. 1 \in 1 .. Len(Trampoline(a))
        BY <4>1, ThreeWords
      <4>3. a + 1 - 1 = a
        BY <1>2
      <4> QED BY <4>2, <4>3
    <3>2. ~Bare(a)
      BY <1>5, <3>1 DEF Bare
    <3> QED BY <1>5, <2>1, <3>2, Shapes
  <2>3. CASE Covered(a)
    <3>1. Hooked(a) \/ (patch # NoPatch /\ patch.at = a)
      BY <2>1, <2>3, Shapes
    <3>2. Backed(a)
      BY <2>1, <3>1 DEF HookedBacked, Backed
    <3>3. Underway(d, a)
      BY <1>2, <1>3 DEF Underway
    <3>4. Entering(d, a) /\ d.pc # Replacement[a]
      BY <2>1, <2>3, <3>2, <3>3 DEF Entering
    <3> QED BY <3>4, EnteringStep
  <2>4. CASE Torn(a)
    <3>1. mem[a].op \in {"adrp17", "ldr17"}
      BY <1>1, <2>1, <2>2, TrampolineFirst
    <3>2. c.pc = a + 1
      BY <1>2, <1>3, <3>1, FirstStep
    <3>3. patch.at = a /\ patch.done \in 1 .. Len(patch.words) - 1
      BY <2>4 DEF Torn
    <3>4. Len(patch.words) \in {3, 4}
      <4>1. Hooking \/ Unhooking
        BY <2>4 DEF InlineInv, PatchUnderWay, Torn
      <4> QED BY <1>1, <2>1, <3>3, <4>1, Spanned DEF Hooking, Unhooking
    <3>5. a + 1 \in patch.at + 1 .. patch.at + Len(patch.words) - 1
      BY <1>2, <3>3, <3>4
    <3>6. Inside(c)
      BY <3>2, <3>5 DEF Inside
    <3> QED BY <3>3, <3>6 DEF Disturbed
  <2> QED BY <2>2, <2>3, <2>4
<1> QED
  BY <1>4, <1>5

\* The thread does what the other does, or comes closer to it.
LEMMA StepMatch ==
  ASSUME InlineInv, HookedBacked,
         NEW o \in Cpus, o.state = "running", NEW p, p = After(image.code, o), p.state # "crashed",
         NEW d, Follows(d, o), d.state = "running", \A f \in image.targets : d.pc # Replacement[f],
         ~AtWidened(d), NEW c, c = After(mem, d), ~Disturbed(c)
  PROVE  Match(c, o) \/ Match(c, p) \/ Enters(c, o)
<1>1. Alike(d, o) /\ (Position(d, o.pc) \/ Entering(d, o.pc))
  BY DEF Follows
<1>2. CASE There(d.pc, o.pc)
  BY <1>1, <1>2, ThereStep
<1>3. CASE Elsewhere(d.pc, o.pc)
  BY <1>1, <1>3, BlockStep
<1>4. CASE Entering(d, o.pc)
  BY <1>1, <1>4, EnteringStep DEF Entering
<1>5. CASE Leaving(d, o.pc)
  BY <1>1, <1>5, LeavingStep
<1>6. CASE Halfway(d, o.pc)
  BY <1>1, <1>6, HalfwayStep
<1> QED
  BY <1>1, <1>2, <1>3, <1>4, <1>5, <1>6 DEF Position, AtPlace

-----------------------------------------------------------------------------
(* Inline hooks: calls that nobody hooks *)

\* What has been done stays done.
Begins(s, t) == Len(s) <= Len(t) /\ \A i \in 1 .. Len(s) : t[i] = s[i]

Effects == Seq({"op", "load", "narrow_load", "address"} \X Int)

\* Steps lead from threads to threads, and take no effect back.
LEMMA GoingTypes ==
  ASSUME NEW o \in Cpus, NEW at \in Int, NEW stack \in Seq(Int), NEW effects \in Effects
  PROVE  Going(o, at, o.x17, stack, effects) \in Cpus
BY DEF Going, Cpus, Effects

LEMMA AfterTypes ==
  ASSUME image \in Images, NEW o \in Cpus
  PROVE  After(image.code, o) \in Cpus /\ Begins(o.effects, After(image.code, o).effects)
<1> DEFINE a == o.pc
           w == image.code[a]
           p == After(image.code, o)
           Goal == p \in Cpus /\ Begins(o.effects, p.effects)
<1>1. /\ Thread(o) /\ a \in Int /\ o.stack \in Seq(Int) /\ o.effects \in Effects /\ o.x17 \in Int
      /\ o.flag \in BOOLEAN
  BY CpusAreThreads DEF Cpus, Effects
<1>2. Begins(o.effects, o.effects)
  BY <1>1 DEF Begins, Effects
<1>3. ASSUME p = [o EXCEPT !.state = "crashed"] PROVE Goal
  <2> HIDE DEF p
  <2>1. p = [state |-> "crashed", pc |-> o.pc, x17 |-> o.x17, stack |-> o.stack,
             effects |-> o.effects, flag |-> o.flag]
    BY <1>1, <1>3 DEF Thread
  <2>2. p \in Cpus
    BY <1>1, <2>1 DEF Cpus, Effects
  <2>3. p.effects = o.effects
    BY <2>1
  <2> QED BY <1>2, <2>2, <2>3
<1>4. ASSUME a \notin DOMAIN image.code PROVE Goal
  <2>1. p = [o EXCEPT !.state = "crashed"]
    BY <1>4 DEF After
  <2> HIDE DEF p, Goal
  <2> QED BY <1>3, <2>1
<1>5. ASSUME a \in DOMAIN image.code PROVE Goal
  <2>1. w.op \in Plain /\ w.arg \in Int
    BY <1>5, CodeIsPlain
  <2>2. ASSUME NEW to \in Int, NEW stack \in Seq(Int), NEW effects \in Effects,
               p = Going(o, to, o.x17, stack, effects), Begins(o.effects, effects)
        PROVE  Goal
    <3>1. p \in Cpus
      BY <2>2, GoingTypes
    <3>2. p.effects = effects
      BY <2>2 DEF Going
    <3> HIDE DEF p
    <3> QED BY <2>2, <3>1, <3>2
  <2>3. o.pc = a /\ o.pc \in DOMAIN image.code /\ w = image.code[o.pc] /\ a + 1 \in Int /\ a + w.arg \in Int
    BY <1>1, <1>5, <2>1
  <2> HIDE DEF Goal, w, p
  <2>4. ASSUME NEW kind \in {"op", "load", "narrow_load", "address"}, NEW arg \in Int, NEW x, x = <<kind, arg>>,
               \/ w.op = "op" /\ x = <<"op", w.arg>>
               \/ w.op = "ldr" /\ x = <<"load", o.pc + w.arg>>
               \/ w.op = "ldrw" /\ x = <<"narrow_load", o.pc + w.arg>>
               \/ w.op = "adr" /\ x = <<"address", o.pc + w.arg>>
               \/ w.op = "adrp" /\ x = <<"address", (PageOf(o.pc) + w.arg) * Page>>
               \/ w.op = "mov" /\ x = <<"address", w.arg>>
        PROVE  Goal
    <3> DEFINE more == Append(o.effects, x)
    <3>1. p = Going(o, o.pc + 1, o.x17, o.stack, more)
      <4>1. Thread(o) /\ o.pc \in DOMAIN image.code /\ w = image.code[o.pc] /\ p = After(image.code, o)
        BY <1>1, <2>3 DEF p
      <4> QED BY <2>4, <4>1, EffectStep
    <3>2. more \in Effects /\ Begins(o.effects, more)
      <4>1. x \in {"op", "load", "narrow_load", "address"} \X Int
        BY <2>4
      <4> DEFINE E == {"op", "load", "narrow_load", "address"} \X Int
                 e == o.effects
      <4>2. x \in E /\ e \in Seq(E)
        BY <1>1, <4>1 DEF Effects
      <4> HIDE DEF E, e
      <4>3. Append(e, x) \in Seq(E) /\ Begins(e, Append(e, x))
        BY <4>2 DEF Begins
      <4> QED BY <4>3 DEF E, e, Effects
    <3> HIDE DEF more
    <3>3. o.pc + 1 \in Int
      BY <2>3
    <3> QED BY <1>1, <2>2, <3>1, <3>2, <3>3
  <2>5. CASE w.op = "op"
    BY <2>1, <2>4, <2>5
  <2>6. CASE w.op \in {"ldr", "ldrw", "adr"}
    BY <2>3, <2>4, <2>6
  <2>7. CASE w.op = "adrp"
    <3> DEFINE to == (PageOf(o.pc) + w.arg) * Page
    <3>1. to \in Int
      <4>1. PageOf(o.pc) \in Int /\ w.arg \in Int
        BY <1>1, <2>1, MachineAssumption DEF PageOf
      <4> QED BY <4>1, MachineAssumption
    <3> HIDE DEF to
    <3>2. <<"address", to>> = <<"address", (PageOf(o.pc) + w.arg) * Page>>
      BY DEF to
    <3> QED BY <2>4, <2>7, <3>1, <3>2
  <2>8. CASE w.op = "mov"
    BY <2>1, <2>4, <2>8
  <2>9. CASE w.op \in {"b", "cond", "ncond"}
    <3>1. PICK to \in Int : \/ w.op = "b" /\ to = o.pc + w.arg
                            \/ w.op \in {"cond", "ncond"} /\ o.flag = (w.op = "cond") /\ to = o.pc + w.arg
                            \/ w.op \in {"cond", "ncond"} /\ o.flag # (w.op = "cond") /\ to = o.pc + 1
      <4>1. o.pc + w.arg \in Int /\ o.pc + 1 \in Int
        BY <2>3
      <4>2. w.op = "b" \/ w.op \in {"cond", "ncond"}
        BY <2>9
      <4> QED BY <4>1, <4>2, Zenon
    <3>2. Thread(o) /\ o.pc \in DOMAIN image.code /\ w = image.code[o.pc] /\ p = After(image.code, o)
      BY <1>1, <2>3 DEF p
    <3>3. p = Going(o, to, o.x17, o.stack, o.effects)
      BY <3>1, <3>2, JumpStep
    <3> QED BY <1>1, <1>2, <2>2, <3>3
  <2>10. CASE w.op = "bl"
    <3> DEFINE to == o.pc + w.arg
               stack == <<o.pc + 1>> \o o.stack
    <3>1. Thread(o) /\ o.pc \in DOMAIN image.code /\ w = image.code[o.pc] /\ p = After(image.code, o)
      BY <1>1, <2>3 DEF p
    <3>2. p = Going(o, to, o.x17, stack, o.effects)
      BY <2>10, <3>1, LinkStep
    <3>3. to \in Int /\ stack \in Seq(Int)
      BY <1>1, <2>3
    <3> HIDE DEF to, stack
    <3> QED BY <1>1, <1>2, <2>2, <3>2, <3>3
  <2>11. CASE w.op = "ret"
    <3>1. Thread(o) /\ o.pc \in DOMAIN image.code /\ image.code[o.pc].op = "ret" /\ p = After(image.code, o)
      BY <1>1, <2>3, <2>11 DEF p
    <3>2. CASE o.stack = <<>>
      <4>1. p = [state |-> "returned", pc |-> o.pc, x17 |-> o.x17, stack |-> o.stack,
                 effects |-> o.effects, flag |-> o.flag]
        BY <3>1, <3>2, ReturnStep
      <4>2. p \in Cpus /\ p.effects = o.effects
        BY <1>1, <4>1 DEF Cpus, Effects
      <4> QED BY <1>2, <4>2 DEF Goal
    <3>3. CASE o.stack # <<>>
      <4> DEFINE to == Head(o.stack)
                 stack == Tail(o.stack)
      <4>1. p = Going(o, to, o.x17, stack, o.effects)
        BY <3>1, <3>3, ReturnStep
      <4>2. to \in Int /\ stack \in Seq(Int)
        BY <1>1, <3>3
      <4> HIDE DEF to, stack
      <4> QED BY <1>1, <1>2, <2>2, <4>1, <4>2
    <3> QED BY <3>2, <3>3
  <2>12. CASE w.op \in {"low", "high"}
    <3>1. p = [o EXCEPT !.state = "crashed"]
      <4>1. CASE w.op = "low"
        BY <1>5, <4>1 DEF After, w, p
      <4>2. CASE w.op = "high"
        BY <1>5, <4>2 DEF After, w, p
      <4> QED BY <2>12, <4>1, <4>2
    <3> QED BY <1>3, <3>1 DEF Goal, p
  <2> QED BY <2>1, <2>5, <2>6, <2>7, <2>8, <2>9, <2>10, <2>11, <2>12 DEF Plain
<1> HIDE DEF p
<1> QED
  BY <1>4, <1>5 DEF p

\* Steps keep the flags.
LEMMA FlagKept ==
  ASSUME NEW memory, NEW c, Thread(c)
  PROVE  After(memory, c).flag = c.flag
<1>1. c = [state |-> c.state, pc |-> c.pc, x17 |-> c.x17, stack |-> c.stack, effects |-> c.effects, flag |-> c.flag]
  BY DEF Thread
<1> QED
  BY <1>1 DEF After

\* A run, step by step.
LEMMA RunIs ==
  ASSUME image \in Images, NEW f \in image.targets, NEW flag \in BOOLEAN, NEW r, r = Run(image, f, flag)
  PROVE  /\ r[0] = Called(f, flag)
         /\ \A n \in 0 .. Fuel : r[n] \in Cpus
         /\ \A n \in 1 .. Fuel :
              r[n] = IF r[n - 1].state = "running" THEN After(image.code, r[n - 1]) ELSE r[n - 1]
<1> DEFINE m == Fuel
           Onward(o) == IF o.state = "running" THEN After(image.code, o) ELSE o
           F == [x \in (1 .. m) \X Cpus |-> Onward(x[2])]
           Body(g) == [n \in 0 .. m |-> IF n = 0 THEN Called(f, flag)
                        ELSE LET last == g[n - 1] IN IF last.state = "running" THEN After(image.code, last) ELSE last]
           Outset == Called(f, flag)
<1>0. m \in Nat
  BY MachineAssumption
<1>1. \A o \in Cpus : Onward(o) \in Cpus
  BY AfterTypes
<1>2. Outset \in Cpus
  <2>1. f \in Int /\ -1000 \in Int
    BY Loaded
  <2> QED BY <2>1 DEF Called, Cpus, Junk
<1>3. F \in [(1 .. m) \X Cpus -> Cpus]
  <2> HIDE DEF Onward, m
  <2> QED BY <1>1
<1>4. PICK g \in [0 .. m -> Cpus] : g[0] = Outset /\ \A n \in 1 .. m : g[n] = F[<<n, g[n - 1]>>]
  <2> HIDE DEF F, m, Outset
  <2>1. Continued(m, Cpus, Outset, F)
    BY <1>0, <1>2, <1>3, Recursion, Zenon
  <2> QED BY <2>1 DEF Continued
<1>5. g = Body(g)
  <2> HIDE DEF m
  <2>1. ASSUME NEW n \in 1 .. m PROVE g[n] = Onward(g[n - 1])
    <3> HIDE DEF Onward
    <3>1. <<n, g[n - 1]>> \in (1 .. m) \X Cpus
      BY <1>0, <1>4
    <3> QED BY <1>4, <3>1
  <2>2. \A n \in 0 .. m : g[n] = Body(g)[n]
    <3>1. \A n \in 0 .. m : n # 0 => n \in 1 .. m
      BY <1>0
    <3> QED BY <1>4, <2>1, <3>1, Zenon
  <2>3. g = [n \in 0 .. m |-> g[n]]
    BY <1>4
  <2>4. Body(g) = [n \in 0 .. m |-> Body(g)[n]]
    OBVIOUS
  <2> HIDE DEF Body
  <2> QED BY <2>2, <2>3, <2>4
<1> DEFINE c == CHOOSE h : h = Body(h)
<1>6. c = Body(c)
  <2> HIDE DEF Body
  <2> QED BY <1>5, Zenon
<1>7. r = c
  BY DEF Run
<1> HIDE DEF c
<1> DEFINE S == {n \in 0 .. m : c[n] \in Cpus}
<1> HIDE DEF m, Outset
<1>8. c[0] = Outset
  BY <1>0, <1>6 DEF Outset
<1>9. ASSUME NEW n \in 1 .. m PROVE c[n] = Onward(c[n - 1])
  <2>1. n \in 0 .. m /\ n # 0
    BY <1>0
  <2> QED BY <1>6, <2>1, Zenon
<1> HIDE DEF Onward
<1>10. 0 \in S
  BY <1>0, <1>2, <1>8
<1>11. ASSUME NEW n \in 0 .. (m - 1), n \in S PROVE n + 1 \in S
  <2>1. n + 1 \in 1 .. m /\ n + 1 \in 0 .. m /\ (n + 1) - 1 = n
    BY <1>0
  <2>2. c[n + 1] = Onward(c[n])
    BY <1>9, <2>1
  <2>3. c[n] \in Cpus
    BY <1>11
  <2> QED BY <1>1, <2>1, <2>2, <2>3
<1>12. \A n \in 0 .. m : n \in S
  <2> HIDE DEF S
  <2> QED BY <1>0, <1>10, <1>11, UpTo
<1> QED
  BY <1>7, <1>8, <1>9, <1>12 DEF m, Outset, Onward

\* Threads return from the first function called.
LEMMA ReturnedEmpty ==
  ASSUME NEW memory, NEW c, Thread(c), c.state = "running", After(memory, c).state = "returned"
  PROVE  After(memory, c).stack = <<>>
<1>1. c = [state |-> c.state, pc |-> c.pc, x17 |-> c.x17, stack |-> c.stack, effects |-> c.effects, flag |-> c.flag]
  BY DEF Thread
<1> QED
  BY <1>1 DEF After

\* Where a run is at last, and what it has done before.
Ends(r, flag) ==
  /\ r[Fuel].state = "returned"
  /\ \A n \in 0 .. Fuel :
       /\ r[n].state # "crashed" /\ r[n].flag = flag
       /\ Begins(r[n].effects, r[Fuel].effects)
       /\ r[n].state = "returned" => r[n] = r[Fuel]
       /\ r[n].state = "running" => n < Fuel

\* So it is with those of functions that may be hooked.
LEMMA RunEnds ==
  ASSUME image \in Images, NEW f \in image.targets, NEW flag \in BOOLEAN, NEW r, r = Run(image, f, flag)
  PROVE  Original[<<image, f, flag>>] = r[Fuel] /\ Ends(r, flag)
<1> DEFINE m == Fuel
<1>0. m \in Nat
  BY MachineAssumption
<1>1. /\ r[0] = Called(f, flag)
      /\ \A n \in 0 .. m : r[n] \in Cpus
      /\ \A n \in 1 .. m :
           r[n] = IF r[n - 1].state = "running" THEN After(image.code, r[n - 1]) ELSE r[n - 1]
  BY RunIs
<1>2. Original[<<image, f, flag>>] = r[m] /\ r[m].state = "returned"
  <2> DEFINE D == {x \in Images \X (DOMAIN Replacement) \X BOOLEAN : x[2] \in x[1].targets}
             c == <<image, f, flag>>
  <2>1. f \in DOMAIN Replacement /\ Original[<<image, f, flag>>].state = "returned"
    BY ImagesAssumption
  <2>2. c \in D /\ c[1] = image /\ c[2] = f /\ c[3] = flag
    BY <2>1
  <2>3. Original = [x \in D |-> Run(x[1], x[2], x[3])[Fuel]]
    BY DEF Original
  <2> HIDE DEF c, D
  <2>4. Original[c] = Run(c[1], c[2], c[3])[Fuel]
    BY <2>2, <2>3
  <2>5. Original[c] = r[m]
    BY <2>2, <2>4
  <2> QED BY <2>1, <2>5 DEF c
<1> HIDE DEF m
<1>3. ASSUME NEW n \in 0 .. m - 1
      PROVE  /\ r[n].state # "running" => r[n + 1] = r[n]
             /\ r[n].state = "running" => r[n + 1] = After(image.code, r[n])
             /\ r[n] \in Cpus /\ r[n + 1] \in Cpus
  <2>1. n + 1 \in 1 .. m /\ (n + 1) - 1 = n /\ n \in 0 .. m /\ n + 1 \in 0 .. m
    BY <1>0
  <2>2. r[n + 1] = IF r[n].state = "running" THEN After(image.code, r[n]) ELSE r[n]
    BY <1>1, <2>1
  <2> QED BY <1>1, <2>1, <2>2
<1>4. ASSUME NEW s \in Effects, NEW t \in Effects, NEW u \in Effects, Begins(s, t), Begins(t, u) PROVE Begins(s, u)
  <2>1. Len(s) \in Nat /\ Len(t) \in Nat /\ Len(u) \in Nat
    BY DEF Effects
  <2>2. Len(s) <= Len(u) /\ \A i \in 1 .. Len(s) : i \in 1 .. Len(t)
    BY <1>4, <2>1 DEF Begins
  <2>3. \A i \in 1 .. Len(s) : t[i] = s[i] /\ u[i] = t[i]
    BY <1>4, <2>2 DEF Begins
  <2> QED BY <2>2, <2>3 DEF Begins
<1>5. ASSUME NEW s \in Effects PROVE Begins(s, s)
  BY DEF Begins, Effects
<1>6. \A o \in Cpus : o.effects \in Effects /\ Thread(o)
  BY DEF Cpus, Effects, Thread
\* Backwards from the end.
<1> DEFINE Good(n) == /\ r[n].state # "crashed"
                      /\ Begins(r[n].effects, r[m].effects)
                      /\ r[n].state = "returned" => r[n] = r[m]
                      /\ r[n].state = "running" => n < m
           S == {n \in 0 .. m : Good(m - n)}
           T == {n \in 0 .. m : r[n].flag = flag}
<1>7. 0 \in S
  <2>1. Good(m)
    <3>1. r[m] \in Cpus
      BY <1>0, <1>1
    <3>2. r[m].effects \in Effects
      BY <1>6, <3>1
    <3> QED BY <1>2, <1>5, <3>2
  <2>2. m - 0 = m /\ 0 \in 0 .. m
    BY <1>0
  <2> HIDE DEF Good
  <2> QED BY <2>1, <2>2
<1>8. ASSUME NEW k \in 0 .. (m - 1), k \in S PROVE k + 1 \in S
  <2> DEFINE n == m - (k + 1)
             q == n + 1
  <2>1. n \in 0 .. m - 1 /\ m - k = q /\ k + 1 \in 0 .. m /\ n < m
    BY <1>0
  <2>2. Good(q)
    <3> HIDE DEF Good
    <3>1. Good(m - k)
      BY <1>8
    <3> QED BY <2>1, <3>1
  <2>3. /\ r[n].state # "running" => r[q] = r[n]
        /\ r[n].state = "running" => r[q] = After(image.code, r[n])
        /\ r[n] \in Cpus /\ r[q] \in Cpus
    BY <1>3, <2>1
  <2>4. ASSUME r[n].state # "running" PROVE Good(n)
    <3>1. r[q] = r[n]
      BY <2>3, <2>4
    <3> HIDE DEF n, q
    <3> QED BY <2>2, <2>4, <3>1
  <2>5. ASSUME r[n].state = "running" PROVE Good(n)
    <3>1. r[q] = After(image.code, r[n])
      BY <2>3, <2>5
    <3>2. Begins(r[n].effects, r[q].effects)
      BY <2>3, <3>1, AfterTypes
    <3>3. r[n].effects \in Effects /\ r[q].effects \in Effects /\ r[m].effects \in Effects
      <4>1. r[m] \in Cpus
        BY <1>0, <1>1
      <4> QED BY <1>6, <2>3, <4>1
    <3>4. Begins(r[q].effects, r[m].effects)
      BY <2>2
    <3>5. Begins(r[n].effects, r[m].effects)
      BY <1>4, <3>2, <3>3, <3>4
    <3> HIDE DEF n, q
    <3> QED BY <2>1, <2>5, <3>5
  <2>6. Good(n)
    BY <2>4, <2>5
  <2>7. Good(m - (k + 1))
    BY <2>6
  <2> HIDE DEF Good
  <2> QED BY <2>1, <2>7
<1>9. 0 \in T
  <2>1. r[0].flag = flag
    BY <1>1 DEF Called
  <2> QED BY <1>0, <2>1
<1>10. ASSUME NEW n \in 0 .. (m - 1), n \in T PROVE n + 1 \in T
  <2>1. /\ r[n].state # "running" => r[n + 1] = r[n]
        /\ r[n].state = "running" => r[n + 1] = After(image.code, r[n])
        /\ Thread(r[n])
    BY <1>3, <1>6
  <2>2. r[n + 1].flag = flag
    <3>1. r[n].flag = flag
      BY <1>10
    <3>2. r[n].state = "running" => r[n + 1].flag = r[n].flag
      BY <2>1, FlagKept
    <3> QED BY <2>1, <3>1, <3>2
  <2>3. n + 1 \in 0 .. m
    BY <1>0
  <2> QED BY <2>2, <2>3
<1>11. \A n \in 0 .. m : n \in S
  <2> HIDE DEF S
  <2> QED BY <1>0, <1>7, <1>8, UpTo
<1>12. \A n \in 0 .. m : n \in T
  <2> HIDE DEF T
  <2> QED BY <1>0, <1>9, <1>10, UpTo
<1>13. ASSUME NEW n \in 0 .. m PROVE Good(n) /\ r[n].flag = flag
  <2>1. m - n \in 0 .. m /\ m - (m - n) = n
    BY <1>0
  <2>2. Good(m - (m - n))
    <3> HIDE DEF Good
    <3>1. m - n \in S
      BY <1>11, <2>1
    <3> QED BY <3>1
  <2>3. r[n].flag = flag
    BY <1>12
  <2> HIDE DEF Good
  <2> QED BY <2>1, <2>2, <2>3
<1> QED
  BY <1>2, <1>13 DEF m, Ends

-----------------------------------------------------------------------------
(* Inline hooks: backups *)

\* Backups are blocks of their functions, or will be.
BlockAt(f, at) == \E b \in blocks : b.at = at /\ IsBlock(b, f)
Backups ==
  /\ DOMAIN backup = image.targets /\ HookedBacked
  /\ \A f \in image.targets : backup[f] # Null => BlockAt(f, backup[f])
  /\ patch # NoPatch /\ patch.entry # NoEntry => BlockAt(patch.at, patch.entry.relocated_addr)

\* Blocks stay.
LEMMA BlockStays ==
  ASSUME image' = image, blocks \subseteq blocks'
  PROVE  /\ \A b, f : IsBlock(b, f) => IsBlock(b, f)'
         /\ \A f, at : BlockAt(f, at) => BlockAt(f, at)'
<1>1. ASSUME NEW b, NEW f, IsBlock(b, f) PROVE IsBlock(b, f)'
  BY <1>1 DEF IsBlock, Saved
<1>2. ASSUME NEW f, NEW at, BlockAt(f, at) PROVE BlockAt(f, at)'
  <2>1. PICK b \in blocks : b.at = at /\ IsBlock(b, f)
    BY <1>2 DEF BlockAt
  <2>2. b \in blocks' /\ IsBlock(b, f)'
    BY <1>1, <2>1
  <2> QED BY <2>1, <2>2 DEF BlockAt
<1> QED
  BY <1>1, <1>2

\* A new block is one of the function that is hooked.
LEMMA HookBlock ==
  ASSUME InlineInv, NEW f \in image.targets, InlineHooker(f)
  PROVE  /\ image' = image /\ blocks \subseteq blocks' /\ patch'.at = f
         /\ patch = NoPatch /\ patch' # NoPatch /\ ~Hooked(f)
         /\ BlockAt(f, patch.entry.relocated_addr)'
<1> DEFINE buffer == Trampoline(f)
           origin == [k \in 1 .. Len(buffer) |-> mem[f + k - 1]]
           code == relo_relocate(origin, f)
           r == allocateExecBlock(Len(code))
           entry == [origin_insns |-> origin, relocated_addr |-> r.addr]
           b == [at |-> r.addr, words |-> code, origin |-> origin]
<1>1. /\ patch = NoPatch /\ ~Hooked(f)
      /\ blocks' = blocks \cup {b}
      /\ patch' = [at |-> f, words |-> buffer, done |-> 0, entry |-> entry]
      /\ UNCHANGED <<image, entries>>
  BY DEF InlineHooker, Hook
<1>2. image \in Images /\ patch.done = 0
  BY <1>1 DEF InlineInv, NoPatch
<1>3. origin = Saved(f)
  <2>1. ASSUME NEW k \in 1 .. Len(buffer) PROVE mem[f + k - 1] = image.code[f + k - 1]
    <3>1. mem[f + k - 1] = Shown(f, k)
      BY DEF InlineInv, CodeShown
    <3>2. ~(k <= patch.done)
      BY <1>2, Spanned
    <3> QED BY <1>1, <3>1, <3>2 DEF Shown
  <2> QED BY <2>1 DEF Saved
<1>4. Len(buffer) \in {3, 4}
  BY <1>2, Spanned
<1> HIDE DEF r
<1>5. b.words = relo_relocate(Saved(f), f) /\ b.at = r.addr /\ b.origin = Saved(f)
  <2> HIDE DEF origin
  <2> QED BY <1>3
<1>6. patch'.at = f /\ patch'.entry.relocated_addr = r.addr /\ patch' # NoPatch
  <2>1. patch'.at = f /\ patch'.entry = entry /\ patch'.words = buffer
    BY <1>1
  <2>2. buffer # <<>>
    <3>1. buffer \in Seq(Word)
      BY <1>2, Spanned
    <3> HIDE DEF buffer
    <3> QED BY <1>4, <3>1
  <2>3. patch' # NoPatch
    BY <2>1, <2>2 DEF NoPatch
  <2> QED BY <2>1, <2>3
<1> HIDE DEF b
<1>7. PICK e : e = b
  OBVIOUS
<1>8. e \in blocks' /\ IsBlock(e, f)'
  BY <1>1, <1>5, <1>7 DEF IsBlock, Saved
<1>9. PICK at : at = r.addr
  OBVIOUS
<1>10. BlockAt(f, at)'
  BY <1>5, <1>7, <1>8, <1>9 DEF BlockAt
<1>11. BlockAt(f, patch.entry.relocated_addr)'
  BY <1>6, <1>9, <1>10 DEF BlockAt
<1> QED
  BY <1>1, <1>6, <1>11

\* Backups stay blocks.
LEMMA BackupsInv ==
  ASSUME InlineInv, Backups, [InlineNext]_inlineVars
  PROVE  Backups'
<1>1. ASSUME UNCHANGED <<image, backup, entries, patch, blocks>> PROVE Backups'
  <2>1. \A f, at : BlockAt(f, at) => BlockAt(f, at)'
    BY <1>1, BlockStays
  <2> QED BY <1>1, <2>1 DEF Backups, HookedBacked, Hooked
<1>2. CASE UNCHANGED inlineVars
  BY <1>1, <1>2 DEF inlineVars, hookVars
<1>3. CASE PatchWord
  <2>1. /\ UNCHANGED <<image, backup, entries, blocks>>
        /\ patch # NoPatch /\ patch'.at = patch.at /\ patch'.entry = patch.entry
    <3>1. patch # NoPatch
      BY <1>3 DEF PatchWord, NoPatch
    <3>2. patch = [at |-> patch.at, words |-> patch.words, done |-> patch.done, entry |-> patch.entry]
      BY <3>1 DEF InlineInv, PatchUnderWay
    <3> QED BY <1>3, <3>1, <3>2 DEF PatchWord
  <2>2. \A f, at : BlockAt(f, at) => BlockAt(f, at)'
    BY <2>1, BlockStays
  <2> QED BY <2>1, <2>2 DEF Backups, HookedBacked, Hooked
<1>4. CASE Commit
  <2> DEFINE p == patch.at
  <2>1. /\ patch # NoPatch /\ patch' = NoPatch /\ UNCHANGED <<image, blocks>>
        /\ entries' = [entries EXCEPT ![p] = patch.entry]
        /\ backup' = [backup EXCEPT ![p] = IF patch.entry = NoEntry THEN @ ELSE patch.entry.relocated_addr]
    BY <1>4 DEF Commit
  <2>2. p \in image.targets /\ DOMAIN entries = image.targets /\ DOMAIN backup = image.targets
    BY <2>1 DEF InlineInv, PatchUnderWay, EntriesSaved, Backups
  <2>3. /\ DOMAIN backup' = image.targets /\ entries'[p] = patch.entry
        /\ backup'[p] = IF patch.entry = NoEntry THEN backup[p] ELSE patch.entry.relocated_addr
        /\ \A f \in image.targets : f # p => backup'[f] = backup[f] /\ entries'[f] = entries[f]
    BY <2>1, <2>2
  <2>4. \A f, at : BlockAt(f, at) => BlockAt(f, at)'
    BY <2>1, BlockStays
  <2>5. patch.entry # NoEntry => patch.entry.relocated_addr # Null
    <3>1. ASSUME patch.entry # NoEntry PROVE patch.entry.relocated_addr \in Int
      BY <2>1, <3>1 DEF Backups, BlockAt, InlineInv, BlocksKept
    <3> QED BY <3>1, MachineAssumption
  <2>6. \A f \in image.targets : backup'[f] # Null => BlockAt(f, backup'[f])
    BY <2>1, <2>3 DEF Backups
  <2>8. \A f \in image.targets : (backup[f] # Null => BlockAt(f, backup[f]))'
    BY <2>1, <2>4, <2>6
  <2>7. \A f \in image.targets : entries'[f] # NoEntry => backup'[f] # Null
    BY <2>3, <2>5 DEF Backups, HookedBacked, Hooked
  <2> QED BY <2>1, <2>3, <2>7, <2>8 DEF Backups, HookedBacked, Hooked
<1>5. CASE Execute
  BY <1>1, <1>5 DEF Execute, hookVars
<1>6. ASSUME NEW f \in image.targets, UnprotectFails(f) PROVE Backups'
  <2>1. /\ UNCHANGED <<image, entries, patch, blocks>> /\ ~Hooked(f)
        /\ backup' = [backup EXCEPT ![f] = Null]
    BY <1>6 DEF UnprotectFails
  <2>2. DOMAIN backup' = image.targets /\ \A g \in image.targets : backup'[g] = IF g = f THEN Null ELSE backup[g]
    BY <2>1 DEF Backups
  <2>3. \A g, at : BlockAt(g, at) => BlockAt(g, at)'
    BY <2>1, BlockStays
  <2> QED BY <2>1, <2>2, <2>3 DEF Backups, HookedBacked, Hooked
<1>7. ASSUME NEW f \in image.targets, InlineHooker(f) PROVE Backups'
  <2>1. /\ image' = image /\ blocks \subseteq blocks' /\ patch'.at = f
        /\ BlockAt(f, patch.entry.relocated_addr)'
    BY <1>7, HookBlock
  <2>2. UNCHANGED <<backup, entries>>
    BY <1>7 DEF InlineHooker
  <2>3. \A g, at : BlockAt(g, at) => BlockAt(g, at)'
    BY <2>1, BlockStays
  <2> QED BY <2>1, <2>2, <2>3 DEF Backups, HookedBacked, Hooked
<1>8. ASSUME NEW f \in image.targets, InlineUnhooker(f) PROVE Backups'
  <2>1. UNCHANGED <<image, backup, entries, blocks>> /\ patch'.entry = NoEntry
    BY <1>8 DEF InlineUnhooker
  <2>2. \A g, at : BlockAt(g, at) => BlockAt(g, at)'
    BY <2>1, BlockStays
  <2> QED BY <2>1, <2>2 DEF Backups, HookedBacked, Hooked
<1>9. ASSUME NEW f \in image.targets, Call(f) \/ Replace(f) PROVE Backups'
  BY <1>1, <1>9 DEF Call, Replace, hookVars
<1> QED
  BY <1>2, <1>3, <1>4, <1>5, <1>6, <1>7, <1>8, <1>9 DEF InlineNext

LEMMA BackupsInit == InlineInit => Backups
BY DEF InlineInit, Backups, HookedBacked, Hooked

-----------------------------------------------------------------------------
(* Inline hooks: calls *)

\* A call that is followed does what one does that nobody hooks.
Comes(o, f, flag) == \E n \in 0 .. Fuel : o = Run(image, f, flag)[n]
Followed ==
  cpu.state # "idle" /\ ~call.exposed =>
    \E d, o : /\ d = cpu /\ d.flag \in BOOLEAN /\ call.callee \in image.targets
              /\ Comes(o, call.callee, d.flag) /\ Follows(d, o)

\* What it does.
LEMMA ComesAs ==
  ASSUME image \in Images, NEW f \in image.targets, NEW flag \in BOOLEAN, NEW o, Comes(o, f, flag)
  PROVE  /\ o \in Cpus /\ o.flag = flag /\ o.state \in {"running", "returned"}
         /\ o.state = "running" => Comes(After(image.code, o), f, flag) /\ After(image.code, o).state # "crashed"
         /\ o.state = "returned" => o.stack = <<>>
<1>1. PICK n \in 0 .. Fuel : o = Run(image, f, flag)[n]
  BY DEF Comes
<1>2. PICK r : r = Run(image, f, flag)
  OBVIOUS
<1>3. /\ r[0] = Called(f, flag)
      /\ \A k \in 0 .. Fuel : r[k] \in Cpus
      /\ \A k \in 1 .. Fuel :
           r[k] = IF r[k - 1].state = "running" THEN After(image.code, r[k - 1]) ELSE r[k - 1]
  BY <1>2, RunIs
<1>4. \A k \in 0 .. Fuel : /\ r[k].state # "crashed" /\ r[k].flag = flag
                           /\ r[k].state = "running" => k < Fuel
  <2>1. Ends(r, flag)
    BY <1>2, RunEnds
  <2> QED BY <2>1 DEF Ends
<1>5. o = r[n]
  BY <1>1, <1>2
<1>6. o \in Cpus /\ o.flag = flag /\ o.state \in {"running", "returned"}
  <2>1. o \in Cpus /\ o.state # "crashed" /\ o.flag = flag
    BY <1>3, <1>4, <1>5
  <2> QED BY <2>1 DEF Cpus
<1>7. ASSUME o.state = "running"
      PROVE  Comes(After(image.code, o), f, flag) /\ After(image.code, o).state # "crashed"
  <2>1. n + 1 \in 1 .. Fuel /\ n + 1 \in 0 .. Fuel /\ (n + 1) - 1 = n
    BY <1>4, <1>5, <1>7, MachineAssumption
  <2>2. r[n + 1] = After(image.code, o)
    BY <1>3, <1>5, <1>7, <2>1
  <2>3. After(image.code, o).state # "crashed"
    BY <1>4, <2>1, <2>2
  <2>4. Comes(After(image.code, o), f, flag)
    BY <1>2, <2>1, <2>2 DEF Comes
  <2> QED BY <2>3, <2>4
<1>8. ASSUME o.state = "returned" PROVE o.stack = <<>>
  <2> DEFINE T == {k \in 0 .. Fuel : r[k].state = "returned" => r[k].stack = <<>>}
  <2>1. 0 \in T
    <3>1. r[0].state = "running"
      BY <1>3 DEF Called
    <3>2. 0 \in 0 .. Fuel
      BY MachineAssumption
    <3> QED BY <3>1, <3>2
  <2>2. ASSUME NEW k \in 0 .. (Fuel - 1), k \in T PROVE k + 1 \in T
    <3>1. k + 1 \in 1 .. Fuel /\ k + 1 \in 0 .. Fuel /\ (k + 1) - 1 = k /\ k \in 0 .. Fuel
      BY MachineAssumption
    <3>2. r[k + 1] = IF r[k].state = "running" THEN After(image.code, r[k]) ELSE r[k]
      BY <1>3, <3>1
    <3>3. Thread(r[k])
      BY <1>3, <3>1, CpusAreThreads
    <3>4. ASSUME r[k].state = "running", r[k + 1].state = "returned" PROVE r[k + 1].stack = <<>>
      <4>1. r[k + 1] = After(image.code, r[k])
        BY <3>2, <3>4
      <4> QED BY <3>3, <3>4, <4>1, ReturnedEmpty
    <3> QED BY <2>2, <3>1, <3>2, <3>4
  <2>3. \A k \in 0 .. Fuel : k \in T
    <3> HIDE DEF T
    <3> QED BY <2>1, <2>2, UpTo, MachineAssumption
  <2> QED BY <1>5, <1>8, <2>3
<1> QED
  BY <1>6, <1>7, <1>8

\* Threads that are not among the words of a patch stay where they were.
Distant(d, f) ==
  /\ d.state = "running" => d.pc \notin Interior(f)
  /\ \A i \in 1 .. Len(d.stack) : d.stack[i] \notin Interior(f)
Undisturbed(d) ==
  /\ image' = image /\ blocks \subseteq blocks'
  /\ \A f \in image.targets : Backed(f) => Backed(f)'
  /\ \A f \in image.targets : Distant(d, f) \/ ((Bare(f) => Bare(f)') /\ (Covered(f) => Covered(f)'))

\* They still do what they did.
LEMMA FollowsStays ==
  ASSUME InlineInv, NEW d, NEW o, Follows(d, o), Undisturbed(d)
  PROVE  Follows(d, o)'
<1>1. image \in Images /\ image' = image /\ Alike(d, o)
  BY DEF InlineInv, Undisturbed, Follows
<1>2. \A b, f : IsBlock(b, f) => IsBlock(b, f)'
  BY BlockStays DEF Undisturbed
<1>3. ASSUME NEW x, NEW a, AtPlace(x, a),
             \A f \in image.targets : x \notin Interior(f) \/ (Bare(f) => Bare(f)')
      PROVE  AtPlace(x, a)'
  <2>1. There(x, a) => There(x, a)'
    BY <1>1, <1>3 DEF There
  <2>2. ASSUME Elsewhere(x, a) PROVE Elsewhere(x, a)'
    <3>1. PICK b \in blocks, f \in image.targets : \E k \in 1 .. Len(Trampoline(f)) + 1 :
            IsBlock(b, f) /\ x = b.at + First(f, k) - 1 /\ a = f + k - 1
      BY <2>2 DEF Elsewhere
    <3>2. \A k : First(f, k)' = First(f, k)
      BY <1>1 DEF First, Saved
    <3>3. b \in blocks' /\ IsBlock(b, f)' /\ f \in image'.targets
      BY <1>1, <1>2, <3>1 DEF Undisturbed
    <3> QED BY <3>1, <3>2, <3>3 DEF Elsewhere
  <2> QED BY <1>3, <2>1, <2>2 DEF AtPlace
<1>4. ASSUME d.state = "running" PROVE \A f \in image.targets : d.pc \notin Interior(f) \/ (Bare(f) => Bare(f)')
  BY <1>4 DEF Undisturbed, Distant
<1>5. ASSUME NEW i \in 1 .. Len(d.stack) PROVE AtPlace(d.stack[i], o.stack[i])'
  <2>1. \A f \in image.targets : d.stack[i] \notin Interior(f) \/ (Bare(f) => Bare(f)')
    BY DEF Undisturbed, Distant
  <2>2. AtPlace(d.stack[i], o.stack[i])
    BY <1>1 DEF Alike
  <2> QED BY <1>3, <2>1, <2>2
<1>6. Alike(d, o)'
  BY <1>1, <1>5 DEF Alike, Thread
<1> SUFFICES ASSUME d.state = "running" PROVE Position(d, o.pc)' \/ Entering(d, o.pc)'
  BY <1>6 DEF Follows
<1>7. ASSUME AtPlace(d.pc, o.pc) PROVE AtPlace(d.pc, o.pc)'
  BY <1>3, <1>4, <1>7
<1>8. ASSUME Entering(d, o.pc) PROVE Entering(d, o.pc)' \/ AtPlace(d.pc, o.pc)'
  <2> DEFINE f == o.pc
  <2>1. f \in image.targets /\ Backed(f)' /\ Underway(d, f) /\ (d.pc # Replacement[f] => Covered(f))
    BY <1>8 DEF Entering, Undisturbed
  <2>2. CASE d.pc = Replacement[f] \/ Covered(f)'
    BY <1>1, <2>1, <2>2 DEF Entering
  <2>3. CASE d.pc # Replacement[f] /\ ~Covered(f)'
    <3>1. d.pc \notin Interior(f)
      BY <2>1, <2>3 DEF Undisturbed, Distant
    <3>2. Interior(f) = f + 1 .. f + Len(Trampoline(f)) - 1 /\ f \in Int /\ Len(Trampoline(f)) \in {3, 4}
      BY <1>1, <2>1, Spanned DEF Interior
    <3>3. d.pc = f
      <4>1. d.pc # f + 1 /\ d.pc # f + 2
        <5> DEFINE n == Len(Trampoline(f))
        <5>1. n \in {3, 4} /\ f \in Int /\ d.pc \notin f + 1 .. f + n - 1
          BY <3>1, <3>2
        <5> HIDE DEF n, f
        <5> QED BY <5>1
      <4> QED BY <2>1, <2>3, <4>1 DEF Underway
    <3>4. \A g \in image.targets : f \notin Interior(g)
      BY <1>1, <2>1, EndsOutside DEF Outside
    <3>5. There(f, f)'
      BY <1>1, <3>4 DEF There
    <3> QED BY <3>3, <3>5 DEF AtPlace
  <2> QED BY <2>2, <2>3
<1>9. ASSUME Leaving(d, o.pc) PROVE Leaving(d, o.pc)'
  BY <1>1, <1>9 DEF Leaving, Outside, Undisturbed
<1>10. ASSUME Halfway(d, o.pc) PROVE Halfway(d, o.pc)'
  <2> DEFINE a == o.pc
  <2>1. PICK b \in blocks, f \in image.targets : \E k \in 1 .. Len(Trampoline(f)) :
          /\ IsBlock(b, f) /\ a = f + k - 1 /\ image.code[a].op \in {"bl", "ldr", "ldrw"}
          /\ d.pc = b.at + First(f, k) /\ d.x17 = a + image.code[a].arg
    BY <1>10 DEF Halfway
  <2>2. \A k : First(f, k)' = First(f, k)
    BY <1>1 DEF First, Saved
  <2>3. b \in blocks' /\ IsBlock(b, f)' /\ f \in image'.targets
    BY <1>1, <1>2, <2>1 DEF Undisturbed
  <2> QED BY <1>1, <2>1, <2>2, <2>3 DEF Halfway
<1>11. Position(d, o.pc) => Position(d, o.pc)'
  BY <1>1, <1>7, <1>9, <1>10 DEF Position
<1>12. Entering(d, o.pc) => Position(d, o.pc)' \/ Entering(d, o.pc)'
  BY <1>1, <1>8 DEF Position
<1> QED
  BY <1>11, <1>12 DEF Follows

\* Steps that do not disturb a call leave it where it was.
LEMMA Stays ==
  ASSUME InlineInv, Followed, UNCHANGED cpu, call'.callee = call.callee, call.exposed => call'.exposed,
         image' = image,
         \A d : d = cpu /\ ~call'.exposed /\ (d.state = "running" \/ Len(d.stack) = 0) => Undisturbed(d)
  PROVE  Followed'
<1> SUFFICES ASSUME cpu.state # "idle", ~call'.exposed
             PROVE  \E d, o : /\ d = cpu' /\ d.flag \in BOOLEAN /\ call'.callee \in image.targets
                              /\ Comes(o, call.callee, d.flag)' /\ Follows(d, o)'
  BY DEF Followed
<1>1. PICK d, o : /\ d = cpu /\ d.flag \in BOOLEAN /\ call.callee \in image.targets
                  /\ Comes(o, call.callee, d.flag) /\ Follows(d, o)
  BY DEF Followed
<1>2. PICK f : f = call.callee
  OBVIOUS
<1>3. f \in image.targets /\ Comes(o, f, d.flag) /\ image \in Images
  BY <1>1, <1>2 DEF InlineInv
<1>4. o.state \in {"running", "returned"} /\ (o.state = "returned" => o.stack = <<>>)
  BY <1>1, <1>3, ComesAs
<1>5. d.state = o.state /\ Len(d.stack) = Len(o.stack)
  BY <1>1 DEF Follows, Alike
<1>6. Undisturbed(d)
  BY <1>1, <1>4, <1>5
<1>7. Follows(d, o)'
  BY <1>1, <1>6, FollowsStays
<1>8. Comes(o, f, d.flag)'
  BY <1>3 DEF Comes
<1>9. Comes(o, call.callee, d.flag)'
  BY <1>2, <1>8 DEF Comes
<1> QED
  BY <1>1, <1>7, <1>9

\* Steps that leave the code alone disturb nobody.
LEMMA LeftAlone ==
  ASSUME image' = image, blocks \subseteq blocks', \A f \in image.targets : Backed(f) => Backed(f)',
         mem' = mem, NEW d
  PROVE  Undisturbed(d)
BY DEF Undisturbed, Bare, Covered

\* Between patches the code shows which functions are hooked.
LEMMA ShapesAre ==
  ASSUME InlineInv, patch.done = 0, NEW f \in image.targets
  PROVE  /\ Bare(f) <=> ~Hooked(f)
         /\ Covered(f) <=> Hooked(f)
<1> DEFINE n == Len(Trampoline(f))
<1>1. image \in Images /\ f \in Int /\ n \in {3, 4}
  BY Spanned DEF InlineInv
<1>2. \A k \in 1 .. n : mem[f + k - 1] = IF Hooked(f) THEN Trampoline(f)[k] ELSE image.code[f + k - 1]
  <2>1. \A k \in 1 .. n : ~(k <= patch.done)
    BY <1>1
  <2>2. \A k \in 1 .. n : mem[f + k - 1] = Shown(f, k)
    BY DEF InlineInv, CodeShown
  <2> QED BY <2>1, <2>2 DEF Shown
<1>3. 1 \in 1 .. n /\ f + 1 - 1 = f /\ Trampoline(f)[1] # image.code[f]
  BY <1>1, ThreeWords, TrampolineFirst
<1>4. CASE Hooked(f)
  BY <1>2, <1>3, <1>4 DEF Bare, Covered
<1>5. CASE ~Hooked(f)
  BY <1>2, <1>3, <1>5 DEF Bare, Covered
<1> QED
  BY <1>4, <1>5

LEMMA ShapesShown ==
  InlineInv /\ patch.done = 0 => \A f \in image.targets : (Bare(f) <=> ~Hooked(f)) /\ (Covered(f) <=> Hooked(f))
BY ShapesAre

\* A hook that is refused takes away a backup at most.
LEMMA FollowedUnprotect ==
  ASSUME InlineInv, Backups, CallKept, Followed, NEW f \in image.targets, UnprotectFails(f)
  PROVE  Followed'
<1>1. /\ backup' = [backup EXCEPT ![f] = Null]
      /\ call' = [call EXCEPT !.exposed = @ \/ backup[f] # Null]
      /\ UNCHANGED <<image, mem, entries, patch, blocks, cpu>>
  BY DEF UnprotectFails
<1>2. call'.callee = call.callee /\ (call.exposed => call'.exposed) /\ (~call'.exposed => backup[f] = Null)
  BY <1>1 DEF CallKept
<1>3. ASSUME NEW d, ~call'.exposed PROVE Undisturbed(d)
  <2>1. \A g \in image.targets : backup'[g] = backup[g]
    BY <1>1, <1>2, <1>3 DEF Backups
  <2>2. \A g \in image.targets : Backed(g) => Backed(g)'
    BY <1>1, <2>1 DEF Backed, Hooked
  <2> QED BY <1>1, <2>2, LeftAlone
<1> QED
  BY <1>1, <1>2, <1>3, Stays

\* Whoever waits for a backup gets it with the end of the patch.
LEMMA FollowedCommit ==
  ASSUME InlineInv, Backups, Backups', Followed, Commit
  PROVE  Followed'
<1> DEFINE p == patch.at
<1>1. /\ patch # NoPatch /\ UNCHANGED <<image, mem, blocks, cpu, call>>
      /\ entries' = [entries EXCEPT ![p] = patch.entry]
      /\ backup' = [backup EXCEPT ![p] = IF patch.entry = NoEntry THEN @ ELSE patch.entry.relocated_addr]
  BY DEF Commit
<1>2. p \in image.targets /\ (Hooking \/ Unhooking) /\ DOMAIN backup = image.targets /\ DOMAIN entries = image.targets
  BY <1>1 DEF InlineInv, PatchUnderWay, Backups, EntriesSaved
<1>3. ASSUME NEW g \in image.targets, Backed(g) PROVE Backed(g)'
  <2>1. backup'[g] # Null
    <3>1. CASE g # p
      BY <1>1, <1>2, <1>3, <3>1 DEF Backed
    <3>2. CASE g = p /\ Hooking
      <4>1. entries'[g] # NoEntry
        BY <1>1, <1>2, <3>2 DEF Hooking
      <4> QED BY <1>1, <4>1 DEF Backups, HookedBacked, Hooked
    <3>3. CASE g = p /\ Unhooking
      <4>1. backup[g] # Null
        BY <1>3, <3>3 DEF Backed, Unhooking
      <4> QED BY <1>1, <1>2, <3>3, <4>1 DEF Unhooking
    <3> QED BY <1>2, <3>1, <3>2, <3>3
  <2> QED BY <2>1 DEF Backed
<1>4. \A d : Undisturbed(d)
  BY <1>1, <1>3, LeftAlone
<1> QED
  BY <1>1, <1>4, Stays

\* Hooks and unhooks begin with the code as it is.
LEMMA FollowedBegin ==
  ASSUME InlineInv, InlineInv', CallKept, Followed, patch = NoPatch, patch'.done = 0, Overlap,
         UNCHANGED <<image, entries, backup, cpu>>, blocks \subseteq blocks'
  PROVE  Followed'
<1>1. call'.callee = call.callee /\ call'.exposed = call.exposed
  BY DEF CallKept, Overlap
<1>2. ASSUME NEW g \in image.targets
      PROVE  (Bare(g) => Bare(g)') /\ (Covered(g) => Covered(g)') /\ (Backed(g) => Backed(g)')
  <2>1. patch.done = 0
    BY DEF NoPatch
  <2>2. (Bare(g) <=> ~Hooked(g)) /\ (Covered(g) <=> Hooked(g))
    BY <2>1, ShapesAre
  <2>3. (Bare(g)' <=> ~Hooked(g)') /\ (Covered(g)' <=> Hooked(g)')
    <3>1. (InlineInv /\ patch.done = 0 => \A f \in image.targets : (Bare(f) <=> ~Hooked(f)) /\ (Covered(f) <=> Hooked(f)))'
      BY ShapesShown, PTL
    <3> QED BY <3>1
  <2>4. Hooked(g)' <=> Hooked(g)
    BY DEF Hooked
  <2>5. Backed(g) => Backed(g)'
    BY DEF Backed
  <2> QED BY <2>2, <2>3, <2>4, <2>5
<1>3. \A d : Undisturbed(d)
  BY <1>2 DEF Undisturbed
<1> QED
  BY <1>1, <1>3, Stays

LEMMA FollowedHook ==
  ASSUME InlineInv, InlineInv', CallKept, Followed, NEW f \in image.targets, InlineHooker(f) \/ InlineUnhooker(f)
  PROVE  Followed'
<1>1. CASE InlineHooker(f)
  <2>1. patch = NoPatch /\ patch'.done = 0 /\ Overlap /\ UNCHANGED <<image, entries, backup, cpu>>
    BY <1>1 DEF InlineHooker, Hook
  <2>2. blocks \subseteq blocks'
    BY <1>1, HookBlock
  <2> QED BY <2>1, <2>2, FollowedBegin
<1>2. CASE InlineUnhooker(f)
  BY <1>2, FollowedBegin DEF InlineUnhooker, Hook
<1> QED
  BY <1>1, <1>2

\* Where the thread is outside, a word of a patch does not disturb it.
LEMMA FollowedPatch ==
  ASSUME InlineInv, CallKept, Followed, PatchWord
  PROVE  Followed'
<1> DEFINE p == patch.at
           done == patch.done
<1>1. /\ done < Len(patch.words)
      /\ mem' = [mem EXCEPT ![p + done] = patch.words[done + 1]]
      /\ patch' = [patch EXCEPT !.done = @ + 1]
      /\ call' = [call EXCEPT !.exposed = @ \/ (cpu.state = "running" /\ Inside(cpu))]
      /\ UNCHANGED <<image, entries, backup, blocks, cpu>>
  BY DEF PatchWord
<1>2. patch # NoPatch
  BY <1>1 DEF NoPatch
<1>3. /\ patch = [at |-> p, words |-> patch.words, done |-> done, entry |-> patch.entry]
      /\ p \in image.targets /\ done \in 0 .. Len(patch.words) /\ (Hooking \/ Unhooking) /\ image \in Images
  BY <1>2 DEF InlineInv, PatchUnderWay
<1>4. Len(patch.words) = Len(Trampoline(p)) /\ Len(Trampoline(p)) \in {3, 4} /\ p \in Int
  BY <1>3, Spanned DEF Hooking, Unhooking
<1>5. call'.callee = call.callee /\ (call.exposed => call'.exposed)
      /\ (~call'.exposed => cpu.state # "running" \/ ~Inside(cpu))
  BY <1>1 DEF CallKept
<1>6. p + done \in Span(p)
  <2>1. done + 1 \in 1 .. Len(Trampoline(p)) /\ p + (done + 1) - 1 = p + done
    BY <1>1, <1>3, <1>4
  <2>2. p + (done + 1) - 1 \in Span(p)
    BY <1>3, <2>1, Spanned
  <2> QED BY <2>1, <2>2
<1>7. ASSUME NEW f \in image.targets, f # p PROVE (Bare(f) => Bare(f)') /\ (Covered(f) => Covered(f)')
  <2>1. \A k \in 1 .. Len(Trampoline(f)) : f + k - 1 \in Span(f) /\ f + k - 1 \in DOMAIN mem
    BY <1>3, Spanned DEF InlineInv, CodeShown
  <2>2. \A k \in 1 .. Len(Trampoline(f)) : f + k - 1 # p + done
    BY <1>3, <1>6, <1>7, <2>1, SpansApart
  <2>3. \A k \in 1 .. Len(Trampoline(f)) : mem'[f + k - 1] = mem[f + k - 1]
    BY <1>1, <2>1, <2>2
  <2> QED BY <1>1, <2>3 DEF Bare, Covered
<1>8. \A f \in image.targets : Backed(f) => Backed(f)'
  <2>1. patch' # NoPatch /\ patch'.at = p
    <3>1. patch' = [at |-> p, words |-> patch.words, done |-> done + 1, entry |-> patch.entry]
      BY <1>1, <1>3
    <3>2. done + 1 # 0
      BY <1>3
    <3> QED BY <3>1, <3>2 DEF NoPatch
  <2> QED BY <1>1, <2>1 DEF Backed, Hooked
<1>9. ASSUME NEW d, d = cpu, ~call'.exposed, d.state = "running" \/ Len(d.stack) = 0 PROVE Undisturbed(d)
  <2>1. Interior(p) = patch.at + 1 .. patch.at + Len(patch.words) - 1
    BY <1>4 DEF Interior
  <2>2. Distant(d, p)
    <3>1. CASE d.state = "running"
      <4>1. ~Inside(d)
        BY <1>5, <1>9, <3>1
      <4>2. d.pc \notin Interior(p) /\ \A a \in Range(d.stack) : a \notin Interior(p)
        BY <2>1, <4>1 DEF Inside
      <4>3. \A i \in 1 .. Len(d.stack) : d.stack[i] \in Range(d.stack)
        <5>1. cpu.state # "idle" /\ ~call.exposed
          BY <1>5, <1>9, <3>1
        <5>2. PICK c, o : c = cpu /\ Follows(c, o)
          BY <5>1 DEF Followed
        <5>3. d.stack \in Seq(Int)
          BY <1>9, <5>2 DEF Follows, Alike
        <5> QED BY <5>3 DEF Range
      <4> QED BY <4>2, <4>3 DEF Distant
    <3>2. CASE d.state # "running"
      <4>1. Len(d.stack) = 0
        BY <1>9, <3>2
      <4>2. \A i \in 1 .. Len(d.stack) : FALSE
        BY <4>1
      <4> QED BY <3>2, <4>2 DEF Distant
    <3> QED BY <3>1, <3>2
  <2> QED BY <1>1, <1>7, <1>8, <2>2 DEF Undisturbed
<1> QED
  BY <1>1, <1>5, <1>9, Stays

\* What is the same for all that a call is compared by.
LEMMA FollowsSame ==
  ASSUME InlineInv, UNCHANGED <<image, hookVars>>, NEW d, NEW o, Follows(d, o)
  PROVE  Follows(d, o)'
<1>1. UNCHANGED <<image, mem, entries, backup, patch, blocks>>
  BY DEF hookVars
<1>2. \A f \in image.targets : Backed(f) => Backed(f)'
  BY <1>1 DEF Backed, Hooked
<1> QED
  BY <1>1, <1>2, LeftAlone, FollowsStays

\* A call begins like one that nobody hooks.
LEMMA FollowedCall ==
  ASSUME InlineInv, CallKept, NEW f \in image.targets, Call(f)
  PROVE  Followed'
<1>1. PICK flag \in BOOLEAN : cpu' = Called(f, flag)
  BY DEF Call
<1>2. call'.callee = f /\ UNCHANGED <<image, hookVars>> /\ image \in Images
  BY DEF Call, InlineInv
<1>3. PICK d : d = Called(f, flag)
  OBVIOUS
<1>4. PICK r : r = Run(image, f, flag)
  OBVIOUS
<1>5. r[0] = d /\ 0 \in 0 .. Fuel
  BY <1>2, <1>3, <1>4, RunIs, MachineAssumption
<1>6. Comes(d, f, flag)
  BY <1>4, <1>5 DEF Comes
<1>7. Follows(d, d)
  <2>1. f \in Int
    BY <1>2, Loaded
  <2>2. There(f, f)
    BY <1>2, EndsOutside DEF There, Outside
  <2>3. Position(d, f)
    BY <1>3, <2>2 DEF Position, AtPlace, Called
  <2>4. Alike(d, d) /\ d.pc = f
    <3>1. d.stack = <<>> /\ d.pc = f /\ Thread(d)
      BY <1>3 DEF Called, Thread
    <3> QED BY <2>1, <3>1 DEF Alike
  <2> QED BY <2>3, <2>4 DEF Follows
<1>8. Follows(d, d)'
  BY <1>2, <1>7, FollowsSame
<1>9. Comes(d, f, flag)'
  BY <1>2, <1>6 DEF Comes
<1>10. d = cpu' /\ d.flag = flag
  BY <1>1, <1>3 DEF Called
<1>11. Comes(d, call.callee, d.flag)'
  BY <1>2, <1>9, <1>10 DEF Comes
<1> QED
  BY <1>2, <1>8, <1>10, <1>11 DEF Followed

\* Steps of calls keep up with one that nobody hooks.
LEMMA FollowedExecute ==
  ASSUME InlineInv, Backups, CallKept, Followed, Execute
  PROVE  Followed'
<1>1. /\ cpu.state = "running" /\ ~call.exposed /\ \A f \in image.targets : cpu.pc # Replacement[f]
      /\ cpu' = After(mem, cpu)
      /\ call' = [call EXCEPT !.exposed = @ \/ AtWidened(cpu) \/ (patch.done \in 1 .. Len(patch.words) - 1 /\ Inside(cpu'))]
      /\ UNCHANGED <<image, hookVars>>
  BY DEF Execute, Running
<1>2. PICK d, o : /\ d = cpu /\ d.flag \in BOOLEAN /\ call.callee \in image.targets
                  /\ Comes(o, call.callee, d.flag) /\ Follows(d, o)
  BY <1>1 DEF Followed
<1>3. PICK f, c : f = call.callee /\ c = After(mem, d)
  OBVIOUS
<1>4. call'.callee = f /\ (~call'.exposed => ~Disturbed(c) /\ ~AtWidened(d)) /\ c = cpu'
  BY <1>1, <1>2, <1>3 DEF CallKept, Disturbed
<1> SUFFICES ASSUME ~call'.exposed PROVE Followed'
  BY DEF Followed
<1>5. image \in Images /\ f \in image.targets /\ Comes(o, f, d.flag) /\ HookedBacked
  BY <1>2, <1>3 DEF InlineInv, Backups
<1>6. Thread(d) /\ o.state = "running" /\ o \in Cpus
  BY <1>1, <1>2, <1>5, ComesAs DEF Follows, Alike
<1>7. PICK p : p = After(image.code, o)
  OBVIOUS
<1>8. Comes(p, f, d.flag) /\ p.state # "crashed"
  BY <1>2, <1>5, <1>6, <1>7, ComesAs
<1>9. Follows(c, o) \/ Follows(c, p)
  <2>1. Match(c, o) \/ Match(c, p) \/ Enters(c, o)
    BY <1>1, <1>2, <1>3, <1>4, <1>5, <1>6, <1>7, <1>8, StepMatch
  <2> QED BY <2>1 DEF Match, Enters, Follows
<1>10. c.flag = d.flag
  BY <1>3, <1>6, FlagKept
<1>11. ASSUME NEW q, Comes(q, f, d.flag), Follows(c, q) PROVE Followed'
  <2>1. Follows(c, q)'
    BY <1>1, <1>11, FollowsSame
  <2>2. Comes(q, call.callee, c.flag)'
    BY <1>1, <1>4, <1>10, <1>11 DEF Comes
  <2> QED BY <1>1, <1>2, <1>4, <1>5, <1>10, <2>1, <2>2 DEF Followed
<1> QED
  BY <1>5, <1>8, <1>9, <1>11

\* Blocks are where no replacement is.
LEMMA BlocksAway ==
  ASSUME InlineInv, NEW b \in blocks, NEW i \in Int, NEW j \in {i, i + 1}, NEW w, Holds(b.words, j, w)
  PROVE  b.at \in Int /\ ArenaBase <= b.at + i
<1>1. PICK k \in 1 .. Len(arenas) : Within(arenas, k, b.at, Len(b.words))
  BY DEF InlineInv, BlocksKept
<1>2. b.at \in Int /\ ArenaBase <= b.at
  BY <1>1 DEF InlineInv, BlocksKept, Within
<1>3. b.words \in Seq(Word) /\ j \in 1 .. Len(b.words)
  BY DEF InlineInv, BlocksKept, Holds
<1>4. 0 <= i
  BY <1>3
<1> QED
  BY <1>2, <1>4, MachineAssumption

\* What is elsewhere is in a block.
LEMMA ElsewhereAway ==
  ASSUME InlineInv, NEW b, NEW f, IsBlock(b, f), NEW k \in 1 .. Len(Trampoline(f)) + 1
  PROVE  /\ b.at \in Int /\ First(f, k) \in Int /\ ArenaBase <= b.at + First(f, k) - 1
<1> DEFINE n == Len(Trampoline(f))
           i == First(f, k)
<1>1. /\ b.at \in Int /\ n \in {3, 4} /\ i \in Int
      /\ \A l \in 1 .. n :
           /\ Does(b.words, First(f, l), image.code[f + l - 1], f + l - 1, First(f, l + 1))
           /\ f + l - 1 \in DOMAIN image.code
      /\ Jumps(b.words, First(f, n + 1), f + n, "br17")
  BY BlockDoes
<1>2. b \in blocks /\ image \in Images
  BY DEF IsBlock, InlineInv
<1>3. \E w : Holds(b.words, i, w)
  <2>1. CASE k = n + 1
    BY <1>1, <2>1 DEF Jumps
  <2>2. CASE k # n + 1
    <3>1. k \in 1 .. n
      BY <1>1, <2>2
    <3> DEFINE a == f + k - 1
    <3>2. image.code[a].op \in Plain /\ Does(b.words, i, image.code[a], a, First(f, k + 1))
      BY <1>1, <1>2, <3>1, CodeIsPlain
    <3> HIDE DEF a, i
    <3>3. ASSUME image.code[a].op = "b" PROVE \E w : Holds(b.words, i, w)
      BY <3>2, <3>3 DEF Does, Jumps
    <3>4. ASSUME image.code[a].op = "bl" PROVE \E w : Holds(b.words, i, w)
      BY <3>2, <3>4 DEF Does, Jumps
    <3>5. ASSUME image.code[a].op \in {"cond", "ncond", "ldr", "ldrw", "adr", "adrp", "op", "ret", "mov", "low", "high"}
          PROVE  \E w : Holds(b.words, i, w)
      BY <3>2, <3>5 DEF Does
    <3> QED BY <3>2, <3>3, <3>4, <3>5 DEF Plain
  <2> QED BY <2>1, <2>2
<1>4. PICK k2 \in 1 .. Len(arenas) : Within(arenas, k2, b.at, Len(b.words))
  BY <1>2 DEF InlineInv, BlocksKept
<1>5. ArenaBase <= b.at /\ b.words \in Seq(Word) /\ i \in 1 .. Len(b.words)
  BY <1>2, <1>3, <1>4 DEF InlineInv, BlocksKept, Within, Holds
<1> HIDE DEF i
<1>6. ArenaBase <= b.at + i - 1
  BY <1>1, <1>5, MachineAssumption
<1> QED
  BY <1>1, <1>6 DEF i

\* Where a thread does what the code does there is no replacement.
LEMMA NoReplacement ==
  ASSUME InlineInv, NEW o, o.pc \in DOMAIN image.code, NEW d, Position(d, o.pc),
         NEW f \in image.targets
  PROVE  d.pc # Replacement[f]
<1> SUFFICES ASSUME d.pc = Replacement[f] PROVE FALSE
  OBVIOUS
<1>1. /\ image \in Images /\ Replacement[f] \notin DOMAIN image.code
      /\ Replacement[f] \in Int /\ Replacement[f] < ArenaBase /\ ArenaBase \in Int
  BY ImagesAssumption, MachineAssumption, Loaded DEF InlineInv
<1>2. ~There(d.pc, o.pc)
  BY <1>1 DEF There
<1>3. ~Elsewhere(d.pc, o.pc)
  <2> SUFFICES ASSUME Elsewhere(d.pc, o.pc) PROVE FALSE
    OBVIOUS
  <2>1. PICK b \in blocks, g \in image.targets : \E k \in 1 .. Len(Trampoline(g)) + 1 :
          IsBlock(b, g) /\ d.pc = b.at + First(g, k) - 1
    BY DEF Elsewhere
  <2>2. PICK k \in 1 .. Len(Trampoline(g)) + 1 : IsBlock(b, g) /\ d.pc = b.at + First(g, k) - 1
    BY <2>1
  <2>3. b.at \in Int /\ First(g, k) \in Int /\ ArenaBase <= b.at + First(g, k) - 1
    BY <2>2, ElsewhereAway
  <2> QED BY <1>1, <2>2, <2>3
<1>4. ~Leaving(d, o.pc)
  <2> SUFFICES ASSUME Leaving(d, o.pc) PROVE FALSE
    OBVIOUS
  <2>1. PICK b \in blocks : \E i \in Int :
          Jumps(b.words, i, o.pc, "br17") /\ (d.pc = b.at + i - 1 \/ d.pc = b.at + i)
    BY DEF Leaving
  <2>2. PICK i \in Int : Jumps(b.words, i, o.pc, "br17") /\ (d.pc = b.at + i - 1 \/ d.pc = b.at + i)
    BY <2>1
  <2>3. PICK w : Holds(b.words, i, w)
    BY <2>2 DEF Jumps
  <2>4. i - 1 \in Int /\ (i - 1) + 1 = i
    OBVIOUS
  <2>5. b.at \in Int /\ ArenaBase <= b.at + i /\ ArenaBase <= b.at + (i - 1)
    BY <2>3, <2>4, BlocksAway
  <2> QED BY <1>1, <2>2, <2>5
<1>5. ~Halfway(d, o.pc)
  <2> SUFFICES ASSUME Halfway(d, o.pc) PROVE FALSE
    OBVIOUS
  <2>1. PICK b \in blocks, g \in image.targets : \E k \in 1 .. Len(Trampoline(g)) :
          IsBlock(b, g) /\ d.pc = b.at + First(g, k)
    BY DEF Halfway
  <2>2. PICK k \in 1 .. Len(Trampoline(g)) : IsBlock(b, g) /\ d.pc = b.at + First(g, k)
    BY <2>1
  <2>3. k \in 1 .. Len(Trampoline(g)) + 1
    <3>1. Len(Trampoline(g)) \in {3, 4}
      BY <1>1, Spanned
    <3> QED BY <3>1
  <2>4. b.at \in Int /\ First(g, k) \in Int /\ ArenaBase <= b.at + First(g, k) - 1
    BY <2>2, <2>3, ElsewhereAway
  <2> QED BY <1>1, <2>2, <2>4
<1> QED
  BY <1>2, <1>3, <1>4, <1>5 DEF Position, AtPlace

\* Threads get to a replacement by its trampoline.
LEMMA ReplacementEntered ==
  ASSUME image \in Images, NEW o, NEW d, Entering(d, o.pc), NEW f \in image.targets, d.pc = Replacement[f]
  PROVE  o.pc = f
<1>1. PICK g : g = o.pc
  OBVIOUS
<1>2. g \in image.targets /\ Underway(d, g)
  BY <1>1 DEF Entering
<1>3. f = g
  BY <1>2, OwnReplacement
<1> QED
  BY <1>1, <1>3

\* A replacement goes on where its function has been moved.
LEMMA FollowedReplace ==
  ASSUME InlineInv, Backups, CallKept, Followed, NEW f \in image.targets, Replace(f)
  PROVE  Followed'
<1>1. /\ cpu.state = "running" /\ ~call.exposed /\ cpu.pc = Replacement[f]
      /\ cpu' = IF backup[f] = Null THEN [cpu EXCEPT !.state = "crashed"] ELSE [cpu EXCEPT !.pc = backup[f]]
      /\ call' = [call EXCEPT !.entered = @ \/ f = call.callee,
                              !.exposed = @ \/ (backup[f] = Null /\ patch # NoPatch)]
      /\ UNCHANGED <<image, hookVars>>
  BY DEF Replace, Running
<1>2. PICK d, o : /\ d = cpu /\ d.flag \in BOOLEAN /\ call.callee \in image.targets
                  /\ Comes(o, call.callee, d.flag) /\ Follows(d, o)
  BY <1>1 DEF Followed
<1>3. PICK h : h = call.callee
  OBVIOUS
<1>4. call'.callee = h /\ (~call'.exposed => backup[f] # Null \/ patch = NoPatch)
  <2> DEFINE x == call.entered \/ f = call.callee
             y == call.exposed \/ (backup[f] = Null /\ patch # NoPatch)
  <2>1. call' = [call EXCEPT !.entered = x, !.exposed = y]
    BY <1>1
  <2> HIDE DEF x
  <2>2. call'.callee = h /\ call'.exposed = y
    BY <1>3, <2>1 DEF CallKept
  <2> QED BY <2>2
<1> SUFFICES ASSUME ~call'.exposed PROVE Followed'
  BY DEF Followed
<1>5. image \in Images /\ h \in image.targets /\ Comes(o, h, d.flag)
  BY <1>2, <1>3 DEF InlineInv
<1>6. Alike(d, o) /\ (Position(d, o.pc) \/ Entering(d, o.pc)) /\ o.state = "running" /\ o \in Cpus
  BY <1>1, <1>2, <1>5, ComesAs DEF Follows, Alike
<1>7. o.pc \in DOMAIN image.code
  <2>1. After(image.code, o).state # "crashed"
    BY <1>2, <1>5, <1>6, ComesAs
  <2> QED BY <1>5, <1>6, <2>1, OriginalStep
<1>8. o.pc = f /\ Entering(d, f)
  <2>1. Entering(d, o.pc)
    BY <1>1, <1>2, <1>6, <1>7, NoReplacement
  <2> QED BY <1>1, <1>2, <1>5, <2>1, ReplacementEntered
<1>9. backup[f] # Null
  BY <1>4, <1>8 DEF Entering, Backed
<1>10. PICK b \in blocks : b.at = backup[f] /\ IsBlock(b, f)
  BY <1>9 DEF Backups, BlockAt
<1>11. PICK c : c = Going(d, b.at, d.x17, d.stack, d.effects)
  OBVIOUS
<1>12. c = cpu'
  <2>1. d = [state |-> d.state, pc |-> d.pc, x17 |-> d.x17, stack |-> d.stack, effects |-> d.effects, flag |-> d.flag]
    BY <1>6 DEF Alike, Thread
  <2>2. cpu' = [d EXCEPT !.pc = b.at]
    BY <1>1, <1>2, <1>9, <1>10
  <2> QED BY <1>11, <2>1, <2>2 DEF Going
<1>13. Position(c, o.pc)
  <2>1. /\ b.at \in Int /\ f \in Int /\ Len(Trampoline(f)) \in {3, 4} /\ First(f, 1) = 1
    BY <1>10, BlockDoes
  <2>2. 1 \in 1 .. Len(Trampoline(f)) + 1 /\ b.at = b.at + First(f, 1) - 1 /\ f = f + 1 - 1
    BY <2>1
  <2>3. Elsewhere(b.at, f)
    BY <1>10, <2>2 DEF Elsewhere
  <2>4. c.pc = b.at
    BY <1>11 DEF Going
  <2> QED BY <1>8, <2>3, <2>4 DEF Position, AtPlace
<1>14. Follows(c, o)
  <2>1. b.at \in Int
    BY <1>10, BlockDoes
  <2>2. Match(c, o)
    BY <1>6, <1>11, <1>13, <2>1, StillAlike
  <2> QED BY <2>2 DEF Match, Follows
<1>15. Follows(c, o)'
  BY <1>1, <1>14, FollowsSame
<1>16. c.flag = d.flag
  BY <1>11 DEF Going
<1>17. Comes(o, call.callee, c.flag)'
  BY <1>1, <1>4, <1>5, <1>16 DEF Comes
<1> QED
  BY <1>1, <1>2, <1>4, <1>5, <1>12, <1>15, <1>16, <1>17 DEF Followed

\* Every step keeps the calls followed.
LEMMA FollowedInv ==
  InlineInv /\ InlineInv' /\ Backups /\ Backups' /\ CallKept /\ Followed /\ [InlineNext]_inlineVars => Followed'
<1> SUFFICES ASSUME InlineInv, InlineInv', Backups, Backups', CallKept, Followed, [InlineNext]_inlineVars
             PROVE  Followed'
  OBVIOUS
<1>1. CASE UNCHANGED inlineVars
  <2>1. UNCHANGED <<image, mem, entries, backup, patch, blocks, cpu, call>>
    BY <1>1 DEF inlineVars, hookVars
  <2>2. \A f \in image.targets : Backed(f) => Backed(f)'
    BY <2>1 DEF Backed, Hooked
  <2>3. \A d : Undisturbed(d)
    BY <2>1, <2>2, LeftAlone
  <2> QED BY <2>1, <2>3, Stays
<1>2. CASE PatchWord
  BY <1>2, FollowedPatch
<1>3. CASE Commit
  BY <1>3, FollowedCommit
<1>4. CASE Execute
  BY <1>4, FollowedExecute
<1>5. ASSUME NEW f \in image.targets, UnprotectFails(f) PROVE Followed'
  BY <1>5, FollowedUnprotect
<1>6. ASSUME NEW f \in image.targets, InlineHooker(f) \/ InlineUnhooker(f) PROVE Followed'
  BY <1>6, FollowedHook
<1>7. ASSUME NEW f \in image.targets, Call(f) PROVE Followed'
  BY <1>7, FollowedCall
<1>8. ASSUME NEW f \in image.targets, Replace(f) PROVE Followed'
  BY <1>8, FollowedReplace
<1> QED
  BY <1>1, <1>2, <1>3, <1>4, <1>5, <1>6, <1>7, <1>8 DEF InlineNext

\* Backups stay blocks of their functions.
LEMMA BackupsStep == InlineInv /\ Backups /\ [InlineNext]_inlineVars => Backups'
BY BackupsInv

\* Every call keeps up with a run of its function in code that nobody hooks: the
\* invariant of calls, for all images, hooks and interleavings
\* (InstructionRelocationARM64.cc:151-344).
THEOREM CallsFollowed == InlineSpec => [](InlineInv /\ Backups /\ CallKept /\ Followed)
<1>1. InlineInit => Followed
  BY DEF InlineInit, Followed
<1>2. InlineInit => CallKept
  BY DEF InlineInit, CallKept
<1>3. InlineInit => InlineInv /\ Backups
  BY InlineInitInv, BackupsInit
<1> QED
  BY <1>1, <1>2, <1>3, InlineNextInv, BackupsStep, CallKeptInv, FollowedInv, PTL DEF InlineSpec

\* Whatever the images, the hooks and the interleaving, a call has the effects
\* it would have if nobody hooked anything, one after the other and none else,
\* up to a load that was widened, if there is one
\* (InstructionRelocationARM64.cc:151-344, hook_helper.hpp:170-177).
THEOREM HooksKeepEffects == InlineSpec => []EffectsKept
<1>1. ASSUME InlineInv, Followed PROVE EffectsKept
  <2> SUFFICES ASSUME cpu.state # "idle", ~call.exposed, NEW original,
                      original = Original[<<image, call.callee, cpu.flag>>].effects
               PROVE  /\ cpu.state # "crashed"
                      /\ IsPrefix(cpu.effects, original)
                      /\ cpu.state = "returned" => cpu.effects = original
    BY Zenon DEF EffectsKept
  <2>1. PICK d, o : /\ d = cpu /\ d.flag \in BOOLEAN /\ call.callee \in image.targets
                    /\ Comes(o, call.callee, d.flag) /\ Follows(d, o)
    BY <1>1 DEF Followed
  <2>2. PICK f : f = call.callee
    OBVIOUS
  <2>3. image \in Images /\ f \in image.targets /\ Comes(o, f, d.flag)
    BY <1>1, <2>1, <2>2 DEF InlineInv
  <2>4. PICK n \in 0 .. Fuel : o = Run(image, f, d.flag)[n]
    BY <2>3 DEF Comes
  <2>5. PICK r : r = Run(image, f, d.flag)
    OBVIOUS
  <2>6. Original[<<image, f, d.flag>>] = r[Fuel] /\ Ends(r, d.flag)
    BY <2>1, <2>3, <2>5, RunEnds
  <2>7. original = r[Fuel].effects
    BY <2>1, <2>2, <2>6
  <2>8. o = r[n] /\ o \in Cpus /\ r[Fuel] \in Cpus
    <3>1. \A k \in 0 .. Fuel : r[k] \in Cpus
      BY <2>1, <2>3, <2>5, RunIs
    <3> QED BY <2>4, <2>5, <3>1, MachineAssumption
  <2>9. o.state # "crashed" /\ Begins(o.effects, original) /\ (o.state = "returned" => o.effects = original)
    BY <2>6, <2>7, <2>8 DEF Ends
  <2>10. d.state = o.state /\ d.effects = o.effects
    BY <2>1 DEF Follows, Alike
  <2>11. IsPrefix(o.effects, original)
    <3> DEFINE s == o.effects
               t == original
    <3>1. s \in Effects /\ t \in Effects
      BY <2>7, <2>8 DEF Cpus, Effects
    <3>2. Begins(s, t)
      BY <2>9
    <3> HIDE DEF s, t
    <3>3. Len(s) \in Nat /\ Len(t) \in Nat /\ Len(s) <= Len(t) /\ \A i \in 1 .. Len(s) : t[i] = s[i]
      BY <3>1, <3>2 DEF Begins, Effects
    <3>4. SubSeq(s, 1, Len(s)) = SubSeq(t, 1, Len(s))
      BY <3>1, <3>3 DEF Effects
    <3>5. IsPrefix(s, t)
      BY <3>3, <3>4 DEF IsPrefix
    <3> QED BY <3>5 DEF s, t
  <2> QED BY <2>1, <2>9, <2>10, <2>11
<1> QED
  BY <1>1, CallsFollowed, PTL

\* A call of a function that is not hooked, which no hook overlaps, does not
\* get to its replacement.
Unhooked ==
  cpu.state # "idle" /\ ~call.began /\ ~call.overlapped =>
    /\ call.callee \in image.targets /\ ~call.entered
    /\ ~call.exposed => /\ patch = NoPatch /\ ~Hooked(call.callee)
                        /\ cpu.state = "running" => cpu.pc # Replacement[call.callee]

\* The history of a call is of truth values.
CallTypes == cpu.state # "idle" => call.began \in BOOLEAN /\ call.entered \in BOOLEAN

\* A step gets to a replacement through the trampoline in place.
LEMMA CoveredEnters ==
  ASSUME InlineInv, Backups, CallKept, Followed, Execute, ~call'.exposed,
         NEW g \in image.targets, cpu'.state = "running", cpu'.pc = Replacement[g]
  PROVE  Covered(g)
<1>1. /\ cpu.state = "running" /\ ~call.exposed /\ \A f \in image.targets : cpu.pc # Replacement[f]
      /\ cpu' = After(mem, cpu)
      /\ call' = [call EXCEPT !.exposed = @ \/ AtWidened(cpu) \/ (patch.done \in 1 .. Len(patch.words) - 1 /\ Inside(cpu'))]
  BY DEF Execute, Running
<1>2. PICK d, o : /\ d = cpu /\ d.flag \in BOOLEAN /\ call.callee \in image.targets
                  /\ Comes(o, call.callee, d.flag) /\ Follows(d, o)
  BY <1>1 DEF Followed
<1>3. PICK f, c : f = call.callee /\ c = After(mem, d)
  OBVIOUS
<1>4. ~Disturbed(c) /\ ~AtWidened(d) /\ c = cpu'
  BY <1>1, <1>2, <1>3 DEF CallKept, Disturbed
<1>5. image \in Images /\ f \in image.targets /\ Comes(o, f, d.flag) /\ HookedBacked
  BY <1>2, <1>3 DEF InlineInv, Backups
<1>6. o.state = "running" /\ o \in Cpus
  BY <1>1, <1>2, <1>5, ComesAs DEF Follows, Alike
<1>7. PICK p : p = After(image.code, o)
  OBVIOUS
<1>8. Comes(p, f, d.flag) /\ p.state # "crashed"
  BY <1>2, <1>5, <1>6, <1>7, ComesAs
<1>9. Match(c, o) \/ Match(c, p) \/ Enters(c, o)
  BY <1>1, <1>2, <1>3, <1>4, <1>5, <1>6, <1>7, <1>8, StepMatch
<1>10. ASSUME NEW q, Comes(q, f, d.flag), Match(c, q) PROVE FALSE
  <2>1. q.state = "running" /\ q \in Cpus /\ Position(c, q.pc)
    BY <1>2, <1>4, <1>5, <1>10, ComesAs DEF Match, Alike
  <2>2. After(image.code, q).state # "crashed"
    BY <1>2, <1>5, <1>10, <2>1, ComesAs
  <2>3. q.pc \in DOMAIN image.code
    BY <1>5, <2>1, <2>2, OriginalStep
  <2> QED BY <1>4, <2>1, <2>3, NoReplacement
<1>11. Enters(c, o)
  BY <1>5, <1>8, <1>9, <1>10
<1>12. o.pc = g /\ Covered(o.pc)
  BY <1>4, <1>5, <1>11, ReplacementEntered DEF Enters
<1> QED
  BY <1>12

\* Nor does any step get it there.
LEMMA UnhookedInv ==
  InlineInv /\ Backups /\ CallKept /\ Followed /\ Unhooked /\ [InlineNext]_inlineVars => Unhooked'
<1> SUFFICES ASSUME InlineInv, Backups, CallKept, Followed, Unhooked, [InlineNext]_inlineVars PROVE Unhooked'
  OBVIOUS
<1>1. CASE UNCHANGED inlineVars
  BY <1>1 DEF inlineVars, hookVars, Unhooked, Hooked
<1>2. ASSUME PatchWord \/ Commit PROVE Unhooked'
  <2>1. patch # NoPatch
    BY <1>2 DEF PatchWord, Commit, NoPatch
  <2>2. /\ call'.began = call.began /\ call'.overlapped = call.overlapped /\ call'.entered = call.entered
        /\ call'.callee = call.callee /\ (call.exposed => call'.exposed) /\ UNCHANGED <<image, cpu>>
    BY <1>2 DEF PatchWord, Commit, CallKept
  <2> QED BY <2>1, <2>2 DEF Unhooked
<1>3. ASSUME Execute PROVE Unhooked'
  <2>1. /\ cpu.state = "running" /\ ~call.exposed
        /\ call' = [call EXCEPT !.exposed = @ \/ AtWidened(cpu) \/ (patch.done \in 1 .. Len(patch.words) - 1 /\ Inside(cpu'))]
        /\ UNCHANGED <<image, patch, entries>>
    BY <1>3 DEF Execute, Running, hookVars
  <2>2. /\ call'.began = call.began /\ call'.overlapped = call.overlapped /\ call'.entered = call.entered
        /\ call'.callee = call.callee
    BY <2>1 DEF CallKept
  <2>3. ASSUME ~call'.began, ~call'.overlapped, ~call'.exposed, cpu'.state = "running"
        PROVE  cpu'.pc # Replacement[call.callee]
    <3>1. PICK f : f = call.callee
      OBVIOUS
    <3>2. f \in image.targets /\ ~Hooked(f) /\ patch.done = 0
      BY <2>1, <2>2, <2>3, <3>1 DEF Unhooked, NoPatch
    <3>3. ~Covered(f)
      BY <3>2, ShapesAre
    <3>4. cpu'.pc # Replacement[f]
      BY <1>3, <2>3, <3>2, <3>3, CoveredEnters
    <3> QED BY <3>1, <3>4
  <2> QED BY <2>1, <2>2, <2>3 DEF Unhooked, Hooked
<1>4. ASSUME NEW f \in image.targets, UnprotectFails(f) PROVE Unhooked'
  <2>1. /\ call' = [call EXCEPT !.exposed = @ \/ backup[f] # Null]
        /\ UNCHANGED <<image, entries, patch, cpu>>
    BY <1>4 DEF UnprotectFails
  <2>2. /\ call'.began = call.began /\ call'.overlapped = call.overlapped /\ call'.entered = call.entered
        /\ call'.callee = call.callee /\ (call.exposed => call'.exposed)
    BY <2>1 DEF CallKept
  <2> QED BY <2>1, <2>2 DEF Unhooked, Hooked
<1>5. ASSUME NEW f \in image.targets, InlineHooker(f) \/ InlineUnhooker(f) PROVE Unhooked'
  <2>1. call' = [call EXCEPT !.overlapped = TRUE]
    BY <1>5 DEF InlineHooker, InlineUnhooker, Overlap
  <2>2. call'.overlapped
    BY <2>1 DEF CallKept
  <2> QED BY <2>2 DEF Unhooked
<1>6. ASSUME NEW f \in image.targets, Call(f) PROVE Unhooked'
  <2>1. /\ \E flag \in BOOLEAN : cpu' = Called(f, flag)
        /\ call'.callee = f /\ call'.began = Hooked(f) /\ call'.overlapped = (patch # NoPatch) /\ ~call'.entered
        /\ UNCHANGED <<image, entries, patch>>
    BY <1>6 DEF Call, hookVars
  <2>2. cpu'.pc = f
    BY <2>1 DEF Called
  <2>3. f # Replacement[f]
    BY ImagesAssumption, Loaded DEF InlineInv
  <2>4. Hooked(f)' = Hooked(f)
    BY <2>1 DEF Hooked
  <2> QED BY <2>1, <2>2, <2>3, <2>4 DEF Unhooked, Hooked
<1>7. ASSUME NEW f \in image.targets, Replace(f) PROVE Unhooked'
  <2> DEFINE x == call.entered \/ f = call.callee
             y == call.exposed \/ (backup[f] = Null /\ patch # NoPatch)
  <2>1. /\ cpu.state = "running" /\ ~call.exposed /\ cpu.pc = Replacement[f]
        /\ cpu' = IF backup[f] = Null THEN [cpu EXCEPT !.state = "crashed"] ELSE [cpu EXCEPT !.pc = backup[f]]
        /\ call' = [call EXCEPT !.entered = x, !.exposed = y]
        /\ UNCHANGED <<image, entries, patch>>
    BY <1>7 DEF Replace, Running, hookVars
  <2>2. /\ call'.began = call.began /\ call'.overlapped = call.overlapped /\ call'.entered = x
        /\ call'.callee = call.callee
    <3> HIDE DEF x, y
    <3> QED BY <2>1 DEF CallKept
  <2>3. ASSUME ~call.began, ~call.overlapped
        PROVE  /\ call.callee \in image.targets /\ ~x /\ patch = NoPatch /\ ~Hooked(call.callee)
               /\ cpu'.state = "running" => cpu'.pc # Replacement[call.callee]
    <3>1. /\ call.callee \in image.targets /\ ~call.entered /\ patch = NoPatch /\ ~Hooked(call.callee)
          /\ cpu.pc # Replacement[call.callee]
      BY <2>1, <2>3 DEF Unhooked
    <3>2. ~x
      BY <2>1, <3>1
    <3>3. ASSUME cpu'.state = "running" PROVE cpu'.pc # Replacement[call.callee]
      <4>1. PICK d, o : d = cpu /\ Follows(d, o)
        BY <2>1 DEF Followed
      <4>2. Thread(d)
        BY <4>1 DEF Follows, Alike
      <4>3. backup[f] # Null
        BY <2>1, <3>3, <4>1, <4>2 DEF Thread
      <4>4. cpu'.pc = backup[f]
        BY <2>1, <4>1, <4>2, <4>3 DEF Thread
      <4>5. PICK b \in blocks : b.at = backup[f]
        BY <4>3 DEF Backups, BlockAt
      <4>6. PICK k \in 1 .. Len(arenas) : Within(arenas, k, b.at, Len(b.words))
        BY DEF InlineInv, BlocksKept
      <4>7. b.at \in Int /\ ArenaBase <= b.at
        BY <4>6 DEF InlineInv, BlocksKept, Within
      <4>8. Replacement[call.callee] \in Int /\ Replacement[call.callee] < ArenaBase
        BY <3>1, ImagesAssumption, Loaded DEF InlineInv
      <4> QED BY <4>4, <4>5, <4>7, <4>8, MachineAssumption
    <3> QED BY <3>1, <3>2, <3>3
  <2> HIDE DEF x
  <2> QED BY <2>1, <2>2, <2>3 DEF Unhooked, Hooked
<1> QED
  BY <1>1, <1>2, <1>3, <1>4, <1>5, <1>6, <1>7 DEF InlineNext

LEMMA CallTypesInv == CallKept /\ CallTypes /\ [InlineNext]_inlineVars => CallTypes'
<1> SUFFICES ASSUME CallKept, CallTypes, [InlineNext]_inlineVars PROVE CallTypes'
  OBVIOUS
<1>1. ASSUME call'.began = call.began, call'.entered = call.entered, cpu' = cpu PROVE CallTypes'
  BY <1>1 DEF CallTypes
<1>2. CASE UNCHANGED inlineVars
  BY <1>1, <1>2 DEF inlineVars
<1>3. CASE PatchWord
  BY <1>1, <1>3 DEF PatchWord, CallKept
<1>4. CASE Commit
  BY <1>1, <1>4 DEF Commit
<1>5. CASE Execute
  <2>1. cpu.state = "running" /\ call'.began = call.began /\ call'.entered = call.entered
    BY <1>5 DEF Execute, Running, CallKept
  <2> QED BY <2>1 DEF CallTypes
<1>6. ASSUME NEW f \in image.targets, UnprotectFails(f) PROVE CallTypes'
  BY <1>1, <1>6 DEF UnprotectFails, CallKept
<1>7. ASSUME NEW f \in image.targets, InlineHooker(f) \/ InlineUnhooker(f) PROVE CallTypes'
  BY <1>1, <1>7 DEF InlineHooker, InlineUnhooker, Overlap, CallKept
<1>8. ASSUME NEW f \in image.targets, Call(f) PROVE CallTypes'
  BY <1>8 DEF Call, CallTypes, Hooked
<1>9. ASSUME NEW f \in image.targets, Replace(f) PROVE CallTypes'
  <2> DEFINE x == call.entered \/ f = call.callee
             y == call.exposed \/ (backup[f] = Null /\ patch # NoPatch)
  <2>1. cpu.state = "running" /\ call' = [call EXCEPT !.entered = x, !.exposed = y]
    BY <1>9 DEF Replace, Running
  <2>2. x \in BOOLEAN
    OBVIOUS
  <2> HIDE DEF x, y
  <2>3. call'.began = call.began /\ call'.entered = x
    BY <2>1 DEF CallKept
  <2> QED BY <2>1, <2>2, <2>3 DEF CallTypes
<1> QED
  BY <1>2, <1>3, <1>4, <1>5, <1>6, <1>7, <1>8, <1>9 DEF InlineNext

\* A call that no hook or unhook overlaps enters the replacement if its function
\* was hooked when it began, and only then (trampoline_arm64.cc:15-39,
\* dobby.cpp:15-31).
THEOREM HooksAreEntered == InlineSpec => []HookedEnters
<1>1. InlineInit => Unhooked /\ CallTypes
  BY DEF InlineInit, Unhooked, CallTypes
<1>2. ASSUME HookedCallsEnter, Unhooked, CallTypes PROVE HookedEnters
  <2> SUFFICES ASSUME cpu.state = "returned", ~call.overlapped PROVE call.entered = call.began
    BY DEF HookedEnters
  <2>1. call.began \in BOOLEAN /\ call.entered \in BOOLEAN
    BY <1>2 DEF CallTypes
  <2>2. call.began => call.entered
    BY <1>2 DEF HookedCallsEnter
  <2>3. ~call.began => ~call.entered
    BY <1>2 DEF Unhooked
  <2> QED BY <2>1, <2>2, <2>3
<1>3. InlineSpec => [](Unhooked /\ CallTypes)
  BY <1>1, CallsFollowed, UnhookedInv, CallTypesInv, PTL DEF InlineSpec
<1> QED
  BY <1>2, <1>3, HookedCallsReplaced, PTL
=============================================================================
