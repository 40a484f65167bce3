-------------------------- MODULE DebuggableGuard --------------------------
(***************************************************************************)
(* JavaDebuggableGuard of lsplant.cc: while a thread makes a dex file      *)
(* trusted the runtime passes for debuggable.  The first guard makes it so *)
(* and the last one undoes it; one atomic counts them, and is 1 while one  *)
(* of the two is at work: then the others wait.                            *)
(***************************************************************************)
EXTENDS Integers, FiniteSets

CONSTANTS
  Users,     \* the threads that make dex files trusted
  MaxGuards  \* bound: guards constructed

ASSUME UsersAssumption == IsFiniteSet(Users) /\ MaxGuards \in Nat

VARIABLES
  count,        \* 0, 1 at work, or one more than the guards that hold
  debug_state,  \* of the runtime
  gpc,          \* per thread: what its guard does next; "out" without one
  dir,          \* per thread: "enter" in the constructor, "leave" in the destructor
  expected,     \* per thread: the local variable
  guards        \* constructed so far

guardVars == <<count, debug_state, gpc, dir, expected, guards>>

GuardPC == {"out", "first", "second", "set", "publish", "notify", "wait", "asleep", "held"}

GuardInit ==
  /\ count = 0 /\ debug_state = "kNonJavaDebuggable" /\ guards = 0
  /\ gpc = [t \in Users |-> "out"]
  /\ dir = [t \in Users |-> "enter"] /\ expected = [t \in Users |-> 0]

\* Mutant: the last guard but one takes itself for the last.
LastOfTwo(d) == IF d = "enter" THEN 0 ELSE 3

\* The count when the runtime has to change: no guard yet, or the last.
Turning(d) == IF d = "enter" THEN 0 ELSE 2
Delta(d) == IF d = "enter" THEN 1 ELSE -1
Settled(d) == IF d = "enter" THEN "held" ELSE "out"
Proceed(t, position) == gpc' = [gpc EXCEPT ![t] = position]

Construct(t) ==
  /\ gpc[t] = "out" /\ Proceed(t, "first") /\ dir' = [dir EXCEPT ![t] = "enter"]
  /\ guards < MaxGuards /\ guards' = guards + 1
  /\ UNCHANGED <<count, debug_state, expected>>

Destroy(t) ==
  /\ gpc[t] = "held" /\ Proceed(t, "first") /\ dir' = [dir EXCEPT ![t] = "leave"]
  /\ UNCHANGED <<count, debug_state, expected, guards>>

ExchangeFirst(t) ==
  /\ gpc[t] = "first"
  /\ IF count = Turning(dir[t])
     THEN count' = 1 /\ Proceed(t, "set") /\ UNCHANGED expected
     ELSE /\ expected' = [expected EXCEPT ![t] = count]
          /\ Proceed(t, IF count = 1 THEN "wait" ELSE "second")
          /\ UNCHANGED count
  /\ UNCHANGED <<debug_state, dir, guards>>

ExchangeExpected(t) ==
  /\ gpc[t] = "second"
  /\ IF count = expected[t]
     THEN count' = count + Delta(dir[t]) /\ Proceed(t, Settled(dir[t]))
     ELSE Proceed(t, "first") /\ UNCHANGED count
  /\ UNCHANGED <<debug_state, dir, expected, guards>>

SetJavaDebuggable(t) ==
  /\ gpc[t] = "set" /\ Proceed(t, "publish")
  /\ debug_state' = IF dir[t] = "enter" THEN "kJavaDebuggableAtInit" ELSE "kNonJavaDebuggable"
  /\ UNCHANGED <<count, dir, expected, guards>>

Publish(t) ==
  /\ gpc[t] = "publish" /\ Proceed(t, "notify")
  /\ count' = count + Delta(dir[t])
  /\ UNCHANGED <<debug_state, dir, expected, guards>>

\* Those asleep look at the count again.
NotifyAll(t) ==
  /\ gpc[t] = "notify"
  /\ gpc' = [u \in Users |-> IF u = t THEN Settled(dir[t])
                              ELSE IF gpc[u] = "asleep" THEN "wait" ELSE gpc[u]]
  /\ UNCHANGED <<count, debug_state, dir, expected, guards>>

\* count.wait(1): looking and falling asleep are one step.
WaitWhileOne(t) ==
  /\ gpc[t] = "wait" /\ Proceed(t, IF count = expected[t] THEN "asleep" ELSE "first")
  /\ UNCHANGED <<count, debug_state, dir, expected, guards>>

GuardStep(t) ==
  \/ Destroy(t) \/ ExchangeFirst(t) \/ ExchangeExpected(t) \/ SetJavaDebuggable(t)
  \/ Publish(t) \/ NotifyAll(t) \/ WaitWhileOne(t)

GuardNext == \E t \in Users : Construct(t) \/ GuardStep(t)

GuardSpec == GuardInit /\ [][GuardNext]_guardVars

-----------------------------------------------------------------------------
(* Properties *)

\* The runtime passes for debuggable as long as any thread has a guard, however
\* many come and go and whoever is first and last, and for undebuggable again
\* when none has one (lsplant.cc:309-352).
HeldIsDebuggable ==
  /\ \A t \in Users : gpc[t] = "held" => debug_state = "kJavaDebuggableAtInit"
  /\ (\A t \in Users : gpc[t] = "out") => debug_state = "kNonJavaDebuggable" /\ count = 0
=============================================================================
