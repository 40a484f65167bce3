------------------------------ MODULE MCNative ------------------------------
(***************************************************************************)
(* TrampolinePool, DebuggableGuard and InlineHook for TLC: three threads    *)
(* share pages of two trampolines, or guards; or functions are hooked that  *)
(* a thread runs.  The three share no state, so that a behaviour is one of  *)
(* one of them.                                                             *)
(***************************************************************************)
EXTENDS TrampolinePool, DebuggableGuard, MCInlineHook

CONSTANTS t1, t2, t3

VARIABLE side  \* "pool", "guard" or "inline"

MCInit ==
  /\ Init /\ GuardInit /\ InlineInit /\ side \in {"pool", "guard", "inline"}
  /\ side # "inline" => image = Straight

PoolStep(t) == side = "pool" /\ Step(t) /\ UNCHANGED <<guardVars, inlineVars, side>>
PoolCall(t) == side = "pool" /\ GenerateTrampolineFor(t) /\ UNCHANGED <<guardVars, inlineVars, side>>
HoldStep(t) == side = "guard" /\ GuardStep(t) /\ UNCHANGED <<vars, inlineVars, side>>
HoldCall(t) == side = "guard" /\ Construct(t) /\ UNCHANGED <<vars, inlineVars, side>>
HookStep == side = "inline" /\ InlineNext /\ UNCHANGED <<vars, guardVars, side>>

MCNext ==
  \/ \E t \in Threads : PoolStep(t) \/ PoolCall(t)
  \/ \E t \in Users : HoldStep(t) \/ HoldCall(t)
  \/ HookStep

\* A thread that can go on does, in the pool or in the guards, whichever the
\* behaviour is of; a call need not come.
MCSpec ==
  /\ MCInit /\ [][MCNext]_<<vars, guardVars, inlineVars, side>>
  /\ \A t \in Threads \cap Users : WF_<<vars, guardVars, side>>(PoolStep(t) \/ HoldStep(t))

\* Every call returns, of the pool and of the guards: nobody waits for a page
\* or for a count that never comes (lsplant.cc:525-557, 309-352).
Away(t) == pc[t] = "idle" /\ gpc[t] = "out"
CallsEnd == \A t \in Threads \cap Users : ~Away(t) ~> Away(t)
=============================================================================
