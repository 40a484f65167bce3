---------------------------- MODULE HookCallback ----------------------------
(***************************************************************************)
(* One hooked call: HookInfo.callback runs the before callbacks of its     *)
(* snapshot, the original through the backup, and the after callbacks in   *)
(* reverse, over one MethodHookParam.                                      *)
(*                                                                         *)
(* What each callback and the original do is chosen in Init: a callback    *)
(* may set a result or a throwable (the last setter it calls counts), and  *)
(* may then throw; CA_MethodReplacement is the case that always sets and   *)
(* never throws.  Indices are the code's, from 0.                          *)
(***************************************************************************)
EXTENDS Integers, Sequences

CONSTANTS MaxHooks,    \* bound: callbacks in the snapshot
          Values,      \* results
          Throwables,  \* what code can throw
          WrongType,   \* the results returnType.cast refuses
          CastError,   \* the ClassCastException it throws
          Null,
          Nothing      \* what a callback sets that calls no setter

ASSUME HooksAssumption == MaxHooks \in Nat
ASSUME DataAssumption ==
  /\ WrongType \subseteq Values
  /\ Null \notin Values /\ Null \notin Throwables /\ CastError # Null

Ending(v, x) == [result |-> v, throwable |-> x]
\* What a setter leaves, or code that returns or throws.
Endings == {Ending(v, Null) : v \in Values \cup {Null}} \cup {Ending(Null, x) : x \in Throwables}

ASSUME NothingAssumption == Nothing \notin Endings

\* What one callback method does: the last thing it sets, and whether it throws.
Behaviours == [sets : Endings \cup {Nothing}, throws : BOOLEAN]
\* How invoking the backup ends; it "fails" when Method.invoke itself throws,
\* and not the code it calls.
Originals == {o \in [ending : Endings, fails : BOOLEAN] : o.fails => o.ending.throwable # Null}

VARIABLES hookCount,  \* hooks.length
          before, after, orig, hasReturnType,  \* the choices of Init
          pc, param, beforeIdx, afterIdx,
          returned,   \* how the call ended
          ranBefore, ranAfter, invoked  \* history: callbacks run, and the original

choices == <<hookCount, before, after, orig, hasReturnType>>
vars == <<choices, pc, param, beforeIdx, afterIdx, returned, ranBefore, ranAfter, invoked>>

Hooks == 0..(hookCount - 1)

\* MethodHookParam: the ending so far, and whether a setter was called.
Params == [ending : Endings, returnEarly : BOOLEAN]
NewParam == [ending |-> Ending(Null, Null), returnEarly |-> FALSE]
\* setResult and setThrowable: each clears the other field.
Set(e) == [ending |-> e, returnEarly |-> TRUE]

\* The param after the setters a callback calls.
Apply(b, p) == IF b.sets = Nothing THEN p ELSE Set(b.sets)

Init ==
  /\ hookCount \in 0..MaxHooks
  /\ before \in [Hooks -> Behaviours] /\ after \in [Hooks -> Behaviours]
  /\ orig \in Originals
  /\ hasReturnType \in BOOLEAN
  /\ pc = "snapshot"
  /\ param = NewParam
  /\ beforeIdx = 0 /\ afterIdx = 0
  /\ returned = Ending(Null, Null)
  /\ ranBefore = <<>> /\ ranAfter = <<>> /\ invoked = 0

-----------------------------------------------------------------------------
\* Without callbacks the backup's ending is the call's.
TakeSnapshot ==
  /\ pc = "snapshot"
  /\ \/ hookCount = 0 /\ pc' = "backupOnly"
     \/ hookCount > 0 /\ pc' = "before"
  /\ UNCHANGED <<choices, param, beforeIdx, afterIdx, returned, ranBefore, ranAfter, invoked>>

BackupOnly ==
  /\ pc = "backupOnly"
  /\ pc' = "done"
  /\ invoked' = invoked + 1
  /\ returned' = orig.ending
  /\ UNCHANGED <<choices, param, beforeIdx, afterIdx, ranBefore, ranAfter>>

\* One turn of the first loop, given what the catch block leaves in the param
\* and the index the early return leaves.
BeforeTurn(caught, earlyIdx) ==
  LET p == Apply(before[beforeIdx], param) IN
  /\ pc = "before"
  /\ ranBefore' = Append(ranBefore, beforeIdx)
  /\ \/ /\ before[beforeIdx].throws
        /\ param' = caught
     \/ /\ ~before[beforeIdx].throws
        /\ param' = p
  /\ \/ /\ ~before[beforeIdx].throws /\ p.returnEarly
        /\ beforeIdx' = earlyIdx
        /\ pc' = "original"
     \/ /\ before[beforeIdx].throws \/ ~p.returnEarly
        /\ beforeIdx' = beforeIdx + 1
        /\ pc' = IF beforeIdx + 1 < hookCount THEN "before" ELSE "original"
  /\ UNCHANGED <<choices, afterIdx, returned, ranAfter, invoked>>

RunBeforeAllAfters == BeforeTurn(NewParam, hookCount)

\* setResult(null) and returnEarly = false in the catch block make the param new again.
RunBefore == BeforeTurn(NewParam, beforeIdx + 1)

\* The original, unless a callback made the call return early; then the second
\* loop starts from the index given.
OriginalThenAfters(startIdx) ==
  /\ pc = "original"
  /\ \/ /\ param.returnEarly
        /\ pc' = "after"
        /\ UNCHANGED <<param, returned, invoked>>
     \/ /\ ~param.returnEarly /\ ~orig.fails
        /\ param' = Set(orig.ending)
        /\ invoked' = invoked + 1
        /\ pc' = "after"
        /\ UNCHANGED returned
     \/ /\ ~param.returnEarly /\ orig.fails
        /\ returned' = orig.ending
        /\ invoked' = invoked + 1
        /\ pc' = "done"
        /\ UNCHANGED param
  /\ afterIdx' = startIdx
  /\ UNCHANGED <<choices, beforeIdx, ranBefore, ranAfter>>

InvokeOriginal == OriginalThenAfters(beforeIdx - 1)

\* One turn of the second loop, given what the catch block restores.
AfterTurn(restored) ==
  /\ pc = "after"
  /\ ranAfter' = Append(ranAfter, afterIdx)
  /\ \/ after[afterIdx].throws /\ param' = restored
     \/ ~after[afterIdx].throws /\ param' = Apply(after[afterIdx], param)
  /\ afterIdx' = afterIdx - 1
  /\ pc' = IF afterIdx - 1 >= 0 THEN "after" ELSE "return"
  /\ UNCHANGED <<choices, beforeIdx, returned, ranBefore, invoked>>

RunAfterRestoringResult == AfterTurn(Set(Ending(param.ending.result, Null)))

\* setResult(lastResult) or setThrowable(lastThrowable): at most one is not null.
RunAfter == AfterTurn(Set(param.ending))

\* Mutant: the result is handed on unseen.
CastNothing(e) == e

\* getResultOrThrowable and returnType.cast
Cast(e) ==
  IF e.throwable = Null /\ hasReturnType /\ e.result \in WrongType
  THEN Ending(Null, CastError) ELSE e

ReturnResult ==
  /\ pc = "return"
  /\ pc' = "done"
  /\ returned' = Cast(param.ending)
  /\ UNCHANGED <<choices, param, beforeIdx, afterIdx, ranBefore, ranAfter, invoked>>

Next == TakeSnapshot \/ BackupOnly \/ RunBefore \/ InvokeOriginal \/ RunAfter \/ ReturnResult

Spec == Init /\ [][Next]_vars

-----------------------------------------------------------------------------
(* The reference: callbacks wrap the original like the layers of an onion *)

\* A callback's layer over an ending: one that throws leaves no trace.
Covers(b) == ~b.throws /\ b.sets # Nothing
Layer(b, e) == IF Covers(b) THEN b.sets ELSE e

\* o[i] is how the callbacks from i on, around the original, end; i = hookCount
\* stands for the original alone.
IsOnion(o) ==
  /\ o[hookCount] = orig.ending
  /\ \A i \in Hooks : o[i] = Layer(after[i], Layer(before[i], o[i + 1]))

\* The call reached the backup and Method.invoke itself failed.
InvokeFailed == orig.fails /\ \A i \in Hooks : ~Covers(before[i])

-----------------------------------------------------------------------------
(* Properties *)

\* Every variable has its type and the indices stay inside the snapshot.
TypeOK ==
  /\ hookCount \in 0..MaxHooks
  /\ before \in [Hooks -> Behaviours] /\ after \in [Hooks -> Behaviours]
  /\ orig \in Originals /\ hasReturnType \in BOOLEAN
  /\ pc \in {"snapshot", "backupOnly", "before", "original", "after", "return", "done"}
  /\ param \in Params
  /\ beforeIdx \in 0..hookCount /\ afterIdx \in -1..hookCount
  /\ pc = "before" => beforeIdx \in Hooks
  /\ pc = "after" => afterIdx \in Hooks
  /\ returned \in Endings \cup {Ending(Null, CastError)}
  /\ ranBefore \in Seq(Hooks) /\ ranAfter \in Seq(Hooks) /\ invoked \in 0..1

\* The two loops with their early exits, restores and index arithmetic end the
\* call as the nested definition does: a callback that sets something replaces
\* what it wraps, one that throws leaves no trace, in either phase.
OutcomeIsOnion ==
  pc = "done" /\ hookCount > 0 /\ ~InvokeFailed =>
    \A o \in [0..hookCount -> Endings] : IsOnion(o) => returned = Cast(o[0])

\* "afterHookedMethod will be called in reversed order": the after callbacks that
\* run are those whose before callback ran, each once, the last one first; none
\* run when the invocation itself failed.
AftersMirrorBefores ==
  pc = "done" =>
    /\ \A i \in 1..Len(ranBefore) : ranBefore[i] = i - 1
    /\ Len(ranAfter) = IF InvokeFailed THEN 0 ELSE Len(ranBefore)
    /\ \A i \in 1..Len(ranAfter) : ranAfter[i] = Len(ranBefore) - i

\* The original runs exactly once, or never when a callback of the snapshot set a
\* result or a throwable and did not throw; what it set before throwing does not count.
OriginalUnlessSkipped ==
  pc = "done" => invoked = IF \E i \in Hooks : Covers(before[i]) THEN 0 ELSE 1
=============================================================================
