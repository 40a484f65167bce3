------------------------- MODULE HookCallbackProofs -------------------------
(***************************************************************************)
(* Proofs about HookCallback and about HookerMethod, through which it is   *)
(* called: for any number of callbacks in the snapshot, and any signature. *)
(*                                                                         *)
(* The first inductive invariant follows the two loops: until a before     *)
(* callback covers the original the param is untouched; from then on its   *)
(* ending is what the layers from the current index on make of it.  The    *)
(* second follows the generated method: where it is before, at and behind  *)
(* the callback, and what its registers and its array hold there.          *)
(***************************************************************************)
EXTENDS HookerMethod, SequenceTheorems, WellFoundedInduction, TLAPS

\* No callback with an index below i covers what it wraps.
NoneCovers(i) == \A j \in 0..(i - 1) : ~Covers(before[j])

\* Until the original: the param is new, or the last callback that ran set it.
BeforePhase ==
  /\ pc \in {"snapshot", "backupOnly", "before"} =>
       param = NewParam /\ NoneCovers(beforeIdx) /\ invoked = 0
  /\ pc = "original" =>
       /\ invoked = 0
       /\ \/ param = NewParam /\ beforeIdx = hookCount /\ NoneCovers(hookCount)
          \/ /\ beforeIdx \in 1..hookCount
             /\ NoneCovers(beforeIdx - 1) /\ Covers(before[beforeIdx - 1])
             /\ param = Set(before[beforeIdx - 1].sets)

\* After it: how far the first loop came, and whether it reached the original.
AfterPhase ==
  pc \in {"after", "return"} \/ (pc = "done" /\ hookCount > 0) =>
    /\ beforeIdx \in 1..hookCount
    /\ NoneCovers(beforeIdx - 1)
    /\ \/ Covers(before[beforeIdx - 1]) /\ invoked = 0
       \/ beforeIdx = hookCount /\ ~Covers(before[beforeIdx - 1]) /\ invoked = 1

\* The param's ending is what the layers make of it.
EndingIsOnion == \A o \in [0..hookCount -> Endings] : IsOnion(o) =>
  /\ pc = "after" => param.ending = Layer(before[afterIdx], o[afterIdx + 1])
  /\ pc = "return" => param.ending = o[0]
  /\ pc = "done" /\ hookCount > 0 /\ ~InvokeFailed => returned = Cast(o[0])

\* Which callbacks ran.
RanInOrder ==
  /\ Len(ranBefore) = beforeIdx
  /\ \A i \in 1..Len(ranBefore) : ranBefore[i] = i - 1
  /\ pc \in {"snapshot", "backupOnly", "before", "original"} => ranAfter = <<>>
  /\ pc = "after" => Len(ranAfter) = beforeIdx - 1 - afterIdx
  /\ pc = "return" => Len(ranAfter) = beforeIdx
  /\ pc = "done" => Len(ranAfter) = IF InvokeFailed THEN 0 ELSE beforeIdx
  /\ \A i \in 1..Len(ranAfter) : ranAfter[i] = beforeIdx - i

\* Where the call is when there are no callbacks, and when the invocation fails.
Shape ==
  /\ pc = "backupOnly" => hookCount = 0
  /\ pc = "snapshot" => beforeIdx = 0
  /\ hookCount = 0 => pc \in {"snapshot", "backupOnly", "done"} /\ beforeIdx = 0
  /\ hookCount = 0 /\ pc = "done" => invoked = 1
  /\ pc \in {"after", "return"} => ~InvokeFailed /\ afterIdx < beforeIdx

IInv == TypeOK /\ BeforePhase /\ AfterPhase /\ EndingIsOnion /\ RanInOrder /\ Shape
-----------------------------------------------------------------------------
(* Endings and params *)

LEMMA ParamFacts ==
  /\ Ending(Null, Null) \in Endings /\ NewParam \in Params
  /\ NewParam.ending = Ending(Null, Null) /\ NewParam.returnEarly = FALSE
  /\ \A e \in Endings : Set(e) \in Params /\ Set(e).ending = e /\ Set(e).returnEarly = TRUE
<1>1. Ending(Null, Null) \in Endings
  BY DEF Endings
<1>2. \A e \in Endings : Set(e) \in Params /\ Set(e).ending = e /\ Set(e).returnEarly = TRUE
  BY DEF Params, Set
<1>3. NewParam \in Params /\ NewParam.ending = Ending(Null, Null) /\ NewParam.returnEarly = FALSE
  BY <1>1 DEF NewParam, Params
<1> QED BY <1>1, <1>2, <1>3

\* A callback that sets something makes the param that ending, else it leaves it.
LEMMA ApplyFacts ==
  ASSUME NEW b \in Behaviours, NEW p \in Params
  PROVE  /\ Apply(b, p) \in Params
         /\ b.sets # Nothing => b.sets \in Endings /\ Apply(b, p) = Set(b.sets)
         /\ b.sets = Nothing => Apply(b, p) = p
<1>1. b.sets \in Endings \cup {Nothing}
  BY DEF Behaviours
<1> QED BY <1>1, ParamFacts DEF Apply

LEMMA OriginalFacts == ASSUME TypeOK PROVE orig.ending \in Endings /\ orig.fails \in BOOLEAN
BY DEF TypeOK, Originals

\* What one turn of the first loop does to the param.
LEMMA BeforeEffect ==
  ASSUME TypeOK, BeforePhase, RunBefore
  PROVE  /\ beforeIdx \in Hooks /\ param = NewParam
         /\ ranBefore' = Append(ranBefore, beforeIdx)
         /\ \/ /\ Covers(before[beforeIdx]) /\ param' = Set(before[beforeIdx].sets)
               /\ beforeIdx' = beforeIdx + 1 /\ pc' = "original"
            \/ /\ ~Covers(before[beforeIdx]) /\ param' = NewParam
               /\ beforeIdx' = beforeIdx + 1
               /\ pc' = IF beforeIdx + 1 < hookCount THEN "before" ELSE "original"
<1> DEFINE b == before[beforeIdx]
<1>1. pc = "before" /\ beforeIdx \in Hooks /\ param = NewParam /\ b \in Behaviours
  BY DEF RunBefore, BeforeTurn, TypeOK, BeforePhase
<1>2. /\ b.throws \in BOOLEAN
      /\ b.sets # Nothing => Apply(b, param) = Set(b.sets) /\ Apply(b, param).returnEarly = TRUE
      /\ b.sets = Nothing => Apply(b, param) = NewParam /\ Apply(b, param).returnEarly = FALSE
  BY <1>1, ApplyFacts, ParamFacts DEF Behaviours
<1> QED BY <1>1, <1>2, ParamFacts DEF RunBefore, BeforeTurn, Covers

\* And of the second.
LEMMA AfterEffect ==
  ASSUME TypeOK, RunAfter
  PROVE  /\ afterIdx \in Hooks
         /\ ranAfter' = Append(ranAfter, afterIdx)
         /\ param' \in Params /\ param'.ending = Layer(after[afterIdx], param.ending)
         /\ afterIdx' = afterIdx - 1
         /\ pc' = IF afterIdx - 1 >= 0 THEN "after" ELSE "return"
         /\ UNCHANGED <<choices, beforeIdx, returned, ranBefore, invoked>>
<1> DEFINE b == after[afterIdx]
<1>1. pc = "after" /\ afterIdx \in Hooks /\ b \in Behaviours /\ param \in Params /\ param.ending \in Endings
  BY DEF RunAfter, AfterTurn, TypeOK, Params
<1>2. param' = IF b.throws THEN Set(param.ending) ELSE Apply(b, param)
  BY DEF RunAfter, AfterTurn
<1>3. b.throws \in BOOLEAN
  BY <1>1 DEF Behaviours
<1>4. param' \in Params /\ param'.ending = Layer(b, param.ending)
  BY <1>1, <1>2, <1>3, ApplyFacts, ParamFacts DEF Layer, Covers
<1> QED BY <1>1, <1>4 DEF RunAfter, AfterTurn
-----------------------------------------------------------------------------
(* The steps *)

\* Every step keeps the types.
LEMMA TypeStep == TypeOK /\ BeforePhase /\ RanInOrder /\ Shape /\ [Next]_vars => TypeOK'
<1> SUFFICES ASSUME TypeOK, BeforePhase, RanInOrder, Shape, [Next]_vars PROVE TypeOK'
  OBVIOUS
<1> USE HooksAssumption DEF TypeOK, Hooks
<1>1. CASE TakeSnapshot
  BY <1>1 DEF TakeSnapshot, choices, Shape
<1>2. CASE BackupOnly
  BY <1>2, OriginalFacts DEF BackupOnly, choices, BeforePhase
<1>3. CASE RunBefore
  <2>1. /\ beforeIdx \in Hooks /\ ranBefore' = Append(ranBefore, beforeIdx)
        /\ beforeIdx' = beforeIdx + 1
        /\ pc' = "original" \/ (pc' = "before" /\ beforeIdx + 1 < hookCount)
    BY <1>3, BeforeEffect
  <2>2. param' \in Params
    BY <1>3, BeforeEffect, ParamFacts, ApplyFacts DEF Covers
  <2>3. UNCHANGED <<choices, afterIdx, returned, ranAfter, invoked>>
    BY <1>3 DEF RunBefore, BeforeTurn
  <2> QED BY <2>1, <2>2, <2>3 DEF choices
<1>4. CASE InvokeOriginal
  <2>1. /\ pc = "original" /\ afterIdx' = beforeIdx - 1 /\ pc' \in {"after", "done"}
        /\ UNCHANGED <<choices, beforeIdx, ranBefore, ranAfter>>
    BY <1>4 DEF InvokeOriginal, OriginalThenAfters
  <2>2. hookCount > 0 /\ beforeIdx \in 1..hookCount /\ invoked = 0
    BY <2>1 DEF Shape, BeforePhase
  <2>3. param' \in Params /\ returned' \in Endings \cup {Ending(Null, CastError)} /\ invoked' \in 0..1
    BY <1>4, <2>2, OriginalFacts, ParamFacts DEF InvokeOriginal, OriginalThenAfters
  <2> QED BY <2>1, <2>2, <2>3 DEF choices
<1>5. CASE RunAfter
  <2>1. /\ afterIdx \in Hooks /\ ranAfter' = Append(ranAfter, afterIdx)
        /\ param' \in Params /\ afterIdx' = afterIdx - 1
        /\ pc' = IF afterIdx - 1 >= 0 THEN "after" ELSE "return"
        /\ UNCHANGED <<choices, beforeIdx, returned, ranBefore, invoked>>
    BY <1>5, AfterEffect
  <2>2. ranAfter' \in Seq(Hooks) /\ afterIdx' \in -1..hookCount /\ (afterIdx - 1 >= 0 => afterIdx' \in Hooks)
    BY <2>1
  <2> QED BY <2>1, <2>2 DEF choices
<1>6. CASE ReturnResult
  <2>1. returned' \in Endings \cup {Ending(Null, CastError)}
    BY <1>6 DEF ReturnResult, Cast, Params
  <2> QED BY <1>6, <2>1 DEF ReturnResult, choices
<1>7. CASE UNCHANGED vars
  BY <1>7 DEF vars, choices
<1> QED BY <1>1, <1>2, <1>3, <1>4, <1>5, <1>6, <1>7 DEF Next

\* The phases, the order and the shape, step by step.
LEMMA PhaseStep ==
  TypeOK /\ BeforePhase /\ AfterPhase /\ RanInOrder /\ Shape /\ [Next]_vars
    => BeforePhase' /\ AfterPhase' /\ RanInOrder' /\ Shape'
<1> SUFFICES ASSUME TypeOK, BeforePhase, AfterPhase, RanInOrder, Shape, [Next]_vars
             PROVE  BeforePhase' /\ AfterPhase' /\ RanInOrder' /\ Shape'
  OBVIOUS
<1> USE HooksAssumption DEF TypeOK, Hooks
<1>1. CASE TakeSnapshot
  <2>1. BeforePhase' /\ AfterPhase'
    BY <1>1 DEF TakeSnapshot, choices, BeforePhase, AfterPhase, NoneCovers
  <2>2. RanInOrder' /\ Shape'
    BY <1>1 DEF TakeSnapshot, choices, RanInOrder, Shape
  <2> QED BY <2>1, <2>2
<1>2. CASE BackupOnly
  <2>1. hookCount = 0 /\ beforeIdx = 0 /\ invoked = 0
    BY <1>2 DEF BackupOnly, Shape, BeforePhase
  <2>2. BeforePhase' /\ AfterPhase'
    BY <1>2, <2>1 DEF BackupOnly, choices, BeforePhase, AfterPhase
  <2>3. RanInOrder' /\ Shape'
    BY <1>2, <2>1 DEF BackupOnly, choices, RanInOrder, Shape
  <2> QED BY <2>2, <2>3
<1>3. CASE RunBefore
  <2>1. /\ beforeIdx \in Hooks /\ param = NewParam /\ ranBefore' = Append(ranBefore, beforeIdx)
        /\ beforeIdx' = beforeIdx + 1
        /\ \/ /\ Covers(before[beforeIdx]) /\ param' = Set(before[beforeIdx].sets) /\ pc' = "original"
           \/ /\ ~Covers(before[beforeIdx]) /\ param' = NewParam
              /\ pc' = IF beforeIdx + 1 < hookCount THEN "before" ELSE "original"
    BY <1>3, BeforeEffect
  <2>2. pc = "before" /\ UNCHANGED <<choices, afterIdx, returned, ranAfter, invoked>>
    BY <1>3 DEF RunBefore, BeforeTurn
  <2>3. NoneCovers(beforeIdx) /\ invoked = 0 /\ ranAfter = <<>> /\ hookCount > 0
    BY <2>1, <2>2 DEF BeforePhase, RanInOrder
  <2>4. BeforePhase'
    <3>1. CASE Covers(before[beforeIdx])
      BY <2>1, <2>2, <2>3, <3>1 DEF choices, BeforePhase, NoneCovers
    <3>2. CASE ~Covers(before[beforeIdx])
      <4>1. NoneCovers(beforeIdx + 1)
        BY <2>3, <3>2 DEF NoneCovers
      <4>2. NoneCovers(beforeIdx)' /\ param' = NewParam
        BY <2>1, <2>2, <3>2, <4>1 DEF choices, NoneCovers
      <4> QED BY <2>1, <2>2, <2>3, <3>2, <4>2 DEF choices, BeforePhase, NoneCovers
    <3> QED BY <3>1, <3>2
  <2>5. AfterPhase' /\ Shape'
    BY <2>1, <2>2, <2>3 DEF choices, AfterPhase, Shape
  <2>6. RanInOrder'
    BY <2>1, <2>2, <2>3 DEF choices, RanInOrder
  <2> QED BY <2>4, <2>5, <2>6
<1>4. CASE InvokeOriginal
  <2>1. /\ pc = "original" /\ afterIdx' = beforeIdx - 1
        /\ UNCHANGED <<choices, beforeIdx, ranBefore, ranAfter>>
    BY <1>4 DEF InvokeOriginal, OriginalThenAfters
  <2>2. hookCount > 0 /\ beforeIdx \in 1..hookCount /\ invoked = 0 /\ ranAfter = <<>>
    BY <2>1 DEF Shape, BeforePhase, RanInOrder
  <2>3. CASE param.returnEarly
    <3>1. pc' = "after" /\ UNCHANGED invoked
      BY <1>4, <2>3 DEF InvokeOriginal, OriginalThenAfters
    <3>2. NoneCovers(beforeIdx - 1) /\ Covers(before[beforeIdx - 1])
      BY <2>1, <2>3, ParamFacts DEF BeforePhase
    <3>3. BeforePhase' /\ AfterPhase'
      BY <2>1, <2>2, <3>1, <3>2 DEF choices, BeforePhase, AfterPhase, NoneCovers
    <3>4. RanInOrder' /\ Shape'
      BY <2>1, <2>2, <3>1, <3>2 DEF choices, RanInOrder, Shape, InvokeFailed
    <3> QED BY <3>3, <3>4
  <2>4. CASE ~param.returnEarly
    <3>1. beforeIdx = hookCount /\ NoneCovers(hookCount)
      <4>1. CASE beforeIdx = hookCount /\ NoneCovers(hookCount)
        BY <4>1
      <4>2. CASE Covers(before[beforeIdx - 1]) /\ param = Set(before[beforeIdx - 1].sets)
        <5>1. before[beforeIdx - 1] \in Behaviours
          BY <2>2
        <5>2. before[beforeIdx - 1].sets \in Endings
          BY <4>2, <5>1, ApplyFacts, ParamFacts DEF Covers
        <5> QED BY <2>4, <4>2, <5>2, ParamFacts
      <4> QED BY <2>1, <4>1, <4>2 DEF BeforePhase
    <3>2. invoked' = 1 /\ pc' = IF orig.fails THEN "done" ELSE "after"
      BY <1>4, <2>2, <2>4, OriginalFacts DEF InvokeOriginal, OriginalThenAfters
    <3>3. InvokeFailed = orig.fails
      BY <3>1, OriginalFacts DEF InvokeFailed, NoneCovers
    <3>4. BeforePhase' /\ AfterPhase'
      BY <2>1, <2>2, <3>1, <3>2 DEF choices, BeforePhase, AfterPhase, NoneCovers
    <3>5. InvokeFailed' = InvokeFailed
      BY <2>1 DEF choices, InvokeFailed
    <3>6. RanInOrder'
      BY <2>1, <2>2, <3>1, <3>2, <3>3, <3>5 DEF choices, RanInOrder
    <3>7. Shape'
      BY <2>1, <2>2, <3>1, <3>2, <3>3, <3>5 DEF choices, Shape
    <3> QED BY <3>4, <3>6, <3>7
  <2> QED BY <2>3, <2>4
<1>5. CASE RunAfter
  <2>1. pc = "after" /\ afterIdx < beforeIdx /\ ~InvokeFailed
    BY <1>5 DEF RunAfter, AfterTurn, Shape
  <2>2. /\ afterIdx \in Hooks /\ ranAfter' = Append(ranAfter, afterIdx) /\ afterIdx' = afterIdx - 1
        /\ pc' = IF afterIdx - 1 >= 0 THEN "after" ELSE "return"
        /\ UNCHANGED <<choices, beforeIdx, returned, ranBefore, invoked>>
    BY <1>5, AfterEffect
  <2>3. BeforePhase' /\ AfterPhase'
    BY <2>1, <2>2 DEF choices, BeforePhase, AfterPhase, NoneCovers
  <2>4. InvokeFailed' = InvokeFailed
    BY <2>2 DEF choices, InvokeFailed
  <2>5. Len(ranAfter) = beforeIdx - 1 - afterIdx /\ \A i \in 1..Len(ranAfter) : ranAfter[i] = beforeIdx - i
    BY <2>1 DEF RanInOrder
  <2>6. Len(ranAfter') = beforeIdx - afterIdx /\ \A i \in 1..Len(ranAfter') : ranAfter'[i] = beforeIdx - i
    <3>1. /\ Len(ranAfter') = Len(ranAfter) + 1 /\ ranAfter'[Len(ranAfter) + 1] = afterIdx
          /\ \A i \in 1..Len(ranAfter) : ranAfter'[i] = ranAfter[i]
      BY <2>2
    <3>2. Len(ranAfter) \in Nat /\ beforeIdx \in Nat /\ afterIdx \in Nat
      BY <2>2
    <3> HIDE DEF TypeOK
    <3> DEFINE n == Len(ranAfter)
    <3>3. n = beforeIdx - 1 - afterIdx /\ Len(ranAfter') = beforeIdx - afterIdx
      BY <2>5, <3>1, <3>2
    <3>4. \A i \in 1..n : ranAfter'[i] = beforeIdx - i
      BY <2>5, <3>1
    <3>5. ranAfter'[n + 1] = beforeIdx - (n + 1)
      BY <3>1, <3>2, <3>3
    <3>6. \A i \in 1..(n + 1) : i \in 1..n \/ i = n + 1
      BY <3>2
    <3> QED BY <3>1, <3>3, <3>4, <3>5, <3>6
  <2>7. RanInOrder'
    BY <2>1, <2>2, <2>4, <2>6 DEF choices, RanInOrder
  <2>8. Shape'
    BY <2>1, <2>2, <2>4 DEF choices, Shape
  <2> QED BY <2>3, <2>7, <2>8
<1>6. CASE ReturnResult
  <2>1. pc = "return" /\ ~InvokeFailed /\ hookCount > 0
    BY <1>6 DEF ReturnResult, Shape
  <2>2. BeforePhase' /\ AfterPhase'
    BY <1>6, <2>1 DEF ReturnResult, choices, BeforePhase, AfterPhase, NoneCovers
  <2>3. RanInOrder' /\ Shape'
    BY <1>6, <2>1 DEF ReturnResult, choices, RanInOrder, Shape, InvokeFailed
  <2> QED BY <2>2, <2>3
<1>7. CASE UNCHANGED vars
  <2>1. BeforePhase' /\ AfterPhase'
    BY <1>7 DEF vars, choices, BeforePhase, AfterPhase, NoneCovers
  <2>2. RanInOrder' /\ Shape'
    BY <1>7 DEF vars, choices, RanInOrder, Shape, InvokeFailed
  <2> QED BY <2>1, <2>2
<1> QED BY <1>1, <1>2, <1>3, <1>4, <1>5, <1>6, <1>7 DEF Next
\* The ending of the param, layer by layer.
LEMMA EndingStep ==
  TypeOK /\ BeforePhase /\ AfterPhase /\ EndingIsOnion /\ Shape /\ [Next]_vars => EndingIsOnion'
<1> SUFFICES ASSUME TypeOK, BeforePhase, AfterPhase, EndingIsOnion, Shape, [Next]_vars,
                    NEW o \in [0..hookCount' -> Endings], IsOnion(o)'
             PROVE  /\ pc' = "after" => param'.ending = Layer(before'[afterIdx'], o[afterIdx' + 1])
                    /\ pc' = "return" => param'.ending = o[0]
                    /\ pc' = "done" /\ hookCount' > 0 /\ ~InvokeFailed' => returned' = Cast(o[0])'
  BY DEF EndingIsOnion
<1> USE HooksAssumption DEF TypeOK, Hooks
<1>1. UNCHANGED choices
  BY DEF Next, TakeSnapshot, BackupOnly, RunBefore, BeforeTurn, InvokeOriginal, OriginalThenAfters,
         RunAfter, AfterTurn, ReturnResult, vars
<1>2. o \in [0..hookCount -> Endings] /\ IsOnion(o) /\ InvokeFailed' = InvokeFailed
  BY <1>1 DEF choices, IsOnion, InvokeFailed
<1>3. /\ o[hookCount] = orig.ending
      /\ \A i \in Hooks : o[i] = Layer(after[i], Layer(before[i], o[i + 1]))
  BY <1>2 DEF IsOnion
<1>4. CASE TakeSnapshot \/ BackupOnly
  BY <1>4 DEF TakeSnapshot, BackupOnly, Shape, choices
<1>5. CASE RunBefore
  BY <1>5, BeforeEffect
<1>6. CASE InvokeOriginal
  <2>1. pc = "original" /\ afterIdx' = beforeIdx - 1
    BY <1>6 DEF InvokeOriginal, OriginalThenAfters
  <2>2. beforeIdx \in 1..hookCount /\ beforeIdx - 1 \in Hooks
    BY <2>1 DEF Shape, BeforePhase
  <2>3. CASE param.returnEarly
    <3>1. pc' = "after" /\ param' = param
      BY <1>6, <2>3 DEF InvokeOriginal, OriginalThenAfters
    <3>2. Covers(before[beforeIdx - 1]) /\ param = Set(before[beforeIdx - 1].sets)
      BY <2>1, <2>3, ParamFacts DEF BeforePhase
    <3> QED BY <1>1, <2>1, <3>1, <3>2 DEF choices, Layer, Set
  <2>4. CASE ~param.returnEarly
    <3>1. beforeIdx = hookCount /\ NoneCovers(hookCount)
      <4>1. CASE Covers(before[beforeIdx - 1]) /\ param = Set(before[beforeIdx - 1].sets)
        BY <2>4, <4>1 DEF Set
      <4> QED BY <2>1, <4>1 DEF BeforePhase
    <3>2. ~Covers(before[beforeIdx - 1])
      BY <2>2, <3>1 DEF NoneCovers
    <3>3. CASE orig.fails
      <4>1. pc' = "done" /\ InvokeFailed
        BY <1>6, <2>4, <3>1, <3>3 DEF InvokeOriginal, OriginalThenAfters, InvokeFailed, NoneCovers
      <4> QED BY <1>2, <4>1
    <3>4. CASE ~orig.fails
      <4>1. pc' = "after" /\ param' = Set(orig.ending)
        BY <1>6, <2>4, <3>4 DEF InvokeOriginal, OriginalThenAfters
      <4> QED BY <1>1, <1>3, <2>1, <2>2, <3>1, <3>2, <4>1 DEF choices, Layer, Set
    <3> QED BY <3>3, <3>4
  <2> QED BY <2>3, <2>4
<1>7. CASE RunAfter
  <2>1. pc = "after" /\ afterIdx < beforeIdx /\ param.ending = Layer(before[afterIdx], o[afterIdx + 1])
    BY <1>2, <1>7 DEF RunAfter, AfterTurn, Shape, EndingIsOnion
  <2>2. /\ afterIdx \in Hooks /\ afterIdx' = afterIdx - 1
        /\ pc' = IF afterIdx - 1 >= 0 THEN "after" ELSE "return"
        /\ param'.ending = Layer(after[afterIdx], param.ending)
    BY <1>7, AfterEffect
  <2>3. param'.ending = o[afterIdx]
    BY <1>3, <2>1, <2>2
  <2>4. afterIdx - 1 >= 0 => ~Covers(before[afterIdx - 1])
    BY <2>1, <2>2 DEF AfterPhase, NoneCovers
  <2>5. afterIdx - 1 >= 0 => o[afterIdx] = Layer(before[afterIdx - 1], o[afterIdx - 1 + 1])
    BY <2>2, <2>4 DEF Layer
  <2> QED BY <1>1, <2>2, <2>3, <2>5 DEF choices
<1>8. CASE ReturnResult
  <2>1. param.ending = o[0] /\ pc' = "done" /\ returned' = Cast(param.ending)
    BY <1>2, <1>8 DEF ReturnResult, EndingIsOnion
  <2>2. Cast(o[0])' = Cast(o[0])
    BY <1>1 DEF Cast, choices
  <2> QED BY <2>1, <2>2
<1>9. CASE UNCHANGED vars
  <2>1. /\ pc = "after" => param.ending = Layer(before[afterIdx], o[afterIdx + 1])
        /\ pc = "return" => param.ending = o[0]
        /\ pc = "done" /\ hookCount > 0 /\ ~InvokeFailed => returned = Cast(o[0])
    BY <1>2 DEF EndingIsOnion
  <2>2. Cast(o[0])' = Cast(o[0])
    BY <1>1 DEF Cast, choices
  <2> QED BY <1>2, <1>9, <2>1, <2>2 DEF vars, choices
<1> QED BY <1>4, <1>5, <1>6, <1>7, <1>8, <1>9 DEF Next

-----------------------------------------------------------------------------
LEMMA InitIInv == Init => IInv
<1> SUFFICES ASSUME Init PROVE IInv
  OBVIOUS
<1> USE HooksAssumption, ParamFacts DEF Init, Hooks
<1>1. TypeOK
  BY DEF TypeOK
<1>2. BeforePhase /\ AfterPhase /\ RanInOrder /\ Shape
  BY DEF BeforePhase, AfterPhase, NoneCovers, RanInOrder, Shape
<1>3. EndingIsOnion
  BY DEF EndingIsOnion
<1> QED BY <1>1, <1>2, <1>3 DEF IInv

LEMMA StepIInv == IInv /\ [Next]_vars => IInv'
BY TypeStep, PhaseStep, EndingStep DEF IInv

THEOREM Invariance == Spec => []IInv
BY InitIInv, StepIInv, PTL DEF Spec

\* The types and the index ranges, for any number of callbacks.
THEOREM TypeCorrect == Spec => []TypeOK
<1>1. IInv => TypeOK
  BY DEF IInv
<1> QED BY <1>1, Invariance, PTL

\* However callbacks set, throw and return early, the call ends as the nested
\* definition does.
THEOREM DispatchIsOnion == Spec => []OutcomeIsOnion
<1>1. IInv => OutcomeIsOnion
  BY DEF IInv, EndingIsOnion, OutcomeIsOnion
<1> QED BY <1>1, Invariance, PTL

\* The after callbacks that run mirror the before callbacks that ran.
THEOREM DispatchMirrors == Spec => []AftersMirrorBefores
<1>1. IInv => AftersMirrorBefores
  BY DEF IInv, RanInOrder, AftersMirrorBefores
<1> QED BY <1>1, Invariance, PTL

\* The original runs once, or never when a callback covers it.
THEOREM OriginalOnce == Spec => []OriginalUnlessSkipped
<1>1. IInv => OriginalUnlessSkipped
  <2> SUFFICES ASSUME IInv, pc = "done"
               PROVE  invoked = IF \E i \in Hooks : Covers(before[i]) THEN 0 ELSE 1
    BY DEF OriginalUnlessSkipped
  <2> USE HooksAssumption DEF IInv, TypeOK, Hooks
  <2>1. CASE hookCount = 0
    BY <2>1 DEF Shape
  <2>2. CASE hookCount > 0
    <3>1. CASE Covers(before[beforeIdx - 1]) /\ invoked = 0
      BY <2>2, <3>1 DEF AfterPhase
    <3>2. CASE beforeIdx = hookCount /\ ~Covers(before[beforeIdx - 1]) /\ invoked = 1
      <4>1. NoneCovers(hookCount - 1)
        BY <2>2, <3>2 DEF AfterPhase
      <4> QED BY <2>2, <3>2, <4>1 DEF NoneCovers
    <3> QED BY <2>2, <3>1, <3>2 DEF AfterPhase
  <2> QED BY <2>1, <2>2
<1> QED BY <1>1, Invariance, PTL

-----------------------------------------------------------------------------
(* Induction over numbers: what holds of a least number, for a set of them, *)
(* and for functions defined by recursion.                                   *)

LEMMA Least ==
  ASSUME NEW T \in SUBSET Nat, T # {}
  PROVE  \E x \in T : \A y \in T : x <= y
<1> DEFINE R == {ss \in Nat \X Nat : ss[1] < ss[2]}
<1>1. IsWellFoundedOn(R, Nat)
  BY NatLessThanWellFounded DEF OpToRel
<1>2. \A x, y \in Nat : x <= y \/ <<y, x>> \in R
  OBVIOUS
<1> HIDE DEF R
<1>3. PICK x \in T : \A y \in T : ~(<<y, x>> \in R)
  BY <1>1, WFMin, Zenon
<1> QED BY <1>2, <1>3

LEMMA UpTo ==
  ASSUME NEW n \in Nat, NEW S, 0 \in S, \A k \in 0..(n - 1) : k \in S => k + 1 \in S
  PROVE  \A k \in 0..n : k \in S
<1> SUFFICES ASSUME NEW j \in 0..n, j \notin S PROVE FALSE
  OBVIOUS
<1> DEFINE T == {k \in 0..n : k \notin S}
<1>1. T \in SUBSET Nat /\ T # {}
  OBVIOUS
<1>2. PICK x \in T : \A y \in T : x <= y
  <2> HIDE DEF T
  <2> QED BY <1>1, Least, Zenon
<1>3. x \in 1..n
  OBVIOUS
<1>4. x - 1 \in S
  <2>1. x - 1 \in T => x <= x - 1
    BY <1>2
  <2> QED BY <1>3, <2>1
<1> QED BY <1>2, <1>3, <1>4

\* A function that F continues, from base on.
Continued(n, V, base, F) ==
  \E f \in [0..n -> V] : f[0] = base /\ \A k \in 1..n : f[k] = F[<<k, f[k - 1]>>]

\* What a recursive function is defined by has a solution.
LEMMA Recursion ==
  ASSUME NEW n \in Nat, NEW V, NEW base \in V, NEW F \in [(1..n) \X V -> V]
  PROVE  Continued(n, V, base, F)
<1> DEFINE Good(m, f) == f[0] = base /\ \A k \in 1..m : f[k] = F[<<k, f[k - 1]>>]
           S == {m \in 0..n : \E f \in [0..m -> V] : Good(m, f)}
<1>1. 0 \in S
  <2>1. [k \in 0..0 |-> base] \in [0..0 -> V] /\ Good(0, [k \in 0..0 |-> base])
    OBVIOUS
  <2> HIDE DEF Good
  <2> QED BY <2>1
<1>2. ASSUME NEW m \in 0..(n - 1), m \in S PROVE m + 1 \in S
  <2>1. PICK f \in [0..m -> V] : Good(m, f)
    BY <1>2
  <2> DEFINE g == [k \in 0..(m + 1) |-> IF k = m + 1 THEN F[<<m + 1, f[m]>>] ELSE f[k]]
  <2>2. F[<<m + 1, f[m]>>] \in V
    <3>1. <<m + 1, f[m]>> \in (1..n) \X V
      OBVIOUS
    <3> QED BY <3>1
  <2>3. g \in [0..(m + 1) -> V]
    BY <2>2
  <2>4. g[0] = base
    BY <2>1
  <2>5. ASSUME NEW k \in 1..(m + 1) PROVE g[k] = F[<<k, g[k - 1]>>]
    <3>1. CASE k = m + 1
      <4>1. g[m + 1] = F[<<m + 1, f[m]>>] /\ g[m] = f[m]
        OBVIOUS
      <4>2. k - 1 = m
        BY <3>1
      <4> HIDE DEF g
      <4> QED BY <3>1, <4>1, <4>2
    <3>2. CASE k \in 1..m
      BY <2>1, <3>2
    <3> QED BY <3>1, <3>2
  <2>6. Good(m + 1, g)
    BY <2>4, <2>5
  <2> HIDE DEF g, Good
  <2> QED BY <2>3, <2>6
<1>3. \A k \in 0..n : k \in S
  <2> HIDE DEF S
  <2> QED BY <1>1, <1>2, UpTo
<1>4. n \in S
  <2> HIDE DEF S
  <2> QED BY <1>3
<1> QED BY <1>4 DEF Continued

-----------------------------------------------------------------------------
(* The data: the onion, the slots of parameters, the code *)

\* However many callbacks there are, the nested definition defines something.
LEMMA OnionExists ==
  ASSUME TypeOK
  PROVE  \E o \in [0..hookCount -> Endings] : IsOnion(o)
<1> DEFINE Wrap(k, e) == Layer(after[hookCount - k], Layer(before[hookCount - k], e))
           F == [r \in (1..hookCount) \X Endings |-> Wrap(r[1], r[2])]
<1>1. hookCount \in Nat /\ orig.ending \in Endings
  BY OriginalFacts, HooksAssumption DEF TypeOK
<1>2. ASSUME NEW k \in 1..hookCount, NEW e \in Endings PROVE Wrap(k, e) \in Endings
  <2>1. hookCount - k \in Hooks
    BY <1>1 DEF Hooks
  <2>2. before[hookCount - k] \in Behaviours /\ after[hookCount - k] \in Behaviours
    BY <2>1 DEF TypeOK
  <2> QED BY <2>2 DEF Layer, Covers, Behaviours
<1>3. F \in [(1..hookCount) \X Endings -> Endings]
  <2> HIDE DEF Wrap
  <2> QED BY <1>2
<1>4. PICK f \in [0..hookCount -> Endings] :
        f[0] = orig.ending /\ \A k \in 1..hookCount : f[k] = F[<<k, f[k - 1]>>]
  <2> HIDE DEF F
  <2>1. Continued(hookCount, Endings, orig.ending, F)
    BY <1>1, <1>3, Recursion, Zenon
  <2> QED BY <2>1 DEF Continued
<1> DEFINE o == [i \in 0..hookCount |-> f[hookCount - i]]
<1>5. o \in [0..hookCount -> Endings] /\ o[hookCount] = orig.ending
  BY <1>1, <1>4
<1>6. ASSUME NEW i \in Hooks PROVE o[i] = Layer(after[i], Layer(before[i], o[i + 1]))
  <2> DEFINE k == hookCount - i
  <2>1. k \in 1..hookCount /\ k - 1 \in 0..hookCount /\ i = hookCount - k /\ i \in 0..hookCount
    BY <1>1 DEF Hooks
  <2>2. <<k, f[k - 1]>> \in (1..hookCount) \X Endings
    BY <1>4, <2>1
  <2>3. f[k] = Wrap(k, f[k - 1])
    <3> HIDE DEF Wrap, k
    <3> QED BY <1>4, <2>1, <2>2
  <2>4. o[i] = f[k] /\ o[i + 1] = f[k - 1]
    BY <1>1, <2>1 DEF Hooks
  <2> HIDE DEF o, k
  <2> QED BY <2>1, <2>3, <2>4
<1> HIDE DEF o
<1> QED BY <1>5, <1>6 DEF IsOnion

Shorties == Primitive \cup {"L"}

LEMMA TypesKnown ==
  ASSUME NEW m \in Methods
  PROVE  /\ ParameterTypes(m) \in Seq(Shorties) /\ m.ret \in Shorties \cup {"V"}
         /\ m.params \in Seq(Shorties) /\ m.static \in BOOLEAN
         /\ Len(ParameterTypes(m)) = Len(m.params) + (IF m.static THEN 0 ELSE 1)
         /\ \A i \in 1..Len(m.params) : ParameterTypes(m)[IF m.static THEN i ELSE i + 1] = m.params[i]
         /\ ~m.static => ParameterTypes(m)[1] = "L"
<1>1. m \in [ret : Primitive \cup {"V", "L"}, params : Seq(Primitive \cup {"L"}), static : BOOLEAN]
  BY MethodsAssumption
<1>2. m.ret \in Shorties \cup {"V"} /\ m.params \in Seq(Shorties) /\ m.static \in BOOLEAN
  BY <1>1 DEF Shorties
<1>3. CASE m.static
  <2>1. ParameterTypes(m) = <<>> \o m.params
    BY <1>3 DEF ParameterTypes
  <2>2. ParameterTypes(m) = m.params
    BY <1>2, <2>1
  <2> QED BY <1>2, <1>3, <2>2
<1>4. CASE ~m.static
  <2>1. ParameterTypes(m) = <<"L">> \o m.params /\ <<"L">> \in Seq(Shorties)
    BY <1>4 DEF ParameterTypes, Shorties
  <2> HIDE DEF Shorties
  <2>2. ParameterTypes(m) \in Seq(Shorties) /\ Len(ParameterTypes(m)) = Len(m.params) + 1
    BY <1>2, <2>1
  <2>3. ParameterTypes(m)[1] = "L"
    BY <1>2, <2>1
  <2>4. \A i \in 1..Len(m.params) : ParameterTypes(m)[i + 1] = m.params[i]
    BY <1>2, <2>1
  <2> QED BY <1>2, <1>4, <2>2, <2>3, <2>4
<1> QED BY <1>2, <1>3, <1>4

\* What the recursive definition of the slots says.
LEMMA SlotsAre ==
  ASSUME NEW types \in Seq(Shorties)
  PROVE  /\ SlotsUpTo(types) \in [0..Len(types) -> Nat]
         /\ SlotsUpTo(types)[0] = 0
         /\ \A i \in 1..Len(types) : SlotsUpTo(types)[i] = SlotsUpTo(types)[i - 1] + SlotsOf(types[i])
<1> DEFINE n == Len(types)
           F == [r \in (1..n) \X Nat |-> r[2] + SlotsOf(types[r[1]])]
           Body(f) == [i \in 0..n |-> IF i = 0 THEN 0 ELSE f[i - 1] + SlotsOf(types[i])]
           s == SlotsUpTo(types)
<1>0. n \in Nat
  OBVIOUS
<1>1. F \in [(1..n) \X Nat -> Nat]
  <2> HIDE DEF n
  <2> QED BY DEF SlotsOf
<1>2. PICK f \in [0..n -> Nat] : f[0] = 0 /\ \A k \in 1..n : f[k] = F[<<k, f[k - 1]>>]
  <2> HIDE DEF F, n
  <2>1. 0 \in Nat
    OBVIOUS
  <2>2. Continued(n, Nat, 0, F)
    BY <1>0, <1>1, <2>1, Recursion, Zenon
  <2> QED BY <2>2 DEF Continued
<1>3. f = Body(f)
  <2> HIDE DEF n
  <2>1. ASSUME NEW k \in 1..n PROVE f[k] = f[k - 1] + SlotsOf(types[k])
    <3>1. <<k, f[k - 1]>> \in (1..n) \X Nat
      BY <1>0, <1>2
    <3> QED BY <1>2, <3>1
  <2>2. \A k \in 0..n : f[k] = Body(f)[k]
    BY <1>0, <1>2, <2>1
  <2>3. f = [i \in 0..n |-> f[i]]
    BY <1>2
  <2> HIDE DEF Body
  <2>4. DOMAIN Body(f) = 0..n /\ Body(f) = [i \in 0..n |-> Body(f)[i]]
    BY DEF Body
  <2> QED BY <2>2, <2>3, <2>4
<1>4. s = Body(s)
  <2>1. s = CHOOSE g : g = Body(g)
    BY DEF SlotsUpTo
  <2> HIDE DEF Body, s
  <2> QED BY <1>3, <2>1
<1>5. s[0] = 0 /\ \A i \in 1..n : s[i] = s[i - 1] + SlotsOf(types[i])
  <2> HIDE DEF s, n
  <2>1. \A i \in 0..n : s[i] = IF i = 0 THEN 0 ELSE s[i - 1] + SlotsOf(types[i])
    BY <1>4
  <2> QED BY <1>0, <2>1
<1>6. \A k \in 0..n : k \in {j \in 0..n : s[j] \in Nat}
  <2> DEFINE S == {j \in 0..n : s[j] \in Nat}
  <2> HIDE DEF s, n
  <2>1. 0 \in S
    BY <1>0, <1>5
  <2>2. ASSUME NEW k \in 0..(n - 1), k \in S PROVE k + 1 \in S
    <3>1. k + 1 \in 1..n /\ (k + 1) - 1 = k
      BY <1>0
    <3>2. s[k + 1] = s[k] + SlotsOf(types[k + 1])
      BY <1>5, <3>1
    <3> QED BY <2>2, <3>1, <3>2 DEF SlotsOf
  <2> HIDE DEF S
  <2>3. \A k \in 0..n : k \in S
    BY <1>0, <2>1, <2>2, UpTo
  <2> QED BY <2>3 DEF S
<1>7. s \in [0..n -> Nat]
  <2> HIDE DEF s, n
  <2>1. s = [i \in 0..n |-> s[i]]
    BY <1>4
  <2> QED BY <1>6, <2>1
<1> QED BY <1>5, <1>7

\* Parameters lie one behind the other.
LEMMA SlotsGrow ==
  ASSUME NEW types \in Seq(Shorties), NEW i \in 0..Len(types), NEW j \in 0..Len(types), i <= j
  PROVE  SlotsUpTo(types)[i] <= SlotsUpTo(types)[j]
<1> DEFINE n == Len(types)
           s == SlotsUpTo(types)
           S == {k \in 0..n : i <= k => s[i] <= s[k]}
<1>0. n \in Nat /\ s \in [0..n -> Nat] /\ \A k \in 1..n : s[k] = s[k - 1] + SlotsOf(types[k])
  BY SlotsAre
<1> HIDE DEF s, n
<1>1. 0 \in S
  BY <1>0 DEF n
<1>2. ASSUME NEW k \in 0..(n - 1), k \in S PROVE k + 1 \in S
  <2>1. k + 1 \in 1..n /\ (k + 1) - 1 = k /\ i \in 0..n
    BY <1>0 DEF n
  <2>2. s[k + 1] = s[k] + SlotsOf(types[k + 1]) /\ s[k] \in Nat /\ s[i] \in Nat
    BY <1>0, <2>1
  <2>3. SlotsOf(types[k + 1]) \in Nat
    BY DEF SlotsOf
  <2>4. i <= k + 1 => s[i] <= s[k + 1]
    <3>1. CASE i = k + 1
      BY <2>2, <3>1, <2>3
    <3>2. CASE i <= k
      BY <1>2, <2>2, <2>3, <3>2
    <3> QED BY <1>0, <2>1, <3>1, <3>2
  <2> QED BY <1>0, <2>1, <2>4
<1>3. \A k \in 0..n : k \in S
  <2> HIDE DEF S
  <2> QED BY <1>0, <1>1, <1>2, UpTo
<1> QED BY <1>3 DEF n, s

\* Sequences of two, joined.
LEMMA TwoAndTwo ==
  ASSUME NEW v, NEW w, NEW c, NEW a
  PROVE  <<v, w>> \o <<c, a>> = <<v, w, c, a>>
<1> DEFINE S == {v, w, c, a}
<1>1. <<v, w>> \in Seq(S) /\ <<c, a>> \in Seq(S) /\ Len(<<v, w>>) = 2 /\ Len(<<c, a>>) = 2
  OBVIOUS
<1> DEFINE p == <<v, w>> \o <<c, a>>
<1>2. p \in Seq(S) /\ Len(p) = 4 /\ \A i \in 1..4 : p[i] = IF i <= 2 THEN <<v, w>>[i] ELSE <<c, a>>[i - 2]
  BY <1>1, ConcatProperties
<1>3. p[1] = v /\ p[2] = w /\ p[3] = c /\ p[4] = a
  <2> HIDE DEF p
  <2> QED BY <1>2
<1> DEFINE q == <<v, w, c, a>>
<1>4. p = [i \in 1..4 |-> p[i]] /\ q = [i \in 1..4 |-> q[i]]
  <2> HIDE DEF p
  <2> QED BY <1>2
<1>5. \A i \in 1..4 : p[i] = q[i]
  <2> HIDE DEF p
  <2> QED BY <1>3
<1>6. p = q
  <2> HIDE DEF p, q
  <2> QED BY <1>4, <1>5
<1> QED BY <1>6

\* The code for one argument, of either kind.
PackLength(types, i) == IF types[i] \in Primitive THEN 4 ELSE 2
Place(types, i) == Parameter(SlotBefore(types, i))

LEMMA PackIs ==
  ASSUME NEW types \in Seq(Shorties), NEW i \in 1..Len(types), NEW n, n = PackLength(types, i)
  PROVE  /\ n \in {2, 4} /\ (n = 4 <=> types[i] \in Primitive)
         /\ PackArgument(types, i) \in Seq({PackArgument(types, i)[j] : j \in 1..n})
         /\ Len(PackArgument(types, i)) = n
         /\ PackArgument(types, i)[n - 1] = Const(tmp, i - 1)
         /\ PackArgument(types, i)[n] = Code("aput-object", Field(Place(types, i)), hook_params_array, tmp)
         /\ n = 4 => /\ PackArgument(types, i)[1] = Code("valueOf", Arguments(types[i], Place(types, i)), 0, types[i])
                     /\ PackArgument(types, i)[2] = Code("move-result-object", Field(Place(types, i)), 0, 0)
<1> DEFINE r == Place(types, i)
           p == PackArgument(types, i)
           v == Code("valueOf", Arguments(types[i], r), 0, types[i])
           w == Code("move-result-object", Field(r), 0, 0)
           c == Const(tmp, i - 1)
           a == Code("aput-object", Field(r), hook_params_array, tmp)
<1>1. p = Box(types[i], r) \o <<c, a>>
  BY DEF PackArgument, Place
<1>2. Box(types[i], r) = IF types[i] \in Primitive THEN <<v, w>> ELSE <<>>
  BY DEF Box
<1> HIDE DEF v, w, c, a, p, r
<1> DEFINE Goal == /\ n \in {2, 4} /\ (n = 4 <=> types[i] \in Primitive)
                   /\ p \in Seq({p[j] : j \in 1..n}) /\ Len(p) = n /\ p[n - 1] = c /\ p[n] = a
                   /\ n = 4 => p[1] = v /\ p[2] = w
<1>3. ASSUME types[i] \in Primitive PROVE Goal
  <2>1. p = <<v, w>> \o <<c, a>> /\ n = 4
    BY <1>1, <1>2, <1>3 DEF PackLength
  <2>2. p = <<v, w, c, a>>
    BY <2>1, TwoAndTwo
  <2>3. Len(p) = 4 /\ p[1] = v /\ p[2] = w /\ p[3] = c /\ p[4] = a
    BY <2>2
  <2>4. p \in Seq({p[j] : j \in 1..4})
    <3>1. p = [j \in 1..4 |-> p[j]]
      BY <2>2
    <3> QED BY <3>1
  <2>5. p \in Seq({p[j] : j \in 1..n}) /\ Len(p) = n /\ p[n - 1] = c /\ p[n] = a /\ p[1] = v /\ p[2] = w
    BY <2>1, <2>3, <2>4
  <2> QED BY <1>3, <2>1, <2>5
<1>4. ASSUME types[i] \notin Primitive PROVE Goal
  <2>1. p = <<>> \o <<c, a>> /\ n = 2
    BY <1>1, <1>2, <1>4 DEF PackLength
  <2>2. p = <<c, a>>
    BY <2>1
  <2>3. Len(p) = 2 /\ p[1] = c /\ p[2] = a
    BY <2>2
  <2>4. p \in Seq({p[j] : j \in 1..2})
    <3>1. p = [j \in 1..2 |-> p[j]]
      BY <2>2
    <3> QED BY <3>1
  <2>5. p \in Seq({p[j] : j \in 1..n}) /\ Len(p) = n /\ p[n - 1] = c /\ p[n] = a
    BY <2>1, <2>3, <2>4
  <2> QED BY <1>4, <2>1, <2>5
<1>5. Goal
  BY <1>3, <1>4
<1> QED BY <1>5, Zenon DEF v, w, c, a, p, r

\* The instructions of all the arguments.
OpsOf(types) == UNION {{PackArgument(types, i)[j] : j \in 1..PackLength(types, i)} : i \in 1..Len(types)}

LEMMA PackOps ==
  ASSUME NEW types \in Seq(Shorties), NEW i \in 1..Len(types)
  PROVE  PackArgument(types, i) \in Seq(OpsOf(types))
<1> DEFINE p == PackArgument(types, i)
           n == PackLength(types, i)
<1>1. p \in Seq({p[j] : j \in 1..n}) /\ Len(p) = n /\ n \in {2, 4}
  BY PackIs, Zenon
<1>2. \A j \in 1..n : p[j] \in OpsOf(types)
  <2> HIDE DEF p, n
  <2> QED BY DEF OpsOf, p, n
<1>3. p = [j \in 1..n |-> p[j]]
  <2> HIDE DEF p, n
  <2> QED BY <1>1
<1> HIDE DEF p, n
<1> QED BY <1>1, <1>2, <1>3 DEF p

\* What the recursive definition of the packing says.
LEMMA PackingAre ==
  ASSUME NEW types \in Seq(Shorties)
  PROVE  /\ Packing(types) \in [0..Len(types) -> Seq(OpsOf(types))]
         /\ Packing(types)[0] = <<>>
         /\ \A i \in 1..Len(types) : Packing(types)[i] = Packing(types)[i - 1] \o PackArgument(types, i)
<1> DEFINE n == Len(types)
           V == Seq(OpsOf(types))
           F == [r \in (1..n) \X V |-> r[2] \o PackArgument(types, r[1])]
           Body(f) == [i \in 0..n |-> IF i = 0 THEN <<>> ELSE f[i - 1] \o PackArgument(types, i)]
           s == Packing(types)
<1>0. n \in Nat
  OBVIOUS
<1>a. <<>> \in V
  OBVIOUS
<1>1. F \in [(1..n) \X V -> V]
  <2>1. ASSUME NEW i \in 1..n, NEW q \in V PROVE q \o PackArgument(types, i) \in V
    BY PackOps, ConcatProperties
  <2> HIDE DEF n, V
  <2> QED BY <2>1
<1>2. PICK f \in [0..n -> V] : f[0] = <<>> /\ \A k \in 1..n : f[k] = F[<<k, f[k - 1]>>]
  <2> HIDE DEF F, n, V
  <2>1. Continued(n, V, <<>>, F)
    BY <1>0, <1>a, <1>1, Recursion, Zenon
  <2> QED BY <2>1 DEF Continued
<1>3. f = Body(f)
  <2> HIDE DEF n, V
  <2>1. ASSUME NEW k \in 1..n PROVE f[k] = f[k - 1] \o PackArgument(types, k)
    <3>1. <<k, f[k - 1]>> \in (1..n) \X V
      BY <1>0, <1>2
    <3> QED BY <1>2, <3>1
  <2>2. \A k \in 0..n : f[k] = Body(f)[k]
    BY <1>0, <1>2, <2>1
  <2>3. f = [i \in 0..n |-> f[i]]
    BY <1>2
  <2> HIDE DEF Body
  <2>4. DOMAIN Body(f) = 0..n /\ Body(f) = [i \in 0..n |-> Body(f)[i]]
    BY DEF Body
  <2> QED BY <2>2, <2>3, <2>4
<1>4. s = Body(s)
  <2>1. s = CHOOSE g : g = Body(g)
    BY DEF Packing
  <2> HIDE DEF Body, s
  <2> QED BY <1>3, <2>1
<1>5. s[0] = <<>> /\ \A i \in 1..n : s[i] = s[i - 1] \o PackArgument(types, i)
  <2> HIDE DEF s, n
  <2>1. \A i \in 0..n : s[i] = IF i = 0 THEN <<>> ELSE s[i - 1] \o PackArgument(types, i)
    BY <1>4
  <2>2. 0 \in 0..n /\ \A i \in 1..n : i \in 0..n /\ i # 0
    BY <1>0
  <2> QED BY <2>1, <2>2
<1>6. \A k \in 0..n : k \in {j \in 0..n : s[j] \in V}
  <2> DEFINE S == {j \in 0..n : s[j] \in V}
  <2>1. 0 \in S
    <3> HIDE DEF s, n, V
    <3> QED BY <1>0, <1>a, <1>5
  <2>2. ASSUME NEW k \in 0..(n - 1), k \in S PROVE k + 1 \in S
    <3>0. k + 1 \in 1..n /\ (k + 1) - 1 = k
      BY <1>0
    <3>1. s[k + 1] = s[k] \o PackArgument(types, k + 1)
      <4> HIDE DEF s, n
      <4> QED BY <1>5, <3>0
    <3>2. s[k] \in V /\ PackArgument(types, k + 1) \in V
      BY <2>2, <3>0, PackOps
    <3>3. s[k + 1] \in V
      <4> HIDE DEF s
      <4> QED BY <3>1, <3>2, ConcatProperties
    <3> HIDE DEF s, n, V
    <3> QED BY <1>0, <3>0, <3>3
  <2> HIDE DEF S
  <2>3. \A k \in 0..n : k \in S
    <3> HIDE DEF n
    <3> QED BY <1>0, <2>1, <2>2, UpTo
  <2> QED BY <2>3 DEF S
<1>7. s \in [0..n -> V]
  <2> HIDE DEF s, n, V
  <2>1. s = [i \in 0..n |-> s[i]]
    BY <1>4
  <2> QED BY <1>6, <2>1
<1> QED BY <1>5, <1>7

\* How many instructions come before those of the i-th argument.
Begin(types, i) == 2 + Len(Packing(types)[i - 1])

LEMMA Begins ==
  ASSUME NEW types \in Seq(Shorties)
  PROVE  /\ Begin(types, 1) = 2
         /\ \A i \in 1..(Len(types) + 1) : Begin(types, i) \in Nat /\ Packing(types)[i - 1] \in Seq(OpsOf(types))
         /\ \A i \in 1..Len(types) : Begin(types, i + 1) = Begin(types, i) + PackLength(types, i)
<1> DEFINE n == Len(types)
           s == Packing(types)
           V == OpsOf(types)
<1>0. n \in Nat
  OBVIOUS
<1>1. s \in [0..n -> Seq(V)] /\ s[0] = <<>> /\ \A i \in 1..n : s[i] = s[i - 1] \o PackArgument(types, i)
  BY PackingAre
<1> HIDE DEF n, s, V
<1>2. Begin(types, 1) = 2
  BY <1>1 DEF Begin, s
<1>3. ASSUME NEW i \in 1..(n + 1) PROVE Begin(types, i) \in Nat /\ s[i - 1] \in Seq(V)
  <2>1. i - 1 \in 0..n
    BY <1>0
  <2>2. s[i - 1] \in Seq(V)
    BY <1>1, <2>1
  <2> QED BY <2>2 DEF Begin, s
<1>4. ASSUME NEW i \in 1..n PROVE Begin(types, i + 1) = Begin(types, i) + PackLength(types, i)
  <2>1. i - 1 \in 0..n /\ (i + 1) - 1 = i
    BY <1>0
  <2>2. PackArgument(types, i) \in Seq(V)
    BY PackOps DEF V, n
  <2>3. Len(PackArgument(types, i)) = PackLength(types, i)
    BY PackIs, Zenon DEF n
  <2>4. s[i] = s[i - 1] \o PackArgument(types, i) /\ s[i - 1] \in Seq(V)
    BY <1>1, <2>1
  <2>5. Len(s[i]) = Len(s[i - 1]) + Len(PackArgument(types, i))
    BY <2>2, <2>4, ConcatProperties
  <2>6. Len(s[i - 1]) \in Nat /\ PackLength(types, i) \in Nat
    BY <2>4 DEF PackLength
  <2>7. Begin(types, i + 1) = 2 + Len(s[i]) /\ Begin(types, i) = 2 + Len(s[i - 1])
    BY <2>1 DEF Begin, s
  <2> QED BY <2>3, <2>5, <2>6, <2>7
<1> QED BY <1>2, <1>3, <1>4 DEF n, s, V

\* The instructions for each argument are where they begin, and stay there.
LEMMA PackedAt ==
  ASSUME NEW types \in Seq(Shorties), NEW k \in 0..Len(types), NEW i \in 1..k, NEW j \in 1..PackLength(types, i)
  PROVE  /\ Len(Packing(types)[i - 1]) + j \in 1..Len(Packing(types)[k])
         /\ Packing(types)[k][Len(Packing(types)[i - 1]) + j] = PackArgument(types, i)[j]
<1> DEFINE n == Len(types)
           s == Packing(types)
           V == OpsOf(types)
           at1 == Len(s[i - 1]) + j
           S == {q \in 0..n : i <= q => at1 \in 1..Len(s[q]) /\ s[q][at1] = PackArgument(types, i)[j]}
<1>0. n \in Nat /\ i \in 1..n /\ k \in 0..n
  OBVIOUS
<1>1. s \in [0..n -> Seq(V)] /\ s[0] = <<>> /\ \A q \in 1..n : s[q] = s[q - 1] \o PackArgument(types, q)
  BY PackingAre
<1>2. \A q \in 1..n : PackArgument(types, q) \in Seq(V) /\ PackLength(types, q) \in {2, 4}
                        /\ Len(PackArgument(types, q)) = PackLength(types, q)
  <2> SUFFICES ASSUME NEW q \in 1..n PROVE PackArgument(types, q) \in Seq(V) /\ PackLength(types, q) \in {2, 4}
                        /\ Len(PackArgument(types, q)) = PackLength(types, q)
    OBVIOUS
  <2>1. PackArgument(types, q) \in Seq(V)
    BY PackOps
  <2>2. PackLength(types, q) \in {2, 4} /\ Len(PackArgument(types, q)) = PackLength(types, q)
    BY PackIs, Zenon
  <2> QED BY <2>1, <2>2
<1> HIDE DEF n, s, V
<1>3. 0 \in S
  BY <1>0
<1>4. ASSUME NEW q \in 0..(n - 1), q \in S PROVE q + 1 \in S
  <2>1. q + 1 \in 1..n /\ (q + 1) - 1 = q /\ q \in 0..n /\ i - 1 \in 0..n
    BY <1>0
  <2> DEFINE p == PackArgument(types, q + 1)
             t == s[q]
  <2>2. t \in Seq(V) /\ p \in Seq(V) /\ s[q + 1] = t \o p /\ Len(p) = PackLength(types, q + 1)
    BY <1>1, <1>2, <2>1
  <2> HIDE DEF p, t
  <2>3. /\ Len(t \o p) = Len(t) + Len(p)
        /\ \A x \in 1..(Len(t) + Len(p)) : (t \o p)[x] = IF x <= Len(t) THEN t[x] ELSE p[x - Len(t)]
    BY <2>2, ConcatProperties
  <2>4. Len(t) \in Nat /\ Len(p) \in Nat
    BY <2>2
  <2>a. s[i - 1] \in Seq(V)
    BY <1>1, <2>1
  <2>5. Len(s[i - 1]) \in Nat
    BY <2>a
  <2>6. i <= q + 1 => at1 \in 1..Len(s[q + 1]) /\ s[q + 1][at1] = PackArgument(types, i)[j]
    <3>1. CASE i <= q
      <4>1. at1 \in 1..Len(t) /\ t[at1] = PackArgument(types, i)[j]
        BY <1>4, <3>1 DEF t
      <4> HIDE DEF at1
      <4> QED BY <2>2, <2>3, <2>4, <4>1
    <3>2. CASE i = q + 1
      <4>1. s[i - 1] = t /\ p = PackArgument(types, i) /\ j \in 1..Len(p)
        BY <2>1, <2>2, <3>2 DEF t, p
      <4>2. at1 = Len(t) + j
        BY <4>1
      <4> HIDE DEF at1
      <4> QED BY <2>2, <2>3, <2>4, <4>1, <4>2
    <3> QED BY <1>0, <2>1, <3>1, <3>2
  <2> HIDE DEF at1
  <2> QED BY <2>1, <2>6
<1>5. \A q \in 0..n : q \in S
  <2> HIDE DEF S
  <2> QED BY <1>0, <1>3, <1>4, UpTo
<1> QED BY <1>0, <1>5 DEF n, s

\* A list is one of its own elements.
ListOfOwn(r) == r \in Seq({r[j] : j \in 1..Len(r)})

\* The instructions that return a value of each type.
Returning(t, r) ==
  /\ t = "V" => Len(r) = 1 /\ r[1] = Code("return-void", 0, 0, 0)
  /\ t = "L" => Len(r) = 2 /\ r[1] = Code("check-cast", tmp, 0, "L") /\ r[2] = Code("return-object", tmp, 0, 0)
  /\ t \in Primitive =>
       /\ Len(r) = 4 /\ r[1] = Code("check-cast", tmp, 0, t) /\ r[2] = Code("unbox", tmp, 0, t)
       /\ t \in Wide => r[3] = Code("move-result-wide", tmp, 0, 0) /\ r[4] = Code("return-wide", tmp, 0, 0)
       /\ t \notin Wide => r[3] = Code("move-result", tmp, 0, 0) /\ r[4] = Code("return", tmp, 0, 0)

\* What follows the callback.
LEMMA ReturnIs ==
  ASSUME NEW t \in Shorties \cup {"V"}
  PROVE  ListOfOwn(ReturnResultAs(t)) /\ Returning(t, ReturnResultAs(t))
<1> DEFINE r == ReturnResultAs(t)
           v == Code("return-void", 0, 0, 0)
           c == Code("check-cast", tmp, 0, t)
           l == Code("check-cast", tmp, 0, "L")
           o == Code("return-object", tmp, 0, 0)
           u == Code("unbox", tmp, 0, t)
           m == Code("move-result", tmp, 0, 0)
           w == Code("move-result-wide", tmp, 0, 0)
           x == Code("return", tmp, 0, 0)
           y == Code("return-wide", tmp, 0, 0)
           Goal == ListOfOwn(r) /\ Returning(t, r)
<1>1. /\ t = "V" => r = <<v>>
      /\ t = "L" => r = <<l, o>>
      /\ t \in Primitive \ Wide => r = <<c, u, m, x>>
      /\ t \in Wide => r = <<c, u, w, y>>
  <2>1. "V" \notin Primitive /\ "L" \notin Primitive /\ Wide \subseteq Primitive /\ "V" # "L"
    BY DEF Primitive, Wide
  <2>2. t = "V" => ReturnResultAs(t) = <<v>>
    BY <2>1, Zenon DEF ReturnResultAs
  <2>3. t = "L" => ReturnResultAs(t) = <<l, o>>
    BY <2>1, Zenon DEF ReturnResultAs
  <2>4. t \in Primitive \ Wide => ReturnResultAs(t) = <<c, u, m, x>>
    BY <2>1, Zenon DEF ReturnResultAs
  <2>5. t \in Wide => ReturnResultAs(t) = <<c, u, w, y>>
    BY <2>1, Zenon DEF ReturnResultAs
  <2> HIDE DEF v, c, l, o, u, m, w, x, y
  <2> QED BY <2>2, <2>3, <2>4, <2>5, Zenon
<1>2. t = "V" \/ t = "L" \/ t \in Primitive \ Wide \/ t \in Wide
  BY DEF Shorties, Primitive
<1> HIDE DEF r, v, c, l, o, u, m, w, x, y
<1>3. t \in Wide => t \in Primitive
  BY DEF Primitive
<1>4. "V" \notin Primitive /\ "L" \notin Primitive
  BY DEF Primitive, Wide
<1>5. ASSUME t = "V" PROVE Goal
  <2>1. r = <<v>>
    BY <1>1, <1>5, Zenon
  <2>2. Len(r) = 1 /\ r[1] = v /\ r = [j \in 1..1 |-> r[j]]
    BY <2>1
  <2>3. ListOfOwn(r)
    BY <2>2 DEF ListOfOwn
  <2> QED BY <1>4, <1>5, <2>2, <2>3, Zenon DEF Returning, v
<1>6. ASSUME t = "L" PROVE Goal
  <2>1. r = <<l, o>>
    BY <1>1, <1>6, Zenon
  <2>2. Len(r) = 2 /\ r[1] = l /\ r[2] = o /\ r = [j \in 1..2 |-> r[j]]
    BY <2>1
  <2>3. ListOfOwn(r)
    BY <2>2 DEF ListOfOwn
  <2> QED BY <1>4, <1>6, <2>2, <2>3, Zenon DEF Returning, l, o
<1>7. ASSUME t \in Primitive \ Wide PROVE Goal
  <2>0. t \in Primitive /\ t \notin Wide /\ t # "V" /\ t # "L"
    BY <1>4, <1>7, Zenon
  <2>1. r = <<c, u, m, x>>
    BY <1>1, <1>7, Zenon
  <2>2. Len(r) = 4 /\ r[1] = c /\ r[2] = u /\ r[3] = m /\ r[4] = x /\ r = [j \in 1..4 |-> r[j]]
    BY <2>1
  <2>3. ListOfOwn(r)
    BY <2>2 DEF ListOfOwn
  <2> QED BY <2>0, <2>2, <2>3, Zenon DEF Returning, c, u, m, x
<1>8. ASSUME t \in Wide PROVE Goal
  <2>0. t \in Primitive /\ t # "V" /\ t # "L"
    BY <1>3, <1>4, <1>8, Zenon
  <2>1. r = <<c, u, w, y>>
    BY <1>1, <1>8, Zenon
  <2>2. Len(r) = 4 /\ r[1] = c /\ r[2] = u /\ r[3] = w /\ r[4] = y /\ r = [j \in 1..4 |-> r[j]]
    BY <2>1
  <2>3. ListOfOwn(r)
    BY <2>2 DEF ListOfOwn
  <2> QED BY <1>8, <2>0, <2>2, <2>3, Zenon DEF Returning, c, u, w, y
<1> QED BY <1>2, <1>5, <1>6, <1>7, <1>8, Zenon DEF r

\* Four pieces in a row.
Joins(z, p, q, r, s) ==
  /\ \A i \in 1..Len(p) : z[i] = p[i]
  /\ \A i \in 1..Len(q) : z[Len(p) + i] = q[i]
  /\ \A i \in 1..Len(r) : z[Len(p) + Len(q) + i] = r[i]
  /\ \A i \in 1..Len(s) : z[Len(p) + Len(q) + Len(r) + i] = s[i]

LEMMA InARow ==
  ASSUME NEW V, NEW p \in Seq(V), NEW q \in Seq(V), NEW r \in Seq(V), NEW s \in Seq(V)
  PROVE  Joins(p \o q \o r \o s, p, q, r, s)
<1> DEFINE x == p \o q
           y == x \o r
           z == y \o s
<1>0. Len(p) \in Nat /\ Len(q) \in Nat /\ Len(r) \in Nat /\ Len(s) \in Nat
  OBVIOUS
<1>1. /\ x \in Seq(V) /\ Len(x) = Len(p) + Len(q)
      /\ \A i \in 1..(Len(p) + Len(q)) : x[i] = IF i <= Len(p) THEN p[i] ELSE q[i - Len(p)]
  BY ConcatProperties
<1> HIDE DEF x
<1>2. /\ y \in Seq(V) /\ Len(y) = Len(x) + Len(r)
      /\ \A i \in 1..(Len(x) + Len(r)) : y[i] = IF i <= Len(x) THEN x[i] ELSE r[i - Len(x)]
  BY <1>1, ConcatProperties
<1> HIDE DEF y
<1>3. /\ z \in Seq(V) /\ Len(z) = Len(y) + Len(s)
      /\ \A i \in 1..(Len(y) + Len(s)) : z[i] = IF i <= Len(y) THEN y[i] ELSE s[i - Len(y)]
  <2>1. y \in Seq(V)
    BY <1>2
  <2> QED BY <2>1, ConcatProperties
<1> HIDE DEF z
<1>4. \A i \in 1..Len(p) : z[i] = p[i]
  BY <1>0, <1>1, <1>2, <1>3
<1>5. \A i \in 1..Len(q) : z[Len(p) + i] = q[i]
  BY <1>0, <1>1, <1>2, <1>3
<1>6. \A i \in 1..Len(r) : z[Len(p) + Len(q) + i] = r[i]
  BY <1>0, <1>1, <1>2, <1>3
<1>7. ASSUME NEW i \in 1..Len(s) PROVE z[Len(p) + Len(q) + Len(r) + i] = s[i]
  <2>1. Len(y) = Len(p) + Len(q) + Len(r) /\ Len(y) \in Nat
    BY <1>0, <1>1, <1>2
  <2>2. Len(y) + i \in 1..(Len(y) + Len(s)) /\ ~(Len(y) + i <= Len(y)) /\ (Len(y) + i) - Len(y) = i
    BY <1>0, <2>1
  <2> QED BY <1>3, <2>1, <2>2
<1> QED BY <1>4, <1>5, <1>6, <1>7 DEF x, y, z, Joins

\* How many instructions come before those that call.
Head1(m) == Begin(ParameterTypes(m), Len(ParameterTypes(m)) + 1)

\* Where each instruction of the generated method is.
LEMMA Layout ==
  ASSUME NEW m \in Methods
  PROVE  /\ Head1(m) \in Nat
         /\ BuildDex(m)[1] = Const(tmp, Len(ParameterTypes(m)))
         /\ BuildDex(m)[2] = Code("new-array", hook_params_array, tmp, 0)
         /\ \A i \in 1..Len(ParameterTypes(m)) : \A j \in 1..PackLength(ParameterTypes(m), i) :
              BuildDex(m)[Begin(ParameterTypes(m), i) + j] = PackArgument(ParameterTypes(m), i)[j]
         /\ BuildDex(m)[Head1(m) + 1] = Code("sget-object", tmp, 0, 0)
         /\ BuildDex(m)[Head1(m) + 2] = Code("callback", tmp, hook_params_array, 0)
         /\ BuildDex(m)[Head1(m) + 3] = Code("move-result-object", tmp, 0, 0)
         /\ \A j \in 1..Len(ReturnResultAs(m.ret)) : BuildDex(m)[Head1(m) + 3 + j] = ReturnResultAs(m.ret)[j]
<1> DEFINE types == ParameterTypes(m)
           n == Len(types)
           q == Packing(types)[n]
           s == ReturnResultAs(m.ret)
           a == Const(tmp, n)
           b == Code("new-array", hook_params_array, tmp, 0)
           c == Code("sget-object", tmp, 0, 0)
           d == Code("callback", tmp, hook_params_array, 0)
           e == Code("move-result-object", tmp, 0, 0)
           p == <<a, b>>
           r == <<c, d, e>>
           V == {a, b, c, d, e} \cup OpsOf(types) \cup {s[j] : j \in 1..Len(s)}
           C == BuildDex(m)
<1>0. types \in Seq(Shorties) /\ m.ret \in Shorties \cup {"V"}
  BY TypesKnown
<1>1. types \in Seq(Shorties) /\ m.ret \in Shorties \cup {"V"} /\ n \in Nat
  BY <1>0
<1>2. C = p \o q \o r \o s
  BY DEF BuildDex
<1>3. q \in Seq(OpsOf(types)) /\ Head1(m) = 2 + Len(q) /\ Len(q) \in Nat
  <2>1. Packing(types)[(n + 1) - 1] \in Seq(OpsOf(types)) /\ n + 1 \in 1..(n + 1) /\ (n + 1) - 1 = n
    BY <1>1, Begins
  <2>2. q \in Seq(OpsOf(types)) /\ Head1(m) = 2 + Len(q)
    BY <2>1 DEF Head1, Begin
  <2> QED BY <2>2
<1>4. s \in Seq({s[j] : j \in 1..Len(s)})
  <2>1. ListOfOwn(ReturnResultAs(m.ret))
    BY <1>1, ReturnIs
  <2> QED BY <2>1 DEF ListOfOwn
<1> HIDE DEF types, q, s, a, b, c, d, e, C, n
<1>5. p \in Seq(V) /\ q \in Seq(V) /\ r \in Seq(V) /\ s \in Seq(V) /\ Len(p) = 2 /\ Len(r) = 3
      /\ p[1] = a /\ p[2] = b /\ r[1] = c /\ r[2] = d /\ r[3] = e
  <2>1. p \in Seq(V) /\ r \in Seq(V)
    OBVIOUS
  <2>2. q \in Seq(V)
    BY <1>3
  <2>3. s \in Seq(V)
    BY <1>4
  <2> QED BY <2>1, <2>2, <2>3
<1> HIDE DEF p, r, V
<1>6. /\ \A i \in 1..2 : C[i] = p[i]
      /\ \A i \in 1..Len(q) : C[2 + i] = q[i]
      /\ \A i \in 1..3 : C[2 + Len(q) + i] = r[i]
      /\ \A i \in 1..Len(s) : C[2 + Len(q) + 3 + i] = s[i]
  <2>1. Joins(p \o q \o r \o s, p, q, r, s)
    BY <1>5, InARow, Zenon
  <2> QED BY <1>2, <1>5, <2>1, Zenon DEF Joins
<1>7. /\ C[1] = a /\ C[2] = b
      /\ C[Head1(m) + 1] = c /\ C[Head1(m) + 2] = d /\ C[Head1(m) + 3] = e
      /\ \A j \in 1..Len(s) : C[Head1(m) + 3 + j] = s[j]
  BY <1>3, <1>5, <1>6
<1>8. ASSUME NEW i \in 1..n, NEW j \in 1..PackLength(types, i)
      PROVE  C[Begin(types, i) + j] = PackArgument(types, i)[j]
  <2> DEFINE x == Len(Packing(types)[i - 1])
  <2>a. n \in 0..n
    BY <1>1
  <2>b. /\ x + j \in 1..Len(Packing(types)[n])
        /\ Packing(types)[n][x + j] = PackArgument(types, i)[j]
    BY <1>1, <2>a, PackedAt DEF n
  <2>1. x + j \in 1..Len(q) /\ q[x + j] = PackArgument(types, i)[j] /\ Begin(types, i) = 2 + x
    BY <2>b DEF q, Begin
  <2>2. x \in Nat
    <3>1. Packing(types)[i - 1] \in Seq(OpsOf(types))
      BY <1>1, Begins DEF n
    <3> QED BY <3>1
  <2>3. j \in Nat /\ Begin(types, i) + j = 2 + (x + j)
    <3>1. j \in Nat
      BY DEF PackLength
    <3> HIDE DEF x
    <3> QED BY <2>1, <2>2, <3>1
  <2> HIDE DEF x
  <2> QED BY <1>6, <2>1, <2>3
<1>9. Head1(m) \in Nat
  BY <1>3
<1> QED BY <1>7, <1>8, <1>9, Zenon DEF types, n, a, b, c, d, e, s, C

-----------------------------------------------------------------------------
(* What a step of the generated method does, by the instruction *)

LEMMA Enabled ==
  ASSUME HookedNext
  PROVE  seen = Running /\ Accepted(Now) /\ method' = method
BY DEF HookedNext, Execute, RunCallback, CallbackEnds, CheckCast, Unbox, Return, At, GoOn, Put, Throw, hookerVars, frame

LEMMA DoesConst ==
  ASSUME HookedNext, Now.op = "const"
  PROVE  /\ at' = at + 1 /\ seen' = seen /\ regs' = [regs EXCEPT ![Now.a] = Word("const", Now.b, 0)]
         /\ UNCHANGED <<packed, result, vars>>
BY DEF HookedNext, Execute, RunCallback, CallbackEnds, CheckCast, Unbox, Return, At, GoOn, Put, Throw

LEMMA DoesNewArray ==
  ASSUME HookedNext, Now.op = "new-array"
  PROVE  /\ at' = at + 1 /\ seen' = seen /\ regs' = [regs EXCEPT ![Now.a] = Array]
         /\ packed' = [k \in 1 .. Reg(Now.b).of |-> Null] /\ UNCHANGED <<result, vars>>
BY DEF HookedNext, Execute, RunCallback, CallbackEnds, CheckCast, Unbox, Return, At, GoOn, Put, Throw

LEMMA DoesValueOf ==
  ASSUME HookedNext, Now.op = "valueOf"
  PROVE  /\ at' = at + 1 /\ seen' = seen /\ result' = Object(Reg(Now.a[1]).of)
         /\ UNCHANGED <<regs, packed, vars>>
BY DEF HookedNext, Execute, RunCallback, CallbackEnds, CheckCast, Unbox, Return, At, GoOn, Put, Throw

LEMMA DoesAput ==
  ASSUME HookedNext, Now.op = "aput-object"
  PROVE  /\ at' = at + 1 /\ seen' = seen /\ packed' = [packed EXCEPT ![Reg(Now.c).of + 1] = Reg(Now.a).of]
         /\ UNCHANGED <<regs, result, vars>>
BY DEF HookedNext, Execute, RunCallback, CallbackEnds, CheckCast, Unbox, Return, At, GoOn, Put, Throw

LEMMA DoesSget ==
  ASSUME HookedNext, Now.op = "sget-object"
  PROVE  /\ at' = at + 1 /\ seen' = seen /\ regs' = [regs EXCEPT ![Now.a] = Hooker]
         /\ UNCHANGED <<packed, result, vars>>
BY DEF HookedNext, Execute, RunCallback, CallbackEnds, CheckCast, Unbox, Return, At, GoOn, Put, Throw

LEMMA DoesMoveResult ==
  ASSUME HookedNext, Now.op \in {"move-result-object", "move-result"}
  PROVE  /\ at' = at + 1 /\ seen' = seen /\ regs' = [regs EXCEPT ![Now.a] = result]
         /\ UNCHANGED <<packed, result, vars>>
BY DEF HookedNext, Execute, RunCallback, CallbackEnds, CheckCast, Unbox, Return, At, GoOn, Put, Throw

LEMMA DoesMoveResultWide ==
  ASSUME HookedNext, Now.op = "move-result-wide"
  PROVE  /\ at' = at + 1 /\ seen' = seen
         /\ regs' = [regs EXCEPT ![Now.a] = result, ![Now.a + 1] = [result EXCEPT !.half = 1]]
         /\ UNCHANGED <<packed, result, vars>>
BY DEF HookedNext, Execute, RunCallback, CallbackEnds, CheckCast, Unbox, Return, At, GoOn, Put, Throw

LEMMA DoesCallback ==
  ASSUME HookedNext, Now.op = "callback"
  PROVE  /\ UNCHANGED <<regs, packed>>
         /\ \/ pc # "done" /\ Next /\ UNCHANGED <<at, result, seen>>
            \/ pc = "done" /\ returned.throwable # Null /\ seen' = returned /\ UNCHANGED <<at, result, vars>>
            \/ /\ pc = "done" /\ returned.throwable = Null /\ at' = at + 1 /\ seen' = seen
               /\ result' = Object(returned.result) /\ UNCHANGED vars
BY DEF HookedNext, Execute, RunCallback, CallbackEnds, CheckCast, Unbox, Return, At, GoOn, Put, Throw, hookerVars, frame

LEMMA DoesCheckCast ==
  ASSUME HookedNext, Now.op = "check-cast"
  PROVE  /\ UNCHANGED <<regs, packed, result, vars>>
         /\ IF Reg(Now.a).of = Null \/ Now.c = "L" \/ BoxOf[Reg(Now.a).of] = Now.c
            THEN at' = at + 1 /\ seen' = seen ELSE seen' = Ending(Null, CastError) /\ at' = at
BY DEF HookedNext, Execute, RunCallback, CallbackEnds, CheckCast, Unbox, Return, At, GoOn, Put, Throw

LEMMA DoesUnbox ==
  ASSUME HookedNext, Now.op = "unbox"
  PROVE  /\ UNCHANGED <<regs, packed, vars>>
         /\ IF Reg(Now.a).of = Null THEN seen' = Ending(Null, NullError) /\ UNCHANGED <<at, result>>
            ELSE at' = at + 1 /\ seen' = seen /\ result' = Word(Now.c, Reg(Now.a).of, 0)
BY DEF HookedNext, Execute, RunCallback, CallbackEnds, CheckCast, Unbox, Return, At, GoOn, Put, Throw

LEMMA DoesReturn ==
  ASSUME HookedNext, Now.op \in {"return", "return-wide", "return-object", "return-void"}
  PROVE  /\ seen' = Ending(IF Now.op = "return-void" THEN Null ELSE Reg(Now.a).of, Null)
         /\ UNCHANGED <<at, regs, packed, result, vars>>
BY DEF HookedNext, Execute, RunCallback, CallbackEnds, CheckCast, Unbox, Return, At, GoOn, Put, Throw

\* Every step of the whole keeps or makes a step of HookCallback.
LEMMA InnerStep ==
  ASSUME [HookedNext]_<<hookerVars, vars>>
  PROVE  [Next]_vars /\ method' = method
BY DEF HookedNext, Execute, RunCallback, CallbackEnds, CheckCast, Unbox, Return, At, GoOn, Put, Throw, hookerVars, frame

-----------------------------------------------------------------------------
(* What the caller sees *)

\* The snapshot is empty, or invoking the original failed: its ending is the
\* call's, without a cast.
Passed == pc = "done" /\ (hookCount = 0 \/ InvokeFailed) => returned = orig.ending

LEMMA ChoicesStay == [Next]_vars => UNCHANGED choices
BY DEF Next, TakeSnapshot, BackupOnly, RunBefore, BeforeTurn, InvokeOriginal, OriginalThenAfters,
       RunAfter, AfterTurn, ReturnResult, vars

LEMMA PassedStep == IInv /\ Passed /\ [Next]_vars => Passed'
<1> SUFFICES ASSUME IInv, Passed, [Next]_vars PROVE Passed'
  OBVIOUS
<1>1. UNCHANGED choices
  BY ChoicesStay
<1>2. InvokeFailed' = InvokeFailed /\ hookCount' = hookCount /\ orig' = orig
  BY <1>1 DEF choices, InvokeFailed, Hooks
<1>3. Shape /\ hookCount \in Nat
  BY HooksAssumption DEF IInv, TypeOK
<1>4. CASE TakeSnapshot \/ RunBefore \/ RunAfter
  BY <1>4 DEF TakeSnapshot, RunBefore, BeforeTurn, RunAfter, AfterTurn, Passed
<1>5. CASE BackupOnly
  BY <1>2, <1>5 DEF BackupOnly, Passed
<1>6. CASE InvokeOriginal
  BY <1>2, <1>6 DEF InvokeOriginal, OriginalThenAfters, Passed
<1>7. CASE ReturnResult
  BY <1>2, <1>3, <1>7 DEF ReturnResult, Passed, Shape
<1>8. CASE UNCHANGED vars
  BY <1>2, <1>8 DEF vars, Passed
<1> QED BY <1>4, <1>5, <1>6, <1>7, <1>8 DEF Next

\* The onion of n callbacks b and a around the original o, and what an ending
\* means to the caller of a method that returns t.
Onion(n, b, a, o) ==
  IF o.fails /\ \A i \in 0..(n - 1) : ~Covers(b[i]) THEN o.ending
  ELSE (CHOOSE f \in [0..n -> Endings] :
          /\ f[n] = o.ending
          /\ \A i \in 0..(n - 1) : f[i] = Layer(a[i], Layer(b[i], f[i + 1])))[0]

Meaning(e, t) ==
  IF e.throwable # Null THEN e
  ELSE IF t = "V" THEN Ending(Null, Null)
  ELSE IF t = "L" THEN IF e.result \in WrongType THEN Ending(Null, CastError) ELSE e
  ELSE IF e.result = Null THEN Ending(Null, NullError)
  ELSE IF BoxOf[e.result] # t THEN Ending(Null, CastError) ELSE e

Expected == Meaning(Onion(hookCount, before, after, orig), method.ret)

LEMMA ExpectedIs == CallerSeesOnion <=> (seen # Running => seen = Expected)
<1>1. Onion(hookCount, before, after, orig)
        = IF InvokeFailed THEN orig.ending ELSE (CHOOSE o \in [0 .. hookCount -> Endings] : IsOnion(o))[0]
  BY DEF Onion, InvokeFailed, IsOnion, Hooks
<1>2. \A e : Translated(e) = Meaning(e, method.ret)
  BY DEF Translated, Meaning
<1> QED BY <1>1, <1>2 DEF CallerSeesOnion, Expected

LEMMA ExpectedStays == UNCHANGED choices /\ method' = method => Expected' = Expected
BY DEF Expected, choices

LEMMA EndingParts ==
  ASSUME NEW e \in Endings, e.throwable = Null
  PROVE  e = Ending(e.result, Null)
BY DataAssumption DEF Endings, Ending

LEMMA EndingIs == \A v, x : Ending(v, x).result = v /\ Ending(v, x).throwable = x
BY DEF Ending

\* When HookInfo.callback is done, what it returned tells the caller's view.
LEMMA ReturnedTells ==
  ASSUME IInv, Passed, pc = "done", Fitting(method), method \in Methods
  PROVE  /\ returned.throwable # Null => returned = Expected
         /\ returned.throwable = Null =>
              /\ method.ret = "V" => Expected = Ending(Null, Null)
              /\ method.ret = "L" => Expected = Ending(returned.result, Null)
              /\ method.ret \in Primitive =>
                   Expected = IF returned.result = Null THEN Ending(Null, NullError)
                              ELSE IF BoxOf[returned.result] # method.ret THEN Ending(Null, CastError)
                              ELSE Ending(returned.result, Null)
<1> DEFINE e == Onion(hookCount, before, after, orig)
           t == method.ret
<1>1. TypeOK /\ EndingIsOnion /\ Shape /\ hookCount \in Nat /\ orig.ending \in Endings
  BY OriginalFacts, HooksAssumption DEF IInv, TypeOK
<1>2. t \in Primitive \cup {"V", "L"} /\ "V" \notin Primitive /\ "L" \notin Primitive /\ hasReturnType = (t = "L")
  <2>1. t \in Shorties \cup {"V"}
    BY TypesKnown
  <2> QED BY <2>1 DEF Shorties, Primitive, Wide, Fitting
<1>3. InvokeFailed => e = orig.ending
  BY DEF Onion, InvokeFailed, Hooks
<1>4. ASSUME ~InvokeFailed PROVE \E o \in [0..hookCount -> Endings] : IsOnion(o) /\ e = o[0]
  <2>1. \E o \in [0..hookCount -> Endings] : IsOnion(o)
    BY <1>1, OnionExists
  <2>2. e = (CHOOSE o \in [0..hookCount -> Endings] : IsOnion(o))[0]
    BY <1>4 DEF Onion, InvokeFailed, IsOnion, Hooks
  <2> QED BY <2>1, <2>2
<1>5. e \in Endings
  BY <1>1, <1>3, <1>4
<1>6. hookCount = 0 \/ InvokeFailed => e = orig.ending /\ returned = e
  <2>1. hookCount = 0 /\ ~InvokeFailed => e = orig.ending
    BY <1>1, <1>4 DEF IsOnion
  <2> QED BY <1>3, <2>1 DEF Passed
<1>7. hookCount # 0 /\ ~InvokeFailed => returned = Cast(e)
  BY <1>1, <1>4 DEF EndingIsOnion
<1>8. InvokeFailed => e.throwable # Null
  BY <1>1, <1>3 DEF InvokeFailed, TypeOK, Originals
<1>9. Fitting(method) /\ t = "L" => orig.ending.result \notin WrongType
  BY DEF Fitting
<1>10. CASE e.throwable # Null
  <2>1. returned = e
    BY <1>6, <1>7, <1>10 DEF Cast
  <2> QED BY <1>10, <2>1 DEF Expected, Meaning
<1>11. CASE e.throwable = Null
  <2>1. e = Ending(e.result, Null)
    BY <1>5, <1>11, EndingParts
  <2>2. CASE t = "L" /\ e.result \in WrongType
    <3>1. returned = Ending(Null, CastError)
      BY <1>2, <1>6, <1>7, <1>8, <1>9, <1>11, <2>2 DEF Cast
    <3>2. Expected = Ending(Null, CastError)
      BY <1>2, <1>11, <2>2 DEF Expected, Meaning
    <3> QED BY <3>1, <3>2, EndingIs, DataAssumption
  <2>3. CASE ~(t = "L" /\ e.result \in WrongType)
    <3>1. returned = e
      BY <1>2, <1>6, <1>7, <2>3 DEF Cast
    <3> HIDE DEF e
    <3>2. t = "V" => Expected = Ending(Null, Null)
      BY <1>11 DEF Expected, Meaning, e
    <3>3. t = "L" => Expected = e
      BY <1>11, <2>3 DEF Expected, Meaning, e
    <3>4. t \in Primitive => Expected = IF e.result = Null THEN Ending(Null, NullError)
                              ELSE IF BoxOf[e.result] # t THEN Ending(Null, CastError) ELSE e
      BY <1>2, <1>11 DEF Expected, Meaning, e
    <3> QED BY <1>11, <2>1, <3>1, <3>2, <3>3, <3>4
  <2> QED BY <2>2, <2>3
<1> QED BY <1>10, <1>11

\* The places before the callback.
Early(m) ==
  {1, 2, Head1(m) + 1}
    \cup UNION {{Begin(ParameterTypes(m), i) + j : j \in 1..PackLength(ParameterTypes(m), i)} :
                  i \in 1..Len(ParameterTypes(m))}

EarlyOps == {"const", "new-array", "valueOf", "move-result-object", "aput-object", "sget-object"}

\* What has become of the callback's result before the k-th instruction that
\* follows it.
Carried(k) ==
  /\ k \in {1, 2} => regs[0] = Object(returned.result)
  /\ method.ret \in Primitive /\ k \in {2, 3, 4} =>
       returned.result = Null \/ BoxOf[returned.result] = method.ret
  /\ k \in {3, 4} => returned.result # Null
  /\ k = 3 => result = Word(method.ret, returned.result, 0)
  /\ k = 4 => /\ regs[0] = Word(method.ret, returned.result, 0)
              /\ method.ret \in Wide => regs[1] = Word(method.ret, returned.result, 1)

\* Where the generated method is: before the callback, at it, and behind it.
Before == pc = "snapshot" /\ at \in Early(method)
Behind ==
  /\ pc = "done" /\ returned.throwable = Null
  /\ \/ at = Head1(method) + 3 /\ result = Object(returned.result)
     \/ \E k \in 1..Len(ReturnResultAs(method.ret)) : at = Head1(method) + 3 + k /\ Carried(k)
Where ==
  /\ method \in Methods /\ Fitting(method) /\ DOMAIN regs = 0 .. Registers(method) - 1
  /\ Before \/ at = Head1(method) + 2 \/ Behind

LEMMA FrameHolds ==
  ASSUME NEW m \in Methods
  PROVE  Registers(m) \in Nat /\ {0, 1} \subseteq 0 .. Registers(m) - 1
<1>1. ParameterTypes(m) \in Seq(Shorties)
  BY TypesKnown
<1>2. Len(ParameterTypes(m)) \in 0..Len(ParameterTypes(m))
  BY <1>1
<1>3. Slots(ParameterTypes(m)) \in Nat
  BY <1>1, <1>2, SlotsAre DEF Slots
<1> QED BY <1>3 DEF Registers, NumRegisters

LEMMA FittingStays ==
  ASSUME [HookedNext]_<<hookerVars, vars>>
  PROVE  UNCHANGED choices /\ method' = method /\ Fitting(method)' = Fitting(method) /\ Expected' = Expected
<1>1. UNCHANGED choices /\ method' = method
  BY InnerStep, ChoicesStay
<1> QED BY <1>1, ExpectedStays DEF choices, Fitting

\* Each block starts at an early place, and so does what follows the last.
LEMMA BlockIsEarly ==
  ASSUME NEW m \in Methods, NEW i \in 1..(Len(ParameterTypes(m)) + 1)
  PROVE  Begin(ParameterTypes(m), i) + 1 \in Early(m)
<1> DEFINE types == ParameterTypes(m)
           n == Len(types)
<1>1. n \in Nat
  BY TypesKnown
<1>2. CASE i = n + 1
  BY <1>2 DEF Early, Head1
<1>3. CASE i \in 1..n
  <2>1. 1 \in 1..PackLength(types, i)
    BY DEF PackLength
  <2>2. Early(m) = {1, 2, Head1(m) + 1} \cup UNION {{Begin(types, k) + j : j \in 1..PackLength(types, k)} : k \in 1..n}
    BY Zenon DEF Early
  <2>3. Begin(types, i) + 1 \in Early(m)
    <3> HIDE DEF types, n
    <3> QED BY <1>3, <2>1, <2>2
  <2> QED BY <2>3
<1> QED BY <1>1, <1>2, <1>3

LEMMA BlockOps ==
  ASSUME NEW types \in Seq(Shorties), NEW i \in 1..Len(types), NEW j \in 1..PackLength(types, i)
  PROVE  PackArgument(types, i)[j].op \in EarlyOps
<1> DEFINE l == PackLength(types, i)
           p == PackArgument(types, i)
<1>1. l \in {2, 4}
  BY DEF PackLength
<1>2. (\A r, k : Const(r, k).op = "const") /\ \A o, a, b, c : Code(o, a, b, c).op = o
  BY DEF Const, Code
<1>3. /\ p[l - 1] = Const(tmp, i - 1)
      /\ p[l] = Code("aput-object", Field(Place(types, i)), hook_params_array, tmp)
      /\ l = 4 => /\ p[1] = Code("valueOf", Arguments(types[i], Place(types, i)), 0, types[i])
                  /\ p[2] = Code("move-result-object", Field(Place(types, i)), 0, 0)
  BY PackIs, Zenon
<1> HIDE DEF p, l
<1>4. p[l - 1].op \in EarlyOps /\ p[l].op \in EarlyOps /\ (l = 4 => p[1].op \in EarlyOps /\ p[2].op \in EarlyOps)
  BY <1>2, <1>3 DEF EarlyOps
<1>5. j \in {l - 1, l} \/ (l = 4 /\ j \in {1, 2})
  BY <1>1 DEF l
<1> QED BY <1>4, <1>5 DEF l, p

\* The instruction of each early place, and where it leads.
LEMMA OpBefore ==
  ASSUME NEW m \in Methods, NEW x \in Early(m)
  PROVE  BuildDex(m)[x].op \in EarlyOps /\ (x + 1 \in Early(m) \/ x + 1 = Head1(m) + 2)
<1> DEFINE types == ParameterTypes(m)
           n == Len(types)
           C == BuildDex(m)
<1>0. types \in Seq(Shorties)
  BY TypesKnown
<1>1. n \in Nat
  BY <1>0
<1>2. Begin(types, 1) = 2
  BY <1>0, Begins
<1>3. /\ Head1(m) \in Nat
      /\ C[1] = Const(tmp, n)
      /\ C[2] = Code("new-array", hook_params_array, tmp, 0)
      /\ C[Head1(m) + 1] = Code("sget-object", tmp, 0, 0)
  BY Layout, Zenon
<1>4. \A i \in 1..n : \A j \in 1..PackLength(types, i) : C[Begin(types, i) + j] = PackArgument(types, i)[j]
  BY Layout, Zenon
<1>5. \A r, k : Const(r, k).op = "const"
  BY DEF Const, Code
<1>6. \A o, a, b, c : Code(o, a, b, c).op = o
  BY DEF Code
<1>7. Begin(types, 1) + 1 \in Early(m)
  <2>1. 1 \in 1..(n + 1)
    BY <1>1
  <2> QED BY <2>1, BlockIsEarly
<1>8. CASE x \in {1, 2}
  <2>1. C[x].op \in EarlyOps
    <3> HIDE DEF C, n
    <3> QED BY <1>3, <1>5, <1>6, <1>8 DEF EarlyOps
  <2>2. x + 1 \in Early(m)
    <3>1. 2 \in Early(m) /\ 2 + 1 \in Early(m)
      BY <1>2, <1>7 DEF Early
    <3> QED BY <1>8, <3>1
  <2> QED BY <2>1, <2>2
<1>9. CASE x = Head1(m) + 1
  <2>1. C[x].op \in EarlyOps
    <3> HIDE DEF C, n
    <3> QED BY <1>3, <1>6, <1>9 DEF EarlyOps
  <2>2. x + 1 = Head1(m) + 2
    <3>1. Head1(m) \in Nat
      BY <1>3
    <3> QED BY <1>9, <3>1
  <2> QED BY <2>1, <2>2
<1>10. ASSUME NEW i \in 1..n, NEW j \in 1..PackLength(types, i), x = Begin(types, i) + j
       PROVE  C[x].op \in EarlyOps /\ x + 1 \in Early(m)
  <2> DEFINE l == PackLength(types, i)
  <2>1. l \in {2, 4} /\ Begin(types, i) \in Nat /\ Begin(types, i + 1) = Begin(types, i) + l
    BY <1>0, <1>1, Begins DEF PackLength
  <2>2. C[x] = PackArgument(types, i)[j]
    BY <1>4, <1>10, Zenon
  <2>3. C[x].op \in EarlyOps
    BY <1>0, <2>2, BlockOps, Zenon
  <2>4. j \in Nat /\ j <= l
    BY <2>1
  <2>5. CASE j < l
    <3>1. j + 1 \in 1..l /\ x + 1 = Begin(types, i) + (j + 1)
      <4> HIDE DEF l
      <4> QED BY <1>10, <2>1, <2>4, <2>5
    <3>2. Early(m) = {1, 2, Head1(m) + 1} \cup UNION {{Begin(types, k) + h : h \in 1..PackLength(types, k)} : k \in 1..n}
      BY Zenon DEF Early
    <3>3. x + 1 \in Early(m)
      <4> HIDE DEF types, n
      <4> QED BY <3>1, <3>2
    <3> QED BY <2>3, <3>3
  <2>6. CASE j = l
    <3>1. x + 1 = Begin(types, i + 1) + 1 /\ i + 1 \in 1..(n + 1)
      <4> HIDE DEF l
      <4> QED BY <1>1, <1>10, <2>1, <2>6
    <3> QED BY <2>3, <3>1, BlockIsEarly
  <2> QED BY <2>1, <2>4, <2>5, <2>6
<1>11. x \in {1, 2, Head1(m) + 1} \/ \E i \in 1..n : \E j \in 1..PackLength(types, i) : x = Begin(types, i) + j
  <2> HIDE DEF types, n
  <2> QED BY Zenon DEF Early, types, n
<1> QED BY <1>8, <1>9, <1>10, <1>11

LEMMA CodeParts == \A o, a, b, c : /\ Code(o, a, b, c).op = o /\ Code(o, a, b, c).a = a
                                   /\ Code(o, a, b, c).b = b /\ Code(o, a, b, c).c = c
BY DEF Code

LEMMA WordParts == \A t, v, k : Word(t, v, k).type = t /\ Word(t, v, k).of = v /\ Word(t, v, k).half = k
BY DEF Word

\* Until the callback nothing of the call has happened.
LEMMA EarlyStep ==
  ASSUME Where, Before, HookedNext
  PROVE  Where' /\ seen' = seen
<1>1. Now.op \in EarlyOps /\ (at + 1 \in Early(method) \/ at + 1 = Head1(method) + 2)
  BY OpBefore DEF Where, Before, Now, HookMethod
<1>2. at' = at + 1 /\ seen' = seen /\ UNCHANGED vars /\ DOMAIN regs' = DOMAIN regs
  <2>1. CASE Now.op = "const"
    BY <2>1, DoesConst
  <2>2. CASE Now.op = "new-array"
    BY <2>2, DoesNewArray
  <2>3. CASE Now.op = "valueOf"
    BY <2>3, DoesValueOf
  <2>4. CASE Now.op = "move-result-object"
    BY <2>4, DoesMoveResult
  <2>5. CASE Now.op = "aput-object"
    BY <2>5, DoesAput
  <2>6. CASE Now.op = "sget-object"
    BY <2>6, DoesSget
  <2> QED BY <1>1, <2>1, <2>2, <2>3, <2>4, <2>5, <2>6 DEF EarlyOps
<1>3. method' = method /\ Fitting(method)' = Fitting(method) /\ pc' = pc
  BY <1>2, FittingStays DEF vars
<1>4. at' \in Early(method') \/ at' = Head1(method') + 2
  BY <1>1, <1>2, <1>3
<1>5. method' \in Methods /\ Fitting(method)' /\ DOMAIN regs' = 0 .. Registers(method') - 1
  BY <1>2, <1>3 DEF Where
<1>6. Before' \/ at' = Head1(method') + 2
  BY <1>3, <1>4 DEF Before
<1> QED BY <1>2, <1>5, <1>6 DEF Where

\* The callback ends the call, or hands its result on.
LEMMA CallbackStep ==
  ASSUME IInv, Passed, Where, at = Head1(method) + 2, HookedNext
  PROVE  Where' /\ seen' \in {seen, Expected} /\ (UNCHANGED <<at, regs, packed>> \/ Behind')
<1>1. Now = Code("callback", tmp, hook_params_array, 0) /\ Head1(method) \in Nat
  BY Layout DEF Where, Now, HookMethod
<1>2. Now.op = "callback"
  BY <1>1, CodeParts
<1>3. method' = method /\ Fitting(method)' = Fitting(method) /\ UNCHANGED <<regs, packed>>
  BY <1>2, FittingStays, DoesCallback
<1>4. method' \in Methods /\ Fitting(method)' /\ DOMAIN regs' = 0 .. Registers(method') - 1
  BY <1>3 DEF Where
<1>5. ASSUME at' = at, seen' \in {seen, Expected}
      PROVE  Where' /\ seen' \in {seen, Expected} /\ UNCHANGED <<at, regs, packed>>
  BY <1>3, <1>4, <1>5 DEF Where
<1>6. CASE pc # "done" /\ Next /\ UNCHANGED <<at, result, seen>>
  BY <1>5, <1>6
<1>7. CASE pc = "done" /\ returned.throwable # Null /\ seen' = returned /\ UNCHANGED <<at, result, vars>>
  <2>1. returned = Expected
    BY <1>7, ReturnedTells DEF Where
  <2> QED BY <1>5, <1>7, <2>1
<1>8. CASE /\ pc = "done" /\ returned.throwable = Null /\ at' = at + 1 /\ seen' = seen
           /\ result' = Object(returned.result) /\ UNCHANGED vars
  <2>1. pc' = pc /\ returned' = returned
    BY <1>8 DEF vars
  <2>2. at' = Head1(method') + 3
    BY <1>1, <1>3, <1>8
  <2>3. Behind'
    BY <1>8, <2>1, <2>2 DEF Behind, Object, Word
  <2> QED BY <1>4, <1>8, <2>3 DEF Where
<1> QED BY <1>2, <1>6, <1>7, <1>8, DoesCallback

\* The caller gets what the callback returned, in its own type.
LEMMA TailStep ==
  ASSUME IInv, Passed, Where, Behind, HookedNext
  PROVE  Where' /\ seen' \in {seen, Expected} /\ Behind'
<1> DEFINE t == method.ret
           r == ReturnResultAs(t)
           R == returned.result
           Tells(e) == /\ t = "V" => e = Ending(Null, Null)
                       /\ t = "L" => e = Ending(R, Null)
                       /\ t \in Primitive => e = IF R = Null THEN Ending(Null, NullError)
                                               ELSE IF BoxOf[R] # t THEN Ending(Null, CastError) ELSE Ending(R, Null)
<1>1. /\ method' = method /\ Fitting(method)' = Fitting(method)
      /\ method \in Methods /\ t \in Shorties \cup {"V"} /\ Head1(method) \in Nat
  BY FittingStays, TypesKnown, Layout DEF Where
<1>2. /\ t = "V" => Len(r) = 1 /\ r[1] = Code("return-void", 0, 0, 0)
      /\ t = "L" => Len(r) = 2 /\ r[1] = Code("check-cast", tmp, 0, "L") /\ r[2] = Code("return-object", tmp, 0, 0)
      /\ t \in Primitive =>
           /\ Len(r) = 4 /\ r[1] = Code("check-cast", tmp, 0, t) /\ r[2] = Code("unbox", tmp, 0, t)
           /\ t \in Wide => r[3] = Code("move-result-wide", tmp, 0, 0) /\ r[4] = Code("return-wide", tmp, 0, 0)
           /\ t \notin Wide => r[3] = Code("move-result", tmp, 0, 0) /\ r[4] = Code("return", tmp, 0, 0)
  <2>1. Returning(t, r)
    BY <1>1, ReturnIs
  <2> QED BY <2>1, Zenon DEF Returning
<1>3. "V" \notin Primitive /\ "L" \notin Primitive /\ Wide \subseteq Primitive /\ t \in Primitive \cup {"V", "L"}
  BY <1>1 DEF Primitive, Wide, Shorties
<1>4. pc = "done" /\ returned.throwable = Null
  BY DEF Behind
<1>5. Tells(Expected)
  BY <1>4, ReturnedTells DEF Where
<1>6. DOMAIN regs = 0 .. Registers(method) - 1 /\ 0 \in DOMAIN regs /\ 1 \in DOMAIN regs
  BY <1>1, FrameHolds DEF Where
<1>7. Reg(0) = regs[0]
  BY <1>6 DEF Reg
<1>8. ASSUME DOMAIN regs' = DOMAIN regs, Behind' PROVE Where' /\ Behind'
  BY <1>1, <1>6, <1>8 DEF Where
<1>9. ASSUME UNCHANGED <<at, regs, result, vars>> PROVE Where' /\ Behind'
  <2>1. pc' = pc /\ returned' = returned
    BY <1>9 DEF vars
  <2>2. Behind'
    BY <1>1, <1>9, <2>1 DEF Behind, Carried
  <2> QED BY <1>8, <1>9, <2>2
<1>10. ASSUME NEW k \in Nat, at' = Head1(method) + 3 + k, k \in 1..Len(r), Carried(k)', UNCHANGED vars,
              DOMAIN regs' = DOMAIN regs
       PROVE  Where' /\ Behind'
  <2>1. pc' = pc /\ returned' = returned
    BY <1>10 DEF vars
  <2>2. Behind'
    BY <1>1, <1>4, <1>10, <2>1 DEF Behind
  <2> QED BY <1>8, <1>10, <2>2
<1> HIDE DEF r, Tells
<1>11. CASE at = Head1(method) + 3 /\ result = Object(R)
  <2>1. Now = Code("move-result-object", tmp, 0, 0)
    BY <1>1, <1>11, Layout DEF Now, HookMethod
  <2>2. /\ at' = at + 1 /\ seen' = seen /\ regs' = [regs EXCEPT ![0] = result] /\ UNCHANGED vars
    BY <2>1, CodeParts, DoesMoveResult DEF tmp
  <2>3. 1 \in 1..Len(r) /\ at' = Head1(method) + 3 + 1
    BY <1>1, <1>2, <1>3, <1>11, <2>2
  <2>4. Carried(1)'
    <3>1. regs'[0] = Object(returned.result) /\ returned' = returned
      BY <1>6, <1>11, <2>2 DEF vars
    <3> QED BY <3>1 DEF Carried, Object, Word
  <2> QED BY <1>10, <2>2, <2>3, <2>4
<1>12. ASSUME NEW k \in 1..Len(r), at = Head1(method) + 3 + k, Carried(k)
       PROVE  Where' /\ seen' \in {seen, Expected} /\ Behind'
  <2>1. Now = r[k]
    BY <1>1, <1>12, Layout, Zenon DEF Now, HookMethod, r
  <2>2. k \in Nat /\ at + 1 = Head1(method) + 3 + (k + 1)
    BY <1>1, <1>2, <1>3, <1>12
  <2>3. CASE t = "V" /\ k = 1
    <3>1. Now.op = "return-void"
      BY <1>2, <2>1, <2>3, CodeParts
    <3>2. seen' = Ending(Null, Null) /\ UNCHANGED <<at, regs, result, vars>>
      BY <3>1, DoesReturn
    <3> QED BY <1>5, <1>9, <2>3, <3>2 DEF Tells
  <2>4. CASE t = "L" /\ k = 1
    <3>1. Now.op = "check-cast" /\ Now.a = 0 /\ Now.c = "L"
      BY <1>2, <2>1, <2>4, CodeParts DEF tmp
    <3>2. at' = at + 1 /\ seen' = seen /\ UNCHANGED <<regs, result, vars>>
      BY <3>1, DoesCheckCast
    <3>3. Carried(2)'
      <4>1. regs'[0] = Object(returned.result) /\ returned' = returned /\ method'.ret \notin Primitive
        BY <1>1, <1>3, <1>12, <2>4, <3>2 DEF Carried, vars
      <4> QED BY <4>1 DEF Carried, Object, Word
    <3>4. 2 \in 1..Len(r) /\ at' = Head1(method) + 3 + 2 /\ UNCHANGED vars /\ DOMAIN regs' = DOMAIN regs
      <4>1. Len(r) = 2
        BY <1>2, <2>4
      <4> QED BY <2>2, <2>4, <3>2, <4>1
    <3> QED BY <1>10, <3>2, <3>3, <3>4
  <2>5. CASE t = "L" /\ k = 2
    <3>1. Now.op = "return-object" /\ Now.a = 0
      BY <1>2, <2>1, <2>5, CodeParts DEF tmp
    <3>2. regs[0].of = R
      BY <1>12, <2>5, WordParts DEF Carried, Object
    <3>3. seen' = Ending(R, Null) /\ UNCHANGED <<at, regs, result, vars>>
      BY <1>7, <3>1, <3>2, DoesReturn
    <3> QED BY <1>5, <1>9, <2>5, <3>3 DEF Tells
  <2>6. CASE t \in Primitive /\ k = 1
    <3>1. Now.op = "check-cast" /\ Now.a = 0 /\ Now.c = t
      BY <1>2, <2>1, <2>6, CodeParts DEF tmp
    <3>2. regs[0].of = R
      BY <1>12, <2>6, WordParts DEF Carried, Object
    <3>3. CASE R = Null \/ BoxOf[R] = t
      <4>1. at' = at + 1 /\ seen' = seen /\ UNCHANGED <<regs, result, vars>>
        BY <1>7, <3>1, <3>2, <3>3, DoesCheckCast
      <4>2. Carried(2)'
        <5>1. regs'[0] = Object(returned.result) /\ returned' = returned /\ method' = method
          BY <1>1, <1>12, <2>6, <4>1 DEF Carried, vars
        <5> QED BY <3>3, <5>1 DEF Carried, Object, Word
      <4> QED BY <1>2, <1>10, <2>2, <2>6, <4>1, <4>2
    <3>4. CASE ~(R = Null \/ BoxOf[R] = t)
      <4>1. seen' = Ending(Null, CastError) /\ UNCHANGED <<at, regs, result, vars>>
        BY <1>3, <1>7, <2>6, <3>1, <3>2, <3>4, DoesCheckCast
      <4> QED BY <1>5, <1>9, <2>6, <3>4, <4>1 DEF Tells
    <3> QED BY <3>3, <3>4
  <2>7. CASE t \in Primitive /\ k = 2
    <3>1. Now.op = "unbox" /\ Now.a = 0 /\ Now.c = t
      BY <1>2, <2>1, <2>7, CodeParts DEF tmp
    <3>2. regs[0].of = R /\ (R = Null \/ BoxOf[R] = t)
      BY <1>12, <2>7, WordParts DEF Carried, Object
    <3>3. CASE R = Null
      <4>1. seen' = Ending(Null, NullError) /\ UNCHANGED <<at, regs, result, vars>>
        BY <1>7, <3>1, <3>2, <3>3, DoesUnbox
      <4> QED BY <1>5, <1>9, <2>7, <3>3, <4>1 DEF Tells
    <3>4. CASE R # Null
      <4>1. at' = at + 1 /\ seen' = seen /\ UNCHANGED <<regs, vars>> /\ result' = Word(t, R, 0)
        BY <1>7, <3>1, <3>2, <3>4, DoesUnbox
      <4>2. Carried(3)'
        <5>1. returned' = returned /\ method' = method
          BY <1>1, <4>1 DEF vars
        <5> QED BY <3>2, <3>4, <4>1, <5>1 DEF Carried, Word
      <4> QED BY <1>2, <1>10, <2>2, <2>7, <4>1, <4>2
    <3> QED BY <3>3, <3>4
  <2>8. CASE t \in Primitive /\ k = 3
    <3>1. result = Word(t, R, 0) /\ R # Null /\ (R = Null \/ BoxOf[R] = t)
      BY <1>12, <2>8 DEF Carried
    <3>2. /\ at' = at + 1 /\ seen' = seen /\ UNCHANGED vars /\ DOMAIN regs' = DOMAIN regs
          /\ regs'[0] = Word(t, R, 0) /\ (t \in Wide => regs'[1] = Word(t, R, 1))
      <4>1. CASE t \in Wide
        <5>1. Now.op = "move-result-wide" /\ Now.a = 0
          BY <1>2, <2>1, <2>8, <4>1, CodeParts DEF tmp
        <5>2. /\ at' = at + 1 /\ seen' = seen /\ UNCHANGED vars
              /\ regs' = [regs EXCEPT ![0] = result, ![0 + 1] = [result EXCEPT !.half = 1]]
          BY <5>1, DoesMoveResultWide
        <5>3. [result EXCEPT !.half = 1] = Word(t, R, 1)
          BY <3>1 DEF Word
        <5> QED BY <1>6, <3>1, <5>2, <5>3
      <4>2. CASE t \notin Wide
        <5>1. Now.op = "move-result" /\ Now.a = 0
          BY <1>2, <2>1, <2>8, <4>2, CodeParts DEF tmp
        <5>2. at' = at + 1 /\ seen' = seen /\ UNCHANGED vars /\ regs' = [regs EXCEPT ![0] = result]
          BY <5>1, DoesMoveResult
        <5> QED BY <1>6, <3>1, <4>2, <5>2
      <4> QED BY <4>1, <4>2
    <3>3. Carried(4)'
      <4>1. returned' = returned /\ method' = method
        BY <1>1, <3>2 DEF vars
      <4> QED BY <3>1, <3>2, <4>1 DEF Carried, Word
    <3> QED BY <1>2, <1>10, <2>2, <2>8, <3>2, <3>3
  <2>9. CASE t \in Primitive /\ k = 4
    <3>1. Now.op \in {"return", "return-wide"} /\ Now.a = 0
      BY <1>2, <2>1, <2>9, CodeParts DEF tmp
    <3>2. regs[0].of = R /\ R # Null /\ BoxOf[R] = t
      BY <1>12, <2>9, WordParts DEF Carried
    <3>3. seen' = Ending(R, Null) /\ UNCHANGED <<at, regs, result, vars>>
      BY <1>7, <3>1, <3>2, DoesReturn
    <3> QED BY <1>5, <1>9, <2>9, <3>2, <3>3 DEF Tells
  <2>10. (t = "V" /\ k = 1) \/ (t = "L" /\ k \in {1, 2}) \/ (t \in Primitive /\ k \in {1, 2, 3, 4})
    <3>1. (t = "V" /\ Len(r) = 1) \/ (t = "L" /\ Len(r) = 2) \/ (t \in Primitive /\ Len(r) = 4)
      BY <1>2, <1>3
    <3>2. (Len(r) = 1 => k = 1) /\ (Len(r) = 2 => k \in {1, 2}) /\ (Len(r) = 4 => k \in {1, 2, 3, 4})
      <4> DEFINE l == Len(r)
      <4>1. k \in 1..l
        OBVIOUS
      <4> HIDE DEF l
      <4>2. (l = 1 => k = 1) /\ (l = 2 => k \in {1, 2}) /\ (l = 4 => k \in {1, 2, 3, 4})
        BY <4>1
      <4> QED BY <4>2 DEF l
    <3> QED BY <3>1, <3>2
  <2> QED BY <2>3, <2>4, <2>5, <2>6, <2>7, <2>8, <2>9, <2>10
<1> QED BY <1>11, <1>12 DEF Behind, r

CallInv == IInv /\ Passed /\ Where /\ CallerSeesOnion

LEMMA InitCallInv == HookedInit => CallInv
<1> SUFFICES ASSUME HookedInit PROVE CallInv
  OBVIOUS
<1>1. IInv /\ Passed
  BY InitIInv DEF HookedInit, Init, Passed
<1>2. method \in Methods /\ Fitting(method) /\ at = 1 /\ pc = "snapshot" /\ seen = Running
  BY DEF HookedInit, Init
<1>3. DOMAIN regs = 0 .. Registers(method) - 1
  BY DEF HookedInit, Entered
<1>4. at \in Early(method)
  BY <1>2 DEF Early
<1> QED BY <1>1, <1>2, <1>3, <1>4 DEF CallInv, Where, Before, CallerSeesOnion

LEMMA StepCallInv == CallInv /\ [HookedNext]_<<hookerVars, vars>> => CallInv'
<1> SUFFICES ASSUME CallInv, [HookedNext]_<<hookerVars, vars>> PROVE CallInv'
  OBVIOUS
<1>0. CallerSeesOnion' <=> (seen' # Running => seen' = Expected')
  <2>1. (CallerSeesOnion <=> (seen # Running => seen = Expected))'
    BY ExpectedIs, PTL
  <2> QED BY <2>1
<1>1. IInv /\ Passed /\ Where /\ CallerSeesOnion
  BY DEF CallInv
<1>2. IInv' /\ Passed'
  BY <1>1, InnerStep, PassedStep, StepIInv
<1>3. CASE HookedNext
  <2>1. Where' /\ seen' \in {seen, Expected}
    BY <1>1, <1>3, EarlyStep, CallbackStep, TailStep DEF Where
  <2>2. seen = Running
    BY <1>3, Enabled
  <2>3. Expected' = Expected
    BY FittingStays
  <2>4. seen' # Running => seen' = Expected'
    BY <2>1, <2>2, <2>3
  <2>5. CallerSeesOnion'
    BY <1>0, <2>4
  <2> QED BY <1>2, <2>1, <2>5 DEF CallInv
<1>4. CASE UNCHANGED <<hookerVars, vars>>
  <2>1. UNCHANGED <<method, at, regs, result, seen>> /\ pc' = pc /\ returned' = returned
    BY <1>4 DEF hookerVars, frame, vars
  <2>2. Expected' = Expected /\ Fitting(method)' = Fitting(method)
    BY FittingStays
  <2>3. seen' # Running => seen' = Expected'
    BY <1>1, <2>1, <2>2, ExpectedIs
  <2>4. CallerSeesOnion'
    BY <1>0, <2>3
  <2>5. Before' = Before /\ Behind' = Behind
    BY <2>1 DEF Before, Behind, Carried
  <2>6. Where'
    BY <1>1, <2>1, <2>2, <2>5 DEF Where
  <2> QED BY <1>2, <2>4, <2>6 DEF CallInv
<1> QED BY <1>3, <1>4

\* Whatever its signature and however many callbacks there are, the caller of a
\* hooked method sees the onion of the callbacks around the original, in the
\* method's own type or as an exception (CalvinBridge.java:356-429 through
\* lsplant.cc:414-432).
THEOREM EveryCallerSeesOnion == HookedSpec => []CallerSeesOnion
<1>1. CallInv => CallerSeesOnion
  BY DEF CallInv
<1> QED BY <1>1, InitCallInv, StepCallInv, PTL DEF HookedSpec

-----------------------------------------------------------------------------
(* The registers that the generated code names *)

\* A number fits the instruction that loads it, so it stays what it is.
LEMMA ConstIs ==
  ASSUME NEW n \in Nat
  PROVE  Const(tmp, n) = Code("const", 0, n, 0)
<1> DEFINE S == ShortSpan
           h == S \div 2
<1>1. S \in Nat \ {0} /\ FieldSpan \in Nat \ {0} /\ S % 2 = 0
  BY SpansAssumption
<1>2. h \in Nat /\ S = 2 * h
  BY <1>1
<1> HIDE DEF S, h
<1>3. 0 < S /\ 0 % FieldSpan = 0
  BY <1>1
<1>4. ASSUME n < h PROVE (n + h) % S = n + h /\ (n + h) - h = n
  BY <1>2, <1>4
<1>5. Const(tmp, n) = IF n < h THEN Code("const", 0, ((n + h) % S) - h, 0) ELSE Code("const", 0 % FieldSpan, n, 0)
  BY <1>3 DEF Const, tmp, Field, S, h
<1> QED BY <1>3, <1>4, <1>5

LEMMA FieldIs == ASSUME NEW r \in Nat, r < FieldSpan PROVE Field(r) = r
<1>1. FieldSpan \in Nat \ {0}
  BY SpansAssumption
<1> QED BY <1>1 DEF Field

\* Both forms of an invoke name the registers of the parameter.
LEMMA ArgumentsAre ==
  ASSUME NEW r \in Nat, NEW t
  PROVE  Arguments(t, r) = [k \in 1 .. SlotsOf(t) |-> r + k - 1]
<1>1. ShortSpan \in Nat \ {0}
  BY SpansAssumption
<1>2. CASE r >= ShortSpan \/ (t \in Wide /\ r + 1 >= ShortSpan)
  BY <1>2 DEF Arguments
<1>3. CASE ~(r >= ShortSpan \/ (t \in Wide /\ r + 1 >= ShortSpan))
  <2>1. ASSUME NEW k \in 1 .. SlotsOf(t) PROVE (r + k - 1) % ShortSpan = r + k - 1
    <3>1. k \in Nat /\ k >= 1 /\ (k = 1 \/ (t \in Wide /\ k = 2))
      BY DEF SlotsOf
    <3>2. r + k - 1 \in Nat /\ r + k - 1 < ShortSpan
      BY <1>1, <1>3, <3>1
    <3> QED BY <1>1, <3>2
  <2>2. Arguments(t, r) = [k \in 1 .. SlotsOf(t) |-> (r + k - 1) % ShortSpan]
    BY <1>3 DEF Arguments
  <2> QED BY <2>1, <2>2
<1> QED BY <1>2, <1>3

\* The registers of the parameters lie behind the two of the code, apart from
\* each other, and inside the frame.
LEMMA PlacesApart ==
  ASSUME NEW types \in Seq(Shorties), NEW i \in 1..Len(types)
  PROVE  /\ Place(types, i) \in Nat /\ Place(types, i) >= 2
         /\ SlotsOf(types[i]) \in {1, 2}
         /\ Place(types, i) + SlotsOf(types[i]) <= 2 + Slots(types)
         /\ \A k \in 1..Len(types) : i < k => Place(types, i) + SlotsOf(types[i]) <= Place(types, k)
<1> DEFINE n == Len(types)
           s == SlotsUpTo(types)
<1>0. n \in Nat /\ s \in [0..n -> Nat] /\ s[i] = s[i - 1] + SlotsOf(types[i]) /\ i \in 1..n /\ SlotsOf(types[i]) \in {1, 2}
  BY SlotsAre DEF SlotsOf
<1>1. \A j \in 0..n : i <= j => s[i] <= s[j]
  BY SlotsGrow
<1>2. \A k \in 1..n : Place(types, k) = 2 + s[k - 1]
  BY DEF Place, Parameter, NumRegisters, SlotBefore
<1>3. Slots(types) = s[n]
  BY DEF Slots
<1> HIDE DEF s, n
<1>4. i - 1 \in 0..n /\ i \in 0..n /\ n \in 0..n /\ s[i - 1] \in Nat
  BY <1>0
<1>5. Place(types, i) \in Nat /\ Place(types, i) >= 2
  BY <1>2, <1>4
<1>6. Place(types, i) + SlotsOf(types[i]) = 2 + s[i]
  <2>1. Place(types, i) = 2 + s[i - 1]
    BY <1>0, <1>2
  <2>2. SlotsOf(types[i]) \in Nat
    BY <1>0
  <2> QED BY <1>0, <1>4, <1>5, <2>1, <2>2
<1>7. s[i] <= s[n] /\ s[i] \in Nat /\ s[n] \in Nat
  BY <1>0, <1>1, <1>4
<1>8. ASSUME NEW k \in 1..n, i < k PROVE Place(types, i) + SlotsOf(types[i]) <= Place(types, k)
  <2>1. k - 1 \in 0..n /\ i <= k - 1
    BY <1>0, <1>8
  <2>2. s[i] <= s[k - 1] /\ s[k - 1] \in Nat
    BY <1>0, <1>1, <2>1
  <2> QED BY <1>2, <1>6, <1>7, <2>2
<1> QED BY <1>0, <1>3, <1>5, <1>6, <1>7, <1>8 DEF n

\* What the runtime puts into the register of each slot.
LEMMA EnteredIs ==
  ASSUME NEW m \in Methods, NEW i \in 1..Len(ParameterTypes(m)),
         NEW h \in 0..(SlotsOf(ParameterTypes(m)[i]) - 1)
  PROVE  Entered(m)[Place(ParameterTypes(m), i) + h]
           = Word(ParameterTypes(m)[i], <<ParameterTypes(m)[i], i>>, h)
<1> DEFINE types == ParameterTypes(m)
           n == Len(types)
           x == Place(types, i) + h
           Holds(k) == x - NumRegisters \in SlotBefore(types, k) .. SlotBefore(types, k) + SlotsOf(types[k]) - 1
           c == CHOOSE k \in DOMAIN types : Holds(k)
<1>0. types \in Seq(Shorties)
  BY TypesKnown
<1>1. n \in Nat /\ DOMAIN types = 1..n
  BY <1>0
<1>2. \A k \in 1..n : /\ Place(types, k) \in Nat /\ Place(types, k) >= 2 /\ SlotsOf(types[k]) \in {1, 2}
                      /\ Place(types, k) + SlotsOf(types[k]) <= 2 + Slots(types)
                      /\ \A j \in 1..n : k < j => Place(types, k) + SlotsOf(types[k]) <= Place(types, j)
  BY <1>0, PlacesApart
<1>3. \A k \in 1..n : SlotBefore(types, k) \in Nat /\ Place(types, k) = 2 + SlotBefore(types, k)
  <2>1. SlotsUpTo(types) \in [0..n -> Nat]
    BY <1>0, SlotsAre
  <2>2. ASSUME NEW k \in 1..n PROVE SlotBefore(types, k) \in Nat
    <3>1. k - 1 \in 0..n
      BY <1>1
    <3> HIDE DEF types, n
    <3> QED BY <2>1, <3>1 DEF SlotBefore
  <2> QED BY <2>2 DEF Place, Parameter, NumRegisters
<1>4. h \in Nat /\ h < SlotsOf(types[i]) /\ i \in 1..n
  <2>1. SlotsOf(types[i]) \in {1, 2}
    BY <1>2
  <2> QED BY <2>1
<1> HIDE DEF types, n
<1>5. x \in Nat /\ x >= 2 /\ x < 2 + Slots(types)
  <2>1. Slots(types) \in Nat
    BY <1>0, <1>1, SlotsAre DEF Slots, n
  <2>2. /\ Place(types, i) \in Nat /\ Place(types, i) >= 2 /\ SlotsOf(types[i]) \in Nat
        /\ Place(types, i) + SlotsOf(types[i]) <= 2 + Slots(types)
    BY <1>2, <1>4
  <2> QED BY <1>4, <2>1, <2>2
<1>b. /\ Place(types, i) \in Nat /\ SlotsOf(types[i]) \in Nat /\ SlotBefore(types, i) \in Nat
      /\ Place(types, i) = 2 + SlotBefore(types, i)
  BY <1>2, <1>3, <1>4
<1>6. Holds(i)
  BY <1>b, <1>4 DEF NumRegisters
<1>c. x \in Nat /\ Place(types, i) <= x /\ x < Place(types, i) + SlotsOf(types[i])
  BY <1>b, <1>4
<1>7. ASSUME NEW k \in 1..n, Holds(k) PROVE k = i
  <2> DEFINE p == Place(types, k)
             w == SlotsOf(types[k])
             b == SlotBefore(types, k)
             q == Place(types, i)
             v == SlotsOf(types[i])
  <2>1. p \in Nat /\ w \in Nat /\ b \in Nat /\ p = 2 + b /\ q \in Nat /\ v \in Nat
    BY <1>2, <1>3, <1>b
  <2>2. x - 2 \in b .. b + w - 1 /\ x \in Nat /\ q <= x /\ x < q + v
    BY <1>7, <1>c DEF NumRegisters
  <2>3. (k < i => p + w <= q) /\ (i < k => q + v <= p)
    BY <1>2, <1>4
  <2>4. k \in Int /\ i \in Int
    BY <1>1, <1>4
  <2> HIDE DEF x, p, w, b, q, v
  <2> QED BY <2>1, <2>2, <2>3, <2>4
<1>8. c = i
  <2>1. \E k \in DOMAIN types : Holds(k)
    BY <1>1, <1>4, <1>6
  <2>2. c \in 1..n /\ Holds(c)
    <3> HIDE DEF Holds
    <3> QED BY <1>1, <2>1
  <2> HIDE DEF c, Holds
  <2> QED BY <1>7, <2>2
<1>9. x \in 0 .. Registers(m) - 1 /\ ~(x < NumRegisters)
  <2>1. Registers(m) = 2 + Slots(types) /\ Slots(types) \in Nat
    BY <1>0, <1>1, SlotsAre DEF Slots, n, Registers, NumRegisters, types
  <2> QED BY <1>5, <2>1 DEF NumRegisters
<1>10. Entered(m)[x] = Word(types[c], <<types[c], c>>, x - NumRegisters - SlotBefore(types, c))
  <2> HIDE DEF x
  <2> QED BY <1>9, Zenon DEF Entered, types, c
<1>11. x - NumRegisters - SlotBefore(types, i) = h
  <2> DEFINE p == Place(types, i)
             b == SlotBefore(types, i)
  <2>1. p \in Nat /\ b \in Nat /\ p = 2 + b
    BY <1>b
  <2> HIDE DEF p, b
  <2>2. (p + h) - 2 - b = h
    BY <1>4, <2>1
  <2> QED BY <2>2 DEF NumRegisters, p, b
<1>12. Entered(m)[x] = Word(types[i], <<types[i], i>>, h)
  <2> HIDE DEF x, c
  <2> QED BY <1>8, <1>10, <1>11
<1> QED BY <1>12 DEF types

\* An invoke has at most two arguments, for which the frame has room.
LEMMA OutsIs ==
  ASSUME NEW m \in Methods
  PROVE  Outs(m) = 2
<1> DEFINE types == ParameterTypes(m)
           counts == {IF Parameter(SlotBefore(types, i)) + SlotsOf(types[i]) > ShortSpan THEN 2 ELSE SlotsOf(types[i]) :
                        i \in {k \in DOMAIN types : types[k] \in Primitive}}
           S == counts \cup {2}
<1>1. S \subseteq {1, 2} /\ 2 \in S
  BY DEF SlotsOf
<1>2. Outs(m) = Max(S)
  BY DEF Outs
<1> HIDE DEF S
<1>3. Max(S) \in S /\ \A y \in S : Max(S) >= y
  <2>1. \E x \in S : \A y \in S : x >= y
    BY <1>1
  <2> QED BY <2>1 DEF Max
<1>4. Max(S) \in {1, 2} /\ Max(S) >= 2
  BY <1>1, <1>3
<1> QED BY <1>2, <1>4

-----------------------------------------------------------------------------
(* What the registers hold on the way to the callback *)

\* The registers of the k-th parameter are as the caller filled them.
Waits(types, rg, k) ==
  \A h \in 0..(SlotsOf(types[k]) - 1) : rg[Place(types, k) + h] = Word(types[k], <<types[k], k>>, h)
Waiting(types, rg, i) == \A k \in i..Len(types) : Waits(types, rg, k)

\* The array is there, with the arguments before the i-th.
Filled(types, i) == [k \in 1..Len(types) |-> IF k < i THEN <<types[k], k>> ELSE Null]
Loaded(types, rg, el, i) == rg[1] = Array /\ el = Filled(types, i)

\* Before the j-th instruction for the i-th argument.
InBlock(types, rg, el, rs, i, j) ==
  /\ Loaded(types, rg, el, i) /\ Waiting(types, rg, i + 1)
  /\ j < PackLength(types, i) - 1 => Waits(types, rg, i)
  /\ PackLength(types, i) = 4 /\ j = 2 => rs = Object(<<types[i], i>>)
  /\ j >= PackLength(types, i) - 1 => rg[Place(types, i)] = Object(<<types[i], i>>)
  /\ j = PackLength(types, i) => rg[0] = Word("const", i - 1, 0)

Stage(m, x, rg, el, rs) ==
  \/ x = 1 /\ Waiting(ParameterTypes(m), rg, 1)
  \/ x = 2 /\ Waiting(ParameterTypes(m), rg, 1) /\ rg[0] = Word("const", Len(ParameterTypes(m)), 0)
  \/ \E i \in 1..Len(ParameterTypes(m)) : \E j \in 1..PackLength(ParameterTypes(m), i) :
       x = Begin(ParameterTypes(m), i) + j /\ InBlock(ParameterTypes(m), rg, el, rs, i, j)
  \/ /\ x = Head1(m) + 1
     /\ Loaded(ParameterTypes(m), rg, el, Len(ParameterTypes(m)) + 1)
  \/ /\ x = Head1(m) + 2 /\ rg[0] = Hooker
     /\ Loaded(ParameterTypes(m), rg, el, Len(ParameterTypes(m)) + 1)

\* A register outside the parameters from the i-th on may be overwritten.
LEMMA StillWaits ==
  ASSUME NEW types \in Seq(Shorties), NEW i \in Nat, NEW k \in 1..Len(types), i <= k,
         NEW rg, NEW r \in Nat, NEW w, Waits(types, rg, k),
         r < 2 \/ \E b \in 1..Len(types) : b < i /\ r = Place(types, b)
  PROVE  Waits(types, [rg EXCEPT ![r] = w], k)
<1> SUFFICES ASSUME NEW h \in 0..(SlotsOf(types[k]) - 1)
             PROVE  [rg EXCEPT ![r] = w][Place(types, k) + h] = Word(types[k], <<types[k], k>>, h)
  BY DEF Waits
<1>1. rg[Place(types, k) + h] = Word(types[k], <<types[k], k>>, h)
  BY DEF Waits
<1> DEFINE p == Place(types, k)
<1>2. p \in Nat /\ p >= 2 /\ h \in Nat
  <2>1. SlotsOf(types[k]) \in {1, 2}
    BY PlacesApart
  <2> QED BY <2>1, PlacesApart
<1>3. r < 2 \/ r < p
  <2>1. ASSUME NEW b \in 1..Len(types), b < i, r = Place(types, b) PROVE r < p
    <3> DEFINE q == Place(types, b)
               v == SlotsOf(types[b])
    <3>1. q \in Nat /\ v \in {1, 2}
      BY PlacesApart
    <3>2. b < k
      BY <2>1
    <3>3. q + v <= p
      BY <3>2, PlacesApart
    <3>4. r = q
      BY <2>1
    <3> HIDE DEF q, v, p
    <3> QED BY <1>2, <3>1, <3>3, <3>4
  <2> QED BY <2>1
<1>4. p + h # r
  <2> HIDE DEF p
  <2> QED BY <1>2, <1>3
<1> QED BY <1>1, <1>4

LEMMA StillWaiting ==
  ASSUME NEW types \in Seq(Shorties), NEW i \in Nat \ {0}, NEW rg, NEW r \in Nat, NEW w, Waiting(types, rg, i),
         r < 2 \/ \E b \in 1..Len(types) : b < i /\ r = Place(types, b)
  PROVE  Waiting(types, [rg EXCEPT ![r] = w], i)
<1> SUFFICES ASSUME NEW k \in i..Len(types) PROVE Waits(types, [rg EXCEPT ![r] = w], k)
  BY DEF Waiting
<1>1. Waits(types, rg, k) /\ k \in 1..Len(types) /\ i <= k /\ i \in Nat
  BY DEF Waiting
<1> QED BY <1>1, StillWaits

\* What the code for the arguments before the i-th leaves is what that for the
\* i-th, or the call, starts with.
LEMMA NextBlock ==
  ASSUME NEW m \in Methods, NEW i \in 1..(Len(ParameterTypes(m)) + 1), NEW rg, NEW el, NEW rs,
         Loaded(ParameterTypes(m), rg, el, i), Waiting(ParameterTypes(m), rg, i)
  PROVE  Stage(m, Begin(ParameterTypes(m), i) + 1, rg, el, rs)
<1> DEFINE types == ParameterTypes(m)
           n == Len(types)
<1>0. types \in Seq(Shorties)
  BY TypesKnown
<1>1. n \in Nat /\ i \in 1..(n + 1)
  BY <1>0
<1>2. CASE i = n + 1
  BY <1>2 DEF Stage, Head1
<1>3. CASE i \in 1..n
  <2> DEFINE l == PackLength(types, i)
  <2>1. l \in {2, 4} /\ (l = 2 => types[i] = "L") /\ 1 \in 1..l
    BY <1>0, <1>3 DEF PackLength, Shorties
  <2>2. Waits(types, rg, i) /\ Waiting(types, rg, i + 1)
    <3>1. \A k \in i..n : Waits(types, rg, k)
      BY Zenon DEF Waiting
    <3>2. Waits(types, rg, i) /\ \A k \in (i + 1)..n : Waits(types, rg, k)
      <4>1. i \in i..n /\ \A k \in (i + 1)..n : k \in i..n
        <5> HIDE DEF n
        <5> QED BY <1>1, <1>3
      <4> QED BY <3>1, <4>1, Zenon
    <3> QED BY <3>2, Zenon DEF Waiting
  <2>3. l = 2 => rg[Place(types, i)] = Object(<<types[i], i>>)
    <3> SUFFICES ASSUME l = 2 PROVE rg[Place(types, i)] = Object(<<types[i], i>>)
      OBVIOUS
    <3>1. types[i] = "L" /\ SlotsOf(types[i]) = 1
      BY <2>1 DEF SlotsOf, Wide
    <3>2. rg[Place(types, i) + 0] = Word(types[i], <<types[i], i>>, 0)
      <4>1. 0 \in 0..(SlotsOf(types[i]) - 1)
        BY <3>1
      <4> QED BY <2>2, <4>1, Zenon DEF Waits
    <3>3. Place(types, i) + 0 = Place(types, i)
      <4>1. Place(types, i) \in Nat
        BY <1>0, <1>3, PlacesApart
      <4> QED BY <4>1
    <3> QED BY <3>1, <3>2, <3>3 DEF Object
  <2>4. InBlock(types, rg, el, rs, i, 1)
    <3> HIDE DEF types, l
    <3> QED BY <2>1, <2>2, <2>3 DEF InBlock, l, types
  <2>5. \E j \in 1..l : Begin(types, i) + 1 = Begin(types, i) + j /\ InBlock(types, rg, el, rs, i, j)
    <3> HIDE DEF types, l
    <3> QED BY <2>1, <2>4
  <2> HIDE DEF n
  <2> QED BY <1>3, <2>5, Zenon DEF Stage, n
<1> QED BY <1>1, <1>2, <1>3

\* The code for the i-th argument, of type t, in register p: l instructions
\* behind the first b.
BlockAt(C, b, l, p, t, i) ==
  /\ l = 4 => /\ C[b + 1] = Code("valueOf", [k \in 1..SlotsOf(t) |-> p + k - 1], 0, t)
              /\ C[b + 2] = Code("move-result-object", p, 0, 0)
  /\ C[b + (l - 1)] = Code("const", 0, i - 1, 0)
  /\ C[b + l] = Code("aput-object", p, 1, 0)

LEMMA BlockCode ==
  ASSUME NEW m \in Methods, Addressable(m), NEW i \in 1..Len(ParameterTypes(m))
  PROVE  BlockAt(BuildDex(m), Begin(ParameterTypes(m), i), PackLength(ParameterTypes(m), i),
                 Place(ParameterTypes(m), i), ParameterTypes(m)[i], i)
<1> DEFINE types == ParameterTypes(m)
           l == PackLength(types, i)
           p == Place(types, i)
           b == Begin(types, i)
           q == PackArgument(types, i)
<1>0. types \in Seq(Shorties)
  BY TypesKnown
<1>1. /\ l \in {2, 4}
      /\ q[l - 1] = Const(tmp, i - 1)
      /\ q[l] = Code("aput-object", Field(p), hook_params_array, tmp)
      /\ l = 4 => /\ q[1] = Code("valueOf", Arguments(types[i], p), 0, types[i])
                  /\ q[2] = Code("move-result-object", Field(p), 0, 0)
  BY <1>0, PackIs, Zenon
<1>2. p \in Nat /\ p < FieldSpan
  <2>1. p \in Nat
    BY <1>0, PlacesApart
  <2>2. DOMAIN types = 1..Len(types)
    BY <1>0
  <2> QED BY <2>1, <2>2 DEF Addressable, Place
<1>3. Field(p) = p /\ Arguments(types[i], p) = [k \in 1..SlotsOf(types[i]) |-> p + k - 1]
  BY <1>2, FieldIs, ArgumentsAre
<1>4. Const(tmp, i - 1) = Code("const", 0, i - 1, 0)
  <2>1. i - 1 \in Nat
    BY <1>0
  <2> QED BY <2>1, ConstIs
<1>5. \A j \in 1..l : BuildDex(m)[b + j] = q[j]
  BY Layout, Zenon
<1>6. l - 1 \in 1..l /\ l \in 1..l /\ (l = 4 => 1 \in 1..l /\ 2 \in 1..l)
  BY <1>1
<1>7. hook_params_array = 1 /\ tmp = 0
  BY DEF hook_params_array, tmp
<1> HIDE DEF q, l
<1>8. BuildDex(m)[b + (l - 1)] = q[l - 1] /\ BuildDex(m)[b + l] = q[l]
      /\ (l = 4 => BuildDex(m)[b + 1] = q[1] /\ BuildDex(m)[b + 2] = q[2])
  BY <1>5, <1>6, Zenon
<1> QED BY <1>1, <1>3, <1>4, <1>7, <1>8, Zenon DEF BlockAt, l

\* The array with one argument more.
LEMMA FilledMore ==
  ASSUME NEW types \in Seq(Shorties), NEW i \in 1..Len(types)
  PROVE  Filled(types, i + 1) = [Filled(types, i) EXCEPT ![i] = <<types[i], i>>]
<1> DEFINE f == Filled(types, i)
           g == Filled(types, i + 1)
           h == [f EXCEPT ![i] = <<types[i], i>>]
           n == Len(types)
<1>1. n \in Nat /\ i \in 1..n
  OBVIOUS
<1>2. \A k \in 1..n : f[k] = (IF k < i THEN <<types[k], k>> ELSE Null) /\ g[k] = (IF k < i + 1 THEN <<types[k], k>> ELSE Null)
  BY DEF Filled
<1>3. f = [k \in 1..n |-> f[k]] /\ g = [k \in 1..n |-> g[k]]
  BY DEF Filled
<1> HIDE DEF f, g, n
<1>4. ASSUME NEW k \in 1..n PROVE h[k] = g[k]
  <2>1. k \in Int /\ i \in Int /\ i \in DOMAIN f
    BY <1>1, <1>3
  <2>2. CASE k = i
    <3>1. h[k] = <<types[i], i>>
      BY <2>1, <2>2
    <3>2. k < i + 1
      BY <2>1, <2>2
    <3> QED BY <1>2, <2>2, <3>1, <3>2
  <2>3. CASE k # i
    <3>1. h[k] = f[k]
      BY <1>3, <2>3
    <3>2. k < i <=> k < i + 1
      BY <2>1, <2>3
    <3> QED BY <1>2, <3>1, <3>2
  <2> QED BY <2>2, <2>3
<1>5. h = [k \in 1..n |-> h[k]]
  BY <1>3
<1>6. h = g
  BY <1>3, <1>4, <1>5
<1> QED BY <1>6 DEF f, g

\* What the j-th instruction for the i-th argument does to registers, array and result.
BlockDoes(types, i, j, rg, el, rs, rg2, el2, rs2) ==
  /\ PackLength(types, i) = 4 /\ j = 1 => rg2 = rg /\ el2 = el /\ rs2 = Object(rg[Place(types, i)].of)
  /\ PackLength(types, i) = 4 /\ j = 2 => rg2 = [rg EXCEPT ![Place(types, i)] = rs] /\ el2 = el
  /\ j = PackLength(types, i) - 1 => rg2 = [rg EXCEPT ![0] = Word("const", i - 1, 0)] /\ el2 = el
  /\ j = PackLength(types, i) => rg2 = rg /\ el2 = [el EXCEPT ![rg[0].of + 1] = rg[Place(types, i)].of]

\* Each of them leads on.
LEMMA BlockOnward ==
  ASSUME NEW m \in Methods, NEW i \in 1..Len(ParameterTypes(m)), NEW j \in 1..PackLength(ParameterTypes(m), i),
         NEW rg, NEW el, NEW rs, DOMAIN rg = 0..(Registers(m) - 1),
         InBlock(ParameterTypes(m), rg, el, rs, i, j),
         NEW rg2, NEW el2, NEW rs2, BlockDoes(ParameterTypes(m), i, j, rg, el, rs, rg2, el2, rs2)
  PROVE  Stage(m, Begin(ParameterTypes(m), i) + (j + 1), rg2, el2, rs2)
<1> DEFINE types == ParameterTypes(m)
           n == Len(types)
           l == PackLength(types, i)
           p == Place(types, i)
<1>0. types \in Seq(Shorties)
  BY TypesKnown
<1>1. n \in Nat /\ l \in {2, 4} /\ p \in Nat /\ p >= 2 /\ i \in 1..n
  BY <1>0, PlacesApart DEF PackLength
<1>2. p \in DOMAIN rg /\ 0 \in DOMAIN rg /\ 1 \in DOMAIN rg
  <2> DEFINE w == SlotsOf(types[i])
             S == Slots(types)
  <2>1. w \in {1, 2} /\ p + w <= 2 + S /\ S \in Nat
    BY <1>0, <1>1, PlacesApart, SlotsAre DEF Slots
  <2>2. Registers(m) = 2 + S
    BY DEF Registers, NumRegisters
  <2> HIDE DEF w, S
  <2> QED BY <1>1, <2>1, <2>2
<1>3. /\ rg[1] = Array /\ el = Filled(types, i) /\ Waiting(types, rg, i + 1)
      /\ j < l - 1 => Waits(types, rg, i)
      /\ l = 4 /\ j = 2 => rs = Object(<<types[i], i>>)
      /\ j >= l - 1 => rg[p] = Object(<<types[i], i>>)
      /\ j = l => rg[0] = Word("const", i - 1, 0)
  BY Zenon DEF InBlock, Loaded
<1>d. /\ l = 4 /\ j = 1 => rg2 = rg /\ el2 = el /\ rs2 = Object(rg[p].of)
      /\ l = 4 /\ j = 2 => rg2 = [rg EXCEPT ![p] = rs] /\ el2 = el
      /\ j = l - 1 => rg2 = [rg EXCEPT ![0] = Word("const", i - 1, 0)] /\ el2 = el
      /\ j = l => rg2 = rg /\ el2 = [el EXCEPT ![rg[0].of + 1] = rg[p].of]
  BY Zenon DEF BlockDoes
<1>4. ASSUME j + 1 <= l, InBlock(types, rg2, el2, rs2, i, j + 1)
      PROVE  Stage(m, Begin(types, i) + (j + 1), rg2, el2, rs2)
  <2>1. j + 1 \in 1..PackLength(types, i)
    BY <1>1, <1>4
  <2> QED BY <1>4, <2>1, Zenon DEF Stage
<1> HIDE DEF types, n
<1>5. CASE l = 4 /\ j = 1
  <2>1. rg[p].of = <<types[i], i>>
    <3>1. 0 \in 0..(SlotsOf(types[i]) - 1) /\ p + 0 = p
      BY <1>1 DEF SlotsOf
    <3>2. Waits(types, rg, i)
      BY <1>3, <1>5
    <3>3. rg[p + 0] = Word(types[i], <<types[i], i>>, 0)
      BY <3>1, <3>2, Zenon DEF Waits, types
    <3> QED BY <3>1, <3>3, WordParts
  <2>2. rs2 = Object(<<types[i], i>>) /\ rg2 = rg /\ el2 = el
    BY <1>5, <1>d, <2>1
  <2>3. j + 1 = 2 /\ j + 1 <= l /\ j + 1 < l - 1 /\ j < l - 1 /\ ~(j + 1 >= l - 1) /\ j + 1 # l
    BY <1>5
  <2>4. InBlock(types, rg2, el2, rs2, i, j + 1)
    BY <1>3, <2>2, <2>3, Zenon DEF InBlock, Loaded, types
  <2> QED BY <1>4, <2>3, <2>4, Zenon DEF types
<1>6. CASE l = 4 /\ j = 2
  <2>1. rg2 = [rg EXCEPT ![p] = rs] /\ el2 = el /\ rs = Object(<<types[i], i>>)
    BY <1>3, <1>6, <1>d
  <2>2. rg2[p] = Object(<<types[i], i>>) /\ rg2[1] = Array
    BY <1>1, <1>2, <1>3, <2>1
  <2>3. Waiting(types, rg2, i + 1)
    <3>1. i + 1 \in Nat \ {0} /\ i < i + 1 /\ types \in Seq(Shorties)
      BY <1>0, <1>1 DEF types
    <3> QED BY <1>1, <1>3, <2>1, <3>1, StillWaiting DEF n, types
  <2>4. j + 1 <= l /\ ~(j + 1 < l - 1) /\ j + 1 # 2 /\ j + 1 # l
    BY <1>6
  <2>5. InBlock(types, rg2, el2, rs2, i, j + 1)
    BY <1>3, <2>1, <2>2, <2>3, <2>4, Zenon DEF InBlock, Loaded, types
  <2> QED BY <1>4, <2>4, <2>5, Zenon DEF types
<1>7. CASE j = l - 1
  <2>1. rg2 = [rg EXCEPT ![0] = Word("const", i - 1, 0)] /\ el2 = el
    BY <1>7, <1>d
  <2>2. rg2[p] = Object(<<types[i], i>>) /\ rg2[1] = Array /\ rg2[0] = Word("const", i - 1, 0)
    <3>1. j >= l - 1
      BY <1>1, <1>7
    <3>2. rg[p] = Object(<<types[i], i>>)
      BY <1>3, <3>1
    <3> QED BY <1>1, <1>2, <1>3, <2>1, <3>2
  <2>3. Waiting(types, rg2, i + 1)
    <3>1. i + 1 \in Nat \ {0} /\ types \in Seq(Shorties) /\ 0 \in Nat /\ 0 < 2
      BY <1>0, <1>1 DEF types
    <3> QED BY <1>3, <2>1, <3>1, StillWaiting
  <2>4. j + 1 = l /\ j + 1 <= l /\ ~(j + 1 < l - 1) /\ ~(l = 4 /\ j + 1 = 2)
    BY <1>1, <1>7
  <2>5. InBlock(types, rg2, el2, rs2, i, j + 1)
    BY <1>3, <2>1, <2>2, <2>3, <2>4, Zenon DEF InBlock, Loaded, types
  <2> QED BY <1>4, <2>4, <2>5, Zenon DEF types
<1>8. CASE j = l
  <2>1. rg2 = rg /\ el2 = [el EXCEPT ![i] = <<types[i], i>>]
    <3>1. rg[0].of = i - 1 /\ rg[p].of = <<types[i], i>>
      <4>1. j >= l - 1
        BY <1>1, <1>8
      <4> QED BY <1>3, <1>8, <4>1, WordParts DEF Object
    <3>2. (i - 1) + 1 = i
      BY <1>1
    <3> QED BY <1>8, <1>d, <3>1, <3>2
  <2>2. el2 = Filled(types, i + 1)
    BY <1>0, <1>3, <2>1, FilledMore, Zenon DEF types
  <2>3. Loaded(types, rg2, el2, i + 1) /\ Waiting(types, rg2, i + 1)
    BY <1>3, <2>1, <2>2 DEF Loaded
  <2>4. Stage(m, Begin(types, i + 1) + 1, rg2, el2, rs2)
    <3>1. i + 1 \in 1..(n + 1)
      BY <1>1
    <3> QED BY <2>3, <3>1, NextBlock, Zenon DEF types, n
  <2>5. Begin(types, i + 1) + 1 = Begin(types, i) + (j + 1)
    <3>1. Begin(types, i + 1) = Begin(types, i) + l /\ Begin(types, i) \in Nat
      BY <1>0, <1>1, Begins DEF types, n
    <3> QED BY <1>1, <1>8, <3>1
  <2> QED BY <2>4, <2>5 DEF types
<1>9. (l = 4 /\ j = 1) \/ (l = 4 /\ j = 2) \/ j = l - 1 \/ j = l
  <2>1. j \in 1..l
    BY DEF types
  <2> HIDE DEF l
  <2> QED BY <1>1, <2>1
<1> QED BY <1>5, <1>6, <1>7, <1>8, <1>9 DEF types

\* What the verifier demands, by the instruction.
LEMMA AcceptedIs ==
  ASSUME NEW i
  PROVE  /\ i.op = "const" => (Accepted(i) <=> i.a \in DOMAIN regs)
         /\ i.op = "new-array" => (Accepted(i) <=> Reg(i.b).type = "const" /\ i.a \in DOMAIN regs)
         /\ i.op = "valueOf" => (Accepted(i) <=> \A k \in DOMAIN i.a : Reg(i.a[k]) = Word(i.c, Reg(i.a[1]).of, k - 1))
         /\ i.op = "aput-object" => (Accepted(i) <=> /\ Reg(i.a).type = "L" /\ Reg(i.b) = Array
                                                     /\ Reg(i.c).type = "const" /\ Reg(i.c).of + 1 \in DOMAIN packed)
         /\ i.op = "sget-object" => (Accepted(i) <=> i.a \in DOMAIN regs)
         /\ i.op = "callback" => (Accepted(i) <=> Reg(i.a) = Hooker /\ Reg(i.b) = Array)
         /\ i.op = "move-result-object" => (Accepted(i) <=> result.type = "L" /\ i.a \in DOMAIN regs)
         /\ i.op = "move-result" => (Accepted(i) <=> result.type \in Primitive \ Wide /\ i.a \in DOMAIN regs)
         /\ i.op = "move-result-wide" =>
              (Accepted(i) <=> result.type \in Wide /\ {i.a, i.a + 1} \subseteq DOMAIN regs)
         /\ i.op \in {"check-cast", "unbox", "return-object"} => (Accepted(i) <=> Reg(i.a).type = "L")
         /\ i.op = "return" => (Accepted(i) <=> Reg(i.a).type = method.ret /\ method.ret \notin Wide)
         /\ i.op = "return-wide" =>
              (Accepted(i) <=> \A k \in {0, 1} : Reg(i.a + k) = Word(method.ret, Reg(i.a).of, k))
         /\ i.op = "return-void" => (Accepted(i) <=> method.ret = "V")
<1>1. ASSUME i.op = "const" PROVE Accepted(i) <=> i.a \in DOMAIN regs
  BY <1>1 DEF Accepted
<1>2. ASSUME i.op = "new-array" PROVE Accepted(i) <=> Reg(i.b).type = "const" /\ i.a \in DOMAIN regs
  BY <1>2 DEF Accepted
<1>3. ASSUME i.op = "valueOf" PROVE Accepted(i) <=> \A k \in DOMAIN i.a : Reg(i.a[k]) = Word(i.c, Reg(i.a[1]).of, k - 1)
  BY <1>3 DEF Accepted
<1>4. ASSUME i.op = "aput-object"
      PROVE  Accepted(i) <=> /\ Reg(i.a).type = "L" /\ Reg(i.b) = Array
                             /\ Reg(i.c).type = "const" /\ Reg(i.c).of + 1 \in DOMAIN packed
  BY <1>4 DEF Accepted
<1>5. ASSUME i.op = "sget-object" PROVE Accepted(i) <=> i.a \in DOMAIN regs
  BY <1>5 DEF Accepted
<1>6. ASSUME i.op = "callback" PROVE Accepted(i) <=> Reg(i.a) = Hooker /\ Reg(i.b) = Array
  BY <1>6 DEF Accepted
<1>7. ASSUME i.op = "move-result-object" PROVE Accepted(i) <=> result.type = "L" /\ i.a \in DOMAIN regs
  BY <1>7 DEF Accepted
<1>8. ASSUME i.op = "move-result" PROVE Accepted(i) <=> result.type \in Primitive \ Wide /\ i.a \in DOMAIN regs
  BY <1>8 DEF Accepted
<1>9. ASSUME i.op = "move-result-wide"
      PROVE  Accepted(i) <=> result.type \in Wide /\ {i.a, i.a + 1} \subseteq DOMAIN regs
  BY <1>9 DEF Accepted
<1>10. ASSUME i.op \in {"check-cast", "unbox", "return-object"} PROVE Accepted(i) <=> Reg(i.a).type = "L"
  BY <1>10 DEF Accepted
<1>11. ASSUME i.op = "return" PROVE Accepted(i) <=> Reg(i.a).type = method.ret /\ method.ret \notin Wide
  BY <1>11 DEF Accepted
<1>12. ASSUME i.op = "return-wide"
       PROVE  Accepted(i) <=> \A k \in {0, 1} : Reg(i.a + k) = Word(method.ret, Reg(i.a).of, k)
  BY <1>12 DEF Accepted
<1>13. ASSUME i.op = "return-void" PROVE Accepted(i) <=> method.ret = "V"
  BY <1>13 DEF Accepted
<1> QED BY <1>1, <1>2, <1>3, <1>4, <1>5, <1>6, <1>7, <1>8, <1>9, <1>10, <1>11, <1>12, <1>13, Zenon

\* The registers of a parameter are in the frame, behind the two of the code.
LEMMA InFrame ==
  ASSUME NEW m \in Methods, NEW i \in 1..Len(ParameterTypes(m))
  PROVE  /\ Place(ParameterTypes(m), i) \in Nat /\ Place(ParameterTypes(m), i) >= 2
         /\ SlotsOf(ParameterTypes(m)[i]) \in {1, 2} /\ Place(ParameterTypes(m), i) + 0 = Place(ParameterTypes(m), i)
         /\ \A h \in 0..(SlotsOf(ParameterTypes(m)[i]) - 1) :
              Place(ParameterTypes(m), i) + h \in 0..(Registers(m) - 1)
<1> DEFINE types == ParameterTypes(m)
           S == Slots(types)
           p == Place(types, i)
           w == SlotsOf(types[i])
           N == Registers(m)
<1>0. types \in Seq(Shorties)
  BY TypesKnown
<1>1. p \in Nat /\ p >= 2 /\ w \in {1, 2} /\ p + w <= 2 + S /\ S \in Nat
  <2>1. Len(types) \in 0..Len(types)
    BY <1>0
  <2> QED BY <1>0, <2>1, PlacesApart, SlotsAre DEF Slots
<1>2. N = 2 + S
  BY DEF Registers, NumRegisters
<1> HIDE DEF types, S, p, w, N
<1>3. (\A h \in 0..(w - 1) : p + h \in 0..(N - 1)) /\ p + 0 = p
  BY <1>1, <1>2
<1> QED BY <1>1, <1>3, Zenon DEF types, p, w, N

\* The code before the callback is accepted.
LEMMA BlockVerified ==
  ASSUME Where, Addressable(method),
         NEW i \in 1..Len(ParameterTypes(method)), NEW j \in 1..PackLength(ParameterTypes(method), i),
         at = Begin(ParameterTypes(method), i) + j, InBlock(ParameterTypes(method), regs, packed, result, i, j)
  PROVE  Accepted(Now) /\ Now.op # "callback" /\ (Now.op = "valueOf" => Len(Now.a) <= Outs(method))
<1> DEFINE types == ParameterTypes(method)
           p == Place(types, i)
           w == SlotsOf(types[i])
           l == PackLength(types, i)
           N == Registers(method)
<1>0. method \in Methods /\ types \in Seq(Shorties) /\ DOMAIN regs = 0..(N - 1) /\ Now = BuildDex(method)[at]
  BY TypesKnown DEF Where, Now, HookMethod
<1>1. /\ p \in Nat /\ p >= 2 /\ w \in {1, 2} /\ p + 0 = p
      /\ \A h \in 0..(w - 1) : p + h \in DOMAIN regs
  BY <1>0, InFrame
<1>2. 0 \in DOMAIN regs /\ 1 \in DOMAIN regs /\ p \in DOMAIN regs
  <2>1. 0 \in DOMAIN regs /\ 1 \in DOMAIN regs
    BY <1>0, FrameHolds
  <2>2. 0 \in 0..(w - 1)
    BY <1>1
  <2> QED BY <1>1, <2>1, <2>2
<1>3. Reg(0) = regs[0] /\ Reg(1) = regs[1] /\ Reg(p) = regs[p] /\ \A h \in 0..(w - 1) : Reg(p + h) = regs[p + h]
  BY <1>1, <1>2 DEF Reg
<1>4. /\ l = 4 /\ j = 1 => Now = Code("valueOf", [k \in 1..w |-> p + k - 1], 0, types[i])
      /\ l = 4 /\ j = 2 => Now = Code("move-result-object", p, 0, 0)
      /\ j = l - 1 => Now = Code("const", 0, i - 1, 0)
      /\ j = l => Now = Code("aput-object", p, 1, 0)
  <2> DEFINE b == Begin(types, i)
             C == BuildDex(method)
  <2>1. /\ l = 4 => /\ C[b + 1] = Code("valueOf", [k \in 1..w |-> p + k - 1], 0, types[i])
                    /\ C[b + 2] = Code("move-result-object", p, 0, 0)
        /\ C[b + (l - 1)] = Code("const", 0, i - 1, 0)
        /\ C[b + l] = Code("aput-object", p, 1, 0)
    <3>1. BlockAt(BuildDex(method), Begin(types, i), PackLength(types, i), Place(types, i), types[i], i)
      BY <1>0, BlockCode, Zenon
    <3> QED BY <3>1, Zenon DEF BlockAt
  <2>2. Now = C[b + j]
    BY <1>0
  <2> HIDE DEF b, C, l, p, w, types
  <2> QED BY <2>1, <2>2
<1>5. /\ regs[1] = Array /\ packed = Filled(types, i)
      /\ j < l - 1 => Waits(types, regs, i)
      /\ l = 4 /\ j = 2 => result = Object(<<types[i], i>>)
      /\ j >= l - 1 => regs[p] = Object(<<types[i], i>>)
      /\ j = l => regs[0] = Word("const", i - 1, 0)
  BY Zenon DEF InBlock, Loaded
<1>6. l \in {2, 4} /\ i \in 1..Len(types) /\ Len(types) \in Nat
  BY <1>0 DEF PackLength
<1>7. CASE l = 4 /\ j = 1
  <2> DEFINE a == [k \in 1..w |-> p + k - 1]
  <2>1. Now.op = "valueOf" /\ Now.a = a /\ Now.c = types[i]
    BY <1>4, <1>7, CodeParts
  <2>2. \A h \in 0..(w - 1) : Reg(p + h) = Word(types[i], <<types[i], i>>, h)
    <3>1. Waits(types, regs, i)
      BY <1>5, <1>7
    <3> QED BY <1>3, <3>1, Zenon DEF Waits
  <2>3. ASSUME NEW k \in 1..w PROVE Reg(a[k]) = Word(types[i], <<types[i], i>>, k - 1)
    <3>1. k - 1 \in 0..(w - 1) /\ p + k - 1 = p + (k - 1)
      <4> HIDE DEF p, w
      <4> QED BY <1>1
    <3>2. a[k] = p + (k - 1)
      BY <3>1
    <3> HIDE DEF a, p, w, types
    <3> QED BY <2>2, <3>1, <3>2
  <2>4. Reg(a[1]).of = <<types[i], i>>
    <3>1. 1 \in 1..w
      BY <1>1
    <3> QED BY <2>3, <3>1, WordParts
  <2>5. DOMAIN a = 1..w /\ Len(a) = w
    <3>1. a \in Seq(Nat) /\ DOMAIN a = 1..w /\ w \in Nat
      <4> HIDE DEF p, w
      <4> QED BY <1>1
    <3> HIDE DEF a, w
    <3> QED BY <3>1
  <2>6. Accepted(Now)
    <3> HIDE DEF a, w, p, types
    <3>1. \A k \in DOMAIN a : Reg(a[k]) = Word(Now.c, Reg(a[1]).of, k - 1)
      BY <2>1, <2>3, <2>4, <2>5
    <3> QED BY <2>1, <3>1, AcceptedIs
  <2>7. w <= Outs(method)
    BY <1>0, <1>1, OutsIs
  <2> HIDE DEF a, w
  <2> QED BY <2>1, <2>5, <2>6, <2>7
<1>8. CASE l = 4 /\ j = 2
  <2>1. Now.op = "move-result-object" /\ Now.a = p /\ result.type = "L"
    BY <1>4, <1>5, <1>8, CodeParts, WordParts DEF Object
  <2> HIDE DEF p, w, types
  <2> QED BY <1>2, <2>1, AcceptedIs
<1>9. CASE j = l - 1
  <2>1. Now.op = "const" /\ Now.a = 0
    BY <1>4, <1>9, CodeParts
  <2> QED BY <1>2, <2>1, AcceptedIs
<1>10. CASE j = l
  <2>1. Now.op = "aput-object" /\ Now.a = p /\ Now.b = 1 /\ Now.c = 0
    BY <1>4, <1>10, CodeParts
  <2>2. j >= l - 1
    BY <1>6, <1>10
  <2>3. Reg(p).type = "L" /\ Reg(1) = Array /\ Reg(0).type = "const" /\ Reg(0).of = i - 1
    BY <1>3, <1>5, <1>10, <2>2, WordParts DEF Object
  <2>4. (i - 1) + 1 \in DOMAIN packed
    <3>1. DOMAIN packed = 1..Len(types)
      BY <1>5 DEF Filled
    <3> QED BY <1>6, <3>1
  <2> HIDE DEF p, types
  <2> QED BY <2>1, <2>3, <2>4, AcceptedIs
<1>11. (l = 4 /\ j = 1) \/ (l = 4 /\ j = 2) \/ j = l - 1 \/ j = l
  BY <1>6
<1> QED BY <1>7, <1>8, <1>9, <1>10, <1>11

LEMMA EarlyVerified ==
  ASSUME Where, Addressable(method), Stage(method, at, regs, packed, result)
  PROVE  /\ Accepted(Now)
         /\ Now.op = "valueOf" => Len(Now.a) <= Outs(method)
         /\ Now.op = "callback" => packed = Filled(ParameterTypes(method), Len(ParameterTypes(method)) + 1)
<1> DEFINE types == ParameterTypes(method)
           n == Len(types)
<1>0. method \in Methods /\ types \in Seq(Shorties) /\ Now = BuildDex(method)[at]
  BY TypesKnown DEF Where, Now, HookMethod
<1>1. 0 \in DOMAIN regs /\ 1 \in DOMAIN regs /\ Reg(0) = regs[0] /\ Reg(1) = regs[1]
  <2>1. 0 \in DOMAIN regs /\ 1 \in DOMAIN regs
    BY <1>0, FrameHolds DEF Where
  <2> QED BY <2>1 DEF Reg
<1>2. /\ BuildDex(method)[1] = Code("const", 0, n, 0)
      /\ BuildDex(method)[2] = Code("new-array", 1, 0, 0)
      /\ BuildDex(method)[Head1(method) + 1] = Code("sget-object", 0, 0, 0)
      /\ BuildDex(method)[Head1(method) + 2] = Code("callback", 0, 1, 0)
  <2>1. n \in Nat
    BY <1>0
  <2>2. Const(tmp, n) = Code("const", 0, n, 0)
    BY <2>1, ConstIs
  <2>3. tmp = 0 /\ hook_params_array = 1
    BY DEF tmp, hook_params_array
  <2> QED BY <1>0, <2>2, <2>3, Layout, Zenon
<1>3. CASE at = 1
  <2>1. Now.op = "const" /\ Now.a = 0
    BY <1>0, <1>2, <1>3, CodeParts
  <2> QED BY <1>1, <2>1, AcceptedIs
<1>4. CASE at = 2 /\ regs[0] = Word("const", n, 0)
  <2>1. Now.op = "new-array" /\ Now.a = 1 /\ Now.b = 0 /\ Reg(0).type = "const"
    BY <1>0, <1>1, <1>2, <1>4, CodeParts, WordParts
  <2> QED BY <1>1, <2>1, AcceptedIs
<1>5. CASE \E i \in 1..n : \E j \in 1..PackLength(types, i) :
             at = Begin(types, i) + j /\ InBlock(types, regs, packed, result, i, j)
  BY <1>5, BlockVerified
<1>6. CASE at = Head1(method) + 1
  <2>1. Now.op = "sget-object" /\ Now.a = 0
    BY <1>0, <1>2, <1>6, CodeParts
  <2> QED BY <1>1, <2>1, AcceptedIs
<1>7. CASE at = Head1(method) + 2 /\ regs[0] = Hooker /\ Loaded(types, regs, packed, n + 1)
  <2>1. Now.op = "callback" /\ Now.a = 0 /\ Now.b = 1
    BY <1>0, <1>2, <1>7, CodeParts
  <2>2. Reg(0) = Hooker /\ Reg(1) = Array /\ packed = Filled(types, n + 1)
    BY <1>1, <1>7 DEF Loaded
  <2> QED BY <2>1, <2>2, AcceptedIs
<1> QED BY <1>3, <1>4, <1>5, <1>6, <1>7, Zenon DEF Stage

\* The code behind the callback is accepted.
LEMMA TailVerified ==
  ASSUME Where, Behind
  PROVE  Accepted(Now) /\ Now.op \notin {"valueOf", "callback"}
<1> DEFINE t == method.ret
           r == ReturnResultAs(t)
           R == returned.result
<1>1. method \in Methods /\ t \in Shorties \cup {"V"} /\ Head1(method) \in Nat
  BY TypesKnown, Layout DEF Where
<1>2. /\ t = "V" => Len(r) = 1 /\ r[1] = Code("return-void", 0, 0, 0)
      /\ t = "L" => Len(r) = 2 /\ r[1] = Code("check-cast", tmp, 0, "L") /\ r[2] = Code("return-object", tmp, 0, 0)
      /\ t \in Primitive =>
           /\ Len(r) = 4 /\ r[1] = Code("check-cast", tmp, 0, t) /\ r[2] = Code("unbox", tmp, 0, t)
           /\ t \in Wide => r[3] = Code("move-result-wide", tmp, 0, 0) /\ r[4] = Code("return-wide", tmp, 0, 0)
           /\ t \notin Wide => r[3] = Code("move-result", tmp, 0, 0) /\ r[4] = Code("return", tmp, 0, 0)
  <2>1. Returning(t, r)
    BY <1>1, ReturnIs
  <2> QED BY <2>1, Zenon DEF Returning
<1>3. t \in Primitive \cup {"V", "L"}
  BY <1>1 DEF Shorties
<1>6. 0 \in DOMAIN regs /\ 1 \in DOMAIN regs
  BY <1>1, FrameHolds DEF Where
<1>7. Reg(0) = regs[0] /\ Reg(1) = regs[1]
  BY <1>6 DEF Reg
<1> HIDE DEF r
<1>11. CASE at = Head1(method) + 3 /\ result = Object(R)
  <2>1. Now = Code("move-result-object", tmp, 0, 0)
    BY <1>1, <1>11, Layout DEF Now, HookMethod
  <2>2. Now.op = "move-result-object" /\ Now.a = 0 /\ result.type = "L"
    BY <1>11, <2>1, CodeParts, WordParts DEF tmp, Object
  <2> QED BY <1>6, <2>2, AcceptedIs
<1>12. ASSUME NEW k \in 1..Len(r), at = Head1(method) + 3 + k, Carried(k)
       PROVE  Accepted(Now) /\ Now.op \notin {"valueOf", "callback"}
  <2>1. Now = r[k]
    BY <1>1, <1>12, Layout, Zenon DEF Now, HookMethod, r
  <2>2. (t = "V" /\ k = 1) \/ (t = "L" /\ k \in {1, 2}) \/ (t \in Primitive /\ k \in {1, 2, 3, 4})
    <3>1. (t = "V" /\ Len(r) = 1) \/ (t = "L" /\ Len(r) = 2) \/ (t \in Primitive /\ Len(r) = 4)
      BY <1>2, <1>3
    <3>2. (Len(r) = 1 => k = 1) /\ (Len(r) = 2 => k \in {1, 2}) /\ (Len(r) = 4 => k \in {1, 2, 3, 4})
      <4> DEFINE l == Len(r)
      <4>1. k \in 1..l
        OBVIOUS
      <4> HIDE DEF l
      <4>2. (l = 1 => k = 1) /\ (l = 2 => k \in {1, 2}) /\ (l = 4 => k \in {1, 2, 3, 4})
        BY <4>1
      <4> QED BY <4>2 DEF l
    <3> QED BY <3>1, <3>2
  <2>3. CASE t = "V" /\ k = 1
    <3>1. Now.op = "return-void"
      BY <1>2, <2>1, <2>3, CodeParts
    <3> QED BY <2>3, <3>1, AcceptedIs
  <2>4. CASE k = 1 /\ t # "V"
    <3>1. Now.op = "check-cast" /\ Now.a = 0
      BY <1>2, <2>1, <2>2, <2>4, CodeParts DEF tmp
    <3>2. regs[0].type = "L"
      BY <2>4, <1>12, WordParts DEF Carried, Object
    <3> QED BY <1>7, <3>1, <3>2, AcceptedIs
  <2>5. CASE k = 2
    <3>1. Now.op \in {"unbox", "return-object"} /\ Now.a = 0
      BY <1>2, <2>1, <2>2, <2>5, CodeParts DEF tmp
    <3>2. regs[0].type = "L"
      BY <2>5, <1>12, WordParts DEF Carried, Object
    <3> QED BY <1>7, <3>1, <3>2, AcceptedIs
  <2>6. CASE k = 3
    <3>1. t \in Primitive /\ result.type = t
      BY <1>12, <2>2, <2>6, WordParts DEF Carried
    <3>2. CASE t \in Wide
      <4>1. Now.op = "move-result-wide" /\ Now.a = 0
        BY <1>2, <2>1, <2>6, <3>1, <3>2, CodeParts DEF tmp
      <4>2. {0, 0 + 1} \subseteq DOMAIN regs
        BY <1>6
      <4> QED BY <3>1, <3>2, <4>1, <4>2, AcceptedIs
    <3>3. CASE t \notin Wide
      <4>1. Now.op = "move-result" /\ Now.a = 0
        BY <1>2, <2>1, <2>6, <3>1, <3>3, CodeParts DEF tmp
      <4> QED BY <1>6, <3>1, <3>3, <4>1, AcceptedIs
    <3> QED BY <3>2, <3>3
  <2>7. CASE k = 4
    <3>1. t \in Primitive /\ regs[0] = Word(t, R, 0) /\ (t \in Wide => regs[1] = Word(t, R, 1))
      BY <1>12, <2>2, <2>7 DEF Carried
    <3>2. CASE t \in Wide
      <4>1. Now.op = "return-wide" /\ Now.a = 0
        BY <1>2, <2>1, <2>7, <3>1, <3>2, CodeParts DEF tmp
      <4>2. \A h \in {0, 1} : Reg(0 + h) = Word(t, Reg(0).of, h)
        <5>1. Reg(0) = Word(t, R, 0) /\ Reg(1) = Word(t, R, 1) /\ Reg(0).of = R
          BY <1>7, <3>1, <3>2, WordParts
        <5>2. 0 + 0 = 0 /\ 0 + 1 = 1
          OBVIOUS
        <5> QED BY <5>1, <5>2
      <4> QED BY <4>1, <4>2, AcceptedIs
    <3>3. CASE t \notin Wide
      <4>1. Now.op = "return" /\ Now.a = 0
        BY <1>2, <2>1, <2>7, <3>1, <3>3, CodeParts DEF tmp
      <4>2. Reg(0).type = t
        BY <1>7, <3>1, WordParts
      <4> QED BY <3>3, <4>1, <4>2, AcceptedIs
    <3> QED BY <3>2, <3>3
  <2>8. t = "V" \/ t # "V"
    OBVIOUS
  <2> QED BY <2>2, <2>3, <2>4, <2>5, <2>6, <2>7, <2>8
<1> QED BY <1>11, <1>12 DEF Behind, r

LEMMA EnteredWaits == ASSUME NEW m \in Methods PROVE Waiting(ParameterTypes(m), Entered(m), 1)
<1> SUFFICES ASSUME NEW k \in 1..Len(ParameterTypes(m)), NEW h \in 0..(SlotsOf(ParameterTypes(m)[k]) - 1)
             PROVE  Entered(m)[Place(ParameterTypes(m), k) + h]
                      = Word(ParameterTypes(m)[k], <<ParameterTypes(m)[k], k>>, h)
  BY Zenon DEF Waiting, Waits
<1> QED BY EnteredIs, Zenon

\* Each instruction for an argument does what it is there for.
LEMMA BlockStep ==
  ASSUME Where, Addressable(method), HookedNext,
         NEW i \in 1..Len(ParameterTypes(method)), NEW j \in 1..PackLength(ParameterTypes(method), i),
         at = Begin(ParameterTypes(method), i) + j, InBlock(ParameterTypes(method), regs, packed, result, i, j)
  PROVE  Stage(method, at + 1, regs', packed', result') /\ at' = at + 1
<1> DEFINE types == ParameterTypes(method)
           p == Place(types, i)
           l == PackLength(types, i)
           w == SlotsOf(types[i])
           b == Begin(types, i)
           C == BuildDex(method)
<1>0. method \in Methods /\ types \in Seq(Shorties) /\ Now = C[at] /\ DOMAIN regs = 0..(Registers(method) - 1)
  BY TypesKnown DEF Where, Now, HookMethod
<1>1. /\ p \in Nat /\ w \in {1, 2} /\ p + 0 = p /\ \A h \in 0..(w - 1) : p + h \in DOMAIN regs
  BY <1>0, InFrame
<1>2. Reg(0) = regs[0] /\ Reg(1) = regs[1] /\ Reg(p) = regs[p]
  <2>1. 0 \in DOMAIN regs /\ 1 \in DOMAIN regs
    BY <1>0, FrameHolds
  <2>2. 0 \in 0..(w - 1)
    BY <1>1
  <2> QED BY <1>1, <2>1, <2>2 DEF Reg
<1>3. l \in {2, 4} /\ b \in Nat /\ i \in Nat
  BY <1>0, Begins DEF PackLength
<1>4. /\ l = 4 /\ j = 1 => Now = Code("valueOf", [k \in 1..w |-> p + k - 1], 0, types[i])
      /\ l = 4 /\ j = 2 => Now = Code("move-result-object", p, 0, 0)
      /\ j = l - 1 => Now = Code("const", 0, i - 1, 0)
      /\ j = l => Now = Code("aput-object", p, 1, 0)
  <2>1. BlockAt(C, b, l, p, types[i], i)
    BY <1>0, BlockCode, Zenon
  <2>2. /\ l = 4 => /\ C[b + 1] = Code("valueOf", [k \in 1..w |-> p + k - 1], 0, types[i])
                    /\ C[b + 2] = Code("move-result-object", p, 0, 0)
        /\ C[b + (l - 1)] = Code("const", 0, i - 1, 0)
        /\ C[b + l] = Code("aput-object", p, 1, 0)
    BY <2>1, Zenon DEF BlockAt
  <2>3. Now = C[b + j]
    BY <1>0
  <2> HIDE DEF b, C, l, p, w, types
  <2> QED BY <2>2, <2>3
<1>5. l = 4 /\ j = 1 => at' = at + 1 /\ regs' = regs /\ packed' = packed /\ result' = Object(regs[p].of)
  <2> SUFFICES ASSUME l = 4, j = 1
               PROVE  at' = at + 1 /\ regs' = regs /\ packed' = packed /\ result' = Object(regs[p].of)
    OBVIOUS
  <2>1. Now.op = "valueOf" /\ Now.a = [k \in 1..w |-> p + k - 1]
    BY <1>4, CodeParts
  <2>2. Now.a[1] = p
    <3>1. 1 \in 1..w /\ p + 1 - 1 = p
      <4> HIDE DEF p, w
      <4> QED BY <1>1
    <3> HIDE DEF p, w
    <3> QED BY <2>1, <3>1
  <2> HIDE DEF p
  <2> QED BY <1>2, <2>1, <2>2, DoesValueOf
<1>6. l = 4 /\ j = 2 => at' = at + 1 /\ regs' = [regs EXCEPT ![p] = result] /\ packed' = packed
  <2> SUFFICES ASSUME l = 4, j = 2
               PROVE  at' = at + 1 /\ regs' = [regs EXCEPT ![p] = result] /\ packed' = packed
    OBVIOUS
  <2>1. Now.op = "move-result-object" /\ Now.a = p
    BY <1>4, CodeParts
  <2> HIDE DEF p
  <2> QED BY <2>1, DoesMoveResult
<1>7. j = l - 1 => at' = at + 1 /\ regs' = [regs EXCEPT ![0] = Word("const", i - 1, 0)] /\ packed' = packed
  <2> SUFFICES ASSUME j = l - 1
               PROVE  at' = at + 1 /\ regs' = [regs EXCEPT ![0] = Word("const", i - 1, 0)] /\ packed' = packed
    OBVIOUS
  <2>1. Now.op = "const" /\ Now.a = 0 /\ Now.b = i - 1
    BY <1>4, CodeParts
  <2> QED BY <2>1, DoesConst
<1>8. j = l => at' = at + 1 /\ regs' = regs /\ packed' = [packed EXCEPT ![regs[0].of + 1] = regs[p].of]
  <2> SUFFICES ASSUME j = l
               PROVE  at' = at + 1 /\ regs' = regs /\ packed' = [packed EXCEPT ![regs[0].of + 1] = regs[p].of]
    OBVIOUS
  <2>1. Now.op = "aput-object" /\ Now.a = p /\ Now.c = 0
    BY <1>4, CodeParts
  <2> HIDE DEF p
  <2> QED BY <1>2, <2>1, DoesAput
<1>9. (l = 4 /\ j = 1) \/ (l = 4 /\ j = 2) \/ j = l - 1 \/ j = l
  BY <1>3
<1>10. at' = at + 1
  BY <1>5, <1>6, <1>7, <1>8, <1>9
<1>11. Stage(method, b + (j + 1), regs', packed', result')
  <2>1. BlockDoes(types, i, j, regs, packed, result, regs', packed', result')
    BY <1>5, <1>6, <1>7, <1>8, Zenon DEF BlockDoes
  <2> QED BY <1>0, <2>1, BlockOnward, Zenon
<1>12. at + 1 = b + (j + 1)
  <2>1. at = b + j /\ j \in Nat
    BY <1>3
  <2> HIDE DEF b
  <2> QED BY <1>3, <2>1
<1> QED BY <1>10, <1>11, <1>12

LEMMA StageStep ==
  ASSUME Where, Addressable(method), HookedNext, Stage(method, at, regs, packed, result), at # Head1(method) + 2
  PROVE  Stage(method', at', regs', packed', result')
<1> DEFINE types == ParameterTypes(method)
           n == Len(types)
<1>0. method \in Methods /\ types \in Seq(Shorties) /\ Now = BuildDex(method)[at] /\ n \in Nat
  <2>1. method \in Methods /\ types \in Seq(Shorties) /\ Now = BuildDex(method)[at]
    BY TypesKnown DEF Where, Now, HookMethod
  <2> QED BY <2>1
<1>m. method' = method
  BY FittingStays
<1>1. 0 \in DOMAIN regs /\ 1 \in DOMAIN regs /\ Reg(0) = regs[0]
  <2>1. 0 \in DOMAIN regs /\ 1 \in DOMAIN regs
    BY <1>0, FrameHolds DEF Where
  <2> QED BY <2>1 DEF Reg
<1>2. /\ BuildDex(method)[1] = Code("const", 0, n, 0)
      /\ BuildDex(method)[2] = Code("new-array", 1, 0, 0)
      /\ BuildDex(method)[Head1(method) + 1] = Code("sget-object", 0, 0, 0)
      /\ Head1(method) \in Nat
  <2>2. Const(tmp, n) = Code("const", 0, n, 0)
    BY <1>0, ConstIs
  <2>3. tmp = 0 /\ hook_params_array = 1
    BY DEF tmp, hook_params_array
  <2> QED BY <1>0, <2>2, <2>3, Layout, Zenon
<1>3. CASE at = 1 /\ Waiting(types, regs, 1)
  <2>1. Now.op = "const" /\ Now.a = 0 /\ Now.b = n
    BY <1>0, <1>2, <1>3, CodeParts
  <2>2. at' = 2 /\ regs' = [regs EXCEPT ![0] = Word("const", n, 0)]
    BY <1>3, <2>1, DoesConst
  <2>3. Waiting(types, regs', 1)
    <3>1. 1 \in Nat \ {0} /\ 0 \in Nat /\ 0 < 2
      OBVIOUS
    <3> QED BY <1>0, <1>3, <2>2, <3>1, StillWaiting, Zenon
  <2>4. regs'[0] = Word("const", n, 0)
    BY <1>1, <2>2
  <2> QED BY <1>m, <2>2, <2>3, <2>4 DEF Stage
<1>4. CASE at = 2 /\ Waiting(types, regs, 1) /\ regs[0] = Word("const", n, 0)
  <2>1. Now.op = "new-array" /\ Now.a = 1 /\ Now.b = 0 /\ Reg(0).of = n
    BY <1>0, <1>1, <1>2, <1>4, CodeParts, WordParts
  <2>2. at' = 3 /\ regs' = [regs EXCEPT ![1] = Array] /\ packed' = [k \in 1..n |-> Null]
    BY <1>4, <2>1, DoesNewArray
  <2>3. Waiting(types, regs', 1)
    <3>1. 1 \in Nat \ {0} /\ 1 \in Nat /\ 1 < 2
      OBVIOUS
    <3> QED BY <1>0, <1>4, <2>2, <3>1, StillWaiting, Zenon
  <2>4. regs'[1] = Array
    BY <1>1, <2>2
  <2>5. packed' = Filled(types, 1)
    BY <1>0, <2>2 DEF Filled
  <2>6. Loaded(types, regs', packed', 1)
    BY <2>4, <2>5 DEF Loaded
  <2>7. 1 \in 1..(n + 1)
    BY <1>0
  <2>8. Stage(method, Begin(types, 1) + 1, regs', packed', result')
    BY <1>0, <2>3, <2>6, <2>7, NextBlock, Zenon
  <2>9. Begin(types, 1) + 1 = at'
    BY <1>0, <2>2, Begins
  <2> QED BY <1>m, <2>8, <2>9
<1>5. ASSUME NEW i \in 1..n, NEW j \in 1..PackLength(types, i),
             at = Begin(types, i) + j, InBlock(types, regs, packed, result, i, j)
      PROVE  Stage(method', at', regs', packed', result')
  BY <1>m, <1>5, BlockStep
<1>6. CASE at = Head1(method) + 1 /\ Loaded(types, regs, packed, n + 1)
  <2>1. Now.op = "sget-object" /\ Now.a = 0
    BY <1>0, <1>2, <1>6, CodeParts
  <2>2. at' = Head1(method) + 2 /\ regs' = [regs EXCEPT ![0] = Hooker] /\ packed' = packed
    BY <1>2, <1>6, <2>1, DoesSget
  <2>3. regs'[0] = Hooker /\ regs'[1] = regs[1]
    BY <1>1, <2>2
  <2>4. Loaded(types, regs', packed', n + 1)
    BY <1>6, <2>2, <2>3 DEF Loaded
  <2> QED BY <1>m, <2>2, <2>3, <2>4 DEF Stage
<1>7. \/ at = 1 /\ Waiting(types, regs, 1)
      \/ at = 2 /\ Waiting(types, regs, 1) /\ regs[0] = Word("const", n, 0)
      \/ \E i \in 1..n : \E j \in 1..PackLength(types, i) :
           at = Begin(types, i) + j /\ InBlock(types, regs, packed, result, i, j)
      \/ at = Head1(method) + 1 /\ Loaded(types, regs, packed, n + 1)
  BY Zenon DEF Stage
<1> QED BY <1>3, <1>4, <1>5, <1>6, <1>7

\* On the way to the callback the registers and the array are what the code
\* has made of what the caller passed.
ReadyInv ==
  /\ CallInv
  /\ Addressable(method) => Stage(method, at, regs, packed, result) \/ Behind

LEMMA InitReadyInv == HookedInit => ReadyInv
<1> SUFFICES ASSUME HookedInit PROVE ReadyInv
  OBVIOUS
<1>1. method \in Methods /\ at = 1 /\ regs = Entered(method)
  BY DEF HookedInit
<1> QED BY <1>1, InitCallInv, EnteredWaits DEF ReadyInv, Stage

LEMMA StepReadyInv == ReadyInv /\ [HookedNext]_<<hookerVars, vars>> => ReadyInv'
<1> SUFFICES ASSUME ReadyInv, [HookedNext]_<<hookerVars, vars>> PROVE ReadyInv'
  OBVIOUS
<1>1. CallInv /\ CallInv' /\ IInv /\ Passed /\ Where /\ method' = method
  BY StepCallInv, FittingStays DEF ReadyInv, CallInv
<1>2. SUFFICES ASSUME Addressable(method)
               PROVE  Stage(method', at', regs', packed', result') \/ Behind'
  BY <1>1 DEF ReadyInv
<1>3. Stage(method, at, regs, packed, result) \/ Behind
  BY <1>2 DEF ReadyInv
<1>4. CASE HookedNext /\ Behind
  BY <1>1, <1>4, TailStep, Zenon
<1>5. CASE HookedNext /\ Stage(method, at, regs, packed, result) /\ at # Head1(method) + 2
  BY <1>1, <1>2, <1>5, StageStep
<1>6. CASE HookedNext /\ at = Head1(method) + 2 /\ Stage(method, at, regs, packed, result)
  <2>1. UNCHANGED <<at, regs, packed>> \/ Behind'
    BY <1>1, <1>6, CallbackStep, Zenon
  <2>2. ASSUME UNCHANGED <<at, regs, packed>> PROVE Stage(method', at', regs', packed', result')
    <3>1. at' = at /\ regs' = regs /\ packed' = packed
      BY <2>2
    <3>2. Loaded(ParameterTypes(method), regs, packed, Len(ParameterTypes(method)) + 1) /\ regs[0] = Hooker
      <4>1. Now = Code("callback", 0, 1, 0)
        BY <1>1, <1>6, Layout, Zenon DEF Where, Now, HookMethod, tmp, hook_params_array
      <4>2. Now.op = "callback" /\ Now.a = 0 /\ Now.b = 1
        BY <4>1, CodeParts
      <4>3. Accepted(Now) /\ packed = Filled(ParameterTypes(method), Len(ParameterTypes(method)) + 1)
        BY <1>1, <1>2, <1>6, <4>2, EarlyVerified
      <4>4. Reg(0) = Hooker /\ Reg(1) = Array
        BY <4>2, <4>3, AcceptedIs
      <4>5. 0 \in DOMAIN regs /\ 1 \in DOMAIN regs
        BY <1>1, FrameHolds DEF Where
      <4> QED BY <4>3, <4>4, <4>5 DEF Reg, Loaded
    <3> QED BY <1>1, <1>6, <3>1, <3>2 DEF Stage
  <2> QED BY <2>1, <2>2
<1>7. CASE UNCHANGED <<hookerVars, vars>>
  <2>1. UNCHANGED <<method, at, regs, packed, result>> /\ pc' = pc /\ returned' = returned
    BY <1>7 DEF hookerVars, frame, vars
  <2>2. Behind' = Behind
    BY <2>1 DEF Behind, Carried
  <2> QED BY <1>3, <2>1, <2>2
<1> QED BY <1>3, <1>4, <1>5, <1>6, <1>7

\* Whatever the signature, the verifier accepts the generated code as long as
\* its registers can be named: no operand of the wrong type, no index out of
\* bounds, no torn long or double, no invoke with more arguments than the frame
\* has room for (dex_builder.cc:376-479, lsplant.cc:399-432).
THEOREM GeneratedCodeVerifies == HookedSpec => []CodeVerifies
<1>1. ReadyInv => CodeVerifies
  <2> SUFFICES ASSUME ReadyInv, Addressable(method)
               PROVE  Accepted(Now) /\ (Now.op = "valueOf" => Len(Now.a) <= Outs(method))
    BY DEF CodeVerifies
  <2>1. Where
    BY DEF ReadyInv, CallInv
  <2> QED BY <2>1, EarlyVerified, TailVerified DEF ReadyInv
<1> QED BY <1>1, InitReadyInv, StepReadyInv, PTL DEF HookedSpec

\* Then the callback finds this and every argument that the caller passed,
\* boxed in its own type and in its place (lsplant.cc:404-412,
\* CalvinBridge.java:360-367).
THEOREM EveryArgumentArrives == HookedSpec => []ArgumentsArrive
<1>1. ReadyInv => ArgumentsArrive
  <2> SUFFICES ASSUME ReadyInv, Now.op = "callback", Addressable(method)
               PROVE  /\ packed = TheArguments /\ Len(args) = Len(method.params)
                      /\ \A i \in DOMAIN method.params : args[i][1] = method.params[i]
                      /\ thisObject = IF method.static THEN Null ELSE Argument(1)
    BY DEF ArgumentsArrive
  <2> DEFINE types == ParameterTypes(method)
             n == Len(types)
             k == Len(method.params)
  <2>1. Where
    BY DEF ReadyInv, CallInv
  <2>2. packed = Filled(types, n + 1)
    BY <2>1, EarlyVerified, TailVerified DEF ReadyInv
  <2>3. /\ types \in Seq(Shorties) /\ method.params \in Seq(Shorties) /\ method.static \in BOOLEAN
        /\ n = k + (IF method.static THEN 0 ELSE 1)
        /\ \A i \in 1..k : types[IF method.static THEN i ELSE i + 1] = method.params[i]
    BY <2>1, TypesKnown DEF Where
  <2>4. n \in Nat /\ k \in Nat /\ DOMAIN types = 1..n /\ DOMAIN method.params = 1..k
    <3>1. n \in Nat /\ DOMAIN types = 1..n
      <4>1. types \in Seq(Shorties)
        BY <2>3
      <4> HIDE DEF types
      <4> QED BY <4>1
    <3>2. k \in Nat /\ DOMAIN method.params = 1..k
      <4> DEFINE q == method.params
      <4>1. q \in Seq(Shorties)
        BY <2>3
      <4> HIDE DEF q
      <4>2. Len(q) \in Nat /\ DOMAIN q = 1..Len(q)
        BY <4>1
      <4> QED BY <4>2 DEF q
    <3> QED BY <3>1, <3>2
  <2>5. \A i \in 1..n : Argument(i) = <<types[i], i>> /\ Argument(i)[1] = types[i]
    BY DEF Argument
  <2>6. packed = TheArguments
    <3>1. TheArguments = [i \in 1..n |-> <<types[i], i>>]
      BY <2>4 DEF TheArguments, Argument
    <3>2. Filled(types, n + 1) = [i \in 1..n |-> <<types[i], i>>]
      <4>1. \A i \in 1..n : i < n + 1
        BY <2>4
      <4> QED BY <4>1 DEF Filled
    <3> QED BY <2>2, <3>1, <3>2
  <2>7. /\ packed \in Seq({Argument(i) : i \in 1..n}) /\ Len(packed) = n
        /\ \A i \in 1..n : packed[i] = Argument(i)
    <3>1. packed = [i \in 1..n |-> Argument(i)]
      BY <2>4, <2>6 DEF TheArguments
    <3> HIDE DEF n
    <3> QED BY <2>4, <3>1
  <2> HIDE DEF types, n, k
  <2>8. CASE method.static
    <3>1. args = packed /\ thisObject = Null /\ n = k
      BY <2>3, <2>4, <2>8 DEF args, thisObject
    <3>2. \A i \in 1..k : args[i][1] = method.params[i]
      BY <2>3, <2>5, <2>7, <2>8, <3>1
    <3> QED BY <2>4, <2>6, <2>7, <2>8, <3>1, <3>2 DEF k
  <2>9. CASE ~method.static
    <3>1. args = Tail(packed) /\ thisObject = packed[1] /\ n = k + 1
      BY <2>3, <2>4, <2>9 DEF args, thisObject
    <3>2. Len(Tail(packed)) = k /\ \A i \in 1..k : Tail(packed)[i] = packed[i + 1]
      BY <2>4, <2>7, <3>1
    <3>3. ASSUME NEW i \in 1..k PROVE args[i][1] = method.params[i]
      <4>1. i + 1 \in 1..n
        BY <2>4, <3>1
      <4>2. args[i] = Argument(i + 1)
        BY <2>7, <3>1, <3>2, <4>1
      <4> QED BY <2>3, <2>5, <2>9, <4>1, <4>2
    <3>4. thisObject = Argument(1)
      BY <2>4, <2>7, <3>1
    <3> QED BY <2>4, <2>6, <2>9, <3>1, <3>2, <3>3, <3>4 DEF k
  <2> QED BY <2>3, <2>8, <2>9
<1> QED BY <1>1, InitReadyInv, StepReadyInv, PTL DEF HookedSpec
====
