---------------------------- MODULE HookRegistry ----------------------------
(***************************************************************************)
(* What CalvinBridge promises of its registry: a set of pairs of a method  *)
(* and a callback, which hookMethod and unhookMethod change in one step    *)
(* each, however many accesses of several threads they are made of.        *)
(*                                                                         *)
(* The one exception: a method that was found without callbacks retires,   *)
(* and whatever is hooked into it until that is done goes with it.         *)
(***************************************************************************)
CONSTANTS Methods, Callbacks

VARIABLES hooks,    \* the pairs that calls are dispatched to
          retiring  \* the methods an unhookMethod is giving up

Of(m) == {m} \X Callbacks

Init == hooks = {} /\ retiring = {}

Hook(m, c) == hooks' = hooks \cup {<<m, c>>} /\ UNCHANGED retiring

Unhook(m, c) ==
  /\ m \notin retiring
  /\ hooks' = hooks \ {<<m, c>>}
  /\ UNCHANGED retiring

\* Only a method without callbacks begins to retire.
Empty(m) ==
  /\ m \notin retiring /\ hooks \cap Of(m) = {}
  /\ retiring' = retiring \cup {m}
  /\ UNCHANGED hooks

Retire(m) ==
  /\ m \in retiring
  /\ retiring' = retiring \ {m}
  /\ hooks' = hooks \ Of(m)

Next == \E m \in Methods :
  \/ \E c \in Callbacks : Hook(m, c) \/ Unhook(m, c)
  \/ Empty(m) \/ Retire(m)

Spec == Init /\ [][Next]_<<hooks, retiring>>
=============================================================================
