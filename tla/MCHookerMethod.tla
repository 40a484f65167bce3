--------------------------- MODULE MCHookerMethod ---------------------------
(***************************************************************************)
(* HookerMethod, DexImage and SortedCallbacks for TLC: results are an       *)
(* Integer and a Long, methods have parameters on both sides of every limit *)
(* of a register field, an int has 8 values.  The image is made before any  *)
(* call, and the set of callbacks is a component of its own: a behaviour is *)
(* a call, or the making of an image, or changes of the set.                *)
(***************************************************************************)
EXTENDS DexImage, SortedCallbacks

CONSTANTS v1, w1, x1, c1, c2, c3, c4

\* Priorities whose differences are ints.
MCNearPriorities == {-1, 0, 2}

MCBoxOf == [v \in Values |-> IF v = v1 THEN "I" ELSE "J"]

M(ret, params, static) == [ret |-> ret, params |-> params, static |-> static]

MCMethods ==
  { M("V", <<>>, TRUE), M("I", <<>>, TRUE), M("L", <<>>, FALSE), M("I", <<"I", "J", "Z">>, TRUE),
    M("J", <<"D", "L", "I">>, FALSE),
    M("L", <<"I", "J", "L", "S">>, FALSE), M("L", <<"J", "I", "I", "I", "F">>, TRUE),
    M("V", <<"B", "J", "I", "J">>, FALSE), M("I", <<"J", "J", "J", "Z">>, TRUE) }

\* Names before, behind and equal to those that BuildDex uses itself, "I"
\* being also a shorty and a type.
MCTargetNames == {<<"target">>, <<"backup">>, <<"valueOf">>, <<"hooker">>, <<"I">>}

Letters == <<"[", "B", "D", "F", "I", "J", "L", "S", "V", "Z">>
Used == <<"target", "LSPHooker_", "callback", "LSP", "Object", "valueOf", "boxed", "HookInfo", "Value", "backup", "hooker">>
MCAlphabets == {Letters \o Used, Used \o Letters, Reverse(Letters \o Used)}

VARIABLE side  \* "call", "image" or "set"

\* No image has been begun, and the set is empty.
NoImage ==
  /\ name = <<>> /\ rank = <<>> /\ calls = <<>> /\ nodes = <<>> /\ maps = <<>>
  /\ step = "none" /\ offset = 0 /\ node_offset = <<>> /\ image = <<>>
NoSet ==
  /\ priority = [c \in Callbacks |-> 0] /\ hash = [c \in Callbacks |-> 1] /\ elements = <<>>

\* The call that the other two leave alone.
OneCall ==
  hookCount = 0 /\ orig = [ending |-> Ending(Null, x1), fails |-> FALSE] /\ HookedInit

\* Two callbacks for the short signatures, one for the long.
CallInit == side = "call" /\ HookedInit /\ (hookCount = 2 => method.params = <<>>) /\ NoImage /\ NoSet
MakeInit == side = "image" /\ OneCall /\ ImageInit /\ NoSet
SortInit == side = "set" /\ OneCall /\ method = M("V", <<>>, TRUE) /\ NoImage /\ SetInit

MCInit == CallInit \/ MakeInit \/ SortInit

MCNext ==
  \/ side = "call" /\ HookedNext /\ UNCHANGED <<dexVars, setVars, side>>
  \/ side = "image" /\ ImageNext /\ UNCHANGED <<setVars, side>>
  \/ side = "set" /\ SetNext /\ UNCHANGED <<dexVars, hookerVars, vars, side>>

MCSpec == MCInit /\ [][MCNext]_<<dexVars, hookerVars, vars, setVars, side>>
=============================================================================
