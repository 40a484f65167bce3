---------------------------- MODULE HookerMethod ----------------------------
(***************************************************************************)
(* A call of a hooked method as its caller sees it: the method that LSPlant *)
(* generates (BuildDex of lsplant.cc, with the MethodBuilder of             *)
(* dex_builder) boxes the arguments into an array, calls HookInfo.callback, *)
(* which is HookCallback, and unboxes what that returns.                    *)
(*                                                                         *)
(* The first half of the module generates the code.  The second half is the *)
(* meaning of its instructions in the runtime, outside the code.  Registers *)
(* are numbered from 0, the types are those of a shorty.                    *)
(***************************************************************************)
EXTENDS HookCallback, SequencesExt

CONSTANTS
  Methods,    \* what is hooked: [ret, params, static]
  ShortSpan,  \* registers that a field of four bits can name
  FieldSpan,  \* registers that a field of eight bits can name
  BoxOf,      \* the type a value is the box of, "L" for other objects
  NullError   \* the NullPointerException of unboxing null

ASSUME SpansAssumption ==
  /\ ShortSpan \in Nat \ {0} /\ FieldSpan \in Nat \ {0} /\ ShortSpan % 2 = 0
  /\ FieldSpan % ShortSpan = 0 /\ BoxOf \in [Values -> {"Z", "B", "C", "S", "I", "F", "J", "D", "L"}]

VARIABLES
  method,    \* the hooked method that is called
  at,        \* the next instruction of its generated method
  regs,      \* the registers of the frame
  packed,    \* the array of the arguments
  result,    \* what move-result will find
  seen       \* what the caller sees, or Running

frame == <<at, regs, packed, result, seen>>
hookerVars == <<method, frame>>

-----------------------------------------------------------------------------
(* Code generation *)

Wide == {"J", "D"}
Primitive == Wide \cup {"Z", "B", "C", "S", "I", "F"}

ASSUME MethodsAssumption ==
  Methods \subseteq [ret : Primitive \cup {"V", "L"}, params : Seq(Primitive \cup {"L"}), static : BOOLEAN]

SlotsOf(t) == IF t \in Wide THEN 2 ELSE 1

\* The slots of the first i parameters.
SlotsUpTo(types) ==
  LET slots[i \in 0 .. Len(types)] == IF i = 0 THEN 0 ELSE slots[i - 1] + SlotsOf(types[i])
  IN slots
Slots(types) == SlotsUpTo(types)[Len(types)]

\* Mutant: static methods are not told apart.
ParameterTypesWithThis(m) == <<"L">> \o m.params

\* "this" is the first parameter of the generated method, which is static.
ParameterTypes(m) == (IF m.static THEN <<>> ELSE <<"L">>) \o m.params

\* The two registers allocated, tmp first because of wide results.
tmp == 0
hook_params_array == 1
NumRegisters == 2

\* RegisterValue of the parameter at a slot: behind the registers.
Parameter(j) == NumRegisters + j

\* The slot of the i-th parameter.
SlotBefore(types, i) == SlotsUpTo(types)[i - 1]

Code(op, a, b, c) == [op |-> op, a |-> a, b |-> b, c |-> c]

Field(r) == r % FieldSpan

\* const/4, whose number is signed, or const/16.
Const(r, n) ==
  IF r < ShortSpan /\ n < ShortSpan \div 2
  THEN Code("const", r, ((n + ShortSpan \div 2) % ShortSpan) - ShortSpan \div 2, 0)
  ELSE Code("const", Field(r), n, 0)

\* Mutant: the second register of a pair is not looked at.
ArgumentsOfFirst(t, r) ==
  IF r >= ShortSpan
  THEN [k \in 1 .. SlotsOf(t) |-> r + k - 1]
  ELSE [k \in 1 .. SlotsOf(t) |-> (r + k - 1) % ShortSpan]

\* The registers of an invoke: one by one in short fields, or as a range.
Arguments(t, r) ==
  IF r >= ShortSpan \/ (t \in Wide /\ r + 1 >= ShortSpan)
  THEN [k \in 1 .. SlotsOf(t) |-> r + k - 1]
  ELSE [k \in 1 .. SlotsOf(t) |-> (r + k - 1) % ShortSpan]

\* BuildBoxIfPrimitive: Type.valueOf, and move-result-object into the parameter.
Box(t, r) ==
  IF t \in Primitive
  THEN <<Code("valueOf", Arguments(t, r), 0, t), Code("move-result-object", Field(r), 0, 0)>>
  ELSE <<>>

PackArgument(types, i) ==
  LET r == Parameter(SlotBefore(types, i))
  IN Box(types[i], r) \o
     <<Const(tmp, i - 1), Code("aput-object", Field(r), hook_params_array, tmp)>>

\* The code for the first i arguments.
Packing(types) ==
  LET code[i \in 0 .. Len(types)] == IF i = 0 THEN <<>> ELSE code[i - 1] \o PackArgument(types, i)
  IN code

\* What is done with the object that the callback returned.
ReturnResultAs(t) ==
  CASE t = "V" -> <<Code("return-void", 0, 0, 0)>>
    [] t = "L" -> <<Code("check-cast", tmp, 0, "L"), Code("return-object", tmp, 0, 0)>>
    [] t \in Primitive \ Wide -> <<Code("check-cast", tmp, 0, t), Code("unbox", tmp, 0, t),
                                   Code("move-result", tmp, 0, 0), Code("return", tmp, 0, 0)>>
    [] OTHER -> <<Code("check-cast", tmp, 0, t), Code("unbox", tmp, 0, t),
                  Code("move-result-wide", tmp, 0, 0), Code("return-wide", tmp, 0, 0)>>

\* BuildDex: the instructions of the method that calls the callback.
BuildDex(m) ==
  LET types == ParameterTypes(m)
  IN <<Const(tmp, Len(types)), Code("new-array", hook_params_array, tmp, 0)>>
     \o Packing(types)[Len(types)]
     \o <<Code("sget-object", tmp, 0, 0), Code("callback", tmp, hook_params_array, 0),
          Code("move-result-object", tmp, 0, 0)>>
     \o ReturnResultAs(m.ret)

\* registers, ins_count and outs_count of the code item.  A range counts as
\* two arguments, its first register and its length.
Registers(m) == NumRegisters + Slots(ParameterTypes(m))

Outs(m) ==
  LET types == ParameterTypes(m)
      counts == {IF Parameter(SlotBefore(types, i)) + SlotsOf(types[i]) > ShortSpan THEN 2 ELSE SlotsOf(types[i]) :
                   i \in {k \in DOMAIN types : types[k] \in Primitive}}
  IN Max(counts \cup {2})

HookMethod == [m \in Methods |-> BuildDex(m)]

-----------------------------------------------------------------------------
(* A call: registers hold [type, of, half] *)

Running == Ending("running", Null)
Word(t, v, half) == [type |-> t, of |-> v, half |-> half]
Unset == Word("unset", Null, 0)
Array == Word("array", Null, 0)
Hooker == Word("hooker", Null, 0)
Object(v) == Word("L", v, 0)

\* The i-th argument of the caller, and what it is once boxed.
Argument(i) == <<ParameterTypes(method)[i], i>>
TheArguments == [i \in DOMAIN ParameterTypes(method) |-> Argument(i)]

\* The runtime puts the arguments into the last registers of the frame.
Entered(m) ==
  [r \in 0 .. Registers(m) - 1 |->
     IF r < NumRegisters THEN Unset
     ELSE LET types == ParameterTypes(m)
              i == CHOOSE k \in DOMAIN types :
                     r - NumRegisters \in SlotBefore(types, k) .. SlotBefore(types, k) + SlotsOf(types[k]) - 1
          IN Word(types[i], <<types[i], i>>, r - NumRegisters - SlotBefore(types, i))]

\* Invoking the backup of a method gives a result of its type.
Fitting(m) ==
  /\ hasReturnType = (m.ret = "L")
  /\ orig.ending.throwable # Null \/
     IF m.ret \in {"V", "L"} THEN m.ret = "V" => orig.ending.result = Null
     ELSE orig.ending.result # Null /\ BoxOf[orig.ending.result] = m.ret
  /\ m.ret = "L" => orig.ending.result \notin WrongType

HookedInit ==
  /\ Init
  /\ method \in {m \in Methods : Fitting(m)}
  /\ at = 1 /\ regs = Entered(method) /\ packed = <<>>
  /\ result = Unset /\ seen = Running

Now == HookMethod[method][at]

\* The registers of r, or what is not there.
Reg(r) == IF r \in DOMAIN regs THEN regs[r] ELSE Unset

\* What the verifier demands of an instruction's operands, and that an index
\* lies in the array.
Accepted(i) ==
  CASE i.op = "const" -> i.a \in DOMAIN regs
    [] i.op = "new-array" -> Reg(i.b).type = "const" /\ i.a \in DOMAIN regs
    [] i.op = "valueOf" ->
         \A k \in DOMAIN i.a : Reg(i.a[k]) = Word(i.c, Reg(i.a[1]).of, k - 1)
    [] i.op = "aput-object" -> Reg(i.a).type = "L" /\ Reg(i.b) = Array
                                 /\ Reg(i.c).type = "const" /\ Reg(i.c).of + 1 \in DOMAIN packed
    [] i.op = "sget-object" -> i.a \in DOMAIN regs
    [] i.op = "callback" -> Reg(i.a) = Hooker /\ Reg(i.b) = Array
    [] i.op = "move-result-object" -> result.type = "L" /\ i.a \in DOMAIN regs
    [] i.op = "move-result" -> result.type \in Primitive \ Wide /\ i.a \in DOMAIN regs
    [] i.op = "move-result-wide" -> result.type \in Wide /\ {i.a, i.a + 1} \subseteq DOMAIN regs
    [] i.op \in {"check-cast", "unbox", "return-object"} -> Reg(i.a).type = "L"
    [] i.op = "return" -> Reg(i.a).type = method.ret /\ method.ret \notin Wide
    [] i.op = "return-wide" -> \A k \in {0, 1} : Reg(i.a + k) = Word(method.ret, Reg(i.a).of, k)
    [] OTHER -> i.op = "return-void" /\ method.ret = "V"

At(ops) == seen = Running /\ Now.op \in ops /\ Accepted(Now)

GoOn == at' = at + 1 /\ UNCHANGED seen
Put(r, w) == regs' = [regs EXCEPT ![r] = w]

Execute ==
  /\ \/ At({"const"}) /\ GoOn /\ Put(Now.a, Word("const", Now.b, 0)) /\ UNCHANGED <<packed, result>>
     \/ /\ At({"new-array"}) /\ GoOn /\ Put(Now.a, Array) /\ UNCHANGED result
        /\ packed' = [k \in 1 .. Reg(Now.b).of |-> Null]
     \/ /\ At({"valueOf"}) /\ GoOn /\ UNCHANGED <<regs, packed>>
        /\ result' = Object(Reg(Now.a[1]).of)
     \/ /\ At({"aput-object"}) /\ GoOn
        /\ packed' = [packed EXCEPT ![Reg(Now.c).of + 1] = Reg(Now.a).of]
        /\ UNCHANGED <<regs, result>>
     \/ At({"sget-object"}) /\ GoOn /\ Put(Now.a, Hooker) /\ UNCHANGED <<packed, result>>
     \/ At({"move-result-object", "move-result"}) /\ GoOn /\ Put(Now.a, result) /\ UNCHANGED <<packed, result>>
     \/ /\ At({"move-result-wide"}) /\ GoOn /\ UNCHANGED <<packed, result>>
        /\ regs' = [regs EXCEPT ![Now.a] = result, ![Now.a + 1] = [result EXCEPT !.half = 1]]
  /\ UNCHANGED <<method, vars>>

\* HookInfo.callback runs, and then its ending is that of the invoke.
RunCallback == At({"callback"}) /\ pc # "done" /\ Next /\ UNCHANGED hookerVars

CallbackEnds ==
  /\ At({"callback"}) /\ pc = "done"
  /\ IF returned.throwable # Null
     THEN seen' = returned /\ UNCHANGED <<at, result>>
     ELSE GoOn /\ result' = Object(returned.result)
  /\ UNCHANGED <<method, regs, packed, vars>>

Throw(x) == seen' = Ending(Null, x) /\ UNCHANGED <<at, result>>

\* Null has every class; every object is an Object.
CheckCast ==
  /\ At({"check-cast"})
  /\ LET v == Reg(Now.a).of
     IN IF v = Null \/ Now.c = "L" \/ BoxOf[v] = Now.c THEN GoOn /\ UNCHANGED result ELSE Throw(CastError)
  /\ UNCHANGED <<method, regs, packed, vars>>

Unbox ==
  /\ At({"unbox"})
  /\ LET v == Reg(Now.a).of
     IN IF v = Null THEN Throw(NullError) ELSE GoOn /\ result' = Word(Now.c, v, 0)
  /\ UNCHANGED <<method, regs, packed, vars>>

Return ==
  /\ At({"return", "return-wide", "return-object", "return-void"})
  /\ seen' = Ending(IF Now.op = "return-void" THEN Null ELSE Reg(Now.a).of, Null)
  /\ UNCHANGED <<method, at, regs, packed, result, vars>>

HookedNext == Execute \/ RunCallback \/ CallbackEnds \/ CheckCast \/ Unbox \/ Return

HookedSpec == HookedInit /\ [][HookedNext]_<<hookerVars, vars>>

-----------------------------------------------------------------------------
(* Properties *)

\* The methods whose parameters all lie in registers that eight bits can name:
\* BuildDex takes any (a method may have 255 slots), and the last parameter
\* of the largest is out of reach of move-result and aput (dex_builder.h:676-706).
Addressable(m) ==
  LET types == ParameterTypes(m)
  IN \A i \in DOMAIN types : Parameter(SlotBefore(types, i)) < FieldSpan

\* The verifier accepts the generated code whatever the signature: each register
\* holds what its instruction expects, no index is out of bounds, the halves of
\* a long or double stay together across the forms of invoke, and no invoke has
\* more arguments than the frame has room for (dex_builder.cc:376-479,
\* lsplant.cc:399-432).
CodeVerifies ==
  seen = Running /\ Addressable(method) =>
    /\ Accepted(Now)
    /\ Now.op = "valueOf" => Len(Now.a) <= Outs(method)

\* What HookInfo.callback takes for this and for the arguments of the original
\* is what the caller passed, each boxed in its own type and in its place
\* (lsplant.cc:404-412, CalvinBridge.java:360-367).
thisObject == IF method.static THEN Null ELSE packed[1]
args == IF method.static THEN packed ELSE Tail(packed)

ArgumentsArrive ==
  seen = Running /\ Now.op = "callback" /\ Addressable(method) =>
    /\ packed = TheArguments
    /\ Len(args) = Len(method.params)
    /\ \A i \in DOMAIN method.params : args[i][1] = method.params[i]
    /\ thisObject = IF method.static THEN Null ELSE Argument(1)

\* What an ending means to the caller of a method.
Translated(e) ==
  CASE e.throwable # Null -> e
    [] e.throwable = Null /\ method.ret = "V" -> Ending(Null, Null)
    [] e.throwable = Null /\ method.ret = "L" ->
         IF e.result \in WrongType THEN Ending(Null, CastError) ELSE e
    [] OTHER -> IF e.result = Null THEN Ending(Null, NullError)
                ELSE IF BoxOf[e.result] # method.ret THEN Ending(Null, CastError) ELSE e

\* The caller of a hooked method sees the onion of the callbacks around the
\* original, in the method's own type or as an exception, and never a value of
\* another type (CalvinBridge.java:356-429 through lsplant.cc:414-432): in
\* particular a call whose callbacks set nothing looks like the original's.
CallerSeesOnion ==
  seen # Running =>
    seen = Translated(IF InvokeFailed THEN orig.ending
                      ELSE (CHOOSE o \in [0 .. hookCount -> Endings] : IsOnion(o))[0])
=============================================================================
