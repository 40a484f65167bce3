---------------------------- MODULE MCInlineHook ----------------------------
(***************************************************************************)
(* InlineHook for TLC: two images of two functions, each instruction once   *)
(* under a short and once under a long trampoline, with branches to the     *)
(* first word behind a trampoline, calls between the functions and loads,   *)
(* one of them narrow.                                                      *)
(***************************************************************************)
EXTENDS InlineHook

Loaded(words, targets) == [code |-> [a \in 0 .. Len(words) - 1 |-> words[a + 1]], targets |-> targets]
Literal(n) == I("low", n)

\* 0: near replacement, three words; 7: far, four words.
Straight == Loaded(
  << I("adr", 13), I("cond", 5), I("ldr", 11), I("op", 1), I("bl", 3), I("ret", 0), I("b", -3),
     I("adrp", 0), I("op", 2), I("cond", 2), I("ldrw", 4), I("op", 4), I("ret", 0),
     Literal(5), Literal(7) >>, {0, 7})

\* 0 calls 8 in its first word, and 8 starts with a conditional branch.
Nested == Loaded(
  << I("bl", 8), I("op", 1), I("b", 3), I("op", 2), I("ret", 0), I("op", 3), I("ret", 0), I("ret", 0),
     I("ncond", 5), I("ldr", 6), I("adr", 4), I("op", 4), I("ret", 0), I("op", 5), I("b", -2),
     Literal(6) >>, {0, 8})

MCImages == {Straight, Nested}
MCReplacement == [f \in {0, 7, 8} |-> IF f = 0 THEN -20 ELSE 300]
=============================================================================
