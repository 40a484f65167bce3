----------------------------- MODULE Lzma2Format -----------------------------
(***************************************************************************)
(* The blocks the LZMA2 decoder is given: what an encoder writes for a     *)
(* sequence of chunks, which blocks are sound, and the content they stand  *)
(* for, over a history that is never cut into a ring.                      *)
(*                                                                         *)
(* A block is [size, chunks, end].  A chunk is [control, usize, csize,     *)
(* props, symbols, tail, data]; a symbol is [kind, arg, len, cost, lead].  *)
(* Control bytes are scaled: 0 to 3 as they are, 4 to 7 for 0x80, 0xA0,    *)
(* 0xC0 and 0xE0, without the bits they lend to the size.                  *)
(***************************************************************************)
EXTENDS Integers, Sequences, SequencesExt

CONSTANTS
  RC_INIT_BYTES,  \* first bytes of a chunk, read before its symbols
  Radix,          \* of the two-byte sizes
  MaxProps,       \* largest valid properties byte
  size_max        \* the dictionary limit given to xz_dec_lzma2_create

IsLzma(c) == c.control >= 4
NewProps(c) == c.control >= 6
ResetsDict(c) == c.control \in {1, 7}

\* The bytes of an LZMA chunk: the symbols', and one the last normalization
\* may still read.
Cost(c) == RC_INIT_BYTES + FoldLeft(LAMBDA n, s : n + s.cost, 0, c.symbols) + c.tail

TwoBytes(n) == <<(n - 1) \div Radix, (n - 1) % Radix>>

\* Payload bytes are told apart by their chunk and their place in it.
Payload(k, j) == 20 * k + j

ChunkBytes(c, k) ==
  <<c.control>> \o TwoBytes(c.usize) \o
  (IF IsLzma(c)
   THEN TwoBytes(c.csize) \o (IF NewProps(c) THEN <<c.props>> ELSE <<>>)
          \o [j \in 1 .. Cost(c) |-> Payload(k, j)]
   ELSE c.data)

Encode(bl) ==
  FoldLeftDomain(LAMBDA bs, k : bs \o ChunkBytes(bl.chunks[k], k), <<>>, bl.chunks) \o bl.end

\* The last distances, the one just used in front.
Shift(reps, d) == [i \in 0 .. 3 |-> IF i = 0 THEN d ELSE reps[i - 1]]
ToFront(reps, k) == [i \in 0 .. 3 |-> IF i = 0 THEN reps[k] ELSE IF i <= k THEN reps[i - 1] ELSE reps[i]]
AfterSymbol(reps, s) ==
  CASE s.kind = "literal" -> reps
    [] s.kind = "match" -> Shift(reps, s.arg)
    [] s.kind = "rep" -> ToFront(reps, s.arg)

NoReps == [i \in 0 .. 3 |-> 0]

\* A match repeats the last dist + 1 bytes of the history, over and over.
Copied(hist, dist, len) ==
  [i \in 1 .. len |-> hist[Len(hist) - dist + ((i - 1) % (dist + 1))]]

\* acc: what is known after some symbols of a block whose dictionary has size n.
ReadSymbol(acc, s, n) ==
  LET reps == AfterSymbol(acc.reps, s)
      sound == s.kind = "literal" \/ (reps[0] < Len(acc.hist) /\ reps[0] < n)
  IN IF ~acc.sound \/ ~sound THEN [acc EXCEPT !.sound = FALSE]
     ELSE [acc EXCEPT !.reps = reps,
             !.hist = @ \o (IF s.kind = "literal" THEN <<s.arg>> ELSE Copied(@, reps[0], s.len))]

ReadChunk(acc, c, n) ==
  LET start == [acc EXCEPT
        !.hist = IF ResetsDict(c) THEN <<>> ELSE @,
        !.reps = IF c.control >= 5 THEN NoReps ELSE @,
        !.dict = @ \/ ResetsDict(c),
        !.props = (@ /\ ~ResetsDict(c)) \/ NewProps(c)]
      end == IF IsLzma(c) THEN FoldLeft(LAMBDA a, s : ReadSymbol(a, s, n), start, c.symbols)
                          ELSE [start EXCEPT !.hist = @ \o c.data]
      new == SubSeq(end.hist, Len(start.hist) + 1, Len(end.hist))
  IN [end EXCEPT
       !.content = @ \o new,
       !.sound = /\ @ /\ start.dict /\ c.control # 3 /\ c.usize = Len(new)
                 /\ IsLzma(c) => start.props /\ c.csize = Cost(c) /\ c.props <= MaxProps]

Read(bl) ==
  FoldLeft(LAMBDA acc, c : ReadChunk(acc, c, bl.size),
           [hist |-> <<>>, reps |-> NoReps, dict |-> FALSE, props |-> FALSE,
            content |-> <<>>, sound |-> bl.size \in 1 .. size_max /\ bl.end = <<0>>],
           bl.chunks)

Promise(bl) == [sound |-> Read(bl).sound, size |-> Len(Encode(bl)), content |-> Read(bl).content]
=============================================================================
