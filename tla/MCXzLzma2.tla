----------------------------- MODULE MCXzLzma2 -----------------------------
(***************************************************************************)
(* XzLzma2 for TLC: small blocks of every kind, sound and not.             *)
(***************************************************************************)
EXTENDS XzLzma2

Sym(kind, arg, len, cost, lead) ==
  [kind |-> kind, arg |-> arg, len |-> len, cost |-> cost, lead |-> lead]
A(cost, lead) == Sym("literal", 1, 1, cost, lead)
B(cost, lead) == Sym("literal", 2, 1, cost, lead)
Far(d, len) == Sym("match", d, len, 2, 1)
Again(k, len) == Sym("rep", k, len, 0, 0)

Total(symbols) == FoldLeft(LAMBDA n, s : n + s.len, 0, symbols)

\* A chunk that states its sizes wrong by du and dc.
Chunk4(control, symbols, tail, du, dc) ==
  LET c == [control |-> control, usize |-> Total(symbols) + du, csize |-> 0, props |-> 1,
            symbols |-> symbols, tail |-> tail, data |-> <<>>]
  IN [c EXCEPT !.csize = Cost(c) + dc]
Coded(control, symbols, tail) == Chunk4(control, symbols, tail, 0, 0)
Plain(control, data) ==
  [control |-> control, usize |-> Len(data), csize |-> 0, props |-> 0,
   symbols |-> <<>>, tail |-> 0, data |-> data]
Block(n, chunks) == [size |-> n, chunks |-> chunks, end |-> <<0>>]

Run3 == <<A(2, 1), B(1, 0), Far(1, 5)>>
Mixed == <<A(1, 0), B(0, 0), Far(1, 2), Again(0, 1), A(2, 1), Far(0, 4), Again(1, 3)>>
Dense == <<A(2, 1), B(2, 1), A(2, 0), Far(2, 2), B(2, 1), Far(1, 3), A(1, 1)>>

Small == Block(2, <<Plain(1, <<1, 2, 2>>)>>)
Large == Block(4, <<Coded(7, Dense, 0)>>)

MCSound ==
  { Small, Large, Block(2, <<Coded(7, Run3, 1)>>), Block(3, <<Coded(7, Dense, 1), Coded(5, Run3, 1)>>),
    Block(3, <<Coded(7, Mixed, 0), Coded(4, <<Again(0, 4), B(1, 1), Again(3, 2), Again(2, 1)>>, 1)>>),
    Block(3, <<Plain(1, <<1, 2, 1, 1>>), Coded(6, <<Far(2, 2), Again(0, 1)>>, 0), Plain(2, <<2>>)>>),
    Block(2, <<Coded(7, <<A(0, 0)>>, 0), Coded(5, <<B(1, 1), Far(0, 2)>>, 1), Plain(1, <<2, 2>>)>>) }

MCBroken ==
  { Block(2, <<Chunk4(7, Run3, 1, du, dc)>>) : du \in {-1, 0, 1}, dc \in {-1, 0, 1} }
  \cup { Block(3, <<Plain(1, <<1>>), Coded(c, <<A(1, 1)>>, 0)>>) : c \in {3, 4, 5} }
  \cup { Block(3, <<Plain(2, <<1>>)>>), Block(0, <<>>), Block(5, <<>>),
         Block(3, <<Coded(7, <<A(1, 1), Far(1, 2)>>, 0)>>),
         Block(3, <<Coded(7, <<A(1, 1)>>, 0), Plain(1, <<2>>), Coded(6, <<Far(1, 2)>>, 0)>>),
         Block(3, <<[Coded(7, <<A(1, 1)>>, 0) EXCEPT !.props = 2]>>),
         Block(3, <<[Coded(7, <<>>, 0) EXCEPT !.csize = 1, !.usize = 1]>>) }

MCBlocks == MCSound \cup MCBroken

\* A second block finds the dictionary of the first, larger or smaller.
MCWork == {<<x>> : x \in MCBlocks} \cup {<<Small, x>> : x \in {Large, Block(5, <<>>)}} \cup {<<Large, Small>>}
MCNoise == {A(0, 0), B(1, 1), Far(0, 2), Far(2, 2)}
=============================================================================
