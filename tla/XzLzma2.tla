------------------------------ MODULE XzLzma2 ------------------------------
(***************************************************************************)
(* The LZMA2 decoder of xz_dec_lzma2.c in multi-call mode: the chunks of   *)
(* xz_dec_lzma2_run, the switching of lzma2_lzma between the caller's      *)
(* input and its own buffer, and the dictionary.                           *)
(*                                                                         *)
(* The range coder is abstracted to the bytes it consumes.  A symbol costs *)
(* a number of bytes, the first of which (lead) may have been read by the  *)
(* normalization at the end of lzma_main.  What is decoded is what the     *)
(* encoder wrote as long as the bytes read are the encoder's, in their     *)
(* order; whatever is decoded after that is Noise.                         *)
(***************************************************************************)
EXTENDS Lzma2Format, FiniteSetsExt

CONSTANTS
  LZMA_IN_REQUIRED,  \* more than the bytes one symbol may cost
  Blocks,            \* the blocks there are to decode
  Work,              \* sequences of blocks decoded one after the other
  Noise,             \* symbols that garbled input may decode to
  Pieces,            \* bound: bytes of input a call adds, or else all
  Rooms              \* bound: room for output that a call offers

ASSUME SizesAssumption ==
  /\ LZMA_IN_REQUIRED \in Nat \ {0, 1} /\ RC_INIT_BYTES \in Nat /\ Radix \in Nat \ {0}
  /\ MaxProps \in Nat /\ size_max \in Nat
  /\ Work \subseteq Seq(Blocks) /\ Pieces \subseteq Nat /\ Rooms \subseteq Nat

\* A symbol costs less than LZMA_IN_REQUIRED bytes (xz_dec_lzma2.c:19-26), with
\* the one that the normalization may have read ahead.
Symbols ==
  {s \in [kind : {"literal", "match", "rep"}, arg : Nat, len : Nat,
          cost : 0 .. LZMA_IN_REQUIRED - 1, lead : {0, 1}] :
     s.lead <= s.cost /\ (s.kind = "rep" => s.arg <= 3)}

ASSUME SymbolsAssumption ==
  /\ Noise \subseteq Symbols
  /\ \A x \in Blocks :
       /\ x.size \in Nat /\ Encode(x) \in Seq(Nat)
       /\ \A k \in DOMAIN x.chunks :
            /\ x.chunks[k].symbols \in Seq(Symbols)
            /\ x.chunks[k].tail \in {0, 1}

VARIABLES
  pc,      \* where the decoder is: "caller", or a place in xz_dec_lzma2_run
  ret,     \* what it returned last
  bl,      \* the block, and
  input,   \* its bytes, b->in
  b,       \* the caller's buffers: in_pos, in_size, and room = out_size - out_pos
  out,     \* the output of the block so far
  lzma2,   \* s->lzma2
  lzma,    \* s->lzma without the probabilities: len and the last distances
  dict,    \* s->dict
  rc,      \* s->rc: where it reads, and how far it has come in the chunk
  temp,    \* s->temp: size, and buf with the bytes put behind it by lzma2_lzma
  todo,    \* the blocks to come
  promise  \* history: what the block stands for

vars == <<pc, ret, bl, input, b, out, lzma2, lzma, dict, rc, temp, todo, promise>>

NoBlock == [size |-> 0, chunks |-> <<>>, end |-> <<>>]

Least(m, n) == IF m < n THEN m ELSE n

Available == b.in_size - b.in_pos
Next1 == input[b.in_pos + 1]

\* ---- the dictionary ----

dict_has_space == dict.pos < dict.limit

\* Mutant: the end of the ring is forgotten.
dict_limitToRoom(max) == [dict EXCEPT !.limit = dict.pos + max]

dict_limit(max) ==
  [dict EXCEPT !.limit = IF dict.end - dict.pos <= max THEN dict.end ELSE dict.pos + max]

Filled(d, pos) == IF d.full < pos THEN pos ELSE d.full

dict_put(byte) ==
  [dict EXCEPT !.buf[dict.pos] = byte, !.pos = @ + 1, !.full = Filled(dict, dict.pos + 1)]

Reachable(dist) == dist < dict.full /\ dist < dict.size

\* The bytes of a match are copied one by one: it may reach into itself.
dict_repeat(n, dist) ==
  LET back == dict.pos - dist - 1 + (IF dist >= dict.pos THEN dict.end ELSE 0)
      buf[i \in 0 .. n] ==
        IF i = 0 THEN dict.buf
        ELSE [buf[i - 1] EXCEPT ![dict.pos + i - 1] = buf[i - 1][(back + i - 1) % dict.end]]
  IN [dict EXCEPT !.buf = buf[n], !.pos = @ + n, !.full = Filled(dict, dict.pos + n)]

Repeatable(len) == Least(dict.limit - dict.pos, len)

\* ---- the range decoder ----

Chunk == bl.chunks[rc.chunk]
KnownChunk == rc.chunk \in DOMAIN bl.chunks /\ IsLzma(Chunk)

\* The buffer that rc reads from; what lies behind temp.buf was zeroed.
From == IF rc.in = "temp" THEN temp.buf ELSE input
ByteAt(buf, i) == IF i < Len(buf) THEN buf[i + 1] ELSE 0

\* The next n bytes of a buffer are those the encoder wrote next.
Agree(buf, pos, n) ==
  /\ ~rc.garbled
  /\ \A j \in 0 .. n - 1 : ByteAt(buf, pos + j) = Payload(rc.chunk, rc.read + j + 1)

Consume(n) == [rc EXCEPT !.in_pos = @ + n, !.read = @ + n, !.garbled = ~Agree(From, rc.in_pos, n)]

\* rc_limit_exceeded
LimitExceeded == rc.in_pos > rc.in_limit

\* What a symbol still has to read, and what may be decoded next.
Needs(s) == s.cost - (IF rc.ahead THEN s.lead ELSE 0)
OnPlan == /\ ~rc.garbled /\ KnownChunk /\ rc.done < Len(Chunk.symbols)
          /\ Agree(From, rc.in_pos, Needs(Chunk.symbols[rc.done + 1]))
NextSymbols == IF OnPlan THEN {Chunk.symbols[rc.done + 1]} ELSE Noise

\* The bytes the normalization reads ahead of the next symbol.
Leads ==
  IF rc.ahead THEN {0}
  ELSE IF rc.garbled \/ ~KnownChunk THEN {0, 1}
  ELSE IF rc.done < Len(Chunk.symbols) THEN {Chunk.symbols[rc.done + 1].lead}
  ELSE {Chunk.tail}

\* rc_is_finished: the code is zero once everything was read.
MayBeFinished ==
  IF ~rc.garbled /\ KnownChunk /\ rc.done = Len(Chunk.symbols) /\ rc.read = Cost(Chunk)
  THEN {TRUE} ELSE BOOLEAN

rc_reset(r) == [r EXCEPT !.init_bytes_left = RC_INIT_BYTES]

\* ---- entering and leaving ----

Return(r) == pc' = "caller" /\ ret' = r

NoRc == [in |-> "input", in_pos |-> 0, in_limit |-> 0, init_bytes_left |-> 0,
         chunk |-> 0, read |-> 0, done |-> 0, ahead |-> FALSE, garbled |-> FALSE]

Init ==
  /\ pc = "caller" /\ ret = "XZ_STREAM_END"
  /\ bl = NoBlock /\ input = <<>>
  /\ b = [in_pos |-> 0, in_size |-> 0, room |-> 0]
  /\ out = <<>>
  /\ lzma2 = [sequence |-> "SEQ_CONTROL", next_sequence |-> "SEQ_CONTROL",
              uncompressed |-> 0, compressed |-> 0,
              need_dict_reset |-> TRUE, need_props |-> TRUE]
  /\ lzma = [len |-> 0, reps |-> NoReps]
  /\ dict = [buf |-> <<>>, start |-> 0, pos |-> 0, full |-> 0, limit |-> 0,
             end |-> 0, size |-> 0, allocated |-> 0]
  /\ rc = NoRc
  /\ temp = [size |-> 0, buf |-> <<>>]
  /\ todo \in Work
  /\ promise = [sound |-> TRUE, size |-> 0, content |-> <<>>]

\* xz_dec_lzma2_reset, called for every block header: size stands for the
\* decoded properties, 0 for those above 39.
Reset ==
  /\ pc = "caller" /\ ret = "XZ_STREAM_END" /\ todo # <<>>
  /\ bl' = Head(todo) /\ input' = Encode(bl') /\ promise' = Promise(bl') /\ todo' = Tail(todo)
  /\ b' = [in_pos |-> 0, in_size |-> 0, room |-> 0] /\ out' = <<>>
  /\ pc' = "caller"
  /\ LET n == bl'.size
         sized == [dict EXCEPT !.size = n, !.end = n]
     IN \/ /\ n = 0 /\ ret' = "XZ_OPTIONS_ERROR"
           /\ UNCHANGED <<dict, lzma2, rc, temp>>
        \/ /\ n > size_max /\ ret' = "XZ_MEMLIMIT_ERROR"
           /\ dict' = [dict EXCEPT !.size = n]
           /\ UNCHANGED <<lzma2, rc, temp>>
        \/ /\ n \in dict.allocated + 1 .. size_max /\ ret' = "XZ_MEM_ERROR"
           /\ dict' = [sized EXCEPT !.allocated = 0, !.buf = <<>>]
           /\ UNCHANGED <<lzma2, rc, temp>>
        \/ /\ n \in 1 .. size_max /\ ret' = "XZ_OK"
           /\ dict' = IF dict.allocated < n
                      THEN [sized EXCEPT !.allocated = n, !.buf = [i \in 0 .. n - 1 |-> 0]]
                      ELSE sized
           /\ lzma2' = [lzma2 EXCEPT !.sequence = "SEQ_CONTROL", !.need_dict_reset = TRUE]
           /\ rc' = [rc EXCEPT !.chunk = 0]
           /\ temp' = [size |-> 0, buf |-> <<>>]
  /\ UNCHANGED lzma

\* The caller offers more input and new room for output, possibly neither.
Call ==
  /\ pc = "caller" /\ ret = "XZ_OK"
  /\ \E n \in {b.in_size + k : k \in Pieces} \cup {Len(input)}, r \in Rooms :
       n <= Len(input) /\ b' = [b EXCEPT !.in_size = n, !.room = r]
  /\ pc' = "loop"
  /\ UNCHANGED <<ret, bl, input, out, lzma2, lzma, dict, rc, temp, todo, promise>>

\* ---- xz_dec_lzma2_run: the chunk headers ----

At(sequence) == pc = "loop" /\ lzma2.sequence = sequence /\ Available > 0

Starved ==
  /\ pc = "loop" /\ Available = 0 /\ lzma2.sequence # "SEQ_LZMA_RUN"
  /\ Return("XZ_OK")
  /\ UNCHANGED <<bl, input, b, out, lzma2, lzma, dict, rc, temp, todo, promise>>

Took1 == b' = [b EXCEPT !.in_pos = @ + 1]

lzma_reset == lzma' = [len |-> 0, reps |-> NoReps] /\ rc' = rc_reset(rc)

\* A new chunk: the range decoder has read nothing of it.
NewChunk == [rc EXCEPT !.chunk = @ + 1, !.read = 0, !.done = 0, !.ahead = FALSE, !.garbled = FALSE]

dict_reset == [dict EXCEPT !.start = 0, !.pos = 0, !.limit = 0, !.full = 0]

End ==
  /\ At("SEQ_CONTROL") /\ Next1 = 0
  /\ Took1 /\ Return("XZ_STREAM_END")
  /\ UNCHANGED <<bl, input, out, lzma2, lzma, dict, rc, temp, todo, promise>>

Control ==
  /\ At("SEQ_CONTROL") /\ Next1 # 0 /\ Took1
  /\ LET control == Next1
         resets == control >= 7 \/ control = 1
         l == IF resets THEN [lzma2 EXCEPT !.need_props = TRUE, !.need_dict_reset = FALSE] ELSE lzma2
         accepted == /\ ~l.need_dict_reset
                     /\ control \in {4, 5} => ~l.need_props
                     /\ control # 3
     IN /\ dict' = IF resets THEN dict_reset ELSE dict
        /\ IF ~accepted
           THEN /\ Return("XZ_DATA_ERROR") /\ lzma2' = l
                /\ UNCHANGED <<lzma, rc>>
           ELSE /\ pc' = "loop" /\ UNCHANGED ret
                /\ lzma2' =
                     IF control < 4
                     THEN [l EXCEPT !.sequence = "SEQ_COMPRESSED_0", !.next_sequence = "SEQ_COPY"]
                     ELSE [l EXCEPT !.sequence = "SEQ_UNCOMPRESSED_1",
                             !.need_props = @ /\ control < 6,
                             !.next_sequence = IF control >= 6 THEN "SEQ_PROPERTIES" ELSE "SEQ_LZMA_PREPARE"]
                /\ IF control = 5 THEN lzma' = [len |-> 0, reps |-> NoReps] /\ rc' = rc_reset(NewChunk)
                                  ELSE rc' = NewChunk /\ UNCHANGED lzma
  /\ UNCHANGED <<bl, input, out, temp, todo, promise>>

Uncompressed1 ==
  /\ At("SEQ_UNCOMPRESSED_1") /\ Took1
  /\ lzma2' = [lzma2 EXCEPT !.uncompressed = Radix * Next1, !.sequence = "SEQ_UNCOMPRESSED_2"]
  /\ UNCHANGED <<pc, ret, bl, input, out, lzma, dict, rc, temp, todo, promise>>

Uncompressed2 ==
  /\ At("SEQ_UNCOMPRESSED_2") /\ Took1
  /\ lzma2' = [lzma2 EXCEPT !.uncompressed = @ + Next1 + 1, !.sequence = "SEQ_COMPRESSED_0"]
  /\ UNCHANGED <<pc, ret, bl, input, out, lzma, dict, rc, temp, todo, promise>>

Compressed0 ==
  /\ At("SEQ_COMPRESSED_0") /\ Took1
  /\ lzma2' = [lzma2 EXCEPT !.compressed = Radix * Next1, !.sequence = "SEQ_COMPRESSED_1"]
  /\ UNCHANGED <<pc, ret, bl, input, out, lzma, dict, rc, temp, todo, promise>>

Compressed1 ==
  /\ At("SEQ_COMPRESSED_1") /\ Took1
  /\ lzma2' = [lzma2 EXCEPT !.compressed = @ + Next1 + 1, !.sequence = lzma2.next_sequence]
  /\ UNCHANGED <<pc, ret, bl, input, out, lzma, dict, rc, temp, todo, promise>>

\* Falls through to SEQ_LZMA_PREPARE, even without input left.
Properties ==
  /\ At("SEQ_PROPERTIES") /\ Took1
  /\ IF Next1 > MaxProps
     THEN Return("XZ_DATA_ERROR") /\ UNCHANGED <<lzma2, lzma, rc>>
     ELSE /\ pc' = "prepare" /\ lzma_reset
          /\ lzma2' = [lzma2 EXCEPT !.sequence = "SEQ_LZMA_PREPARE"]
          /\ UNCHANGED ret
  /\ UNCHANGED <<bl, input, out, dict, temp, todo, promise>>

\* rc_read_init takes what there is of the first bytes.
Prepare ==
  /\ pc = "prepare" \/ At("SEQ_LZMA_PREPARE")
  /\ LET n == Least(rc.init_bytes_left, Available)
     IN IF lzma2.compressed < RC_INIT_BYTES
        THEN Return("XZ_DATA_ERROR") /\ UNCHANGED <<b, lzma2, rc>>
        ELSE /\ b' = [b EXCEPT !.in_pos = @ + n]
             /\ rc' = [rc EXCEPT !.init_bytes_left = @ - n, !.read = @ + n,
                                 !.garbled = ~Agree(input, b.in_pos, n)]
             /\ IF n < rc.init_bytes_left
                THEN Return("XZ_OK") /\ UNCHANGED lzma2
                ELSE /\ pc' = "loop" /\ UNCHANGED ret
                     /\ lzma2' = [lzma2 EXCEPT !.compressed = @ - RC_INIT_BYTES,
                                               !.sequence = "SEQ_LZMA_RUN"]
  /\ UNCHANGED <<bl, input, out, lzma, dict, temp, todo, promise>>

\* ---- SEQ_COPY: dict_uncompressed ----

EnterCopy ==
  /\ At("SEQ_COPY") /\ pc' = "copy"
  /\ UNCHANGED <<ret, bl, input, b, out, lzma2, lzma, dict, rc, temp, todo, promise>>

MayCopy == lzma2.compressed > 0 /\ Available > 0 /\ b.room > 0

Copy ==
  /\ pc = "copy" /\ MayCopy
  /\ LET n == Min({Available, b.room, dict.end - dict.pos, lzma2.compressed})
         bytes == SubSeq(input, b.in_pos + 1, b.in_pos + n)
         pos == dict.pos + n
         wrapped == IF pos = dict.end THEN 0 ELSE pos
     IN /\ dict' = [dict EXCEPT !.pos = wrapped, !.start = wrapped, !.full = Filled(dict, pos),
                      !.buf = [i \in DOMAIN @ |->
                                 IF i \in dict.pos .. pos - 1 THEN bytes[i - dict.pos + 1] ELSE @[i]]]
        /\ b' = [b EXCEPT !.in_pos = @ + n, !.room = @ - n]
        /\ out' = out \o bytes
        /\ lzma2' = [lzma2 EXCEPT !.compressed = @ - n]
  /\ UNCHANGED <<pc, ret, bl, input, lzma, rc, temp, todo, promise>>

LeaveCopy ==
  /\ pc = "copy" /\ ~MayCopy
  /\ IF lzma2.compressed > 0
     THEN Return("XZ_OK") /\ UNCHANGED lzma2
     ELSE pc' = "loop" /\ lzma2' = [lzma2 EXCEPT !.sequence = "SEQ_CONTROL"] /\ UNCHANGED ret
  /\ UNCHANGED <<bl, input, b, out, lzma, dict, rc, temp, todo, promise>>

\* ---- SEQ_LZMA_RUN: lzma2_lzma ----

Run ==
  /\ pc = "loop" /\ lzma2.sequence = "SEQ_LZMA_RUN"
  /\ dict' = dict_limit(Least(b.room, lzma2.uncompressed))
  /\ pc' = IF temp.size > 0 \/ lzma2.compressed = 0 THEN "temp" ELSE "direct"
  /\ UNCHANGED <<ret, bl, input, b, out, lzma2, lzma, rc, temp, todo, promise>>

\* What is put behind the bytes kept: enough for a few symbols, no byte of
\* the next chunk, no more than there is.
Taken == Min({2 * LZMA_IN_REQUIRED - temp.size, lzma2.compressed - temp.size, Available})

\* The bytes kept are filled up from the input, without consuming it yet.
FromTemp ==
  /\ pc = "temp"
  /\ LET n == Taken
         size == temp.size + n
         buf == temp.buf \o SubSeq(input, b.in_pos + 1, b.in_pos + n)
         short == size < LZMA_IN_REQUIRED /\ size # lzma2.compressed
     IN /\ temp' = [size |-> IF short THEN size ELSE temp.size, buf |-> buf]
        /\ b' = IF short THEN [b EXCEPT !.in_pos = @ + n] ELSE b
        /\ rc' = IF short THEN rc
                 ELSE [rc EXCEPT !.in = "temp", !.in_pos = 0,
                        !.in_limit = IF size = lzma2.compressed THEN size ELSE size - LZMA_IN_REQUIRED]
        /\ pc' = IF short THEN "flush" ELSE "main"
  /\ UNCHANGED <<ret, bl, input, out, lzma2, lzma, dict, todo, promise>>

\* Where decoding from the caller's input has to stop and look.
\* Mutant: only the end of the chunk counts.
DirectLimitAtChunk == b.in_pos + lzma2.compressed

DirectLimit ==
  IF Available >= lzma2.compressed + LZMA_IN_REQUIRED
  THEN b.in_pos + lzma2.compressed
  ELSE b.in_size - LZMA_IN_REQUIRED

\* As long as there is plenty of input it is decoded from where it is.
Direct ==
  /\ pc = "direct"
  /\ IF Available < LZMA_IN_REQUIRED
     THEN pc' = "keep" /\ UNCHANGED rc
     ELSE /\ pc' = "main"
          /\ rc' = [rc EXCEPT !.in = "input", !.in_pos = b.in_pos, !.in_limit = DirectLimit]
  /\ UNCHANGED <<ret, bl, input, b, out, lzma2, lzma, dict, temp, todo, promise>>

\* Mutant: a match is cut where the room for output ended.
PendingForgotten ==
  /\ pc = "main" /\ pc' = "symbols"
  /\ UNCHANGED <<ret, bl, input, b, out, lzma2, lzma, dict, rc, temp, todo, promise>>

\* lzma_main: a match the last call had no room for goes first.
Pending ==
  /\ pc = "main"
  /\ LET n == Repeatable(lzma.len)
     IN IF dict_has_space /\ lzma.len > 0 /\ Reachable(lzma.reps[0])
        THEN dict' = dict_repeat(n, lzma.reps[0]) /\ lzma' = [lzma EXCEPT !.len = @ - n]
        ELSE UNCHANGED <<dict, lzma>>
  /\ pc' = "symbols"
  /\ UNCHANGED <<ret, bl, input, b, out, lzma2, rc, temp, todo, promise>>

MoreSymbols == dict_has_space /\ ~LimitExceeded

Decoded(s) ==
  rc' = [Consume(Needs(s)) EXCEPT !.done = @ + 1, !.ahead = FALSE, !.garbled = @ \/ ~OnPlan]

Literal ==
  /\ pc = "symbols" /\ MoreSymbols
  /\ \E s \in NextSymbols :
       /\ s.kind = "literal"
       /\ Decoded(s)
       /\ dict' = dict_put(s.arg)
  /\ UNCHANGED <<pc, ret, bl, input, b, out, lzma2, lzma, temp, todo, promise>>

\* The last four distances after a new one, and after the use of one of them.
lzma_match(dist) ==
  [i \in 0 .. 3 |-> IF i = 0 THEN dist ELSE lzma.reps[i - 1]]
lzma_rep_match(k) ==
  [lzma.reps EXCEPT ![0] = lzma.reps[k],
                    ![1] = IF k >= 1 THEN lzma.reps[0] ELSE @,
                    ![2] = IF k >= 2 THEN lzma.reps[1] ELSE @,
                    ![3] = IF k = 3 THEN lzma.reps[2] ELSE @]

Match ==
  /\ pc = "symbols" /\ MoreSymbols
  /\ \E s \in NextSymbols :
       /\ s.kind # "literal"
       /\ Decoded(s)
       /\ LET reps == IF s.kind = "match" THEN lzma_match(s.arg) ELSE lzma_rep_match(s.arg)
              n == Repeatable(s.len)
          IN IF Reachable(reps[0])
             THEN /\ dict' = dict_repeat(n, reps[0])
                  /\ lzma' = [len |-> s.len - n, reps |-> reps]
                  /\ UNCHANGED <<pc, ret>>
             ELSE /\ Return("XZ_DATA_ERROR")
                  /\ lzma' = [len |-> s.len, reps |-> reps]
                  /\ UNCHANGED dict
  /\ UNCHANGED <<bl, input, b, out, lzma2, temp, todo, promise>>

Normalized(n) == [Consume(n) EXCEPT !.ahead = rc.ahead \/ n = 1]

\* The end of lzma_main, and what lzma2_lzma does with the bytes it read.
LeaveTemp ==
  /\ pc = "symbols" /\ ~MoreSymbols /\ rc.in = "temp"
  /\ \E n \in Leads :
       LET r == Normalized(n)
       IN /\ rc' = r
          /\ IF r.in_pos > Len(temp.buf)
             THEN Return("XZ_DATA_ERROR") /\ UNCHANGED <<b, lzma2, temp>>
             ELSE /\ lzma2' = [lzma2 EXCEPT !.compressed = @ - r.in_pos]
                  /\ UNCHANGED ret
                  /\ IF r.in_pos < temp.size
                     THEN /\ temp' = [size |-> temp.size - r.in_pos,
                                      buf |-> SubSeq(temp.buf, r.in_pos + 1, temp.size)]
                          /\ pc' = "flush" /\ UNCHANGED b
                     ELSE /\ b' = [b EXCEPT !.in_pos = @ + r.in_pos - temp.size]
                          /\ temp' = [size |-> 0, buf |-> <<>>]
                          /\ pc' = "direct"
  /\ UNCHANGED <<bl, input, out, lzma, dict, todo, promise>>

LeaveDirect ==
  /\ pc = "symbols" /\ ~MoreSymbols /\ rc.in = "input"
  /\ \E n \in Leads :
       LET r == Normalized(n)
           read == r.in_pos - b.in_pos
       IN /\ rc' = r
          /\ IF read > lzma2.compressed
             THEN Return("XZ_DATA_ERROR") /\ UNCHANGED <<b, lzma2>>
             ELSE /\ lzma2' = [lzma2 EXCEPT !.compressed = @ - read]
                  /\ b' = [b EXCEPT !.in_pos = r.in_pos]
                  /\ pc' = "keep" /\ UNCHANGED ret
  /\ UNCHANGED <<bl, input, out, lzma, dict, temp, todo, promise>>

\* Fewer bytes than a symbol may need are kept for the next call.
Keep ==
  /\ pc = "keep"
  /\ LET n == Least(Available, lzma2.compressed)
     IN IF Available < LZMA_IN_REQUIRED
        THEN /\ temp' = [size |-> n, buf |-> SubSeq(input, b.in_pos + 1, b.in_pos + n)]
             /\ b' = [b EXCEPT !.in_pos = @ + n]
        ELSE UNCHANGED <<temp, b>>
  /\ pc' = "flush"
  /\ UNCHANGED <<ret, bl, input, out, lzma2, lzma, dict, rc, todo, promise>>

\* An unfinished chunk needs room, or input that is not all in temp already.
\* Mutant: a call without input goes on.
MustReturnWhenFull(n) == b.room = n

MustReturn(n) == b.room = n \/ (Available = 0 /\ temp.size < lzma2.compressed)

\* dict_flush, and whether the chunk or the call is over.
Flush ==
  /\ pc = "flush"
  /\ LET n == dict.pos - dict.start
         pos == IF dict.pos = dict.end THEN 0 ELSE dict.pos
         unfinished == lzma2.uncompressed - n
         broken == lzma2.compressed > 0 \/ lzma.len > 0
     IN /\ out' = out \o [i \in 1 .. n |-> dict.buf[dict.start + i - 1]]
        /\ dict' = [dict EXCEPT !.pos = pos, !.start = pos]
        /\ b' = [b EXCEPT !.room = @ - n]
        /\ IF unfinished = 0
           THEN \E finished \in MayBeFinished :
                  IF broken \/ ~finished
                  THEN /\ Return("XZ_DATA_ERROR") /\ UNCHANGED rc
                       /\ lzma2' = [lzma2 EXCEPT !.uncompressed = unfinished]
                  ELSE /\ pc' = "loop" /\ rc' = rc_reset(rc) /\ UNCHANGED ret
                       /\ lzma2' = [lzma2 EXCEPT !.uncompressed = unfinished, !.sequence = "SEQ_CONTROL"]
           ELSE /\ lzma2' = [lzma2 EXCEPT !.uncompressed = unfinished]
                /\ UNCHANGED rc
                /\ IF MustReturn(n)
                   THEN Return("XZ_OK")
                   ELSE pc' = "loop" /\ UNCHANGED ret
  /\ UNCHANGED <<bl, input, lzma, temp, todo, promise>>

Decode ==
  \/ Starved \/ End \/ Control \/ Uncompressed1 \/ Uncompressed2 \/ Compressed0 \/ Compressed1
  \/ Properties \/ Prepare \/ EnterCopy \/ Copy \/ LeaveCopy
  \/ Run \/ FromTemp \/ Direct \/ Pending \/ Literal \/ Match \/ LeaveTemp \/ LeaveDirect
  \/ Keep \/ Flush

Next == Reset \/ Call \/ Decode

Spec == Init /\ [][Next]_vars

\* A call runs on its own once it is made; callers may stop calling.
FairSpec == Spec /\ WF_vars(Decode)

\* ---- properties ----

Sequences2 == {"SEQ_CONTROL", "SEQ_UNCOMPRESSED_1", "SEQ_UNCOMPRESSED_2", "SEQ_COMPRESSED_0",
               "SEQ_COMPRESSED_1", "SEQ_PROPERTIES", "SEQ_LZMA_PREPARE", "SEQ_LZMA_RUN", "SEQ_COPY"}
Results == {"XZ_OK", "XZ_STREAM_END", "XZ_DATA_ERROR", "XZ_OPTIONS_ERROR",
            "XZ_MEMLIMIT_ERROR", "XZ_MEM_ERROR"}

\* Types, and the counters that the code subtracts from without a test never
\* fall below zero.
TypeOK ==
  /\ pc \in {"caller", "loop", "prepare", "copy", "temp", "direct", "main", "symbols", "keep", "flush"}
  /\ ret \in Results /\ bl \in Blocks \cup {NoBlock} /\ todo \in Seq(Blocks)
  /\ b \in [in_pos : 0 .. Len(input), in_size : 0 .. Len(input), room : Nat]
  /\ b.in_pos <= b.in_size
  /\ lzma2 \in [sequence : Sequences2, next_sequence : Sequences2, uncompressed : Nat,
                compressed : Nat, need_dict_reset : BOOLEAN, need_props : BOOLEAN]
  /\ lzma \in [len : Nat, reps : [0 .. 3 -> Nat]]
  /\ dict \in [buf : {dict.buf}, start : Nat, pos : Nat, full : Nat,
               limit : Nat, end : Nat, size : Nat, allocated : Nat]
  /\ rc \in [in : {"temp", "input"}, in_pos : Nat, in_limit : Nat, init_bytes_left : Nat,
             chunk : Nat, read : Nat, done : Nat, ahead : BOOLEAN, garbled : BOOLEAN]
  /\ temp.size \in Nat /\ temp.buf \in Seq(Nat)

\* lzma_main tests its input once per symbol (xz_dec_lzma2.c:769): whatever
\* the input, and wherever a call cuts it, no byte behind the caller's input
\* is read, and none behind temp.buf but the zeros put there.
ReadsInBounds ==
  pc = "symbols" =>
    rc.in_pos < IF rc.in = "input" THEN b.in_size
                ELSE IF Len(temp.buf) = lzma2.compressed THEN 3 * LZMA_IN_REQUIRED
                ELSE Len(temp.buf)

\* The dictionary is written within its allocation, and a distance below full
\* (xz_dec_lzma2.c:355) reaches bytes written since the last reset only:
\* either nothing has wrapped around yet, or everything has been written.
DictionaryInBounds ==
  /\ pc # "caller" /\ ~lzma2.need_dict_reset =>
       /\ dict.start <= dict.pos /\ dict.pos <= dict.end
       /\ dict.end = dict.size /\ dict.end <= dict.allocated
       /\ dict.full \in {dict.pos, dict.end}
  /\ pc \in {"main", "symbols"} => dict.pos <= dict.limit /\ dict.limit <= dict.end

\* No access of the decoder to memory is out of bounds: neither of its input
\* nor of its dictionary (xz_dec_lzma2.c:769, 355).
MemoryInBounds == ReadsInBounds /\ DictionaryInBounds

\* Call by call the decoder keeps the promise of Decompressor: the content of
\* a sound block comes out whole, in order and once, however its input is cut
\* and however small the output buffers are (xz.h:99-103).
Contract == INSTANCE Decompressor WITH
  block <- promise,
  given <- b.in_size, used <- b.in_pos, room <- b.room, made <- out,
  status <- IF pc # "caller" THEN "running" ELSE IF ret = "XZ_OK" THEN "caller" ELSE ret
ImplementsDecompressor == Contract!Spec

\* The loop at xz_dec_lzma2.c:969 goes on without input in SEQ_LZMA_RUN: it
\* ends all the same.
CallsReturn == pc # "caller" ~> pc = "caller"
=============================================================================
