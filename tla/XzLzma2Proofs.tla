---------------------------- MODULE XzLzma2Proofs ----------------------------
(***************************************************************************)
(* XzLzma2: whatever blocks it is given, and however calls cut input and   *)
(* output, the decoder reads and writes within its buffers and its         *)
(* counters never fall below zero.                                         *)
(***************************************************************************)
EXTENDS XzLzma2, TLAPS

InLzma == {"temp", "direct", "main", "symbols", "keep", "flush"}
Reading(from) == pc \in {"main", "symbols"} /\ rc.in = from

\* Where the decoder is in a chunk.
Sequencing ==
  /\ input \in Seq(Nat)
  /\ pc # "caller" => ret = "XZ_OK"
  /\ pc \in InLzma => lzma2.sequence = "SEQ_LZMA_RUN"
  /\ pc = "copy" => lzma2.sequence = "SEQ_COPY"
  /\ pc = "prepare" => lzma2.sequence = "SEQ_LZMA_PREPARE"
  /\ ret = "XZ_OK" /\ lzma2.sequence # "SEQ_CONTROL" => ~lzma2.need_dict_reset

\* rc reads at most one symbol behind its limit, which leaves room for one: in
\* temp, which holds bytes of this chunk only, the first temp.size of them
\* consumed already and the others still in the input.
InTemp ==
  /\ temp.size <= Len(temp.buf) /\ Len(temp.buf) <= 2 * LZMA_IN_REQUIRED
  /\ Len(temp.buf) <= lzma2.compressed /\ Len(temp.buf) - temp.size <= b.in_size - b.in_pos
  /\ rc.in_pos < rc.in_limit + LZMA_IN_REQUIRED
  /\ rc.in_limit = IF Len(temp.buf) = lzma2.compressed THEN Len(temp.buf)
                   ELSE Len(temp.buf) - LZMA_IN_REQUIRED

\* and in the input, where the bytes for one symbol are always there.
InInput ==
  /\ temp.size = 0
  /\ b.in_pos <= rc.in_pos /\ rc.in_pos < rc.in_limit + LZMA_IN_REQUIRED
  /\ rc.in_limit + LZMA_IN_REQUIRED <= b.in_size

\* What is kept in temp between two calls.
Kept == ret = "XZ_OK" =>
  /\ temp.size < LZMA_IN_REQUIRED /\ temp.size <= lzma2.compressed
  /\ lzma2.sequence # "SEQ_LZMA_RUN" \/ pc \in {"direct", "keep"} => temp.size = 0
  /\ ~Reading("temp") => Len(temp.buf) = temp.size
  /\ Reading("temp") => InTemp
  /\ Reading("input") => InInput

\* The dictionary; what is not flushed yet has room in the output and in what
\* is left of the chunk.
Ring == ret = "XZ_OK" =>
  /\ dict.end = dict.size /\ dict.size <= dict.allocated
  /\ ~lzma2.need_dict_reset =>
       /\ dict.pos <= dict.end /\ dict.full \in {dict.pos, dict.end}
       /\ pc \notin InLzma => dict.start = dict.pos
  /\ pc \in InLzma =>
       /\ dict.start <= dict.pos /\ dict.pos <= dict.limit /\ dict.limit <= dict.end
       /\ dict.limit - dict.start <= b.room /\ dict.limit - dict.start <= lzma2.uncompressed

-----------------------------------------------------------------------------
(* The types, variable by variable *)

PlaceTyped ==
  /\ pc \in {"caller", "loop", "prepare", "copy", "temp", "direct", "main", "symbols", "keep", "flush"}
  /\ ret \in Results /\ bl \in Blocks \cup {NoBlock} /\ todo \in Seq(Blocks)
  /\ input \in Seq(Nat)

BTyped ==
  /\ b \in [in_pos : Nat, in_size : Nat, room : Nat]
  /\ b.in_pos <= b.in_size /\ b.in_size <= Len(input)

Lzma2Typed ==
  lzma2 \in [sequence : Sequences2, next_sequence : Sequences2, uncompressed : Nat,
             compressed : Nat, need_dict_reset : BOOLEAN, need_props : BOOLEAN]

LzmaTyped == lzma \in [len : Nat, reps : [0 .. 3 -> Nat]]

DictTyped ==
  dict \in [buf : {dict.buf}, start : Nat, pos : Nat, full : Nat,
            limit : Nat, end : Nat, size : Nat, allocated : Nat]

RcTyped ==
  rc \in [in : {"temp", "input"}, in_pos : Nat, in_limit : Nat, init_bytes_left : Nat,
          chunk : Nat, read : Nat, done : Nat, ahead : BOOLEAN, garbled : BOOLEAN]

TempTyped == temp \in [size : Nat, buf : Seq(Nat)]

Typed ==
  /\ PlaceTyped /\ BTyped /\ Lzma2Typed /\ LzmaTyped /\ DictTyped /\ RcTyped /\ TempTyped

IInv == Typed /\ Sequencing /\ Kept /\ Ring

LEMMA TypedIsTypeOK == Typed => TypeOK
<1> SUFFICES ASSUME Typed PROVE TypeOK
  OBVIOUS
<1>1. Len(input) \in Nat
  BY DEF Typed, PlaceTyped
<1>2. b \in [in_pos : 0 .. Len(input), in_size : 0 .. Len(input), room : Nat]
  BY <1>1 DEF Typed, BTyped
<1>3. QED
  BY <1>2 DEF Typed, TypeOK, PlaceTyped, BTyped, Lzma2Typed, LzmaTyped, DictTyped, RcTyped,
     TempTyped

\* The constants, in the form the steps use them.
LEMMA Constants ==
  /\ LZMA_IN_REQUIRED \in Nat /\ LZMA_IN_REQUIRED > 1 /\ RC_INIT_BYTES \in Nat
  /\ Radix \in Nat /\ MaxProps \in Nat /\ size_max \in Nat
  /\ Work \subseteq Seq(Blocks) /\ Pieces \subseteq Nat /\ Rooms \subseteq Nat
BY SizesAssumption

\* The input byte taken next.
LEMMA NextByte ==
  ASSUME Typed, Available > 0
  PROVE  Next1 \in Nat
BY DEF Typed, PlaceTyped, BTyped, Available, Next1

\* The buffers after n bytes were consumed.
LEMMA Taking ==
  ASSUME Typed, NEW n \in Nat, n <= Available, b' = [b EXCEPT !.in_pos = @ + n], UNCHANGED input
  PROVE  BTyped' /\ b'.in_pos = b.in_pos + n /\ b'.in_size = b.in_size /\ b'.room = b.room
<1>1. b \in [in_pos : Nat, in_size : Nat, room : Nat] /\ b.in_pos + n <= b.in_size /\ b.in_size <= Len(input)
  BY DEF Typed, BTyped, Available
<1>2. QED
  BY <1>1 DEF BTyped

LEMMA TakingOne ==
  ASSUME Typed, Available > 0, Took1, UNCHANGED input
  PROVE  BTyped' /\ b'.in_pos = b.in_pos + 1 /\ b'.in_size = b.in_size /\ b'.room = b.room
<1>1. 1 <= Available
  BY DEF Typed, BTyped, Available
<1>2. QED
  BY <1>1, Taking DEF Took1

LEMMA Product ==
  ASSUME NEW m \in Nat, NEW n \in Nat
  PROVE  m * n \in Nat
OBVIOUS

-----------------------------------------------------------------------------
(* Every step keeps it *)

LEMMA InitInvariant == Init => IInv
<1> SUFFICES ASSUME Init PROVE IInv
  OBVIOUS
<1>1. Typed
  BY Constants DEF Init, Typed, PlaceTyped, BTyped, Lzma2Typed, LzmaTyped, DictTyped, RcTyped,
                   TempTyped, NoRc, NoReps, Results, Sequences2
<1>2. Sequencing
  BY DEF Init, Sequencing, InLzma
<1>3. Kept /\ Ring
  BY Constants DEF Init, Kept, Ring, InLzma, Reading
<1>4. QED
  BY <1>1, <1>2, <1>3 DEF IInv

LEMMA StarvedInvariant == IInv /\ Starved => IInv'
<1> SUFFICES ASSUME IInv, Starved PROVE IInv'
  OBVIOUS
<1> USE DEF IInv, Typed
<1>1. PlaceTyped'
  BY Constants DEF PlaceTyped, Results, Starved, Return, At, Available
<1>2. BTyped'
  BY Constants DEF BTyped, PlaceTyped, Starved, Return, At, Available
<1>3. Lzma2Typed'
  BY DEF Lzma2Typed, Starved
<1>4. LzmaTyped'
  BY DEF LzmaTyped, Starved
<1>5. DictTyped'
  BY DEF DictTyped, Starved
<1>6. RcTyped'
  BY DEF RcTyped, Starved
<1>7. TempTyped'
  BY DEF TempTyped, Starved
<1>8. Sequencing'
  BY Constants DEF Sequencing, PlaceTyped, Lzma2Typed, InLzma, Starved, Return, At, Available
<1>9. Kept'
  BY Constants DEF PlaceTyped, BTyped, Lzma2Typed, LzmaTyped, DictTyped, RcTyped, TempTyped,
     Sequencing, Kept, Reading, InTemp, InInput, InLzma, Starved, Return, At, Available
<1>10. Ring'
  BY Constants DEF PlaceTyped, BTyped, Lzma2Typed, LzmaTyped, DictTyped, RcTyped, TempTyped,
     Sequencing, Ring, InLzma, Starved, Return, At, Available
<1>11. QED
  BY <1>1, <1>2, <1>3, <1>4, <1>5, <1>6, <1>7, <1>8, <1>9, <1>10

LEMMA EndInvariant == IInv /\ End => IInv'
<1> SUFFICES ASSUME IInv, End PROVE IInv'
  OBVIOUS
<1> USE DEF IInv, Typed
<1>f1. Available > 0 /\ Next1 \in Nat
  BY NextByte DEF End, At
<1>f2. BTyped' /\ b'.in_pos = b.in_pos + 1 /\ b'.in_size = b.in_size /\ b'.room = b.room
  BY <1>f1, TakingOne DEF End
<1>1. PlaceTyped'
  BY <1>f1, <1>f2, Constants DEF PlaceTyped, Results, End, Took1, Return, At, Available
<1>2. BTyped'
  BY <1>f2 DEF BTyped, PlaceTyped, End, Took1, Return, At, Available
<1>3. Lzma2Typed'
  BY DEF Lzma2Typed, End
<1>4. LzmaTyped'
  BY DEF LzmaTyped, End
<1>5. DictTyped'
  BY DEF DictTyped, End
<1>6. RcTyped'
  BY DEF RcTyped, End
<1>7. TempTyped'
  BY DEF TempTyped, End
<1>8. Sequencing'
  BY <1>f1, <1>f2, Constants DEF Sequencing, PlaceTyped, Lzma2Typed, InLzma, End, Took1, Return, At,
     Available
<1>9. Kept'
  BY <1>f1, <1>f2, Constants DEF PlaceTyped, BTyped, Lzma2Typed, LzmaTyped, DictTyped, RcTyped,
     TempTyped, Sequencing, Kept, Reading, InTemp, InInput, InLzma, End, Took1, Return, At,
     Available
<1>10. Ring'
  BY <1>f1, <1>f2, Constants DEF PlaceTyped, BTyped, Lzma2Typed, LzmaTyped, DictTyped, RcTyped,
     TempTyped, Sequencing, Ring, InLzma, End, Took1, Return, At, Available
<1>11. QED
  BY <1>1, <1>2, <1>3, <1>4, <1>5, <1>6, <1>7, <1>8, <1>9, <1>10

LEMMA Uncompressed1Invariant == IInv /\ Uncompressed1 => IInv'
<1> SUFFICES ASSUME IInv, Uncompressed1 PROVE IInv'
  OBVIOUS
<1> USE DEF IInv, Typed
<1>f1. Available > 0 /\ Next1 \in Nat
  BY NextByte DEF Uncompressed1, At
<1>f2. BTyped' /\ b'.in_pos = b.in_pos + 1 /\ b'.in_size = b.in_size /\ b'.room = b.room
  BY <1>f1, TakingOne DEF Uncompressed1
<1>f3. Radix * Next1 \in Nat
  BY <1>f1, Constants, Product
<1>1. PlaceTyped'
  BY <1>f1, <1>f2, <1>f3, Constants DEF PlaceTyped, Results, Uncompressed1, Took1, Return, At,
     Available
<1>2. BTyped'
  BY <1>f2 DEF BTyped, PlaceTyped, Uncompressed1, Took1, Return, At, Available
<1>3. Lzma2Typed'
  BY <1>f1, <1>f2, <1>f3, Constants DEF Lzma2Typed, Sequences2, Uncompressed1, Took1, Return, At,
     Available
<1>4. LzmaTyped'
  BY DEF LzmaTyped, Uncompressed1
<1>5. DictTyped'
  BY DEF DictTyped, Uncompressed1
<1>6. RcTyped'
  BY DEF RcTyped, Uncompressed1
<1>7. TempTyped'
  BY DEF TempTyped, Uncompressed1
<1>8. Sequencing'
  BY <1>f1, <1>f2, <1>f3, Constants DEF Sequencing, PlaceTyped, Lzma2Typed, InLzma, Uncompressed1,
     Took1, Return, At, Available
<1>9. Kept'
  BY <1>f1, <1>f2, <1>f3, Constants DEF PlaceTyped, BTyped, Lzma2Typed, LzmaTyped, DictTyped,
     RcTyped, TempTyped, Sequencing, Kept, Reading, InTemp, InInput, InLzma, Uncompressed1, Took1,
     Return, At, Available
<1>10. Ring'
  BY <1>f1, <1>f2, <1>f3, Constants DEF PlaceTyped, BTyped, Lzma2Typed, LzmaTyped, DictTyped,
     RcTyped, TempTyped, Sequencing, Ring, InLzma, Uncompressed1, Took1, Return, At, Available
<1>11. QED
  BY <1>1, <1>2, <1>3, <1>4, <1>5, <1>6, <1>7, <1>8, <1>9, <1>10

LEMMA Uncompressed2Invariant == IInv /\ Uncompressed2 => IInv'
<1> SUFFICES ASSUME IInv, Uncompressed2 PROVE IInv'
  OBVIOUS
<1> USE DEF IInv, Typed
<1>f1. Available > 0 /\ Next1 \in Nat
  BY NextByte DEF Uncompressed2, At
<1>f2. BTyped' /\ b'.in_pos = b.in_pos + 1 /\ b'.in_size = b.in_size /\ b'.room = b.room
  BY <1>f1, TakingOne DEF Uncompressed2
<1>f3. lzma2.uncompressed + Next1 + 1 \in Nat
  BY <1>f1 DEF Lzma2Typed
<1>1. PlaceTyped'
  BY <1>f1, <1>f2, <1>f3, Constants DEF PlaceTyped, Results, Uncompressed2, Took1, Return, At,
     Available
<1>2. BTyped'
  BY <1>f2 DEF BTyped, PlaceTyped, Uncompressed2, Took1, Return, At, Available
<1>3. Lzma2Typed'
  BY <1>f1, <1>f2, <1>f3, Constants DEF Lzma2Typed, Sequences2, Uncompressed2, Took1, Return, At,
     Available
<1>4. LzmaTyped'
  BY DEF LzmaTyped, Uncompressed2
<1>5. DictTyped'
  BY DEF DictTyped, Uncompressed2
<1>6. RcTyped'
  BY DEF RcTyped, Uncompressed2
<1>7. TempTyped'
  BY DEF TempTyped, Uncompressed2
<1>8. Sequencing'
  BY <1>f1, <1>f2, <1>f3, Constants DEF Sequencing, PlaceTyped, Lzma2Typed, InLzma, Uncompressed2,
     Took1, Return, At, Available
<1>9. Kept'
  BY <1>f1, <1>f2, <1>f3, Constants DEF PlaceTyped, BTyped, Lzma2Typed, LzmaTyped, DictTyped,
     RcTyped, TempTyped, Sequencing, Kept, Reading, InTemp, InInput, InLzma, Uncompressed2, Took1,
     Return, At, Available
<1>10. Ring'
  BY <1>f1, <1>f2, <1>f3, Constants DEF PlaceTyped, BTyped, Lzma2Typed, LzmaTyped, DictTyped,
     RcTyped, TempTyped, Sequencing, Ring, InLzma, Uncompressed2, Took1, Return, At, Available
<1>11. QED
  BY <1>1, <1>2, <1>3, <1>4, <1>5, <1>6, <1>7, <1>8, <1>9, <1>10

LEMMA Compressed0Invariant == IInv /\ Compressed0 => IInv'
<1> SUFFICES ASSUME IInv, Compressed0 PROVE IInv'
  OBVIOUS
<1> USE DEF IInv, Typed
<1>f1. Available > 0 /\ Next1 \in Nat
  BY NextByte DEF Compressed0, At
<1>f2. BTyped' /\ b'.in_pos = b.in_pos + 1 /\ b'.in_size = b.in_size /\ b'.room = b.room
  BY <1>f1, TakingOne DEF Compressed0
<1>f3. Radix * Next1 \in Nat
  BY <1>f1, Constants, Product
<1>1. PlaceTyped'
  BY <1>f1, <1>f2, <1>f3, Constants DEF PlaceTyped, Results, Compressed0, Took1, Return, At,
     Available
<1>2. BTyped'
  BY <1>f2 DEF BTyped, PlaceTyped, Compressed0, Took1, Return, At, Available
<1>3. Lzma2Typed'
  BY <1>f1, <1>f2, <1>f3, Constants DEF Lzma2Typed, Sequences2, Compressed0, Took1, Return, At,
     Available
<1>4. LzmaTyped'
  BY DEF LzmaTyped, Compressed0
<1>5. DictTyped'
  BY DEF DictTyped, Compressed0
<1>6. RcTyped'
  BY DEF RcTyped, Compressed0
<1>7. TempTyped'
  BY DEF TempTyped, Compressed0
<1>8. Sequencing'
  BY <1>f1, <1>f2, <1>f3, Constants DEF Sequencing, PlaceTyped, Lzma2Typed, InLzma, Compressed0,
     Took1, Return, At, Available
<1>9. Kept'
  BY <1>f1, <1>f2, <1>f3, Constants DEF PlaceTyped, BTyped, Lzma2Typed, LzmaTyped, DictTyped,
     RcTyped, TempTyped, Sequencing, Kept, Reading, InTemp, InInput, InLzma, Compressed0, Took1,
     Return, At, Available
<1>10. Ring'
  BY <1>f1, <1>f2, <1>f3, Constants DEF PlaceTyped, BTyped, Lzma2Typed, LzmaTyped, DictTyped,
     RcTyped, TempTyped, Sequencing, Ring, InLzma, Compressed0, Took1, Return, At, Available
<1>11. QED
  BY <1>1, <1>2, <1>3, <1>4, <1>5, <1>6, <1>7, <1>8, <1>9, <1>10

LEMMA Compressed1Invariant == IInv /\ Compressed1 => IInv'
<1> SUFFICES ASSUME IInv, Compressed1 PROVE IInv'
  OBVIOUS
<1> USE DEF IInv, Typed
<1>f1. Available > 0 /\ Next1 \in Nat
  BY NextByte DEF Compressed1, At
<1>f2. BTyped' /\ b'.in_pos = b.in_pos + 1 /\ b'.in_size = b.in_size /\ b'.room = b.room
  BY <1>f1, TakingOne DEF Compressed1
<1>f3. lzma2.compressed + Next1 + 1 \in Nat
  BY <1>f1 DEF Lzma2Typed
<1>f4. lzma2'.compressed \in Nat
  BY <1>f3 DEF Compressed1, Lzma2Typed
<1>1. PlaceTyped'
  BY <1>f1, <1>f2, <1>f3, <1>f4, Constants DEF PlaceTyped, Results, Compressed1, Took1, Return, At,
     Available
<1>2. BTyped'
  BY <1>f2 DEF BTyped, PlaceTyped, Compressed1, Took1, Return, At, Available
<1>3. Lzma2Typed'
  BY <1>f1, <1>f2, <1>f3, <1>f4, Constants DEF Lzma2Typed, Sequences2, Compressed1, Took1, Return,
     At, Available
<1>4. LzmaTyped'
  BY DEF LzmaTyped, Compressed1
<1>5. DictTyped'
  BY DEF DictTyped, Compressed1
<1>6. RcTyped'
  BY DEF RcTyped, Compressed1
<1>7. TempTyped'
  BY DEF TempTyped, Compressed1
<1>8. Sequencing'
  BY <1>f1, <1>f2, <1>f3, <1>f4, Constants DEF Sequencing, PlaceTyped, Lzma2Typed, InLzma,
     Compressed1, Took1, Return, At, Available
<1>9. Kept'
  BY <1>f1, <1>f2, <1>f3, <1>f4, Constants DEF PlaceTyped, BTyped, Lzma2Typed, LzmaTyped, DictTyped,
     RcTyped, TempTyped, Sequencing, Kept, Reading, InTemp, InInput, InLzma, Compressed1, Took1,
     Return, At, Available
<1>10. Ring'
  BY <1>f1, <1>f2, <1>f3, <1>f4, Constants DEF PlaceTyped, BTyped, Lzma2Typed, LzmaTyped, DictTyped,
     RcTyped, TempTyped, Sequencing, Ring, InLzma, Compressed1, Took1, Return, At, Available
<1>11. QED
  BY <1>1, <1>2, <1>3, <1>4, <1>5, <1>6, <1>7, <1>8, <1>9, <1>10

LEMMA PropertiesInvariant == IInv /\ Properties => IInv'
<1> SUFFICES ASSUME IInv, Properties PROVE IInv'
  OBVIOUS
<1> USE DEF IInv, Typed
<1>f1. Available > 0 /\ Next1 \in Nat
  BY NextByte DEF Properties, At
<1>f2. BTyped' /\ b'.in_pos = b.in_pos + 1 /\ b'.in_size = b.in_size /\ b'.room = b.room
  BY <1>f1, TakingOne DEF Properties
<1>1. PlaceTyped'
  BY <1>f1, <1>f2, Constants DEF PlaceTyped, Results, Properties, Took1, lzma_reset, rc_reset,
     NoReps, Return, At, Available
<1>2. BTyped'
  BY <1>f2 DEF BTyped, PlaceTyped, Properties, Took1, lzma_reset, rc_reset, NoReps, Return, At,
     Available
<1>3. Lzma2Typed'
  BY <1>f1, <1>f2, Constants DEF Lzma2Typed, Sequences2, Properties, Took1, lzma_reset, rc_reset,
     NoReps, Return, At, Available
<1>4. LzmaTyped'
  BY <1>f1, <1>f2, Constants DEF LzmaTyped, Sequences2, Properties, Took1, lzma_reset, rc_reset,
     NoReps, Return, At, Available
<1>5. DictTyped'
  BY DEF DictTyped, Properties
<1>6. RcTyped'
  BY <1>f1, <1>f2, Constants DEF RcTyped, Sequences2, Properties, Took1, lzma_reset, rc_reset,
     NoReps, Return, At, Available
<1>7. TempTyped'
  BY DEF TempTyped, Properties
<1>8. Sequencing'
  BY <1>f1, <1>f2, Constants DEF Sequencing, PlaceTyped, Lzma2Typed, InLzma, Properties, Took1,
     lzma_reset, rc_reset, NoReps, Return, At, Available
<1>9. Kept'
  BY <1>f1, <1>f2, Constants, ZenonT(60) DEF PlaceTyped, BTyped, Lzma2Typed, LzmaTyped, DictTyped, RcTyped,
     TempTyped, Sequencing, Kept, Reading, InTemp, InInput, InLzma, Properties, Took1, lzma_reset,
     rc_reset, NoReps, Return, At, Available
<1>10. Ring'
  BY <1>f1, <1>f2, Constants DEF PlaceTyped, BTyped, Lzma2Typed, LzmaTyped, DictTyped, RcTyped,
     TempTyped, Sequencing, Ring, InLzma, Properties, Took1, lzma_reset, rc_reset, NoReps, Return,
     At, Available
<1>11. QED
  BY <1>1, <1>2, <1>3, <1>4, <1>5, <1>6, <1>7, <1>8, <1>9, <1>10

LEMMA EnterCopyInvariant == IInv /\ EnterCopy => IInv'
<1> SUFFICES ASSUME IInv, EnterCopy PROVE IInv'
  OBVIOUS
<1> USE DEF IInv, Typed
<1>1. PlaceTyped'
  BY Constants DEF PlaceTyped, Results, EnterCopy, Return, At, Available
<1>2. BTyped'
  BY Constants DEF BTyped, PlaceTyped, EnterCopy, Return, At, Available
<1>3. Lzma2Typed'
  BY DEF Lzma2Typed, EnterCopy
<1>4. LzmaTyped'
  BY DEF LzmaTyped, EnterCopy
<1>5. DictTyped'
  BY DEF DictTyped, EnterCopy
<1>6. RcTyped'
  BY DEF RcTyped, EnterCopy
<1>7. TempTyped'
  BY DEF TempTyped, EnterCopy
<1>8. Sequencing'
  BY Constants DEF Sequencing, PlaceTyped, Lzma2Typed, InLzma, EnterCopy, Return, At, Available
<1>9. Kept'
  BY Constants DEF PlaceTyped, BTyped, Lzma2Typed, LzmaTyped, DictTyped, RcTyped, TempTyped,
     Sequencing, Kept, Reading, InTemp, InInput, InLzma, EnterCopy, Return, At, Available
<1>10. Ring'
  BY Constants DEF PlaceTyped, BTyped, Lzma2Typed, LzmaTyped, DictTyped, RcTyped, TempTyped,
     Sequencing, Ring, InLzma, EnterCopy, Return, At, Available
<1>11. QED
  BY <1>1, <1>2, <1>3, <1>4, <1>5, <1>6, <1>7, <1>8, <1>9, <1>10

LEMMA LeaveCopyInvariant == IInv /\ LeaveCopy => IInv'
<1> SUFFICES ASSUME IInv, LeaveCopy PROVE IInv'
  OBVIOUS
<1> USE DEF IInv, Typed
<1>1. PlaceTyped'
  BY Constants DEF PlaceTyped, Results, LeaveCopy, MayCopy, Return, At, Available
<1>2. BTyped'
  BY Constants DEF BTyped, PlaceTyped, LeaveCopy, MayCopy, Return, At, Available
<1>3. Lzma2Typed'
  BY Constants DEF Lzma2Typed, Sequences2, LeaveCopy, MayCopy, Return, At, Available
<1>4. LzmaTyped'
  BY DEF LzmaTyped, LeaveCopy
<1>5. DictTyped'
  BY DEF DictTyped, LeaveCopy
<1>6. RcTyped'
  BY DEF RcTyped, LeaveCopy
<1>7. TempTyped'
  BY DEF TempTyped, LeaveCopy
<1>8. Sequencing'
  BY Constants DEF Sequencing, PlaceTyped, Lzma2Typed, InLzma, LeaveCopy, MayCopy, Return, At,
     Available
<1>9. Kept'
  BY Constants DEF PlaceTyped, BTyped, Lzma2Typed, LzmaTyped, DictTyped, RcTyped, TempTyped,
     Sequencing, Kept, Reading, InTemp, InInput, InLzma, LeaveCopy, MayCopy, Return, At, Available
<1>10. Ring'
  BY Constants DEF PlaceTyped, BTyped, Lzma2Typed, LzmaTyped, DictTyped, RcTyped, TempTyped,
     Sequencing, Ring, InLzma, LeaveCopy, MayCopy, Return, At, Available
<1>11. QED
  BY <1>1, <1>2, <1>3, <1>4, <1>5, <1>6, <1>7, <1>8, <1>9, <1>10

\* A call that fails leaves nothing to keep but the types.
LEMMA Failed ==
  ASSUME Typed', pc' = "caller", ret' # "XZ_OK"
  PROVE  IInv'
BY DEF IInv, Typed, PlaceTyped, Sequencing, Kept, Ring, InLzma

LEMMA CallInvariant == IInv /\ Call => IInv'
<1> SUFFICES ASSUME IInv, Call PROVE IInv'
  OBVIOUS
<1> USE DEF IInv, Typed
<1>1. PICK n \in {b.in_size + k : k \in Pieces} \cup {Len(input)}, r \in Rooms :
        n <= Len(input) /\ b' = [b EXCEPT !.in_size = n, !.room = r]
  BY DEF Call
<1>2. b.in_pos \in Nat /\ b.in_size \in Nat /\ b.in_pos <= b.in_size /\ b.in_size <= Len(input)
      /\ Len(input) \in Nat
  BY DEF BTyped, PlaceTyped
<1>3. n \in Nat /\ r \in Nat /\ b.in_size <= n
  BY <1>2, Constants
<1>4. BTyped' /\ b'.in_pos = b.in_pos /\ b'.in_size = n
  <2>1. b' \in [in_pos : Nat, in_size : Nat, room : Nat] /\ b'.in_pos = b.in_pos /\ b'.in_size = n
    BY <1>1, <1>3 DEF BTyped
  <2>2. b'.in_pos <= b'.in_size /\ b'.in_size <= Len(input')
    BY <1>1, <1>2, <1>3, <2>1 DEF Call
  <2>3. QED
    BY <2>1, <2>2 DEF BTyped
<1>5. PlaceTyped' /\ Lzma2Typed' /\ LzmaTyped' /\ DictTyped' /\ RcTyped' /\ TempTyped'
  BY DEF Call, PlaceTyped, Lzma2Typed, LzmaTyped, DictTyped, RcTyped, TempTyped
<1>6. Sequencing'
  BY DEF Call, Sequencing, InLzma
<1>7. Kept'
  BY DEF Call, Kept, Reading, InLzma
<1>8. Ring'
  BY DEF Call, Ring, InLzma
<1>9. QED
  BY <1>4, <1>5, <1>6, <1>7, <1>8

LEMMA PrepareInvariant == IInv /\ Prepare => IInv'
<1> SUFFICES ASSUME IInv, Prepare PROVE IInv'
  OBVIOUS
<1> USE DEF IInv, Typed
<1> DEFINE n == Least(rc.init_bytes_left, Available)
           g == ~Agree(input, b.in_pos, n)
<1>1. /\ rc.init_bytes_left \in Nat /\ Available \in Nat
      /\ rc.read \in Nat /\ lzma2.compressed \in Nat
  BY DEF RcTyped, Lzma2Typed, BTyped, Available
<1>2. n \in Nat /\ n <= rc.init_bytes_left /\ n <= Available
  BY <1>1 DEF Least
<1>3. g \in BOOLEAN
  BY DEF Agree
<1> HIDE DEF n, g
<1>4. /\ UNCHANGED <<bl, input, out, lzma, dict, temp, todo, promise>>
      /\ ret = "XZ_OK"
      /\ lzma2.sequence = "SEQ_LZMA_PREPARE"
  BY DEF Prepare, At, Sequencing
<1>5. temp.size = 0 /\ Len(temp.buf) = 0 /\ 0 < LZMA_IN_REQUIRED
  BY <1>4, Constants DEF Prepare, At, Kept, Reading
<1>6. LzmaTyped' /\ DictTyped' /\ TempTyped'
  BY <1>4 DEF LzmaTyped, DictTyped, TempTyped
<1>7. CASE lzma2.compressed < RC_INIT_BYTES
  <2>1. UNCHANGED <<b, lzma2, rc>> /\ pc' = "caller" /\ ret' = "XZ_DATA_ERROR"
    BY <1>7 DEF Prepare, Return
  <2>2. Typed'
    BY <1>4, <1>6, <2>1 DEF PlaceTyped, BTyped, Lzma2Typed, RcTyped, Results
  <2>3. QED
    BY <2>1, <2>2, Failed
<1>8. CASE ~(lzma2.compressed < RC_INIT_BYTES)
  <2>1. /\ b' = [b EXCEPT !.in_pos = @ + n]
        /\ rc' = [rc EXCEPT !.init_bytes_left = @ - n, !.read = @ + n, !.garbled = g]
    BY <1>8 DEF Prepare, n, g
  <2>2. BTyped' /\ b'.room = b.room
    BY <1>2, <1>4, <2>1, Taking
  <2>3. RcTyped'
    <3>1. rc.init_bytes_left - n \in Nat /\ rc.read + n \in Nat
      BY <1>1, <1>2
    <3>2. QED
      BY <1>3, <2>1, <3>1 DEF RcTyped
  <2>4. \/ UNCHANGED lzma2 /\ pc' = "caller" /\ ret' = "XZ_OK"
        \/ /\ pc' = "loop" /\ ret' = "XZ_OK"
           /\ lzma2' = [lzma2 EXCEPT !.compressed = @ - RC_INIT_BYTES, !.sequence = "SEQ_LZMA_RUN"]
    BY <1>4, <1>8 DEF Prepare, Return
  <2>5. lzma2.compressed - RC_INIT_BYTES \in Nat
    BY <1>1, <1>8, Constants
  <2>6. Lzma2Typed' /\ lzma2'.compressed \in Nat /\ lzma2'.need_dict_reset = lzma2.need_dict_reset
    BY <2>4, <2>5 DEF Lzma2Typed, Sequences2
  <2>7. PlaceTyped'
    BY <1>4, <2>4 DEF PlaceTyped, Results
  <2>8. Sequencing'
    BY <1>4, <2>4, <2>6 DEF Sequencing, InLzma, Lzma2Typed
  <2>9. Kept'
    BY <1>4, <1>5, <2>4, <2>6 DEF Kept, Reading
  <2>10. Ring'
    BY <1>4, <2>4, <2>6, <2>8 DEF Ring, InLzma, Prepare, At
  <2>11. QED
    BY <1>6, <2>2, <2>3, <2>6, <2>7, <2>8, <2>9, <2>10
<1>9. QED
  BY <1>7, <1>8

\* The counters.
LEMMA Flat ==
  ASSUME Typed
  PROVE  /\ b.in_pos \in Nat /\ b.in_size \in Nat /\ b.room \in Nat
         /\ b.in_pos <= b.in_size /\ b.in_size <= Len(input) /\ Len(input) \in Nat
         /\ Available \in Nat /\ Available = b.in_size - b.in_pos
         /\ lzma2.compressed \in Nat /\ lzma2.uncompressed \in Nat /\ lzma.len \in Nat
         /\ dict.start \in Nat /\ dict.pos \in Nat /\ dict.full \in Nat /\ dict.limit \in Nat
         /\ dict.end \in Nat /\ dict.size \in Nat /\ dict.allocated \in Nat
         /\ rc.in_pos \in Nat /\ rc.in_limit \in Nat
         /\ temp.size \in Nat /\ temp.buf \in Seq(Nat) /\ Len(temp.buf) \in Nat
<1> USE DEF Typed
<1>1. /\ b.in_pos \in Nat /\ b.in_size \in Nat /\ b.room \in Nat
      /\ b.in_pos <= b.in_size /\ b.in_size <= Len(input) /\ Len(input) \in Nat
  BY DEF BTyped, PlaceTyped
<1>2. Available \in Nat /\ Available = b.in_size - b.in_pos
  BY <1>1 DEF Available
<1>3. lzma2.compressed \in Nat /\ lzma2.uncompressed \in Nat /\ lzma.len \in Nat
  BY DEF Lzma2Typed, LzmaTyped
<1>4. /\ dict.start \in Nat /\ dict.pos \in Nat /\ dict.full \in Nat /\ dict.limit \in Nat
      /\ dict.end \in Nat /\ dict.size \in Nat /\ dict.allocated \in Nat
  BY DEF DictTyped
<1>5. rc.in_pos \in Nat /\ rc.in_limit \in Nat
  BY DEF RcTyped
<1>6. temp.size \in Nat /\ temp.buf \in Seq(Nat) /\ Len(temp.buf) \in Nat
  BY DEF TempTyped
<1>7. QED
  BY <1>1, <1>2, <1>3, <1>4, <1>5, <1>6

\* The minima of FiniteSetsExt, of the sets they are taken of here.
LEMMA LeastOf3 ==
  ASSUME NEW i \in Nat, NEW j \in Nat, NEW k \in Nat
  PROVE  Min({i, j, k}) \in {i, j, k} /\ \A x \in {i, j, k} : Min({i, j, k}) <= x
<1>1. \E m \in {i, j, k} : \A x \in {i, j, k} : m <= x
  BY SMT
<1>2. QED
  BY <1>1 DEF Min

LEMMA LeastOf4 ==
  ASSUME NEW h \in Nat, NEW i \in Nat, NEW j \in Nat, NEW k \in Nat
  PROVE  /\ Min({h, i, j, k}) \in {h, i, j, k}
         /\ \A x \in {h, i, j, k} : Min({h, i, j, k}) <= x
<1>1. \E m \in {h, i, j, k} : \A x \in {h, i, j, k} : m <= x
  BY SMT
<1>2. QED
  BY <1>1 DEF Min

LEMMA LeastIs ==
  ASSUME NEW h \in Nat, NEW i \in Nat, NEW j \in Nat, NEW k \in Nat
  PROVE  /\ Min({h, i, j, k}) \in Nat /\ Min({h, i, j, k}) <= h /\ Min({h, i, j, k}) <= i
         /\ Min({h, i, j, k}) <= j /\ Min({h, i, j, k}) <= k
<1> DEFINE n == Min({h, i, j, k})
<1>1. n \in {h, i, j, k} /\ \A x \in {h, i, j, k} : n <= x
  BY LeastOf4
<1> HIDE DEF n
<1>2. n \in Nat /\ n <= h /\ n <= i /\ n <= j /\ n <= k
  BY <1>1
<1>3. QED
  BY <1>2 DEF n

LEMMA Piece ==
  ASSUME NEW s \in Seq(Nat), NEW m \in Nat, NEW n \in Nat, m + n <= Len(s)
  PROVE  SubSeq(s, m + 1, m + n) \in Seq(Nat) /\ Len(SubSeq(s, m + 1, m + n)) = n
OBVIOUS

LEMMA RunInvariant == IInv /\ Run => IInv'
<1> SUFFICES ASSUME IInv, Run PROVE IInv'
  OBVIOUS
<1> USE DEF IInv
<1> DEFINE max == Least(b.room, lzma2.uncompressed)
           limit == IF dict.end - dict.pos <= max THEN dict.end ELSE dict.pos + max
<1>1. /\ UNCHANGED <<ret, bl, input, b, out, lzma2, lzma, rc, temp, todo, promise>>
      /\ pc = "loop" /\ lzma2.sequence = "SEQ_LZMA_RUN" /\ pc' \in {"temp", "direct"}
      /\ ret = "XZ_OK" /\ ~lzma2.need_dict_reset
      /\ pc' = "direct" => temp.size = 0
  BY Flat DEF Run, Sequencing
<1>2. dict' = [dict EXCEPT !.limit = limit]
  BY DEF Run, dict_limit
<1>3. max \in Nat /\ max <= b.room /\ max <= lzma2.uncompressed
  BY Flat, SMTT(60) DEF Least
<1>4. dict.pos <= dict.end /\ dict.start = dict.pos
  BY <1>1 DEF Ring, InLzma
<1> HIDE DEF max
<1>5. limit \in Nat /\ dict.pos <= limit /\ limit <= dict.end /\ limit - dict.pos <= max
  <2>1. dict.pos \in Nat /\ dict.end \in Nat
    BY Flat
  <2>2. QED
    BY <1>3, <1>4, <2>1
<1> HIDE DEF limit
<1>6. /\ DictTyped' /\ dict'.start = dict.start /\ dict'.pos = dict.pos /\ dict'.limit = limit
      /\ dict'.end = dict.end /\ dict'.full = dict.full /\ dict'.size = dict.size
      /\ dict'.allocated = dict.allocated
  BY <1>2, <1>5 DEF Typed, DictTyped
<1>7. PlaceTyped' /\ BTyped' /\ Lzma2Typed' /\ LzmaTyped' /\ RcTyped' /\ TempTyped'
  BY <1>1 DEF Typed, PlaceTyped, BTyped, Lzma2Typed, LzmaTyped, RcTyped, TempTyped
<1>8. Sequencing'
  BY <1>1 DEF Sequencing, InLzma
<1>9. Kept'
  BY <1>1 DEF Kept, Reading
<1>10. Ring'
  BY <1>1, <1>3, <1>4, <1>5, <1>6, Flat, SMTT(60) DEF Ring, InLzma
<1>11. QED
  BY <1>6, <1>7, <1>8, <1>9, <1>10 DEF Typed

LEMMA DirectInvariant == IInv /\ Direct => IInv'
<1> SUFFICES ASSUME IInv, Direct PROVE IInv'
  OBVIOUS
<1> USE DEF IInv
<1>1. /\ UNCHANGED <<ret, bl, input, b, out, lzma2, lzma, dict, temp, todo, promise>>
      /\ pc = "direct" /\ pc' \in {"keep", "main"}
      /\ ret = "XZ_OK" /\ lzma2.sequence = "SEQ_LZMA_RUN" /\ temp.size = 0
  BY DEF Direct, Sequencing, InLzma, Kept
<1>2. PlaceTyped' /\ BTyped' /\ Lzma2Typed' /\ LzmaTyped' /\ DictTyped' /\ TempTyped'
  BY <1>1 DEF Typed, PlaceTyped, BTyped, Lzma2Typed, LzmaTyped, DictTyped, TempTyped
<1>3. Sequencing'
  BY <1>1 DEF Sequencing, InLzma
<1>4. Ring'
  BY <1>1 DEF Ring, InLzma
<1>5. CASE Available < LZMA_IN_REQUIRED
  <2>1. UNCHANGED rc /\ pc' = "keep"
    BY <1>5 DEF Direct
  <2>2. RcTyped' /\ Kept'
    BY <1>1, <2>1 DEF Typed, RcTyped, Kept, Reading
  <2>3. QED
    BY <1>2, <1>3, <1>4, <2>2 DEF Typed
<1>6. CASE ~(Available < LZMA_IN_REQUIRED)
  <2>1. /\ pc' = "main"
        /\ rc' = [rc EXCEPT !.in = "input", !.in_pos = b.in_pos, !.in_limit = DirectLimit]
    BY <1>6 DEF Direct
  <2>2. /\ DirectLimit \in Nat /\ DirectLimit + LZMA_IN_REQUIRED <= b.in_size
        /\ b.in_pos < DirectLimit + LZMA_IN_REQUIRED
    <3>1. /\ b.in_pos \in Nat /\ b.in_size \in Nat /\ lzma2.compressed \in Nat
          /\ LZMA_IN_REQUIRED \in Nat /\ b.in_size - b.in_pos >= LZMA_IN_REQUIRED
      BY <1>6, Flat, Constants
    <3>2. QED
      BY <3>1, Constants DEF DirectLimit, Available
  <2>3. /\ RcTyped' /\ rc'.in = "input" /\ rc'.in_pos = b.in_pos /\ rc'.in_limit = DirectLimit
    BY <2>1, <2>2, Flat DEF Typed, RcTyped
  <2>4. Kept'
    BY <1>1, <2>1, <2>2, <2>3, Flat DEF Kept, Reading, InInput
  <2>5. QED
    BY <1>2, <1>3, <1>4, <2>3, <2>4 DEF Typed
<1>7. QED
  BY <1>5, <1>6

LEMMA KeepInvariant == IInv /\ Keep => IInv'
<1> SUFFICES ASSUME IInv, Keep PROVE IInv'
  OBVIOUS
<1> USE DEF IInv
<1> DEFINE n == Least(Available, lzma2.compressed)
<1>1. /\ UNCHANGED <<ret, bl, input, out, lzma2, lzma, dict, rc, todo, promise>>
      /\ pc = "keep" /\ pc' = "flush"
      /\ ret = "XZ_OK" /\ lzma2.sequence = "SEQ_LZMA_RUN" /\ temp.size = 0 /\ Len(temp.buf) = 0
  BY DEF Keep, Sequencing, InLzma, Kept, Reading
<1>2. PlaceTyped' /\ Lzma2Typed' /\ LzmaTyped' /\ DictTyped' /\ RcTyped'
  BY <1>1 DEF Typed, PlaceTyped, Lzma2Typed, LzmaTyped, DictTyped, RcTyped
<1>3. Sequencing'
  BY <1>1 DEF Sequencing, InLzma
<1>4. n \in Nat /\ n <= Available /\ n <= lzma2.compressed
  BY Flat, SMTT(60) DEF Least
<1> HIDE DEF n
<1>5. CASE Available < LZMA_IN_REQUIRED
  <2>1. /\ temp' = [size |-> n, buf |-> SubSeq(input, b.in_pos + 1, b.in_pos + n)]
        /\ b' = [b EXCEPT !.in_pos = @ + n]
    BY <1>5 DEF Keep, n
  <2>2. BTyped' /\ b'.room = b.room
    BY <1>1, <1>4, <2>1, Taking
  <2>3. /\ SubSeq(input, b.in_pos + 1, b.in_pos + n) \in Seq(Nat)
        /\ Len(SubSeq(input, b.in_pos + 1, b.in_pos + n)) = n
    <3>1. /\ b.in_pos \in Nat /\ b.in_size \in Nat /\ Len(input) \in Nat
          /\ Available = b.in_size - b.in_pos /\ b.in_size <= Len(input)
      BY Flat
    <3>2. b.in_pos + n <= Len(input)
      BY <1>4, <3>1
    <3>3. input \in Seq(Nat)
      BY DEF Sequencing
    <3>4. QED
      BY <1>4, <3>1, <3>2, <3>3, Piece
  <2>4. TempTyped' /\ temp'.size = n /\ Len(temp'.buf) = n
    BY <1>4, <2>1, <2>3 DEF TempTyped
  <2>5. Kept'
    BY <1>1, <1>4, <1>5, <2>4, Flat, Constants DEF Kept, Reading
  <2>6. Ring'
    BY <1>1, <2>2 DEF Ring, InLzma
  <2>7. QED
    BY <1>2, <1>3, <2>2, <2>4, <2>5, <2>6 DEF Typed
<1>6. CASE ~(Available < LZMA_IN_REQUIRED)
  <2>1. UNCHANGED <<temp, b>>
    BY <1>6 DEF Keep
  <2>2. BTyped' /\ TempTyped' /\ Kept' /\ Ring'
    BY <1>1, <2>1 DEF Typed, BTyped, TempTyped, Kept, Reading, Ring, InLzma
  <2>3. QED
    BY <1>2, <1>3, <2>2 DEF Typed
<1>7. QED
  BY <1>5, <1>6

LEMMA FromTempInvariant == IInv /\ FromTemp => IInv'
<1> SUFFICES ASSUME IInv, FromTemp PROVE IInv'
  OBVIOUS
<1> USE DEF IInv
<1> DEFINE n == Taken
           more == SubSeq(input, b.in_pos + 1, b.in_pos + n)
           size == temp.size + n
           buf == temp.buf \o more
           short == size < LZMA_IN_REQUIRED /\ size # lzma2.compressed
           limit == IF size = lzma2.compressed THEN size ELSE size - LZMA_IN_REQUIRED
<1>0. /\ LZMA_IN_REQUIRED \in Nat /\ LZMA_IN_REQUIRED > 1 /\ lzma2.compressed \in Nat
      /\ temp.size \in Nat /\ temp.buf \in Seq(Nat)
      /\ b.in_pos \in Nat /\ b.in_size \in Nat /\ Available \in Nat
      /\ b.in_pos + Available <= Len(input) /\ Available = b.in_size - b.in_pos
  BY Flat, Constants, SMTT(60)
<1>1. /\ UNCHANGED <<ret, bl, input, out, lzma2, lzma, dict, todo, promise>>
      /\ pc = "temp" /\ ret = "XZ_OK" /\ lzma2.sequence = "SEQ_LZMA_RUN"
      /\ Len(temp.buf) = temp.size /\ temp.size < LZMA_IN_REQUIRED /\ temp.size <= lzma2.compressed
      /\ input \in Seq(Nat)
  BY DEF FromTemp, Sequencing, InLzma, Kept, Reading
<1>2. /\ n \in Nat /\ n <= Available
      /\ n <= 2 * LZMA_IN_REQUIRED - temp.size /\ n <= lzma2.compressed - temp.size
  <2>1. /\ 2 * LZMA_IN_REQUIRED - temp.size \in Nat /\ lzma2.compressed - temp.size \in Nat
        /\ Available \in Nat
    BY <1>0, <1>1
  <2>2. /\ n \in {2 * LZMA_IN_REQUIRED - temp.size, lzma2.compressed - temp.size, Available}
        /\ \A k \in {2 * LZMA_IN_REQUIRED - temp.size, lzma2.compressed - temp.size, Available} : n <= k
    BY <2>1, LeastOf3 DEF Taken
  <2>3. n \in Nat
    BY <2>1, <2>2
  <2>4. QED
    BY <2>2, <2>3
<1>3. /\ temp' = [size |-> IF short THEN size ELSE temp.size, buf |-> buf]
      /\ b' = IF short THEN [b EXCEPT !.in_pos = @ + n] ELSE b
      /\ rc' = IF short THEN rc
               ELSE [rc EXCEPT !.in = "temp", !.in_pos = 0, !.in_limit = limit]
      /\ pc' = IF short THEN "flush" ELSE "main"
  BY DEF FromTemp
<1> HIDE DEF n
<1>4. more \in Seq(Nat) /\ Len(more) = n
  <2>1. b.in_pos \in Nat /\ b.in_pos + n <= Len(input)
    BY <1>0, <1>1, <1>2
  <2>2. QED
    BY <1>1, <1>2, <2>1, Piece
<1> HIDE DEF more
<1>5. buf \in Seq(Nat) /\ Len(buf) = size
  BY <1>0, <1>1, <1>4
<1>6. size \in Nat /\ size <= 2 * LZMA_IN_REQUIRED /\ size <= lzma2.compressed
      /\ size - temp.size = n
  BY <1>0, <1>2, SMTT(60)
<1> HIDE DEF buf, size
<1>7. PlaceTyped' /\ Lzma2Typed' /\ LzmaTyped' /\ DictTyped'
  BY <1>1, <1>3 DEF Typed, PlaceTyped, Lzma2Typed, LzmaTyped, DictTyped
<1>8. TempTyped' /\ temp'.size = (IF short THEN size ELSE temp.size) /\ temp'.buf = buf
  BY <1>0, <1>3, <1>5, <1>6 DEF TempTyped
<1>9. Sequencing'
  BY <1>1, <1>3 DEF Sequencing, InLzma
<1>10. CASE short
  <2>1. b' = [b EXCEPT !.in_pos = @ + n] /\ UNCHANGED rc /\ pc' = "flush" /\ temp'.size = size
    BY <1>3, <1>8, <1>10
  <2>2. BTyped' /\ b'.room = b.room
    BY <1>1, <1>2, <2>1, Taking
  <2>3. Kept'
    BY <1>1, <1>5, <1>6, <1>8, <1>10, <2>1 DEF Kept, Reading
  <2>4. Ring'
    BY <1>1, <2>1, <2>2 DEF Ring, InLzma
  <2>5. RcTyped'
    BY <2>1 DEF Typed, RcTyped
  <2>6. QED
    BY <1>7, <1>8, <1>9, <2>2, <2>3, <2>4, <2>5 DEF Typed
<1>11. CASE ~short
  <2>1. /\ UNCHANGED b /\ pc' = "main"
        /\ rc' = [rc EXCEPT !.in = "temp", !.in_pos = 0, !.in_limit = limit]
        /\ temp'.size = temp.size
    BY <1>3, <1>8, <1>11
  <2>2. limit \in Nat /\ 0 < limit + LZMA_IN_REQUIRED
    <3>1. size = lzma2.compressed \/ size >= LZMA_IN_REQUIRED
      BY <1>0, <1>6, <1>11
    <3>2. CASE size = lzma2.compressed
      BY <1>0, <1>6, <3>2
    <3>3. CASE size # lzma2.compressed
      <4>1. limit = size - LZMA_IN_REQUIRED /\ size >= LZMA_IN_REQUIRED
        BY <3>1, <3>3
      <4>2. QED
        BY <1>0, <1>6, <4>1
    <3>4. QED
      BY <3>2, <3>3
  <2>3. RcTyped' /\ rc'.in = "temp" /\ rc'.in_pos = 0 /\ rc'.in_limit = limit
    <3> HIDE DEF limit
    <3>1. QED
      BY <2>1, <2>2 DEF Typed, RcTyped
  <2>4. BTyped' /\ Ring'
    BY <1>1, <2>1 DEF Typed, BTyped, Ring, InLzma
  <2>5. Kept'
    <3>1. temp'.size <= Len(temp'.buf) /\ Len(temp'.buf) <= 2 * LZMA_IN_REQUIRED
      BY <1>0, <1>2, <1>5, <1>6, <1>8, <2>1
    <3>2. Len(temp'.buf) <= lzma2'.compressed
      BY <1>1, <1>5, <1>6, <1>8
    <3>3. Len(temp'.buf) - temp'.size <= b'.in_size - b'.in_pos
      BY <1>0, <1>2, <1>5, <1>6, <1>8, <2>1
    <3>4. rc'.in_limit = IF Len(temp'.buf) = lzma2'.compressed THEN Len(temp'.buf)
                         ELSE Len(temp'.buf) - LZMA_IN_REQUIRED
      BY <1>1, <1>5, <1>8, <2>3
    <3> HIDE DEF limit
    <3>5. rc'.in_pos < rc'.in_limit + LZMA_IN_REQUIRED
      BY <2>2, <2>3
    <3>6. InTemp'
      BY <3>1, <3>2, <3>3, <3>4, <3>5 DEF InTemp
    <3>7. QED
      BY <1>1, <2>1, <2>3, <3>6 DEF Kept, Reading
  <2>6. QED
    BY <1>7, <1>8, <1>9, <2>3, <2>4, <2>5 DEF Typed
<1>12. QED
  BY <1>10, <1>11

\* The chunk a symbol is taken from is one of the encoder's.
LEMMA ChunkKnown ==
  ASSUME Typed, KnownChunk
  PROVE  Chunk.symbols \in Seq(Symbols) /\ Chunk.tail \in {0, 1}
<1>1. bl \in Blocks \cup {NoBlock} /\ rc.chunk \in DOMAIN bl.chunks
  BY DEF Typed, PlaceTyped, KnownChunk
<1>2. bl # NoBlock
  <2>1. DOMAIN NoBlock.chunks = {}
    BY DEF NoBlock
  <2>2. QED
    BY <1>1, <2>1
<1>3. QED
  BY <1>1, <1>2, SymbolsAssumption DEF Chunk

LEMMA NextKnown ==
  ASSUME Typed, NEW s \in NextSymbols
  PROVE  s \in Symbols /\ Needs(s) \in 0 .. LZMA_IN_REQUIRED - 1
<1>1. s \in Symbols
  <2>1. CASE OnPlan
    <3>1. KnownChunk /\ s = Chunk.symbols[rc.done + 1] /\ rc.done < Len(Chunk.symbols)
      BY <2>1 DEF NextSymbols, OnPlan
    <3>2. rc.done \in Nat
      BY DEF Typed, RcTyped
    <3>3. Chunk.symbols \in Seq(Symbols)
      BY <3>1, ChunkKnown
    <3>4. rc.done + 1 \in 1 .. Len(Chunk.symbols)
      BY <3>1, <3>2, <3>3
    <3>5. QED
      BY <3>1, <3>3, <3>4
  <2>2. CASE ~OnPlan
    BY <2>2, SymbolsAssumption DEF NextSymbols
  <2>3. QED
    BY <2>1, <2>2
<1>2. s.cost \in 0 .. LZMA_IN_REQUIRED - 1 /\ s.lead \in {0, 1} /\ s.lead <= s.cost
  BY <1>1 DEF Symbols
<1>3. LZMA_IN_REQUIRED \in Nat
  BY Constants
<1>4. QED
  BY <1>1, <1>2, <1>3 DEF Needs

LEMMA LeadsKnown == Typed => Leads \subseteq {0, 1}
<1> SUFFICES ASSUME Typed PROVE Leads \subseteq {0, 1}
  OBVIOUS
<1>1. CASE ~rc.ahead /\ ~rc.garbled /\ KnownChunk /\ rc.done < Len(Chunk.symbols)
  <2>1. Chunk.symbols \in Seq(Symbols) /\ rc.done \in Nat
    BY <1>1, ChunkKnown DEF Typed, RcTyped
  <2>2. Chunk.symbols[rc.done + 1] \in Symbols
    BY <1>1, <2>1
  <2>3. Chunk.symbols[rc.done + 1].lead \in {0, 1}
    BY <2>2 DEF Symbols
  <2>4. QED
    BY <1>1, <2>3 DEF Leads
<1>2. CASE ~rc.ahead /\ ~rc.garbled /\ KnownChunk /\ ~(rc.done < Len(Chunk.symbols))
  BY <1>2, ChunkKnown DEF Leads
<1>3. CASE rc.ahead \/ rc.garbled \/ ~KnownChunk
  BY <1>3 DEF Leads
<1>4. QED
  BY <1>1, <1>2, <1>3

\* What reading n bytes does to rc.
LEMMA Consumed ==
  ASSUME Typed, NEW n \in Nat
  PROVE  /\ Consume(n) \in [in : {"temp", "input"}, in_pos : Nat, in_limit : Nat,
                            init_bytes_left : Nat, chunk : Nat, read : Nat, done : Nat,
                            ahead : BOOLEAN, garbled : BOOLEAN]
         /\ Consume(n).in_pos = rc.in_pos + n
         /\ Consume(n).in = rc.in /\ Consume(n).in_limit = rc.in_limit
<1> DEFINE g == ~Agree(From, rc.in_pos, n)
<1>1. g \in BOOLEAN
  BY DEF Agree
<1> HIDE DEF g
<1>2. Consume(n) = [rc EXCEPT !.in_pos = @ + n, !.read = @ + n, !.garbled = g]
  BY DEF Consume, g
<1>3. rc.in_pos + n \in Nat /\ rc.read + n \in Nat
  BY DEF Typed, RcTyped
<1>4. QED
  BY <1>1, <1>2, <1>3 DEF Typed, RcTyped

\* A symbol is decoded from where one may be: rc stays where one may be next.
LEMMA DecodedKeeps ==
  ASSUME IInv, pc = "symbols", MoreSymbols, NEW s \in NextSymbols, Decoded(s),
         UNCHANGED <<b, lzma2, temp>>
  PROVE  /\ RcTyped'
         /\ pc' = pc /\ ret' = ret => Kept'
<1> USE DEF IInv
<1> DEFINE c == Consume(Needs(s))
           g == c.garbled \/ ~OnPlan
<1>1. s \in Symbols /\ Needs(s) \in 0 .. LZMA_IN_REQUIRED - 1
  BY NextKnown
<1>2. LZMA_IN_REQUIRED \in Nat /\ rc.in_pos \in Nat /\ rc.in_limit \in Nat
  BY Constants, Flat
<1>3. Needs(s) \in Nat /\ Needs(s) < LZMA_IN_REQUIRED
  BY <1>1, <1>2
<1>4. /\ c \in [in : {"temp", "input"}, in_pos : Nat, in_limit : Nat,
                init_bytes_left : Nat, chunk : Nat, read : Nat, done : Nat,
                ahead : BOOLEAN, garbled : BOOLEAN]
      /\ c.in_pos = rc.in_pos + Needs(s)
      /\ c.in = rc.in /\ c.in_limit = rc.in_limit
  BY <1>3, Consumed
<1>5. rc' = [c EXCEPT !.done = @ + 1, !.ahead = FALSE, !.garbled = g]
  BY DEF Decoded
<1> HIDE DEF c
<1>6. g \in BOOLEAN
  BY <1>4
<1> HIDE DEF g
<1>7. /\ RcTyped' /\ rc'.in = rc.in /\ rc'.in_limit = rc.in_limit
      /\ rc'.in_pos = rc.in_pos + Needs(s)
  <2>1. c.done + 1 \in Nat
    BY <1>4
  <2>2. rc' \in [in : {"temp", "input"}, in_pos : Nat, in_limit : Nat,
                init_bytes_left : Nat, chunk : Nat, read : Nat, done : Nat,
                ahead : BOOLEAN, garbled : BOOLEAN]
    BY <1>4, <1>5, <1>6, <2>1
  <2>3. rc'.in = c.in /\ rc'.in_limit = c.in_limit /\ rc'.in_pos = c.in_pos
    BY <1>4, <1>5
  <2>4. QED
    BY <1>4, <2>2, <2>3 DEF RcTyped
<1>8. rc.in_pos <= rc.in_limit
  BY <1>2 DEF MoreSymbols, LimitExceeded
<1>9. rc'.in_pos \in Nat /\ rc.in_pos <= rc'.in_pos /\ rc'.in_pos < rc'.in_limit + LZMA_IN_REQUIRED
  BY <1>2, <1>3, <1>7, <1>8
<1>10. ASSUME pc' = pc, ret' = ret, ret = "XZ_OK" PROVE Kept'
  <2>1. /\ temp.size < LZMA_IN_REQUIRED /\ temp.size <= lzma2.compressed
        /\ ~Reading("temp") => Len(temp.buf) = temp.size
        /\ Reading("temp") => InTemp
        /\ Reading("input") => InInput
    BY <1>10 DEF Kept
  <2>2. lzma2.sequence = "SEQ_LZMA_RUN"
    BY DEF Sequencing, InLzma
  <2>3. Reading("temp")' => InTemp'
    BY <1>7, <1>9, <1>10, <2>1 DEF Reading, InTemp
  <2>4. b.in_pos \in Nat
    BY Flat
  <2>5. Reading("input")' => InInput'
    BY <1>2, <1>7, <1>9, <1>10, <2>1, <2>4 DEF Reading, InInput
  <2>6. QED
    BY <1>7, <1>10, <2>1, <2>2, <2>3, <2>5 DEF Kept, Reading
<1>11. QED
  BY <1>7, <1>10 DEF Sequencing

\* n bytes are written where there is space.
LEMMA Wrote ==
  ASSUME IInv, pc \in {"main", "symbols"}, ret = "XZ_OK", NEW n \in Nat, n <= dict.limit - dict.pos,
         NEW x, dict' = [dict EXCEPT !.buf = x, !.pos = @ + n, !.full = Filled(dict, dict.pos + n)],
         UNCHANGED <<b, lzma2, ret>>, pc' = "symbols"
  PROVE  DictTyped' /\ Ring'
<1> USE DEF IInv
<1>1. /\ dict.start \in Nat /\ dict.pos \in Nat /\ dict.limit \in Nat /\ dict.end \in Nat
      /\ dict.full \in Nat /\ dict.size \in Nat /\ dict.allocated \in Nat
      /\ b.room \in Nat /\ lzma2.uncompressed \in Nat
  BY Flat
<1>2. ~lzma2.need_dict_reset
  BY DEF Sequencing, InLzma
<1>3. /\ dict.end = dict.size /\ dict.size <= dict.allocated
      /\ dict.pos <= dict.end /\ dict.full \in {dict.pos, dict.end}
      /\ dict.start <= dict.pos /\ dict.pos <= dict.limit /\ dict.limit <= dict.end
      /\ dict.limit - dict.start <= b.room /\ dict.limit - dict.start <= lzma2.uncompressed
  BY <1>2 DEF Ring, InLzma
<1> DEFINE full == Filled(dict, dict.pos + n)
<1>4. full \in Nat /\ full \in {dict.pos + n, dict.end}
  BY <1>1, <1>3 DEF Filled
<1> HIDE DEF full
<1>5. dict' = [dict EXCEPT !.buf = x, !.pos = @ + n, !.full = full]
  BY DEF full
<1>6. dict.pos + n \in Nat /\ dict.pos + n <= dict.limit /\ dict.start <= dict.pos + n
  BY <1>1, <1>3
<1>7. dict \in [buf : {dict.buf}, start : Nat, pos : Nat, full : Nat,
                limit : Nat, end : Nat, size : Nat, allocated : Nat]
  BY DEF Typed, DictTyped
<1>8. /\ dict' = [buf |-> x, start |-> dict.start, pos |-> dict.pos + n, full |-> full,
                  limit |-> dict.limit, end |-> dict.end, size |-> dict.size,
                  allocated |-> dict.allocated]
  BY <1>5, <1>7
<1>9. DictTyped'
  BY <1>1, <1>4, <1>6, <1>8 DEF DictTyped
<1>10. /\ dict'.pos <= dict'.end /\ dict'.full \in {dict'.pos, dict'.end}
       /\ dict'.end = dict'.size /\ dict'.size <= dict'.allocated
  <2>1. /\ dict'.pos = dict.pos + n /\ dict'.full = full /\ dict'.end = dict.end
        /\ dict'.size = dict.size /\ dict'.allocated = dict.allocated
    BY ONLY <1>8
  <2>2. dict.pos + n <= dict.end
    BY <1>1, <1>3, <1>6
  <2>3. QED
    BY <1>3, <1>4, <2>1, <2>2
<1>11. /\ dict'.start <= dict'.pos /\ dict'.pos <= dict'.limit /\ dict'.limit <= dict'.end
       /\ dict'.limit - dict'.start <= b.room /\ dict'.limit - dict'.start <= lzma2.uncompressed
  BY <1>3, <1>6, <1>8
<1>12. QED
  BY <1>9, <1>10, <1>11 DEF Ring, InLzma

LEMMA Repeated ==
  ASSUME NEW n, NEW dist
  PROVE  \E x : dict_repeat(n, dist) =
                  [dict EXCEPT !.buf = x, !.pos = @ + n, !.full = Filled(dict, dict.pos + n)]
BY DEF dict_repeat

LEMMA RepeatableFits ==
  ASSUME Typed, NEW len \in Nat, dict.pos <= dict.limit
  PROVE  Repeatable(len) \in Nat /\ Repeatable(len) <= dict.limit - dict.pos /\ Repeatable(len) <= len
<1>1. dict.pos \in Nat /\ dict.limit \in Nat
  BY Flat
<1>2. QED
  BY <1>1 DEF Repeatable, Least

LEMMA PendingInvariant == IInv /\ Pending => IInv'
<1> SUFFICES ASSUME IInv, Pending PROVE IInv'
  OBVIOUS
<1> USE DEF IInv
<1> DEFINE n == Repeatable(lzma.len)
<1>1. /\ UNCHANGED <<ret, bl, input, b, out, lzma2, rc, temp, todo, promise>>
      /\ pc = "main" /\ pc' = "symbols"
      /\ ret = "XZ_OK" /\ lzma2.sequence = "SEQ_LZMA_RUN"
      /\ dict.pos <= dict.limit /\ lzma.len \in Nat
  BY Flat DEF Pending, Sequencing, InLzma, Ring
<1>2. n \in Nat /\ n <= dict.limit - dict.pos /\ n <= lzma.len
  BY <1>1, RepeatableFits
<1> HIDE DEF n
<1>3. PlaceTyped' /\ BTyped' /\ Lzma2Typed' /\ RcTyped' /\ TempTyped'
  BY <1>1 DEF Typed, PlaceTyped, BTyped, Lzma2Typed, RcTyped, TempTyped
<1>4. Sequencing'
  BY <1>1 DEF Sequencing, InLzma
<1>5. Kept'
  BY <1>1 DEF Kept, Reading, InTemp, InInput
<1>6. CASE UNCHANGED <<dict, lzma>>
  BY <1>1, <1>3, <1>4, <1>5, <1>6 DEF Typed, DictTyped, LzmaTyped, Ring, InLzma
<1>7. CASE dict' = dict_repeat(n, lzma.reps[0]) /\ lzma' = [lzma EXCEPT !.len = @ - n]
  <2>1. lzma.len - n \in Nat
    BY <1>1, <1>2
  <2>2. LzmaTyped'
    BY <1>7, <2>1 DEF Typed, LzmaTyped
  <2>3. PICK x : dict' = [dict EXCEPT !.buf = x, !.pos = @ + n, !.full = Filled(dict, dict.pos + n)]
    BY <1>7, Repeated
  <2>4. DictTyped' /\ Ring'
    BY <1>1, <1>2, <2>3, Wrote
  <2>5. QED
    BY <1>3, <1>4, <1>5, <2>2, <2>4 DEF Typed
<1>8. QED
  BY <1>6, <1>7 DEF Pending, n

LEMMA LiteralInvariant == IInv /\ Literal => IInv'
<1> SUFFICES ASSUME IInv, Literal PROVE IInv'
  OBVIOUS
<1> USE DEF IInv
<1>1. /\ UNCHANGED <<pc, ret, bl, input, b, out, lzma2, lzma, temp, todo, promise>>
      /\ pc = "symbols" /\ MoreSymbols /\ ret = "XZ_OK"
  BY DEF Literal, Sequencing, InLzma
<1>2. PICK s \in NextSymbols : Decoded(s) /\ dict' = dict_put(s.arg)
  BY DEF Literal
<1>3. RcTyped' /\ Kept'
  BY <1>1, <1>2, DecodedKeeps
<1>4. /\ dict' = [dict EXCEPT !.buf = [dict.buf EXCEPT ![dict.pos] = s.arg], !.pos = @ + 1,
                              !.full = Filled(dict, dict.pos + 1)]
  BY <1>2 DEF dict_put
<1>5. 1 <= dict.limit - dict.pos
  <2>1. dict.pos \in Nat /\ dict.limit \in Nat
    BY Flat
  <2>2. QED
    BY <1>1, <2>1 DEF MoreSymbols, dict_has_space
<1>6. DictTyped' /\ Ring'
  BY <1>1, <1>4, <1>5, Wrote
<1>7. PlaceTyped' /\ BTyped' /\ Lzma2Typed' /\ LzmaTyped' /\ TempTyped'
  BY <1>1 DEF Typed, PlaceTyped, BTyped, Lzma2Typed, LzmaTyped, TempTyped
<1>8. Sequencing'
  BY <1>1 DEF Sequencing, InLzma
<1>9. QED
  BY <1>3, <1>6, <1>7, <1>8 DEF Typed

LEMMA MatchInvariant == IInv /\ Match => IInv'
<1> SUFFICES ASSUME IInv, Match PROVE IInv'
  OBVIOUS
<1> USE DEF IInv
<1>1. /\ UNCHANGED <<bl, input, b, out, lzma2, temp, todo, promise>>
      /\ pc = "symbols" /\ MoreSymbols /\ ret = "XZ_OK" /\ lzma2.sequence = "SEQ_LZMA_RUN"
      /\ dict.pos <= dict.limit
  BY DEF Match, Sequencing, InLzma, Ring
<1>2. PICK s \in NextSymbols :
        /\ s.kind # "literal"
        /\ Decoded(s)
        /\ LET reps == IF s.kind = "match" THEN lzma_match(s.arg) ELSE lzma_rep_match(s.arg)
               n == Repeatable(s.len)
           IN IF Reachable(reps[0])
              THEN /\ dict' = dict_repeat(n, reps[0])
                   /\ lzma' = [len |-> s.len - n, reps |-> reps]
                   /\ UNCHANGED <<pc, ret>>
              ELSE /\ Return("XZ_DATA_ERROR")
                   /\ lzma' = [len |-> s.len, reps |-> reps]
                   /\ UNCHANGED dict
  BY DEF Match
<1> DEFINE reps == IF s.kind = "match" THEN lzma_match(s.arg) ELSE lzma_rep_match(s.arg)
           n == Repeatable(s.len)
<1>3. /\ s \in Symbols /\ s.kind \in {"match", "rep"} /\ s.arg \in Nat /\ s.len \in Nat
      /\ s.kind = "rep" => s.arg <= 3
  BY <1>2, NextKnown DEF Symbols
<1>4. reps \in [0 .. 3 -> Nat]
  <2>1. lzma.reps \in [0 .. 3 -> Nat]
    BY DEF Typed, LzmaTyped
  <2>2. CASE s.kind = "match"
    BY <1>3, <2>1, <2>2 DEF lzma_match
  <2>3. CASE s.kind = "rep"
    <3>1. s.arg \in 0 .. 3
      BY <1>3, <2>3
    <3>2. lzma.reps[s.arg] \in Nat /\ lzma.reps[0] \in Nat /\ lzma.reps[1] \in Nat /\ lzma.reps[2] \in Nat
          /\ lzma.reps[3] \in Nat
      BY <2>1, <3>1
    <3>3. QED
      BY <2>1, <2>3, <3>2 DEF lzma_rep_match
  <2>4. QED
    BY <1>3, <2>2, <2>3
<1>5. n \in Nat /\ n <= dict.limit - dict.pos /\ n <= s.len
  BY <1>1, <1>3, RepeatableFits
<1>6. RcTyped' /\ (UNCHANGED <<pc, ret>> => Kept')
  BY <1>1, <1>2, DecodedKeeps
<1>7. BTyped' /\ Lzma2Typed' /\ TempTyped'
  BY <1>1 DEF Typed, BTyped, Lzma2Typed, TempTyped
<1> HIDE DEF reps, n
<1>8. CASE Reachable(reps[0])
  <2>1. /\ dict' = dict_repeat(n, reps[0])
        /\ lzma' = [len |-> s.len - n, reps |-> reps]
        /\ UNCHANGED <<pc, ret>>
    BY <1>2, <1>8 DEF reps, n
  <2>2. s.len - n \in Nat
    BY <1>3, <1>5
  <2>3. LzmaTyped'
    BY <1>4, <2>1, <2>2 DEF LzmaTyped
  <2>4. PICK x : dict' = [dict EXCEPT !.buf = x, !.pos = @ + n, !.full = Filled(dict, dict.pos + n)]
    BY <2>1, Repeated
  <2>5. DictTyped' /\ Ring'
    BY <1>1, <1>5, <2>1, <2>4, Wrote
  <2>6. PlaceTyped' /\ Sequencing'
    BY <1>1, <2>1 DEF Typed, PlaceTyped, Sequencing, InLzma
  <2>7. QED
    BY <1>6, <1>7, <2>1, <2>3, <2>5, <2>6 DEF Typed
<1>9. CASE ~Reachable(reps[0])
  <2>1. /\ pc' = "caller" /\ ret' = "XZ_DATA_ERROR"
        /\ lzma' = [len |-> s.len, reps |-> reps] /\ UNCHANGED dict
    BY <1>2, <1>9 DEF reps, n, Return
  <2>2. LzmaTyped' /\ DictTyped' /\ PlaceTyped'
    BY <1>1, <1>3, <1>4, <2>1 DEF Typed, LzmaTyped, DictTyped, PlaceTyped, Results
  <2>3. QED
    BY <1>6, <1>7, <2>1, <2>2, Failed DEF Typed
<1>10. QED
  BY <1>8, <1>9

\* After the last symbol rc has read one byte more, or none.
LEMMA NormalizedRc ==
  ASSUME Typed, NEW n \in {0, 1}
  PROVE  /\ Normalized(n) \in [in : {"temp", "input"}, in_pos : Nat, in_limit : Nat,
                               init_bytes_left : Nat, chunk : Nat, read : Nat, done : Nat,
                               ahead : BOOLEAN, garbled : BOOLEAN]
         /\ Normalized(n).in_pos = rc.in_pos + n
<1> DEFINE c == Consume(n)
           a == rc.ahead \/ n = 1
<1>1. /\ c \in [in : {"temp", "input"}, in_pos : Nat, in_limit : Nat,
                init_bytes_left : Nat, chunk : Nat, read : Nat, done : Nat,
                ahead : BOOLEAN, garbled : BOOLEAN]
      /\ c.in_pos = rc.in_pos + n
  BY Consumed
<1>2. a \in BOOLEAN
  BY DEF Typed, RcTyped
<1>3. Normalized(n) = [c EXCEPT !.ahead = a]
  BY DEF Normalized
<1> HIDE DEF c, a
<1>4. QED
  BY <1>1, <1>2, <1>3

LEMMA LeaveTempInvariant == IInv /\ LeaveTemp => IInv'
<1> SUFFICES ASSUME IInv, LeaveTemp PROVE IInv'
  OBVIOUS
<1> USE DEF IInv
<1>1. /\ UNCHANGED <<bl, input, out, lzma, dict, todo, promise>>
      /\ pc = "symbols" /\ ret = "XZ_OK" /\ lzma2.sequence = "SEQ_LZMA_RUN"
      /\ temp.size < LZMA_IN_REQUIRED /\ temp.size <= lzma2.compressed /\ InTemp
  BY DEF LeaveTemp, Sequencing, InLzma, Kept, Reading
<1>2. PICK n \in Leads :
        LET r == Normalized(n)
        IN /\ rc' = r
           /\ IF r.in_pos > Len(temp.buf)
              THEN Return("XZ_DATA_ERROR") /\ UNCHANGED <<b, lzma2, temp>>
              ELSE /\ lzma2' = [lzma2 EXCEPT !.compressed = @ - r.in_pos]
                   /\ UNCHANGED ret
                   /\ IF r.in_pos < temp.size
                      THEN /\ temp' = [size |-> temp.size - r.in_pos,
                                       buf |-> SubSeq(temp.buf, r.in_pos + 1, temp.size)]
                           /\ pc' = "flush" /\ UNCHANGED b
                      ELSE /\ b' = [b EXCEPT !.in_pos = @ + r.in_pos - temp.size]
                           /\ temp' = [size |-> 0, buf |-> <<>>]
                           /\ pc' = "direct"
  BY DEF LeaveTemp
<1> DEFINE r == Normalized(n)
           read == r.in_pos
<1>3. n \in {0, 1}
  BY LeadsKnown
<1>4. RcTyped' /\ read \in Nat
  <2>1. /\ r \in [in : {"temp", "input"}, in_pos : Nat, in_limit : Nat,
                  init_bytes_left : Nat, chunk : Nat, read : Nat, done : Nat,
                  ahead : BOOLEAN, garbled : BOOLEAN]
    BY <1>3, NormalizedRc
  <2>2. rc' = r
    BY <1>2
  <2> HIDE DEF r
  <2>3. QED
    BY <2>1, <2>2 DEF RcTyped
<1>5. \/ /\ read > Len(temp.buf) /\ Return("XZ_DATA_ERROR") /\ UNCHANGED <<b, lzma2, temp>>
      \/ /\ ~(read > Len(temp.buf)) /\ lzma2' = [lzma2 EXCEPT !.compressed = @ - read]
         /\ UNCHANGED ret
         /\ \/ /\ read < temp.size
               /\ temp' = [size |-> temp.size - read, buf |-> SubSeq(temp.buf, read + 1, temp.size)]
               /\ pc' = "flush" /\ UNCHANGED b
            \/ /\ ~(read < temp.size)
               /\ b' = [b EXCEPT !.in_pos = @ + read - temp.size]
               /\ temp' = [size |-> 0, buf |-> <<>>]
               /\ pc' = "direct"
  BY <1>2
<1> HIDE DEF read, r
<1>6. /\ LZMA_IN_REQUIRED \in Nat /\ lzma2.compressed \in Nat /\ temp.size \in Nat
      /\ temp.buf \in Seq(Nat) /\ Len(temp.buf) \in Nat
      /\ b.in_pos \in Nat /\ b.in_size \in Nat /\ b.room \in Nat /\ b.in_pos <= b.in_size
      /\ b.in_size <= Len(input) /\ Len(input) \in Nat
  BY Flat, Constants
<1>7. /\ temp.size <= Len(temp.buf) /\ Len(temp.buf) <= lzma2.compressed
      /\ Len(temp.buf) - temp.size <= b.in_size - b.in_pos
  BY <1>1 DEF InTemp
<1>8. LzmaTyped' /\ DictTyped'
  BY <1>1 DEF Typed, LzmaTyped, DictTyped
<1>9. CASE read > Len(temp.buf) /\ Return("XZ_DATA_ERROR") /\ UNCHANGED <<b, lzma2, temp>>
  <2>1. pc' = "caller" /\ ret' = "XZ_DATA_ERROR" /\ UNCHANGED <<b, lzma2, temp>>
    BY <1>9 DEF Return
  <2>2. PlaceTyped' /\ BTyped' /\ Lzma2Typed' /\ TempTyped'
    BY <1>1, <2>1 DEF Typed, PlaceTyped, Results, BTyped, Lzma2Typed, TempTyped
  <2>3. QED
    BY <1>4, <1>8, <2>1, <2>2, Failed DEF Typed
<1>10. CASE /\ ~(read > Len(temp.buf)) /\ lzma2' = [lzma2 EXCEPT !.compressed = @ - read]
            /\ UNCHANGED ret
  <2>1. read <= Len(temp.buf) /\ lzma2.compressed - read \in Nat
    BY <1>4, <1>6, <1>7, <1>10
  <2>2. /\ Lzma2Typed' /\ lzma2'.compressed = lzma2.compressed - read
        /\ lzma2'.uncompressed = lzma2.uncompressed /\ lzma2'.sequence = lzma2.sequence
        /\ lzma2'.need_dict_reset = lzma2.need_dict_reset
    BY <1>10, <2>1 DEF Typed, Lzma2Typed
  <2>3. CASE /\ read < temp.size
             /\ temp' = [size |-> temp.size - read, buf |-> SubSeq(temp.buf, read + 1, temp.size)]
             /\ pc' = "flush" /\ UNCHANGED b
    <3> DEFINE rest == SubSeq(temp.buf, read + 1, temp.size)
    <3>1. temp.size - read \in Nat /\ temp.size - read < LZMA_IN_REQUIRED
          /\ temp.size - read <= lzma2.compressed - read
      BY <1>1, <1>4, <1>6, <2>3
    <3>2. rest \in Seq(Nat) /\ Len(rest) = temp.size - read
      <4>1. read + (temp.size - read) = temp.size
        BY <1>4, <1>6
      <4>2. read + (temp.size - read) <= Len(temp.buf)
        BY <1>7, <4>1
      <4>3. /\ SubSeq(temp.buf, read + 1, read + (temp.size - read)) \in Seq(Nat)
            /\ Len(SubSeq(temp.buf, read + 1, read + (temp.size - read))) = temp.size - read
        BY <1>4, <1>6, <3>1, <4>2, Piece, ZenonT(60)
      <4>4. QED
        BY <4>1, <4>3
    <3> HIDE DEF rest
    <3>3. temp' = [size |-> temp.size - read, buf |-> rest]
      BY <2>3 DEF rest
    <3>4. TempTyped' /\ temp'.size = temp.size - read /\ Len(temp'.buf) = temp.size - read
      BY <3>1, <3>2, <3>3 DEF TempTyped
    <3>5. PlaceTyped' /\ BTyped' /\ Sequencing'
      BY <1>1, <1>10, <2>2, <2>3 DEF Typed, PlaceTyped, BTyped, Sequencing, InLzma
    <3>6. Kept'
      BY <1>1, <1>10, <2>2, <2>3, <3>1, <3>4 DEF Kept, Reading
    <3>7. Ring'
      BY <1>1, <1>10, <2>2, <2>3 DEF Ring, InLzma
    <3>8. QED
      BY <1>4, <1>8, <2>2, <3>4, <3>5, <3>6, <3>7 DEF Typed
  <2>4. CASE /\ ~(read < temp.size)
             /\ b' = [b EXCEPT !.in_pos = @ + read - temp.size]
             /\ temp' = [size |-> 0, buf |-> <<>>]
             /\ pc' = "direct"
    <3>1. read - temp.size \in Nat /\ read - temp.size <= Available
          /\ b.in_pos + read - temp.size = b.in_pos + (read - temp.size)
      BY <1>4, <1>6, <1>7, <2>1, <2>4, SMTT(60) DEF Available
    <3>2. b' = [b EXCEPT !.in_pos = @ + (read - temp.size)]
      BY <2>4, <3>1
    <3>3. BTyped' /\ b'.room = b.room
      BY <1>1, <3>1, <3>2, Taking
    <3>4. TempTyped' /\ temp'.size = 0 /\ Len(temp'.buf) = 0
      BY <2>4 DEF TempTyped
    <3>5. PlaceTyped' /\ Sequencing'
      BY <1>1, <1>10, <2>2, <2>4 DEF Typed, PlaceTyped, Sequencing, InLzma
    <3>6. 0 < LZMA_IN_REQUIRED /\ 0 <= lzma2.compressed - read
      BY <2>1, Constants
    <3>7. Kept'
      BY <1>1, <1>10, <2>2, <2>4, <3>4, <3>6 DEF Kept, Reading
    <3>8. Ring'
      BY <1>1, <1>10, <2>2, <2>4, <3>3 DEF Ring, InLzma
    <3>9. QED
      BY <1>4, <1>8, <2>2, <3>3, <3>4, <3>5, <3>7, <3>8 DEF Typed
  <2>5. QED
    BY <1>5, <1>10, <2>3, <2>4
<1>11. QED
  BY <1>5, <1>9, <1>10

LEMMA LeaveDirectInvariant == IInv /\ LeaveDirect => IInv'
<1> SUFFICES ASSUME IInv, LeaveDirect PROVE IInv'
  OBVIOUS
<1> USE DEF IInv
<1>1. /\ UNCHANGED <<bl, input, out, lzma, dict, temp, todo, promise>>
      /\ pc = "symbols" /\ ret = "XZ_OK" /\ lzma2.sequence = "SEQ_LZMA_RUN"
      /\ InInput /\ Len(temp.buf) = 0
  BY DEF LeaveDirect, Sequencing, InLzma, Kept, Reading, InInput
<1>2. PICK n \in Leads :
        LET r == Normalized(n)
            read == r.in_pos - b.in_pos
        IN /\ rc' = r
           /\ IF read > lzma2.compressed
              THEN Return("XZ_DATA_ERROR") /\ UNCHANGED <<b, lzma2>>
              ELSE /\ lzma2' = [lzma2 EXCEPT !.compressed = @ - read]
                   /\ b' = [b EXCEPT !.in_pos = r.in_pos]
                   /\ pc' = "keep" /\ UNCHANGED ret
  BY DEF LeaveDirect
<1> DEFINE r == Normalized(n)
           to == r.in_pos
<1>3. n \in {0, 1}
  BY LeadsKnown
<1>4. RcTyped' /\ to \in Nat /\ to = rc.in_pos + n
  <2>1. /\ r \in [in : {"temp", "input"}, in_pos : Nat, in_limit : Nat,
                  init_bytes_left : Nat, chunk : Nat, read : Nat, done : Nat,
                  ahead : BOOLEAN, garbled : BOOLEAN]
        /\ r.in_pos = rc.in_pos + n
    BY <1>3, NormalizedRc
  <2>2. rc' = r
    BY <1>2
  <2> HIDE DEF r
  <2>3. QED
    BY <2>1, <2>2 DEF RcTyped
<1>5. \/ /\ to - b.in_pos > lzma2.compressed
         /\ Return("XZ_DATA_ERROR") /\ UNCHANGED <<b, lzma2>>
      \/ /\ ~(to - b.in_pos > lzma2.compressed)
         /\ lzma2' = [lzma2 EXCEPT !.compressed = @ - (to - b.in_pos)]
         /\ b' = [b EXCEPT !.in_pos = to]
         /\ pc' = "keep" /\ UNCHANGED ret
  BY <1>2
<1> HIDE DEF to, r
<1>6. /\ LZMA_IN_REQUIRED \in Nat /\ lzma2.compressed \in Nat
      /\ rc.in_pos \in Nat /\ rc.in_limit \in Nat
      /\ b.in_pos \in Nat /\ b.in_size \in Nat /\ b.in_pos <= b.in_size
  BY Flat, Constants
<1>7. b.in_pos <= to /\ to <= b.in_size
  <2>1. /\ b.in_pos <= rc.in_pos /\ rc.in_pos < rc.in_limit + LZMA_IN_REQUIRED
        /\ rc.in_limit + LZMA_IN_REQUIRED <= b.in_size
    BY <1>1 DEF InInput
  <2>2. rc.in_pos + 1 <= b.in_size
    BY <1>6, <2>1
  <2>3. QED
    BY <1>3, <1>4, <1>6, <2>1, <2>2
<1>8. LzmaTyped' /\ DictTyped' /\ TempTyped'
  BY <1>1 DEF Typed, LzmaTyped, DictTyped, TempTyped
<1>9. CASE Return("XZ_DATA_ERROR") /\ UNCHANGED <<b, lzma2>>
  <2>1. pc' = "caller" /\ ret' = "XZ_DATA_ERROR" /\ UNCHANGED <<b, lzma2>>
    BY <1>9 DEF Return
  <2>2. PlaceTyped' /\ BTyped' /\ Lzma2Typed'
    BY <1>1, <2>1 DEF Typed, PlaceTyped, Results, BTyped, Lzma2Typed
  <2>3. QED
    BY <1>4, <1>8, <2>1, <2>2, Failed DEF Typed
<1>10. CASE /\ ~(to - b.in_pos > lzma2.compressed)
            /\ lzma2' = [lzma2 EXCEPT !.compressed = @ - (to - b.in_pos)]
            /\ b' = [b EXCEPT !.in_pos = to]
            /\ pc' = "keep" /\ UNCHANGED ret
  <2> DEFINE m == to - b.in_pos
  <2>1. /\ m \in Nat /\ m <= Available /\ b.in_pos + m = to /\ lzma2.compressed - m \in Nat
    BY <1>4, <1>6, <1>7, <1>10 DEF Available
  <2>2. b' = [b EXCEPT !.in_pos = @ + m] /\ lzma2' = [lzma2 EXCEPT !.compressed = @ - m]
    BY <1>10, <2>1
  <2> HIDE DEF m
  <2>3. BTyped' /\ b'.room = b.room
    BY <1>1, <2>1, <2>2, Taking
  <2>4. /\ Lzma2Typed' /\ lzma2'.compressed = lzma2.compressed - m
        /\ lzma2'.uncompressed = lzma2.uncompressed /\ lzma2'.sequence = lzma2.sequence
        /\ lzma2'.need_dict_reset = lzma2.need_dict_reset
    BY <2>1, <2>2 DEF Typed, Lzma2Typed
  <2>5. PlaceTyped' /\ Sequencing'
    BY <1>1, <1>10, <2>4 DEF Typed, PlaceTyped, Sequencing, InLzma
  <2>6. 0 < LZMA_IN_REQUIRED /\ 0 <= lzma2'.compressed /\ temp'.size = 0 /\ Len(temp'.buf) = 0
    BY <1>1, <2>1, <2>4, Constants DEF InInput
  <2>7. Kept'
    BY <1>10, <2>6 DEF Kept, Reading
  <2>8. Ring'
    BY <1>1, <1>10, <2>3, <2>4 DEF Ring, InLzma
  <2>9. QED
    BY <1>4, <1>8, <2>3, <2>4, <2>5, <2>7, <2>8 DEF Typed
<1>11. QED
  BY <1>5, <1>9, <1>10

LEMMA FlushInvariant == IInv /\ Flush => IInv'
<1> SUFFICES ASSUME IInv, Flush PROVE IInv'
  OBVIOUS
<1> USE DEF IInv
<1> DEFINE n == dict.pos - dict.start
           pos == IF dict.pos = dict.end THEN 0 ELSE dict.pos
           unfinished == lzma2.uncompressed - n
<1>1. /\ UNCHANGED <<bl, input, lzma, temp, todo, promise>>
      /\ pc = "flush" /\ ret = "XZ_OK" /\ lzma2.sequence = "SEQ_LZMA_RUN"
      /\ ~lzma2.need_dict_reset
      /\ temp.size < LZMA_IN_REQUIRED /\ temp.size <= lzma2.compressed
      /\ Len(temp.buf) = temp.size
  BY DEF Flush, Sequencing, InLzma, Kept, Reading
<1>2. /\ dict.start \in Nat /\ dict.pos \in Nat /\ dict.limit \in Nat /\ dict.end \in Nat
      /\ dict.full \in Nat /\ dict.size \in Nat /\ dict.allocated \in Nat
      /\ b.room \in Nat /\ lzma2.uncompressed \in Nat /\ lzma2.compressed \in Nat
      /\ temp.size \in Nat
  BY Flat
<1>3. /\ dict.end = dict.size /\ dict.size <= dict.allocated
      /\ dict.pos <= dict.end /\ dict.full \in {dict.pos, dict.end}
      /\ dict.start <= dict.pos /\ dict.pos <= dict.limit /\ dict.limit <= dict.end
      /\ dict.limit - dict.start <= b.room /\ dict.limit - dict.start <= lzma2.uncompressed
  BY <1>1 DEF Ring, InLzma
<1>4. /\ n \in Nat /\ b.room - n \in Nat /\ unfinished \in Nat
  BY <1>2, <1>3
<1>5. /\ pos \in Nat /\ pos <= dict.end /\ dict.full \in {pos, dict.end}
  BY <1>2, <1>3
<1>6. /\ dict' = [dict EXCEPT !.pos = pos, !.start = pos]
      /\ b' = [b EXCEPT !.room = @ - n]
  BY DEF Flush
<1>7. \/ pc' = "caller" /\ ret' = "XZ_DATA_ERROR" /\ UNCHANGED rc
         /\ lzma2' = [lzma2 EXCEPT !.uncompressed = unfinished]
      \/ pc' = "loop" /\ UNCHANGED ret /\ rc' = rc_reset(rc) /\ ~(lzma2.compressed > 0)
         /\ lzma2' = [lzma2 EXCEPT !.uncompressed = unfinished, !.sequence = "SEQ_CONTROL"]
      \/ /\ (pc' = "caller" /\ ret' = "XZ_OK") \/ (pc' = "loop" /\ UNCHANGED ret)
         /\ UNCHANGED rc /\ lzma2' = [lzma2 EXCEPT !.uncompressed = unfinished]
  <2>1. CASE unfinished = 0
    <3> DEFINE broken(f) == (lzma2.compressed > 0 \/ lzma.len > 0) \/ ~f
    <3>1. PICK finished \in MayBeFinished :
            IF broken(finished)
            THEN /\ Return("XZ_DATA_ERROR") /\ UNCHANGED rc
                 /\ lzma2' = [lzma2 EXCEPT !.uncompressed = unfinished]
            ELSE /\ pc' = "loop" /\ rc' = rc_reset(rc) /\ UNCHANGED ret
                 /\ lzma2' = [lzma2 EXCEPT !.uncompressed = unfinished, !.sequence = "SEQ_CONTROL"]
      BY <2>1 DEF Flush
    <3>2. CASE broken(finished)
      <4> HIDE DEF broken, unfinished
      <4>1. QED
        BY <3>1, <3>2 DEF Return
    <3>3. CASE ~broken(finished)
      <4>1. ~(lzma2.compressed > 0)
        BY <3>3
      <4> HIDE DEF broken, unfinished
      <4>2. QED
        BY <3>1, <3>3, <4>1
    <3>4. QED
      BY <3>2, <3>3
  <2>2. CASE unfinished # 0
    <3>1. /\ lzma2' = [lzma2 EXCEPT !.uncompressed = unfinished]
          /\ UNCHANGED rc
          /\ IF MustReturn(n) THEN Return("XZ_OK") ELSE pc' = "loop" /\ UNCHANGED ret
      BY <2>2 DEF Flush
    <3> HIDE DEF unfinished
    <3>2. QED
      BY <3>1 DEF Return
  <2>3. QED
    BY <2>1, <2>2
<1> HIDE DEF n, pos, unfinished
<1>8. /\ DictTyped' /\ dict'.pos = pos /\ dict'.start = pos /\ dict'.full = dict.full
      /\ dict'.end = dict.end /\ dict'.size = dict.size /\ dict'.allocated = dict.allocated
  BY <1>5, <1>6 DEF Typed, DictTyped
<1>9. BTyped'
  BY <1>1, <1>4, <1>6 DEF Typed, BTyped
<1>10. LzmaTyped' /\ TempTyped'
  BY <1>1 DEF Typed, LzmaTyped, TempTyped
<1>11. RcTyped'
  BY <1>7, Constants DEF Typed, RcTyped, rc_reset
<1>12. /\ Lzma2Typed' /\ lzma2'.compressed = lzma2.compressed
       /\ lzma2'.need_dict_reset = lzma2.need_dict_reset
       /\ lzma2'.sequence \in {"SEQ_LZMA_RUN", "SEQ_CONTROL"}
       /\ lzma2'.sequence = "SEQ_CONTROL" => ~(lzma2.compressed > 0)
  BY <1>1, <1>4, <1>7 DEF Typed, Lzma2Typed, Sequences2
<1>13. PlaceTyped'
  BY <1>1, <1>7 DEF Typed, PlaceTyped, Results
<1>14. CASE ret' = "XZ_OK"
  <2>1. pc' \in {"caller", "loop"}
    BY <1>7
  <2>2. Sequencing'
    BY <1>1, <1>12, <1>14, <2>1 DEF Sequencing, InLzma
  <2>3. lzma2'.sequence = "SEQ_CONTROL" => temp'.size = 0
    BY <1>1, <1>2, <1>12
  <2>4. Kept'
    BY <1>1, <1>12, <2>1, <2>3 DEF Kept, Reading
  <2>5. Ring'
    BY <1>3, <1>5, <1>8, <2>1 DEF Ring, InLzma
  <2>6. QED
    BY <1>8, <1>9, <1>10, <1>11, <1>12, <1>13, <2>2, <2>4, <2>5 DEF Typed
<1>15. CASE ret' # "XZ_OK"
  BY <1>1, <1>7, <1>8, <1>9, <1>10, <1>11, <1>12, <1>13, <1>15, Failed DEF Typed
<1>16. QED
  BY <1>14, <1>15

LEMMA CopyInvariant == IInv /\ Copy => IInv'
<1> SUFFICES ASSUME IInv, Copy PROVE IInv'
  OBVIOUS
<1> USE DEF IInv
<1> DEFINE n == Min({Available, b.room, dict.end - dict.pos, lzma2.compressed})
           bytes == SubSeq(input, b.in_pos + 1, b.in_pos + n)
           pos == dict.pos + n
           wrapped == IF pos = dict.end THEN 0 ELSE pos
           full == Filled(dict, pos)
           buf == [i \in DOMAIN dict.buf |->
                     IF i \in dict.pos .. pos - 1 THEN bytes[i - dict.pos + 1] ELSE dict.buf[i]]
<1>1. /\ UNCHANGED <<pc, ret, bl, input, lzma, rc, temp, todo, promise>>
      /\ pc = "copy" /\ ret = "XZ_OK" /\ lzma2.sequence = "SEQ_COPY"
      /\ ~lzma2.need_dict_reset /\ temp.size = 0 /\ Len(temp.buf) = 0
  BY DEF Copy, Sequencing, InLzma, Kept, Reading
<1>2. /\ dict.pos \in Nat /\ dict.end \in Nat /\ dict.full \in Nat
      /\ b.room \in Nat /\ lzma2.compressed \in Nat /\ Available \in Nat
      /\ b.in_pos \in Nat /\ b.in_size \in Nat /\ Available = b.in_size - b.in_pos
  BY Flat
<1>3. /\ dict.end = dict.size /\ dict.size <= dict.allocated
      /\ dict.pos <= dict.end /\ dict.full \in {dict.pos, dict.end}
  BY <1>1 DEF Ring, InLzma
<1>4. /\ n \in Nat /\ n <= Available /\ n <= b.room /\ n <= dict.end - dict.pos
      /\ n <= lzma2.compressed
  <2>1. dict.end - dict.pos \in Nat
    BY <1>2, <1>3
  <2>2. QED
    BY <1>2, <2>1, LeastIs
<1>5. /\ dict' = [dict EXCEPT !.pos = wrapped, !.start = wrapped, !.full = full, !.buf = buf]
      /\ b' = [b EXCEPT !.in_pos = @ + n, !.room = @ - n]
      /\ lzma2' = [lzma2 EXCEPT !.compressed = @ - n]
  BY DEF Copy
<1> HIDE DEF n, bytes, buf
<1>6. /\ pos \in Nat /\ pos <= dict.end /\ dict.pos <= pos
      /\ b.in_pos + n \in Nat /\ b.in_pos + n <= b.in_size
      /\ b.room - n \in Nat /\ lzma2.compressed - n \in Nat
  BY <1>2, <1>3, <1>4
<1> HIDE DEF pos
<1>7. wrapped \in Nat /\ wrapped <= dict.end
  BY <1>2, <1>6
<1>8. full \in Nat /\ full \in {wrapped, dict.end}
  BY <1>2, <1>3, <1>6 DEF Filled
<1> HIDE DEF wrapped, full
<1>9. /\ dict' = [buf |-> buf, start |-> wrapped, pos |-> wrapped, full |-> full,
                  limit |-> dict.limit, end |-> dict.end, size |-> dict.size,
                  allocated |-> dict.allocated]
  BY <1>5 DEF Typed, DictTyped
<1>10. DictTyped'
  BY <1>7, <1>8, <1>9, Flat DEF DictTyped
<1>11. /\ dict'.start = wrapped /\ dict'.pos = wrapped /\ dict'.full = full
       /\ dict'.end = dict.end /\ dict'.size = dict.size /\ dict'.allocated = dict.allocated
  BY ONLY <1>9
<1>12. BTyped'
  <2>1. b'.in_pos = b.in_pos + n /\ b'.in_size = b.in_size
        /\ b' \in [in_pos : Nat, in_size : Nat, room : Nat]
    BY <1>5, <1>6 DEF Typed, BTyped
  <2>2. b.in_size <= Len(input')
    BY <1>1, Flat
  <2>3. QED
    BY <1>6, <2>1, <2>2 DEF BTyped
<1>13. /\ Lzma2Typed' /\ lzma2'.compressed = lzma2.compressed - n
       /\ lzma2'.sequence = lzma2.sequence /\ lzma2'.need_dict_reset = lzma2.need_dict_reset
  BY <1>5, <1>6 DEF Typed, Lzma2Typed
<1>14. PlaceTyped' /\ LzmaTyped' /\ RcTyped' /\ TempTyped'
  BY <1>1 DEF Typed, PlaceTyped, LzmaTyped, RcTyped, TempTyped
<1>15. Sequencing'
  BY <1>1, <1>13 DEF Sequencing, InLzma
<1>16. Kept'
  <2>1. 0 < LZMA_IN_REQUIRED /\ 0 <= lzma2'.compressed
    BY <1>6, <1>13, Constants
  <2>2. QED
    BY <1>1, <1>13, <2>1 DEF Kept, Reading
<1>17. Ring'
  BY <1>1, <1>3, <1>7, <1>8, <1>11, <1>13 DEF Ring, InLzma
<1>18. QED
  BY <1>10, <1>12, <1>13, <1>14, <1>15, <1>16, <1>17 DEF Typed

LEMMA ControlInvariant == IInv /\ Control => IInv'
<1> SUFFICES ASSUME IInv, Control PROVE IInv'
  OBVIOUS
<1> USE DEF IInv
<1> DEFINE control == Next1
           resets == control >= 7 \/ control = 1
           l == IF resets THEN [lzma2 EXCEPT !.need_props = TRUE, !.need_dict_reset = FALSE] ELSE lzma2
           props == l.need_props /\ control < 6
           next == IF control >= 6 THEN "SEQ_PROPERTIES" ELSE "SEQ_LZMA_PREPARE"
<1>1. /\ UNCHANGED <<bl, input, out, temp, todo, promise>>
      /\ pc = "loop" /\ ret = "XZ_OK" /\ lzma2.sequence = "SEQ_CONTROL" /\ Available > 0 /\ Took1
      /\ temp.size = 0 /\ Len(temp.buf) = 0
  BY DEF Control, At, Sequencing, Kept, Reading
<1>2. control \in Nat /\ BTyped' /\ b'.room = b.room
  BY <1>1, NextByte, TakingOne
<1>3. /\ dict' = IF resets THEN dict_reset ELSE dict
      /\ \/ Return("XZ_DATA_ERROR") /\ lzma2' = l /\ UNCHANGED <<lzma, rc>>
         \/ /\ pc' = "loop" /\ UNCHANGED ret /\ ~l.need_dict_reset
            /\ \/ lzma2' = [l EXCEPT !.sequence = "SEQ_COMPRESSED_0", !.next_sequence = "SEQ_COPY"]
               \/ lzma2' = [l EXCEPT !.sequence = "SEQ_UNCOMPRESSED_1", !.need_props = props,
                                     !.next_sequence = next]
            /\ \/ lzma' = [len |-> 0, reps |-> NoReps] /\ rc' = rc_reset(NewChunk)
               \/ rc' = NewChunk /\ UNCHANGED lzma
  BY DEF Control
<1> HIDE DEF control
<1>4. /\ l \in [sequence : Sequences2, next_sequence : Sequences2, uncompressed : Nat,
                compressed : Nat, need_dict_reset : BOOLEAN, need_props : BOOLEAN]
      /\ l.compressed = lzma2.compressed /\ l.sequence = lzma2.sequence
      /\ resets \/ l.need_dict_reset = lzma2.need_dict_reset
  BY DEF Typed, Lzma2Typed
<1> HIDE DEF l
<1>5. props \in BOOLEAN /\ next \in Sequences2
  BY <1>4 DEF Sequences2
<1> HIDE DEF props, next
<1>6. /\ Lzma2Typed' /\ lzma2'.compressed = lzma2.compressed
      /\ lzma2'.need_dict_reset = l.need_dict_reset
      /\ lzma2'.sequence \in {"SEQ_CONTROL", "SEQ_COMPRESSED_0", "SEQ_UNCOMPRESSED_1"}
  <2>1. CASE lzma2' = l
    BY <1>1, <1>4, <2>1 DEF Lzma2Typed
  <2>2. CASE lzma2' = [l EXCEPT !.sequence = "SEQ_COMPRESSED_0", !.next_sequence = "SEQ_COPY"]
    BY <1>4, <2>2 DEF Lzma2Typed, Sequences2
  <2>3. CASE lzma2' = [l EXCEPT !.sequence = "SEQ_UNCOMPRESSED_1", !.need_props = props,
                                !.next_sequence = next]
    BY <1>4, <1>5, <2>3 DEF Lzma2Typed, Sequences2
  <2>4. QED
    BY <1>3, <2>1, <2>2, <2>3
<1>7. LzmaTyped'
  BY <1>3 DEF Typed, LzmaTyped, NoReps
<1>8. RcTyped'
  <2>1. rc.chunk + 1 \in Nat
    BY DEF Typed, RcTyped
  <2>2. NewChunk \in [in : {"temp", "input"}, in_pos : Nat, in_limit : Nat, init_bytes_left : Nat,
                     chunk : Nat, read : Nat, done : Nat, ahead : BOOLEAN, garbled : BOOLEAN]
    BY <2>1 DEF Typed, RcTyped, NewChunk
  <2>3. rc' \in {rc, NewChunk, rc_reset(NewChunk)}
    BY <1>3
  <2>4. QED
    BY <2>2, <2>3, Constants DEF Typed, RcTyped, rc_reset
<1>9. TempTyped'
  BY <1>1 DEF Typed, TempTyped
<1>10. DictTyped'
  BY <1>3 DEF Typed, DictTyped, dict_reset
<1>11. PlaceTyped'
  BY <1>1, <1>3 DEF Typed, PlaceTyped, Results, Return
<1>12. Typed'
  BY <1>2, <1>6, <1>7, <1>8, <1>9, <1>10, <1>11 DEF Typed
<1>13. CASE Return("XZ_DATA_ERROR")
  BY <1>12, <1>13, Failed DEF Return
<1>14. CASE pc' = "loop" /\ UNCHANGED ret /\ ~l.need_dict_reset
  <2>1. Sequencing'
    BY <1>1, <1>6, <1>14 DEF Sequencing, InLzma
  <2>2. 0 < LZMA_IN_REQUIRED /\ 0 <= lzma2.compressed
    BY Flat, Constants
  <2>3. Kept'
    BY <1>1, <1>6, <1>14, <2>2 DEF Kept, Reading
  <2>4. /\ dict'.end = dict.end /\ dict'.size = dict.size /\ dict'.allocated = dict.allocated
        /\ resets => dict'.pos = 0 /\ dict'.start = 0 /\ dict'.full = 0
        /\ ~resets => dict' = dict
    BY <1>3 DEF Typed, DictTyped, dict_reset
  <2>5. 0 <= dict.end
    BY Flat
  <2> HIDE DEF resets
  <2>6. Ring'
    BY <1>1, <1>4, <1>14, <2>4, <2>5 DEF Ring, InLzma
  <2>7. QED
    BY <1>12, <2>1, <2>3, <2>6
<1>15. QED
  BY <1>3, <1>13, <1>14

LEMMA ResetInvariant == IInv /\ Reset => IInv'
<1> SUFFICES ASSUME IInv, Reset PROVE IInv'
  OBVIOUS
<1> USE DEF IInv
<1> DEFINE n == bl'.size
           zeros == [i \in 0 .. n - 1 |-> 0]
<1>1. /\ pc' = "caller" /\ bl' = Head(todo) /\ input' = Encode(bl') /\ todo' = Tail(todo)
      /\ todo # <<>> /\ b' = [in_pos |-> 0, in_size |-> 0, room |-> 0] /\ UNCHANGED lzma
  BY DEF Reset
<1>2. \/ n = 0 /\ ret' = "XZ_OPTIONS_ERROR" /\ UNCHANGED <<dict, lzma2, rc, temp>>
      \/ n > size_max /\ ret' = "XZ_MEMLIMIT_ERROR" /\ dict' = [dict EXCEPT !.size = n]
         /\ UNCHANGED <<lzma2, rc, temp>>
      \/ /\ ret' = "XZ_MEM_ERROR"
         /\ dict' = [dict EXCEPT !.size = n, !.end = n, !.allocated = 0, !.buf = <<>>]
         /\ UNCHANGED <<lzma2, rc, temp>>
      \/ /\ ret' = "XZ_OK"
         /\ \/ /\ dict.allocated < n
               /\ dict' = [dict EXCEPT !.size = n, !.end = n, !.allocated = n, !.buf = zeros]
            \/ ~(dict.allocated < n) /\ dict' = [dict EXCEPT !.size = n, !.end = n]
         /\ lzma2' = [lzma2 EXCEPT !.sequence = "SEQ_CONTROL", !.need_dict_reset = TRUE]
         /\ rc' = [rc EXCEPT !.chunk = 0]
         /\ temp' = [size |-> 0, buf |-> <<>>]
  BY DEF Reset
<1> HIDE DEF zeros
<1>3. bl' \in Blocks /\ todo' \in Seq(Blocks)
  BY <1>1 DEF Typed, PlaceTyped
<1>4. n \in Nat /\ input' \in Seq(Nat)
  BY <1>1, <1>3, SymbolsAssumption
<1> HIDE DEF n
<1>5. PlaceTyped'
  BY <1>1, <1>2, <1>3, <1>4 DEF PlaceTyped, Results
<1>6. BTyped'
  <2>1. Len(input') \in Nat
    BY <1>4
  <2>2. QED
    BY <1>1, <2>1 DEF BTyped
<1>7. LzmaTyped'
  BY <1>1 DEF Typed, LzmaTyped
<1>8. Lzma2Typed' /\ lzma2'.compressed \in Nat
  BY <1>2 DEF Typed, Lzma2Typed, Sequences2
<1>9. RcTyped'
  BY <1>2 DEF Typed, RcTyped
<1>10. TempTyped'
  <2>1. temp' = temp \/ temp' = [size |-> 0, buf |-> <<>>]
    BY <1>2
  <2>2. <<>> \in Seq(Nat)
    OBVIOUS
  <2>3. CASE temp' = temp
    BY <2>3 DEF Typed, TempTyped
  <2>4. CASE temp' = [size |-> 0, buf |-> <<>>]
    BY <2>2, <2>4 DEF TempTyped
  <2>5. QED
    BY <2>1, <2>3, <2>4
<1>11. DictTyped'
  <2>1. dict \in [buf : {dict.buf}, start : Nat, pos : Nat, full : Nat,
                  limit : Nat, end : Nat, size : Nat, allocated : Nat]
    BY DEF Typed, DictTyped
  <2>2. CASE dict' = dict
    BY <2>1, <2>2 DEF DictTyped
  <2>3. CASE dict' = [dict EXCEPT !.size = n]
    BY <1>4, <2>1, <2>3 DEF DictTyped
  <2>4. CASE dict' = [dict EXCEPT !.size = n, !.end = n, !.allocated = 0, !.buf = <<>>]
    BY <1>4, <2>1, <2>4 DEF DictTyped
  <2>5. CASE dict' = [dict EXCEPT !.size = n, !.end = n, !.allocated = n, !.buf = zeros]
    BY <1>4, <2>1, <2>5 DEF DictTyped
  <2>6. CASE dict' = [dict EXCEPT !.size = n, !.end = n]
    BY <1>4, <2>1, <2>6 DEF DictTyped
  <2>7. QED
    BY <1>2, <2>2, <2>3, <2>4, <2>5, <2>6
<1>12. Typed'
  BY <1>5, <1>6, <1>7, <1>8, <1>9, <1>10, <1>11 DEF Typed
<1>13. CASE ret' # "XZ_OK"
  BY <1>1, <1>12, <1>13, Failed
<1>14. CASE ret' = "XZ_OK"
  <2>1. /\ \/ /\ dict.allocated < n
              /\ dict' = [dict EXCEPT !.size = n, !.end = n, !.allocated = n, !.buf = zeros]
           \/ ~(dict.allocated < n) /\ dict' = [dict EXCEPT !.size = n, !.end = n]
        /\ lzma2' = [lzma2 EXCEPT !.sequence = "SEQ_CONTROL", !.need_dict_reset = TRUE]
        /\ temp' = [size |-> 0, buf |-> <<>>]
    BY <1>2, <1>14
  <2>2. lzma2'.sequence = "SEQ_CONTROL" /\ lzma2'.need_dict_reset
    BY <2>1 DEF Typed, Lzma2Typed
  <2>3. Sequencing'
    BY <1>1, <1>4, <2>2 DEF Sequencing, InLzma
  <2>4. temp'.size = 0 /\ Len(temp'.buf) = 0 /\ 0 < LZMA_IN_REQUIRED /\ 0 <= lzma2'.compressed
    BY <1>8, <2>1, Constants
  <2>5. Kept'
    BY <1>1, <2>2, <2>4 DEF Kept, Reading
  <2>6. dict'.end = dict'.size /\ dict'.size <= dict'.allocated
    <3>1. dict.allocated \in Nat
      BY Flat
    <3>2. \/ dict.allocated < n /\ dict'.end = n /\ dict'.size = n /\ dict'.allocated = n
          \/ ~(dict.allocated < n) /\ dict'.end = n /\ dict'.size = n /\ dict'.allocated = dict.allocated
      <4>1. dict \in [buf : {dict.buf}, start : Nat, pos : Nat, full : Nat,
                      limit : Nat, end : Nat, size : Nat, allocated : Nat]
        BY DEF Typed, DictTyped
      <4>2. QED
        BY <2>1, <4>1
    <3>3. QED
      BY <1>4, <3>1, <3>2
  <2>7. Ring'
    BY <1>1, <2>2, <2>6 DEF Ring, InLzma
  <2>8. QED
    BY <1>12, <2>3, <2>5, <2>7
<1>15. QED
  BY <1>13, <1>14

-----------------------------------------------------------------------------
(* Theorems *)

LEMMA NextInvariant == IInv /\ [Next]_vars => IInv'
<1> SUFFICES ASSUME IInv, [Next]_vars PROVE IInv'
  OBVIOUS
<1>1. CASE Reset
  BY <1>1, ResetInvariant
<1>2. CASE Call
  BY <1>2, CallInvariant
<1>3. CASE Starved \/ End \/ Control \/ Uncompressed1 \/ Uncompressed2 \/ Compressed0 \/ Compressed1
  BY <1>3, StarvedInvariant, EndInvariant, ControlInvariant, Uncompressed1Invariant,
     Uncompressed2Invariant, Compressed0Invariant, Compressed1Invariant
<1>4. CASE Properties \/ Prepare \/ EnterCopy \/ Copy \/ LeaveCopy
  BY <1>4, PropertiesInvariant, PrepareInvariant, EnterCopyInvariant, CopyInvariant,
     LeaveCopyInvariant
<1>5. CASE Run \/ FromTemp \/ Direct \/ Pending \/ Literal \/ Match
  BY <1>5, RunInvariant, FromTempInvariant, DirectInvariant, PendingInvariant,
     LiteralInvariant, MatchInvariant
<1>6. CASE LeaveTemp \/ LeaveDirect \/ Keep \/ Flush
  BY <1>6, LeaveTempInvariant, LeaveDirectInvariant, KeepInvariant, FlushInvariant
<1>7. CASE UNCHANGED vars
  BY <1>7 DEF vars, IInv, Typed, PlaceTyped, BTyped, Lzma2Typed, LzmaTyped, DictTyped, RcTyped,
              TempTyped, Sequencing, Kept, Ring, Reading, InTemp, InInput, InLzma
<1>8. QED
  BY <1>1, <1>2, <1>3, <1>4, <1>5, <1>6, <1>7 DEF Next, Decode

\* Wherever calls cut input and output, whatever the blocks hold: the decoder
\* stays in IInv.
THEOREM Invariance == Spec => []IInv
<1>1. Init => IInv
  BY InitInvariant
<1>2. IInv /\ [Next]_vars => IInv'
  BY NextInvariant
<1>3. QED
  BY <1>1, <1>2, PTL DEF Spec

\* The unsigned counters that xz_dec_lzma2.c subtracts from without a test
\* (the room for output, both sizes of the chunk, temp.size) never wrap.
THEOREM TypeCorrect == Spec => []TypeOK
<1>1. IInv => TypeOK
  BY TypedIsTypeOK DEF IInv
<1>2. QED
  BY <1>1, Invariance, PTL

\* lzma_main needs no test of its input but the one per symbol: no byte is
\* read behind the caller's input or behind the buffer between two calls.
THEOREM InputSafety == Spec => []ReadsInBounds
<1>1. IInv => ReadsInBounds
  <2> SUFFICES ASSUME IInv, pc = "symbols"
               PROVE  rc.in_pos < IF rc.in = "input" THEN b.in_size
                                  ELSE IF Len(temp.buf) = lzma2.compressed THEN 3 * LZMA_IN_REQUIRED
                                  ELSE Len(temp.buf)
    BY DEF ReadsInBounds
  <2> USE DEF IInv
  <2>1. /\ LZMA_IN_REQUIRED \in Nat /\ rc.in_pos \in Nat /\ rc.in_limit \in Nat
        /\ b.in_size \in Nat /\ Len(temp.buf) \in Nat
    BY Flat, Constants
  <2>2. ret = "XZ_OK" /\ rc.in \in {"temp", "input"}
    BY DEF Sequencing, Typed, RcTyped
  <2>3. CASE rc.in = "input"
    <3>1. InInput
      BY <2>2, <2>3 DEF Kept, Reading
    <3>2. QED
      BY <2>1, <2>3, <3>1 DEF InInput
  <2>4. CASE rc.in = "temp"
    <3>1. InTemp
      BY <2>2, <2>4 DEF Kept, Reading
    <3>2. QED
      BY <2>1, <2>4, <3>1 DEF InTemp
  <2>5. QED
    BY <2>2, <2>3, <2>4
<1>2. QED
  BY <1>1, Invariance, PTL

\* Every byte that is decoded or copied goes into the dictionary's allocation,
\* and no match reaches a byte that was not written since the last reset.
THEOREM DictionarySafety == Spec => []DictionaryInBounds
<1>1. IInv => DictionaryInBounds
  <2> SUFFICES ASSUME IInv PROVE DictionaryInBounds
    OBVIOUS
  <2> USE DEF IInv
  <2>1. CASE pc = "caller"
    BY <2>1 DEF DictionaryInBounds
  <2>2. CASE pc # "caller"
    <3>1. ret = "XZ_OK"
      BY <2>2 DEF Sequencing
    <3>2. /\ dict.end = dict.size /\ dict.size <= dict.allocated
          /\ dict.start \in Nat /\ dict.pos \in Nat
      BY <3>1, Flat DEF Ring
    <3>3. ~lzma2.need_dict_reset =>
            /\ dict.pos <= dict.end /\ dict.full \in {dict.pos, dict.end}
            /\ dict.start <= dict.pos
      BY <3>1, <3>2 DEF Ring
    <3>4. pc \in {"main", "symbols"} => dict.pos <= dict.limit /\ dict.limit <= dict.end
      BY <3>1 DEF Ring, InLzma
    <3>5. QED
      BY <3>2, <3>3, <3>4 DEF DictionaryInBounds
  <2>3. QED
    BY <2>1, <2>2
<1>2. QED
  BY <1>1, Invariance, PTL

\* No access of the decoder to memory is out of bounds, for any blocks, buffer
\* sizes and cuts of the input.
THEOREM MemorySafety == Spec => []MemoryInBounds
<1>1. ReadsInBounds /\ DictionaryInBounds => MemoryInBounds
  BY DEF MemoryInBounds
<1>2. QED
  BY <1>1, InputSafety, DictionarySafety, PTL
=============================================================================
