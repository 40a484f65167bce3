------------------------------ MODULE XzStream ------------------------------
(***************************************************************************)
(* The .xz stream decoder of xz_dec_stream.c in multi-call mode: dec_main, *)
(* one action per case, and the tail of xz_dec_run.  The LZMA2 decoder is  *)
(* what Decompressor promises and XzLzma2 implements.                      *)
(*                                                                         *)
(* The build has no BCJ filters, no CRC64 and no XZ_DEC_ANY_CHECK.  What a *)
(* refused block header leaves in s->pos and s->vli is left out: a decoder *)
(* that has reported an error is not called again.                         *)
(***************************************************************************)
EXTENDS XzFormat

CONSTANTS
  Files,    \* descriptions of files
  Inputs,   \* what there is to decode: files, whole, cut short or damaged
  Datas,    \* compressed data that are sound
  Noise,    \* bytes that damaged data may decode to
  Pieces,   \* bound: bytes of input a caller adds
  Rooms     \* bound: room for output a caller offers

VARIABLES
  pc,      \* "caller", "main" in dec_main, or "leave", the end of xz_dec_run
  ret,     \* what dec_main, and then xz_dec_run, returned
  input,   \* b->in, and all that will ever be there
  b,       \* the caller's buffers: in_pos, in_size and room = out_size - out_pos
  out,     \* all output so far
  start,   \* in_start and the room when xz_dec_run was entered
  s,       \* struct xz_dec without its temp and lzma2
  temp,    \* s->temp, with the part of buf that has been filled
  lzma2    \* the LZMA2 decoder: its data, where they start, what it has done

vars == <<pc, ret, input, b, out, start, s, temp, lzma2>>

VLI_UNKNOWN == Base ^ VLI_BYTES_MAX

Available == b.in_size - b.in_pos
Next1 == input[b.in_pos + 1]
Least(m, n) == IF m < n THEN m ELSE n

Decoder == INSTANCE Decompressor WITH
  block <- lzma2.data, given <- b.in_size - lzma2.from, used <- lzma2.used,
  room <- b.room, made <- lzma2.made, status <- lzma2.status

NoHash == [unpadded |-> 0, uncompressed |-> 0, crc32 |-> <<>>]

\* Mutant: the compressed sizes do not enter the hash.
AddRecordUncompressedOnly(hash, unpadded, uncompressed) ==
  LET sum == hash.uncompressed + uncompressed
  IN [unpadded |-> 0, uncompressed |-> sum, crc32 |-> Append(hash.crc32, <<0, sum>>)]

\* A record is added to a hash: the sums, and the check over all sums so far.
AddRecord(hash, unpadded, uncompressed) ==
  LET sums == <<hash.unpadded + unpadded, hash.uncompressed + uncompressed>>
  IN [unpadded |-> sums[1], uncompressed |-> sums[2], crc32 |-> Append(hash.crc32, sums)]

\* xz_dec_init and xz_dec_reset
Init ==
  /\ pc = "caller" /\ ret = "XZ_OK"
  /\ input \in Inputs
  /\ b = [in_pos |-> 0, in_size |-> 0, room |-> 0]
  /\ out = <<>>
  /\ start = [in_pos |-> 0, room |-> 0]
  /\ s = [sequence |-> "SEQ_STREAM_HEADER", pos |-> 0, vli |-> 0, in_start |-> 0,
          crc |-> <<>>, check_type |-> 0, allow_buf_error |-> FALSE,
          block_header |-> [size |-> 0, compressed |-> 0, uncompressed |-> 0],
          block |-> [compressed |-> 0, uncompressed |-> 0, count |-> 0, hash |-> NoHash],
          index |-> [sequence |-> "SEQ_INDEX_COUNT", size |-> 0, count |-> 0, hash |-> NoHash]]
  /\ temp = [pos |-> 0, size |-> STREAM_HEADER_SIZE, buf |-> <<>>]
  /\ lzma2 = [status |-> "XZ_STREAM_END", data |-> [sound |-> TRUE, size |-> 0, content |-> <<>>],
              from |-> 0, used |-> 0, made |-> <<>>]

\* ---- the caller ----

\* The last call produced output: a caller may then offer no new input.
Produced == b.room < start.room

\* Mutant: in_start is left over from the call before.
EnterKeepsStart(n, r) ==
  /\ b' = [b EXCEPT !.in_size = n, !.room = r]
  /\ start' = [in_pos |-> b.in_pos, room |-> r]
  /\ pc' = "main"
  /\ UNCHANGED <<s, ret, input, out, temp, lzma2>>

\* xz_dec_run is entered with n bytes of input and room for r bytes.
Enter(n, r) ==
  /\ b' = [b EXCEPT !.in_size = n, !.room = r]
  /\ start' = [in_pos |-> b.in_pos, room |-> r]
  /\ pc' = "main"
  \* dec_main saves where it began to read
  /\ s' = [s EXCEPT !.in_start = b.in_pos]
  /\ UNCHANGED <<ret, input, out, temp, lzma2>>

\* A caller goes on for as long as it is told XZ_OK, and offers new input
\* when there is some and the last call had no use for more room.
Call ==
  /\ pc = "caller" /\ ret = "XZ_OK"
  /\ \E k \in Pieces, r \in Rooms :
       /\ k = 0 => Available > 0 \/ Produced \/ b.in_size = Len(input)
       /\ Enter(Least(b.in_size + k, Len(input)), r)

\* ---- steps of dec_main ----

At(sequence) == pc = "main" /\ s.sequence = sequence

\* dec_main returns.
Return(r) == pc' = "leave" /\ ret' = r
GoOn == pc' = "main" /\ UNCHANGED ret

Took(n) == b' = [b EXCEPT !.in_pos = @ + n]

\* fill_temp: what is in the buffer when n more bytes were copied there.
Missing == temp.size - temp.pos
Filled(n) == SubSeq(temp.buf, 1, temp.pos) \o SubSeq(input, b.in_pos + 1, b.in_pos + n)

UsesTemp == s.sequence \in {"SEQ_STREAM_HEADER", "SEQ_BLOCK_HEADER", "SEQ_STREAM_FOOTER"}

FillPart ==
  /\ pc = "main" /\ UsesTemp /\ Available < Missing
  /\ temp' = [temp EXCEPT !.pos = @ + Available, !.buf = Filled(Available)]
  /\ Took(Available) /\ Return("XZ_OK")
  /\ UNCHANGED <<input, out, start, s, lzma2>>

Filling(sequence) == At(sequence) /\ Available >= Missing /\ Took(Missing)
Buf == Filled(Missing)

\* dec_vli from digit v.pos on: the result and what it leaves in s.
dec_vli(v, bytes) ==
  LET stops == {j \in 1 .. Len(bytes) : ~Continues(bytes[j]) \/ v.pos + j = VLI_BYTES_MAX}
      n == IF stops = {} THEN Len(bytes) ELSE Min(stops)
      value[j \in 0 .. n] ==
        IF j = 0 THEN (IF v.pos = 0 THEN 0 ELSE v.vli)
        ELSE value[j - 1] + Base ^ (v.pos + j - 1) * Digit(bytes[j])
      broken == Continues(bytes[n]) \/ (Num(bytes[n]) = 0 /\ v.pos + n > 1)
  IN [used |-> n,
      vli |-> value[n],
      ret |-> IF stops = {} THEN "XZ_OK" ELSE IF broken THEN "XZ_DATA_ERROR" ELSE "XZ_STREAM_END",
      pos |-> IF stops = {} \/ Continues(bytes[n]) THEN v.pos + n
              ELSE IF broken THEN v.pos + n - 1 ELSE 0]

\* dec_stream_header
dec_stream_header(buf) ==
  IF SubSeq(buf, 1, 2) # HEADER_MAGIC THEN "XZ_FORMAT_ERROR"
  ELSE IF xz_crc32(SubSeq(buf, 3, 4)) # SubSeq(buf, 5, 4 + Align) THEN "XZ_DATA_ERROR"
  ELSE IF Num(buf[3]) # 0 \/ Num(buf[4]) > 1 THEN "XZ_OPTIONS_ERROR"
  ELSE "XZ_OK"

StreamHeaderStep ==
  /\ Filling("SEQ_STREAM_HEADER")
  /\ temp' = [temp EXCEPT !.pos = 0, !.buf = Buf]
  /\ LET r == dec_stream_header(Buf)
     IN /\ s' = [s EXCEPT !.sequence = "SEQ_BLOCK_START",
                          !.check_type = IF r = "XZ_OK" \/ (r = "XZ_OPTIONS_ERROR" /\ Num(Buf[3]) = 0)
                                         THEN Num(Buf[4]) ELSE @]
        /\ IF r = "XZ_OK" THEN GoOn ELSE Return(r)
  /\ UNCHANGED <<input, out, start, lzma2>>

\* Every case that cannot do without a byte waits for one.
Waits ==
  \/ s.sequence = "SEQ_BLOCK_START"
  \/ s.sequence = "SEQ_BLOCK_PADDING" /\ s.block.compressed % Align # 0
  \/ s.sequence = "SEQ_BLOCK_CHECK" /\ s.check_type = 1
  \/ s.sequence = "SEQ_INDEX_CRC32"

Starved ==
  /\ pc = "main" /\ Available = 0 /\ Waits
  /\ Return("XZ_OK")
  /\ UNCHANGED <<input, b, out, start, s, temp, lzma2>>

\* A zero is the beginning of the index; the size of a block header is not
\* consumed yet.
BlockStart ==
  /\ At("SEQ_BLOCK_START") /\ Available > 0
  /\ IF Num(Next1) = 0
     THEN /\ Took(1)
          /\ s' = [s EXCEPT !.in_start = b.in_pos, !.sequence = "SEQ_INDEX"]
          /\ UNCHANGED temp
     ELSE LET size == (Num(Next1) + 1) * Align
          IN /\ s' = [s EXCEPT !.block_header.size = size, !.sequence = "SEQ_BLOCK_HEADER"]
             /\ temp' = [pos |-> 0, size |-> size, buf |-> <<>>]
             /\ UNCHANGED b
  /\ GoOn /\ UNCHANGED <<input, out, start, lzma2>>

\* A size of the block header, if its bit is set, at the front of bytes.
StatedSize(present, bytes) ==
  IF present THEN dec_vli([pos |-> 0, vli |-> 0], bytes)
  ELSE [used |-> 0, vli |-> VLI_UNKNOWN, ret |-> "XZ_STREAM_END", pos |-> 0]

\* dec_block_header up to the reset of the LZMA2 decoder: c and u are the
\* sizes read, filter is what is left behind them.
dec_block_header(body, c, u, filter) ==
  IF SubSeq(Buf, Len(body) + 1, Len(Buf)) # xz_crc32(body) THEN "XZ_DATA_ERROR"
  ELSE IF Num(body[2]) >= 4 THEN "XZ_OPTIONS_ERROR"
  ELSE IF c.ret # "XZ_STREAM_END" \/ u.ret # "XZ_STREAM_END" \/ Len(filter) < 2 THEN "XZ_DATA_ERROR"
  ELSE IF Num(filter[1]) # LZMA2_ID \/ Num(filter[2]) # 1 THEN "XZ_OPTIONS_ERROR"
  ELSE IF Len(filter) < 3 THEN "XZ_DATA_ERROR"
  ELSE "XZ_OK"

\* What the LZMA2 decoder will find behind the header: sound data with
\* properties it supports, or something else.
Supported(props) == props = 1

DataFrom(p, props) ==
  LET found == {d \in Datas : IsPrefix(SubSeq(input, p + 1, Least(p + d.size, Len(input))), DataBytes(d))}
  IN IF found = {} \/ ~Supported(props) THEN [sound |-> FALSE, size |-> 0, content |-> <<>>]
     ELSE LET d == CHOOSE d \in found : TRUE
          IN [sound |-> TRUE, size |-> d.size, content |-> d.content]

\* The rest of dec_block_header: the reset, and padding up to the check.
HeaderAccepted(compressed, uncompressed, filter) ==
  LET from == b.in_pos + Missing
      padding == SubSeq(filter, 4, Len(filter))
      clean == \A i \in 1 .. Len(padding) : Num(padding[i]) = 0
      sized == [s EXCEPT !.block_header.compressed = compressed,
                         !.block_header.uncompressed = uncompressed]
  IN \E status \in IF Supported(Num(filter[3])) THEN {"caller", "XZ_MEM_ERROR"}
                   ELSE {"XZ_OPTIONS_ERROR", "XZ_MEMLIMIT_ERROR"} :
       /\ lzma2' = [status |-> status, data |-> DataFrom(from, Num(filter[3])),
                    from |-> from, used |-> 0, made |-> <<>>]
       /\ Decoder!Reset
       /\ IF status # "caller" THEN Return(status) /\ s' = sized
          ELSE IF ~clean THEN Return("XZ_OPTIONS_ERROR") /\ s' = sized
          ELSE /\ GoOn
               /\ s' = [sized EXCEPT !.block.compressed = 0, !.block.uncompressed = 0,
                                     !.sequence = "SEQ_BLOCK_UNCOMPRESS"]

BlockHeaderStep ==
  /\ Filling("SEQ_BLOCK_HEADER")
  /\ \E body \in {SubSeq(Buf, 1, temp.size - Align)} :
     \E c \in {StatedSize(Num(body[2]) % 2 = 1, SubSeq(body, 3, Len(body)))} :
     \E u \in {StatedSize((Num(body[2]) \div 2) % 2 = 1, SubSeq(body, 3 + c.used, Len(body)))} :
     \E filter \in {SubSeq(body, 3 + c.used + u.used, Len(body))} :
     \E r \in {dec_block_header(body, c, u, filter)} :
       /\ temp' = [pos |-> 0, size |-> Len(body), buf |-> Buf]
       /\ IF r # "XZ_OK" THEN Return(r) /\ UNCHANGED <<s, lzma2>>
          ELSE HeaderAccepted(c.vli, u.vli, filter)
  /\ UNCHANGED <<input, out, start>>

\* What the decoder may produce in a call, given the room there is.
Continuations ==
  IF lzma2.data.sound
  THEN {SubSeq(lzma2.data.content, Len(lzma2.made) + 1, Len(lzma2.made) + n) :
          n \in 0 .. Least(b.room, Len(lzma2.data.content) - Len(lzma2.made))}
  ELSE {<<>>} \cup (IF b.room > 0 /\ lzma2.made = <<>> THEN {<<x>> : x \in Noise} ELSE {})

\* dec_block: the decoder is called, and what it did is checked against the
\* block header; at the end of the block its sizes enter the hash.
dec_block(n, new, r) ==
  LET compressed == s.block.compressed + n
      uncompressed == s.block.uncompressed + Len(new)
      stated == s.block_header
      tooMuch == compressed > stated.compressed \/ uncompressed > stated.uncompressed
      wrong == \/ stated.compressed \notin {VLI_UNKNOWN, compressed}
               \/ stated.uncompressed \notin {VLI_UNKNOWN, uncompressed}
      unpadded == stated.size + compressed + (IF s.check_type = 1 THEN Align ELSE 0)
      seen == [s EXCEPT !.in_start = b.in_pos,
                        !.block.compressed = compressed, !.block.uncompressed = uncompressed]
      checked == [seen EXCEPT !.crc = IF s.check_type = 1 THEN @ \o new ELSE @]
  IN IF tooMuch THEN [ret |-> "XZ_DATA_ERROR", s |-> seen]
     ELSE IF r = "XZ_STREAM_END" /\ wrong THEN [ret |-> "XZ_DATA_ERROR", s |-> checked]
     ELSE IF r = "XZ_STREAM_END"
     THEN [ret |-> r, s |-> [checked EXCEPT !.sequence = "SEQ_BLOCK_PADDING",
                               !.block.hash = AddRecord(@, unpadded, uncompressed),
                               !.block.count = @ + 1]]
     ELSE [ret |-> r, s |-> checked]

BlockUncompress ==
  /\ At("SEQ_BLOCK_UNCOMPRESS")
  /\ \E n \in 0 .. Available, new \in Continuations,
        status \in {"caller", "XZ_STREAM_END", "XZ_DATA_ERROR"} :
       LET r == dec_block(n, new, IF status = "caller" THEN "XZ_OK" ELSE status)
       IN /\ lzma2' = [lzma2 EXCEPT !.used = @ + n, !.made = @ \o new, !.status = status]
          /\ b' = [b EXCEPT !.in_pos = @ + n, !.room = @ - Len(new)]
          /\ Decoder!Run
          /\ out' = out \o new
          /\ s' = r.s
          /\ IF r.ret = "XZ_STREAM_END" THEN GoOn ELSE Return(r.ret)
  /\ UNCHANGED <<input, start, temp>>

BlockPadding ==
  /\ At("SEQ_BLOCK_PADDING")
  /\ IF s.block.compressed % Align = 0
     THEN s' = [s EXCEPT !.sequence = "SEQ_BLOCK_CHECK"] /\ GoOn /\ UNCHANGED b
     ELSE /\ Available > 0 /\ Took(1)
          /\ IF Num(Next1) # 0 THEN Return("XZ_DATA_ERROR") /\ UNCHANGED s
             ELSE GoOn /\ s' = [s EXCEPT !.block.compressed = @ + 1]
  /\ UNCHANGED <<input, out, start, temp, lzma2>>

\* One byte of crc_validate; after the last one the decoder turns to next.
CrcByte(next) ==
  /\ Available > 0 /\ Took(1)
  /\ IF xz_crc32(s.crc)[s.pos + 1] # Next1 THEN Return("XZ_DATA_ERROR") /\ UNCHANGED s
     ELSE /\ GoOn
          /\ s' = IF s.pos + 1 < Align THEN [s EXCEPT !.pos = @ + 1]
                  ELSE [s EXCEPT !.pos = 0, !.crc = <<>>, !.sequence = next]

BlockCheck ==
  /\ At("SEQ_BLOCK_CHECK")
  /\ IF s.check_type = 1 THEN CrcByte("SEQ_BLOCK_START")
     ELSE s' = [s EXCEPT !.sequence = "SEQ_BLOCK_START"] /\ GoOn /\ UNCHANGED b
  /\ UNCHANGED <<input, out, start, temp, lzma2>>

\* index_update, for the bytes of this call up to the first to bytes
index_update(d, to) ==
  [d EXCEPT !.index.size = @ + to - s.in_start,
            !.crc = @ \o SubSeq(input, s.in_start + 1, to)]

\* One turn of the loop of dec_index.
IndexStep ==
  /\ At("SEQ_INDEX")
  /\ \E v \in {dec_vli([pos |-> s.pos, vli |-> s.vli], SubSeq(input, b.in_pos + 1, b.in_size))} :
     LET read == [s EXCEPT !.pos = v.pos, !.vli = v.vli]
         count == s.index.count - 1
     IN /\ Took(v.used)
        /\ CASE v.ret # "XZ_STREAM_END" ->
                  s' = index_update(read, b.in_pos + v.used) /\ Return(v.ret)
             [] v.ret = "XZ_STREAM_END" /\ s.index.sequence = "SEQ_INDEX_COUNT" ->
                  IF v.vli # s.block.count
                  THEN s' = [read EXCEPT !.index.count = v.vli] /\ Return("XZ_DATA_ERROR")
                  ELSE /\ s' = [read EXCEPT !.index.count = v.vli,
                                  !.index.sequence = "SEQ_INDEX_UNPADDED",
                                  !.sequence = IF v.vli > 0 THEN @ ELSE "SEQ_INDEX_PADDING"]
                       /\ GoOn
             [] v.ret = "XZ_STREAM_END" /\ s.index.sequence = "SEQ_INDEX_UNPADDED" ->
                  /\ s' = [read EXCEPT !.index.hash.unpadded = @ + v.vli,
                                       !.index.sequence = "SEQ_INDEX_UNCOMPRESSED"]
                  /\ GoOn
             [] v.ret = "XZ_STREAM_END" /\ s.index.sequence = "SEQ_INDEX_UNCOMPRESSED" ->
                  /\ s' = [read EXCEPT !.index.hash = AddRecord(@, 0, v.vli), !.index.count = count,
                                       !.index.sequence = "SEQ_INDEX_UNPADDED",
                                       !.sequence = IF count > 0 THEN @ ELSE "SEQ_INDEX_PADDING"]
                  /\ GoOn
  /\ UNCHANGED <<input, out, start, temp, lzma2>>

\* Padding, and once it is over the hashes are compared.
IndexPadding ==
  /\ At("SEQ_INDEX_PADDING")
  /\ IF (s.index.size + (b.in_pos - s.in_start)) % Align # 0
     THEN IF Available = 0
          THEN s' = index_update(s, b.in_pos) /\ Return("XZ_OK") /\ UNCHANGED b
          ELSE /\ Took(1) /\ UNCHANGED s
               /\ IF Num(Next1) # 0 THEN Return("XZ_DATA_ERROR") ELSE GoOn
     ELSE /\ UNCHANGED b
          /\ IF s.block.hash # s.index.hash
             THEN s' = index_update(s, b.in_pos) /\ Return("XZ_DATA_ERROR")
             ELSE /\ s' = [index_update(s, b.in_pos) EXCEPT !.sequence = "SEQ_INDEX_CRC32"]
                  /\ GoOn
  /\ UNCHANGED <<input, out, start, temp, lzma2>>

IndexCrc ==
  /\ At("SEQ_INDEX_CRC32") /\ CrcByte("SEQ_STREAM_FOOTER")
  /\ temp' = IF s'.sequence = "SEQ_STREAM_FOOTER" THEN [temp EXCEPT !.size = STREAM_HEADER_SIZE] ELSE temp
  /\ UNCHANGED <<input, out, start, lzma2>>

dec_stream_footer(buf) ==
  LET fields == SubSeq(buf, Align + 1, Align + 3)
  IN IF /\ buf[Align + 4] = FOOTER_MAGIC
        /\ xz_crc32(fields) = SubSeq(buf, 1, Align)
        /\ Num(fields[1]) = s.index.size \div Align
        /\ Num(fields[2]) = 0 /\ Num(fields[3]) = s.check_type
     THEN "XZ_STREAM_END" ELSE "XZ_DATA_ERROR"

StreamFooterStep ==
  /\ Filling("SEQ_STREAM_FOOTER")
  /\ temp' = [temp EXCEPT !.pos = 0, !.buf = Buf]
  /\ Return(dec_stream_footer(Buf))
  /\ UNCHANGED <<input, out, start, s, lzma2>>

\* Mutant: a call without progress is not remembered.
LeaveUnremembered ==
  /\ pc = "leave" /\ pc' = "caller"
  /\ UNCHANGED <<ret, s, input, b, out, start, temp, lzma2>>

\* The end of xz_dec_run: the second call in a row without progress is told.
Leave ==
  /\ pc = "leave" /\ pc' = "caller"
  /\ LET idle == ret = "XZ_OK" /\ b.in_pos = start.in_pos /\ b.room = start.room
     IN /\ ret' = IF idle /\ s.allow_buf_error THEN "XZ_BUF_ERROR" ELSE ret
        /\ s' = [s EXCEPT !.allow_buf_error = idle]
  /\ UNCHANGED <<input, b, out, start, temp, lzma2>>

Decode ==
  \/ FillPart \/ Starved \/ StreamHeaderStep \/ BlockStart \/ BlockHeaderStep \/ BlockUncompress
  \/ BlockPadding \/ BlockCheck \/ IndexStep \/ IndexPadding \/ IndexCrc \/ StreamFooterStep
  \/ Leave

Next == Call \/ Decode

Spec == Init /\ [][Next]_vars

\* Calls run on their own, and callers call until they are told to stop.
FairSpec == Spec /\ WF_vars(Next)

\* ---- properties ----

Sequences0 == {"SEQ_STREAM_HEADER", "SEQ_BLOCK_START", "SEQ_BLOCK_HEADER", "SEQ_BLOCK_UNCOMPRESS",
               "SEQ_BLOCK_PADDING", "SEQ_BLOCK_CHECK", "SEQ_INDEX", "SEQ_INDEX_PADDING",
               "SEQ_INDEX_CRC32", "SEQ_STREAM_FOOTER"}
Results == {"XZ_OK", "XZ_STREAM_END", "XZ_MEM_ERROR", "XZ_MEMLIMIT_ERROR", "XZ_FORMAT_ERROR",
            "XZ_OPTIONS_ERROR", "XZ_DATA_ERROR", "XZ_BUF_ERROR"}

Hashes == [unpadded : Nat, uncompressed : Nat, crc32 : Seq(Nat \X Nat)]

\* Types; temp never holds more than it has room for, and the digit or check
\* byte looked at is one there is (xz_dec_stream.c:169-184, 187-216, 366-384).
TypeOK ==
  /\ pc \in {"caller", "main", "leave"} /\ ret \in Results
  /\ b \in [in_pos : 0 .. Len(input), in_size : 0 .. Len(input), room : Nat]
  /\ b.in_pos <= b.in_size /\ s.in_start <= b.in_pos
  /\ s.sequence \in Sequences0 /\ s.vli \in 0 .. VLI_UNKNOWN - 1
  /\ s.pos < IF s.sequence = "SEQ_INDEX" /\ ret = "XZ_OK" THEN VLI_BYTES_MAX ELSE VLI_BYTES_MAX + 1
  /\ s.sequence \in {"SEQ_BLOCK_CHECK", "SEQ_INDEX_CRC32"} => s.pos < Align
  /\ s.block \in [compressed : Nat, uncompressed : Nat, count : Nat, hash : Hashes]
  /\ s.index.size \in Nat /\ s.index.count \in Nat /\ s.index.hash \in Hashes
  /\ temp.pos \in 0 .. temp.size /\ temp.size \in 1 .. 8 * Align
  /\ Len(temp.buf) \in temp.pos .. 8 * Align

SoundFiles == {[bytes |-> Encode(f), content |-> Content(f)] : f \in {g \in Files : SoundFile(g)}}

\* The decoder reports the end of a stream only where a file ends: all bytes
\* outside the compressed data are those an encoder wrote, the sizes agree
\* with the index, and with a check the output is the content of the file
\* (xz_dec_stream.c:230-297, 315-359, 408-468).
AcceptedIsFile ==
  pc = "caller" /\ ret = "XZ_STREAM_END" =>
    \E g \in SoundFiles :
      /\ b.in_pos = Len(g.bytes) /\ Len(out) = Len(g.content)
      /\ \A i \in 1 .. b.in_pos : input[i] = g.bytes[i] \/ Len(g.bytes[i]) = 3
      /\ s.check_type = 1 => out = g.content

\* A sound file is never refused, and never called stuck, however the caller
\* cuts it and even if it offers no input while there is output
\* (xz.h:99-103: BUF_ERROR only for a stream that is truncated or corrupt).
SoundIsAccepted ==
  pc = "caller" /\ ret \notin {"XZ_OK", "XZ_STREAM_END", "XZ_MEM_ERROR"} =>
    ~\E g \in SoundFiles : IsPrefix(g.bytes, input)

\* A caller that goes on while it is told XZ_OK is told something else in the
\* end, also when its input is cut short (xz_dec_stream.c:760-766, 804-812).
EveryStreamEnds == <>(pc = "caller" /\ ret # "XZ_OK")
=============================================================================
