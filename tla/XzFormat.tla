------------------------------ MODULE XzFormat ------------------------------
(***************************************************************************)
(* The .xz files the stream decoder is given: what an encoder writes for   *)
(* a description of a file, and which descriptions are sound.              *)
(*                                                                         *)
(* A file is [magic, version, check, blocks, records, backward]; a block   *)
(* is [data, sizes, flags, filter, props, fill].  data = [id, size,        *)
(* content] is what the LZMA2 decoder is given and makes of it.            *)
(*                                                                         *)
(* Scale: a field is aligned to Align bytes, and a check has as many,      *)
(* where the format has 4 for both; one byte holds the magic of the        *)
(* footer and its backward size, two the magic of the header; an integer   *)
(* has base 4 and VLI_BYTES_MAX digits.                                    *)
(*                                                                         *)
(* A byte is a sequence, so that all bytes compare: <<n>> is the number n, *)
(* <<i, fed>> is byte i of the check of fed, which is taken to differ from *)
(* every other, and <<id, i, 0>> is byte i of some compressed data.        *)
(***************************************************************************)
EXTENDS Integers, Sequences, FiniteSets, FiniteSetsExt, SequencesExt

CONSTANTS
  Align,         \* alignment of the fields, and the size of a CRC32
  VLI_BYTES_MAX  \* digits of an integer, at most

ASSUME AlignAssumption == Align \in Nat \ {0, 1} /\ VLI_BYTES_MAX \in Nat \ {0}

\* The number that a byte of a check or of data would be taken for.
AnyNumber == 5
Num(byte) == IF Len(byte) = 1 THEN byte[1] ELSE AnyNumber

Base == 4
Digit(byte) == Num(byte) % Base
Continues(byte) == Num(byte) >= Base

xz_crc32(fed) == [i \in 1 .. Align |-> <<i, fed>>]
WithCrc(bytes) == bytes \o xz_crc32(bytes)

\* Zeros, or something else that does not belong there, up to the alignment.
Aligned(bytes, fill) ==
  bytes \o [i \in 1 .. (Align - (Len(bytes) % Align)) % Align |-> <<fill>>]

VliBytes(n) ==
  LET digits == CHOOSE k \in 1 .. VLI_BYTES_MAX : n < Base ^ k /\ \A j \in 1 .. k - 1 : n >= Base ^ j
  IN [i \in 1 .. digits |-> <<((n \div Base ^ (i - 1)) % Base) + (IF i < digits THEN Base ELSE 0)>>]

HEADER_MAGIC == << <<3>>, <<7>> >>
FOOTER_MAGIC == <<2>>
LZMA2_ID == 1
STREAM_HEADER_SIZE == 4 + Align

StreamFlags(f) == << <<f.version>>, <<f.check>> >>

StreamHeader(f) ==
  << HEADER_MAGIC[1], <<f.magic>> >> \o WithCrc(StreamFlags(f))

\* Bit 0 of the flags: the compressed size is there; bit 1: the other is.
FlagsOf(blk) ==
  blk.flags + (IF "compressed" \in DOMAIN blk.sizes THEN 1 ELSE 0)
            + (IF "uncompressed" \in DOMAIN blk.sizes THEN 2 ELSE 0)

SizeBytes(blk, which) == IF which \in DOMAIN blk.sizes THEN VliBytes(blk.sizes[which]) ELSE <<>>

BlockHeader(blk) ==
  LET fields == << <<FlagsOf(blk)>> >> \o SizeBytes(blk, "compressed") \o SizeBytes(blk, "uncompressed")
                  \o << <<blk.filter>>, <<1>>, <<blk.props>> >>
      body == Aligned(<< <<0>> >> \o fields, blk.fill)
  IN WithCrc([body EXCEPT ![1] = <<Len(body) \div Align>>])

DataBytes(data) == [i \in 1 .. data.size |-> <<data.id, i, 0>>]

CheckOf(f, content) == IF f.check = 1 THEN xz_crc32(content) ELSE <<>>

BlockBytes(f, blk) ==
  BlockHeader(blk) \o Aligned(DataBytes(blk.data), blk.fill) \o CheckOf(f, blk.data.content)

\* What the index says of a block.
RecordOf(f, blk) ==
  [unpadded |-> Len(BlockHeader(blk)) + blk.data.size + (IF f.check = 1 THEN Align ELSE 0),
   uncompressed |-> Len(blk.data.content)]

RecordsOf(f) == [k \in 1 .. Len(f.blocks) |-> RecordOf(f, f.blocks[k])]

Index(f) ==
  Aligned(<< <<0>> >> \o VliBytes(Len(f.records)) \o
          FlattenSeq([k \in 1 .. Len(f.records) |->
                        VliBytes(f.records[k].unpadded) \o VliBytes(f.records[k].uncompressed)]), 0)

StreamFooter(f) ==
  LET fields == << <<Len(Index(f)) \div Align + f.backward>> >> \o StreamFlags(f)
  IN xz_crc32(fields) \o fields \o <<FOOTER_MAGIC>>

Encode(f) ==
  StreamHeader(f) \o FlattenSeq([k \in 1 .. Len(f.blocks) |-> BlockBytes(f, f.blocks[k])])
    \o WithCrc(Index(f)) \o StreamFooter(f)

Content(f) == FlattenSeq([k \in 1 .. Len(f.blocks) |-> f.blocks[k].data.content])

SoundBlock(blk) ==
  /\ blk.flags = 0 /\ blk.filter = LZMA2_ID /\ blk.props = 1 /\ blk.fill = 0
  /\ "compressed" \in DOMAIN blk.sizes => blk.sizes["compressed"] = blk.data.size
  /\ "uncompressed" \in DOMAIN blk.sizes => blk.sizes["uncompressed"] = Len(blk.data.content)

SoundFile(f) ==
  /\ f.magic = 7 /\ f.version = 0 /\ f.check \in {0, 1} /\ f.backward = 0
  /\ \A k \in 1 .. Len(f.blocks) : SoundBlock(f.blocks[k])
  /\ f.records = RecordsOf(f)
=============================================================================
