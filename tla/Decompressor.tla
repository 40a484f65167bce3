---------------------------- MODULE Decompressor ----------------------------
(***************************************************************************)
(* What xz_dec_lzma2_run promises the stream decoder: given a block, call  *)
(* by call, some input and some room for output, it produces the content   *)
(* of the block piece by piece, never stops while it still has both, and   *)
(* ends exactly with the last byte of a sound block.                       *)
(***************************************************************************)
EXTENDS Integers, Sequences

VARIABLES block,   \* [sound, size, content] of the block being decoded
          given,   \* bytes of input the caller has provided
          used,    \* bytes of input consumed
          room,    \* bytes the caller still has room for
          made,    \* the content produced so far
          status   \* "caller", "running", or why the decoding ended

Prefix(s, t) == Len(s) <= Len(t) /\ s = SubSeq(t, 1, Len(s))

\* A decoder that stops without an answer has run out of input or of room.
Stuck == used = given \/ room = 0

\* The last byte is consumed and everything has been produced.
Complete == used = block.size /\ made = block.content

Init == status = "XZ_STREAM_END" /\ used = 0 /\ made = <<>>

Call ==
  /\ status = "caller"
  /\ given' >= given /\ room' >= 0
  /\ status' = "running"
  /\ UNCHANGED <<block, used, made>>

\* Some input is consumed and some content produced, within the promise.
Advance ==
  /\ used <= used' /\ used' <= given
  /\ Prefix(made, made') /\ Len(made') - Len(made) = room - room' /\ room' >= 0
  /\ block.sound => used' <= block.size /\ Prefix(made', block.content)
  /\ UNCHANGED <<block, given>>

Progress == status = "running" /\ Advance /\ UNCHANGED status

\* Why a call may end.
Answer ==
  \/ status' = "caller" /\ Stuck' /\ (block.sound => used' < block.size)
  \/ status' = "XZ_STREAM_END" /\ (block.sound => Complete')
  \/ status' = "XZ_DATA_ERROR" /\ ~block.sound

Return == status = "running" /\ Advance /\ Answer

\* A whole call as its caller sees it.
Run == status = "caller" /\ Advance /\ Answer

\* xz_dec_lzma2_reset: another block, which it may also refuse.
Reset ==
  /\ status = "XZ_STREAM_END"
  /\ used' = 0 /\ made' = <<>>
  /\ \/ status' = "caller"
     \/ status' \in {"XZ_OPTIONS_ERROR", "XZ_MEMLIMIT_ERROR"} /\ ~block'.sound
     \/ status' = "XZ_MEM_ERROR"

Next == Call \/ Progress \/ Return \/ Reset

Spec == Init /\ [][Next]_<<block, given, used, room, made, status>>
=============================================================================
