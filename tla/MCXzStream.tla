----------------------------- MODULE MCXzStream -----------------------------
(***************************************************************************)
(* XzStream for TLC: files of up to two blocks, sound and not, as they     *)
(* are, cut short, with a byte damaged or with bytes behind them.          *)
(***************************************************************************)
EXTENDS XzStream

D(id, size, content) == [id |-> id, size |-> size, content |-> content]
MCDatas == {D(1, 1, <<>>), D(2, 3, << <<1>>, <<2>> >>), D(3, 2, << <<1>>, <<2>>, <<2>> >>)}
Some == CHOOSE d \in MCDatas : d.id = 2
More == CHOOSE d \in MCDatas : d.id = 3
None == CHOOSE d \in MCDatas : d.id = 1

Blk(data, sizes) ==
  [data |-> data, sizes |-> sizes, flags |-> 0, filter |-> LZMA2_ID, props |-> 1, fill |-> 0]
Stated(data) == [compressed |-> data.size, uncompressed |-> Len(data.content)]
NoSizes == <<>>

WithRecords(f) == [f EXCEPT !.records = RecordsOf(f)]
File(check, blocks) ==
  WithRecords([magic |-> 7, version |-> 0, check |-> check, blocks |-> blocks,
               records |-> <<>>, backward |-> 0])

One == File(1, <<Blk(Some, [compressed |-> 3])>>)
Two == File(1, <<Blk(More, Stated(More)), Blk(Some, NoSizes)>>)
Bare == File(0, <<Blk(Some, [uncompressed |-> 2])>>)

MCSoundFiles == {File(0, <<>>), One, Two, Bare, File(1, <<Blk(None, NoSizes)>>)}

\* Files that are wrong although every check is right.
Mistaken(blk) == File(1, <<blk>>)
MCBroken ==
  { Mistaken([Blk(Some, NoSizes) EXCEPT !.flags = 4]), Mistaken([Blk(Some, NoSizes) EXCEPT !.filter = 2]),
    Mistaken([Blk(Some, NoSizes) EXCEPT !.props = 2]), Mistaken([Blk(Some, [compressed |-> 3]) EXCEPT !.fill = 1]),
    Mistaken(Blk(Some, [compressed |-> 2])), Mistaken(Blk(Some, [compressed |-> 4])),
    Mistaken(Blk(Some, [uncompressed |-> 1])), Mistaken(Blk(Some, [uncompressed |-> 3])),
    [One EXCEPT !.magic = 6], [One EXCEPT !.version = 1], [One EXCEPT !.check = 2],
    [One EXCEPT !.backward = 1], [One EXCEPT !.records = <<>>], [One EXCEPT !.records = @ \o @],
    [One EXCEPT !.records[1].unpadded = @ + 2], [Two EXCEPT !.records = Reverse(@)],
    [Two EXCEPT !.records[1].uncompressed = @ + 1, !.records[2].uncompressed = @ - 1] }

MCFiles == MCSoundFiles \cup MCBroken

Damaged(bytes, numbers) == {[bytes EXCEPT ![i] = <<n>>] : i \in DOMAIN bytes, n \in numbers}
Cut(bytes) == {SubSeq(bytes, 1, n) : n \in {0, 3, 9, Len(bytes) - 8, Len(bytes) - 1}}

MCInputs ==
  {Encode(f) : f \in MCFiles} \cup UNION {Cut(Encode(f)) : f \in {One, Bare}}
  \cup Damaged(Encode(One), {0, 4}) \cup Damaged(Encode(Bare), {1})
  \cup {Encode(f) \o << <<0>>, <<1>> >> : f \in {Two, Bare}}
MCNoise == { <<1>>, <<3>> }
=============================================================================
