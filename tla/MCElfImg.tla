------------------------------ MODULE MCElfImg ------------------------------
(***************************************************************************)
(* ElfImg for TLC: the sections in every order a linker may leave them in, *)
(* debug data sound, cut short, damaged and not an ELF image; offsets of   *)
(* the two images coincide.  Beside xzdecompress, which offers all its     *)
(* input at once, a caller that offers it in pieces uses the decoder.      *)
(***************************************************************************)
EXTENDS ElfImg, MCXzStream

Section(type, name, offset, addr, entries) ==
  [type |-> type, name |-> name, offset |-> offset, addr |-> addr, entries |-> entries]
Entry(name, place, value, func) == [name |-> name, st_name |-> place, st_value |-> value, func |-> func]

Dynsym == Section("SHT_DYNSYM", ".dynsym", 1, 0, <<Entry("u", 2, 0, TRUE), Entry("cx", 3, 15, TRUE), Entry("a", 1, 10, TRUE)>>)
Dynstr == Section("SHT_STRTAB", ".dynstr", 2, 0, <<"a", "u", "cx">>)
Interp == Section("SHT_PROGBITS", ".interp", 3, 10, <<>>)
Rodata == Section("SHT_PROGBITS", ".rodata", 4, 5, <<>>)
Text == Section("SHT_PROGBITS", ".text", 5, 9, <<>>)
Debugdata == Section("SHT_PROGBITS", ".gnu_debugdata", 6, 0, <<>>)
Shstrtab == Section("SHT_STRTAB", ".shstrtab", 7, 0, <<"b", "a">>)
Symtab == Section("SHT_SYMTAB", ".symtab", 8, 0, <<Entry("d", 1, 20, FALSE), Entry("c", 2, 30, TRUE),
                                                  Entry("dx", 3, 35, TRUE), Entry("d", 1, 40, TRUE)>>)
Strtab == Section("SHT_STRTAB", ".strtab", 9, 0, <<"d", "c", "dx">>)

DebugSymtab == Section("SHT_SYMTAB", ".symtab", 9, 0, <<Entry("a", 3, 50, TRUE), Entry("b", 1, 60, FALSE), Entry("c", 2, 70, TRUE)>>)
DebugStrtab == Section("SHT_STRTAB", ".strtab", 2, 0, <<"b", "c", "a">>)
DebugShstrtab == Section("SHT_STRTAB", ".shstrtab", 8, 0, <<"u">>)

Orders(S) == SetToSeqs(S)
Head2 == {<<Interp>> \o o \o <<Rodata, Text>> : o \in Orders({Dynsym, Dynstr})}

Six == File(1, <<Blk(More, NoSizes), Blk(More, NoSizes)>>)
NotElf == File(1, <<Blk(D(4, 1, << <<3>>, <<3>>, <<3>> >>), NoSizes)>>)

MCElfFiles == {One, Two, Six, Bare, NotElf}
MCElfDatas == MCDatas \cup {D(4, 1, << <<3>>, <<3>>, <<3>> >>)}
MCElfInputs ==
  {Encode(f) : f \in MCElfFiles} \cup Cut(Encode(One)) \cup Cut(Encode(Six)) \cup Damaged(Encode(Two), {0})

MCImageOf ==
  [c \in {Content(f) : f \in {One, Two, Six}} |->
     IF Len(c) = 2 THEN <<DebugSymtab, DebugStrtab, DebugShstrtab>>
     ELSE IF Len(c) = 5 THEN <<DebugShstrtab, DebugStrtab, DebugSymtab>>
     ELSE <<DebugStrtab, DebugShstrtab, DebugSymtab>>]

MCElves ==
  {[sections |-> h \o t, xz |-> x, bias |-> 1] :
     h \in Head2, t \in Orders({Debugdata, Shstrtab}), x \in MCElfInputs}
  \cup {[sections |-> h \o t, xz |-> <<>>, bias |-> 1] : h \in Head2, t \in Orders({Symtab, Strtab, Shstrtab})}

MCMagic == << <<1>>, <<2>> >>

MCAllFiles == MCFiles \cup MCElfFiles
MCAllInputs == MCInputs \cup MCElfInputs

MCBegins == {<<"cx", "c">>, <<"dx", "d">>}

\* The caller in pieces: nothing of ElfImg but the decoder is used.
Elsewhere ==
  /\ input \in MCInputs /\ Init
  /\ step = "elsewhere" /\ hdr = "header" /\ i = 1
  /\ file = [sections |-> <<>>, xz |-> <<>>, bias |-> 0]
  /\ elf = [bias |-> Null, dynsym |-> Null, strtab |-> Null, symtab |-> Null, symstr |-> Null,
            debugdata |-> Null, header_debugdata |-> FALSE, elf_debugdata |-> <<>>]
  /\ buf = [mem |-> <<>>, iSzOut |-> 0, iSkip |-> 0, out_pos |-> 0]

MCNext == ElfNext \/ (step = "elsewhere" /\ Next /\ UNCHANGED elfVars)

MCSpec ==
  /\ ElfInit \/ Elsewhere
  /\ [][MCNext]_<<vars, elfVars>>
  /\ WF_<<vars, elfVars>>(MCNext)

\* Types, and no buffer is left: temp of the decoder never holds more than it
\* has room for, and the window of xzdecompress lies in its growing buffer
\* (xz_dec_stream.c:169-216, elf_img.cpp:169-195).
BuffersInBounds == TypeOK /\ WindowInBuffer

\* Every caller is told an end: one that goes on while it is told XZ_OK, and
\* Open, whose loop relies on XZ_BUF_ERROR for debug data cut short
\* (xz_dec_stream.c:760-766, 804-812, elf_img.cpp:180-204).
CallersEnd == (step = "elsewhere" => EveryStreamEnds) /\ (step # "elsewhere" => OpenEnds)
=============================================================================
