------------------------------- MODULE ElfImg -------------------------------
(***************************************************************************)
(* Symbol lookup in libart.so, elf_img.cpp: the file is mapped, its        *)
(* sections are parsed, the image in its .gnu_debugdata is decompressed    *)
(* with XzStream into windows of a growing buffer, and parsed with the     *)
(* same members.                                                           *)
(*                                                                         *)
(* A section is [type, name, offset, addr, entries]: the entries of a      *)
(* symbol table are [st_name, st_value, func], those of a string table     *)
(* give the name at each place.                                            *)
(***************************************************************************)
EXTENDS XzStream

CONSTANTS
  Elves,      \* [sections, xz, bias]: files with the bytes of their debug data
  ImageOf,    \* the sections that a decompressed image has
  ELF_MAGIC,  \* its first bytes
  BUFSIZE,    \* size of a window
  SkipRadix,  \* iSkip is a uint8_t: the windows it can count
  Names,      \* names that are looked up
  Begins,     \* strings and names that they begin with
  Null        \* no pointer, or not set yet

ASSUME BufferAssumption == BUFSIZE \in Nat \ {0} /\ SkipRadix \in Nat \ {0}

VARIABLES
  file,  \* the file that is opened
  step,  \* "open", "parse", "run" and "ran" in xzdecompress, "end" of Open, or "dead"
  hdr,   \* the image being parsed: "header" or "debugdata"; Null when nothing was mapped
  i,     \* the section to look at next
  elf,   \* the members of ElfImg; a pointer is an image and an offset
  buf    \* sBuffOut with what is known of it, iSzOut, iSkip and out_pos

elfVars == <<file, step, hdr, i, elf, buf>>

\* ImageExact says that the last case is left to images of too many windows.
Sections(h) ==
  IF h = "header" THEN file.sections
  ELSE IF elf.elf_debugdata \in DOMAIN ImageOf THEN ImageOf[elf.elf_debugdata]
  ELSE <<>>

ElfInit ==
  /\ file \in Elves /\ input = file.xz /\ Init
  /\ step = "open" /\ hdr = Null /\ i = 1
  /\ elf = [bias |-> Null, dynsym |-> Null, strtab |-> Null, symtab |-> Null, symstr |-> Null,
            debugdata |-> Null, header_debugdata |-> FALSE, elf_debugdata |-> <<>>]
  /\ buf = [mem |-> <<>>, iSzOut |-> 0, iSkip |-> 0, out_pos |-> 0]

\* ---- open and mmap ----

OpenFile == step = "open" /\ step' = "parse" /\ hdr' = "header" /\ UNCHANGED <<file, i, elf, buf, vars>>

\* Open returns with nothing parsed.
OpenFails == step = "open" /\ step' = "end" /\ UNCHANGED <<file, hdr, i, elf, buf, vars>>

\* A size of zero is only logged, and the result of mmap is not tested: parse
\* reads the header at MAP_FAILED, and the process dies.
MapFails == step = "open" /\ step' = "dead" /\ UNCHANGED <<file, hdr, i, elf, buf, vars>>

\* ---- parse ----

\* Mutant: later string tables replace that of the dynamic symbols.
SeenLate(e, sec) ==
  LET here == <<hdr, sec.offset>>
      early == e.bias = Null
  IN CASE sec.type = "SHT_DYNSYM" -> IF early THEN [e EXCEPT !.dynsym = here] ELSE e
       [] sec.type = "SHT_SYMTAB" -> IF sec.name = ".symtab" THEN [e EXCEPT !.symtab = here] ELSE e
       [] sec.type = "SHT_STRTAB" ->
            [e EXCEPT !.strtab = here, !.symstr = IF sec.name = ".strtab" THEN sec.offset ELSE @]
       [] sec.type = "SHT_PROGBITS" ->
            [e EXCEPT !.debugdata = IF sec.name = ".gnu_debugdata" THEN sec.offset ELSE @,
                      !.bias = IF early /\ e.strtab # Null /\ e.dynsym # Null
                               THEN sec.addr - sec.offset ELSE @]
       [] OTHER -> e

\* What one section changes.  The dynamic symbols and their strings are
\* taken until bias is set, so from the file itself and not from its debug data.
Seen(e, sec) ==
  LET here == <<hdr, sec.offset>>
      early == e.bias = Null
  IN CASE sec.type = "SHT_DYNSYM" -> IF early THEN [e EXCEPT !.dynsym = here] ELSE e
       [] sec.type = "SHT_SYMTAB" -> IF sec.name = ".symtab" THEN [e EXCEPT !.symtab = here] ELSE e
       [] sec.type = "SHT_STRTAB" ->
            [e EXCEPT !.strtab = IF early THEN here ELSE @,
                      !.symstr = IF sec.name = ".strtab" THEN sec.offset ELSE @]
       [] sec.type = "SHT_PROGBITS" ->
            [e EXCEPT !.debugdata = IF sec.name = ".gnu_debugdata" THEN sec.offset ELSE @,
                      !.bias = IF early /\ e.strtab # Null /\ e.dynsym # Null
                               THEN sec.addr - sec.offset ELSE @]
       [] OTHER -> e

ParseSection ==
  /\ step = "parse" /\ i <= Len(Sections(hdr))
  /\ elf' = Seen(elf, Sections(hdr)[i])
  /\ i' = i + 1
  /\ UNCHANGED <<file, step, hdr, buf, vars>>

\* The end of a parse: Open goes on to the debug data, if there are any.
Parsed ==
  /\ step = "parse" /\ i > Len(Sections(hdr))
  /\ IF hdr = "header" /\ elf.debugdata # Null /\ input # <<>>
     THEN /\ step' = "run"
          /\ buf' = [mem |-> [k \in 0 .. BUFSIZE - 1 |-> Null], iSzOut |-> BUFSIZE,
                     iSkip |-> 0, out_pos |-> 0]
     ELSE step' = "end" /\ UNCHANGED buf
  /\ UNCHANGED <<file, hdr, i, elf, vars>>

\* ---- xzdecompress ----

\* xz_dec_init or malloc finds no memory.
AllocationFails ==
  /\ step = "run" /\ b.in_size = 0
  /\ step' = "end"
  /\ UNCHANGED <<file, hdr, i, elf, buf, vars>>

\* The whole section is offered at once, and what is left of the window.
RunDecoder ==
  /\ step = "run" /\ step' = "ran"
  /\ Enter(Len(input), BUFSIZE - buf.out_pos)
  /\ UNCHANGED <<file, hdr, i, elf, buf>>

\* Where the window lies in the buffer, and what was written there.
Window == buf.iSkip * BUFSIZE
Written ==
  LET n == start.room - b.room
      at == Window + buf.out_pos
  IN [k \in DOMAIN buf.mem |->
        IF k \in at .. at + n - 1 THEN out[Len(out) - n + k - at + 1] ELSE buf.mem[k]]

\* Mutant: a window that is full is not counted.
AfterWindowUncounted ==
  LET full == b.room = 0
  IN [buf EXCEPT !.out_pos = IF full THEN 0 ELSE BUFSIZE - b.room,
                 !.iSzOut = IF full THEN @ ELSE @ - b.room]

\* The window is full and the next one begins, or the buffer is too large by
\* what is left.
AfterWindow ==
  LET full == b.room = 0
  IN [buf EXCEPT !.out_pos = IF full THEN 0 ELSE BUFSIZE - b.room,
                 !.iSkip = IF full THEN (@ + 1) % SkipRadix ELSE @,
                 !.iSzOut = IF full THEN @ ELSE @ - b.room]

\* Mutant: the buffer is not enlarged.
ReallocatedAsIs(n) == n

\* The size of the buffer for one more window.
Reallocated(n) == n + BUFSIZE

\* Only an image that is wrong in every byte of the magic is refused.
Refused(mem) == \A k \in 1 .. Len(ELF_MAGIC) : mem[k - 1] # ELF_MAGIC[k]

DecoderRan ==
  /\ step = "ran" /\ pc = "caller"
  /\ LET after == AfterWindow
         size == Reallocated(after.iSzOut)
     IN IF ret = "XZ_OK"
        THEN /\ step' = "run"
             /\ buf' = [after EXCEPT !.iSzOut = size,
                          !.mem = [k \in 0 .. size - 1 |-> IF k \in DOMAIN Written THEN Written[k] ELSE Null]]
             /\ UNCHANGED <<hdr, i, elf>>
        ELSE /\ buf' = [after EXCEPT !.mem = Written]
             /\ IF ret = "XZ_STREAM_END" /\ ~Refused(Written)
                THEN /\ step' = "parse" /\ hdr' = "debugdata" /\ i' = 1
                     /\ elf' = [elf EXCEPT !.header_debugdata = TRUE,
                                  !.elf_debugdata = [k \in 1 .. after.iSzOut |-> Written[k - 1]]]
                ELSE step' = "end" /\ UNCHANGED <<hdr, i, elf>>
  /\ UNCHANGED <<file, vars>>

Decompress == step = "ran" /\ Decode /\ UNCHANGED elfVars

ElfNext ==
  \/ OpenFile \/ OpenFails \/ MapFails
  \/ ParseSection \/ Parsed \/ AllocationFails \/ RunDecoder \/ Decompress \/ DecoderRan

ElfSpec == ElfInit /\ [][ElfNext]_<<vars, elfVars>> /\ WF_<<vars, elfVars>>(ElfNext)

\* ---- GetSymbolOffset ----

\* The section an image has at an offset.
SectionAt(h, offset) == CHOOSE sec \in Range(Sections(h)) : sec.offset = offset
Entries(p) == SectionAt(p[1], p[2]).entries

\* A string of an image, given its table's offset: garbage if there is none.
StringAt(h, offset, place) ==
  IF \E sec \in Range(Sections(h)) : sec.offset = offset /\ sec.type = "SHT_STRTAB"
                                     /\ place \in DOMAIN sec.entries
  THEN SectionAt(h, offset).entries[place] ELSE "garbage"

First(found) == IF found = {} THEN 0 ELSE Min(found)

\* name.compare(s) == 0, or with match_prefix s.starts_with(name).
Matches(string, name, match_prefix) ==
  string = name \/ (match_prefix /\ <<string, name>> \in Begins)

InDynsym(name, match_prefix) ==
  IF elf.dynsym = Null \/ elf.strtab = Null THEN 0
  ELSE First({k \in DOMAIN Entries(elf.dynsym) :
                Matches(StringAt(elf.strtab[1], elf.strtab[2], Entries(elf.dynsym)[k].st_name),
                        name, match_prefix)})

\* The strings of the symbol table are looked for in the debug data as soon
\* as there are any.
InSymtab(name, match_prefix) ==
  IF elf.symtab = Null \/ elf.symstr = Null THEN 0
  ELSE First({k \in DOMAIN Entries(elf.symtab) :
                /\ Entries(elf.symtab)[k].func
                /\ Matches(StringAt(IF elf.header_debugdata THEN "debugdata" ELSE "header",
                                    elf.symstr, Entries(elf.symtab)[k].st_name),
                           name, match_prefix)})

\* With match_prefix, a dynamic symbol that only begins with the name comes
\* before one of the symbol table that has it.
GetSymbolOffset(name, match_prefix) ==
  LET inDynsym == InDynsym(name, match_prefix)
      inSymtab == InSymtab(name, match_prefix)
  IN IF inDynsym # 0 THEN Entries(elf.dynsym)[inDynsym].st_value
     ELSE IF inSymtab # 0 THEN Entries(elf.symtab)[inSymtab].st_value
     ELSE 0

\* ---- properties ----

\* The window that xz_dec_run writes lies in the buffer, however often it was
\* moved and enlarged, while iSkip can count the windows (elf_img.cpp:169-195).
WindowInBuffer ==
  step \in {"run", "ran"} => buf.out_pos < BUFSIZE /\ Window + BUFSIZE - 1 \in DOMAIN buf.mem

\* What counts as decompressed is the content of the file, to the byte, as
\* long as iSkip can count its windows (elf_img.cpp:178-195, 240-244).
ImageExact ==
  elf.header_debugdata =>
    \E g \in SoundFiles :
      /\ IsPrefix(g.bytes, input)
      /\ Len(g.content) <= SkipRadix * BUFSIZE => elf.elf_debugdata = g.content

\* The symbols of a table that a lookup means, in their order.
Meant(sections, type, name, match_prefix) ==
  LET tables == {sec \in Range(sections) : sec.type = type}
      Test(e) == (e.func \/ type = "SHT_DYNSYM") /\ Matches(e.name, name, match_prefix)
  IN IF tables = {} THEN <<>> ELSE SelectSeq((CHOOSE sec \in tables : TRUE).entries, Test)

\* A lookup, by name or by prefix, finds the first symbol meant with the value
\* of its own table: a dynamic symbol, or a function of the debug data if they
\* could be decompressed, or of the file itself; and bias is that of the first
\* segment.  A file that cannot be opened has none (elf_img.cpp:40-65, 79-133,
\* 290-333).
SymbolsFound ==
  step = "end" =>
    /\ hdr # Null => elf.bias = file.bias
    /\ \A name \in Names, match_prefix \in BOOLEAN :
         LET full == Sections(IF elf.header_debugdata THEN "debugdata" ELSE "header")
             meant == IF hdr = Null THEN <<>>
                      ELSE Meant(file.sections, "SHT_DYNSYM", name, match_prefix)
                           \o Meant(full, "SHT_SYMTAB", name, match_prefix)
         IN GetSymbolOffset(name, match_prefix) = IF meant = <<>> THEN 0 ELSE meant[1].st_value

\* Open comes to an end, also for debug data that are cut short: the loop
\* relies on XZ_BUF_ERROR for that (elf_img.cpp:180-204).
OpenEnds == <>(step \in {"end", "dead"})
=============================================================================
