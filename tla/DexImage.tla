------------------------------ MODULE DexImage ------------------------------
(***************************************************************************)
(* The dex file that BuildDex of lsplant.cc generates for one hook: the     *)
(* class with a field, the method of HookerMethod and the backup.  BuildDex *)
(* declares strings, types, fields and methods one by one to dex_builder;   *)
(* the slicer sorts each kind, writes the sections of the image one after   *)
(* the other, and puts the new numbers for the old ones.                    *)
(*                                                                         *)
(* A string is a sequence of characters, where a name counts as one: so     *)
(* descriptors, shorties and names may be the same string.  Nodes are their *)
(* contents.  What this class has none of is left out: annotations, debug   *)
(* info, try blocks, static values, virtual methods, instance fields.       *)
(***************************************************************************)
EXTENDS HookerMethod

CONSTANTS
  TargetNames,  \* what hooked methods are called
  Alphabets     \* the orders of the characters, as sequences of them

ASSUME AlphabetsAssumption == \A a \in Alphabets : IsInjective(a)

VARIABLES
  name,         \* of the hooked method
  rank,         \* of each character
  calls,        \* of dex_builder, still to make
  nodes,        \* the IR: a vector of each kind
  maps,         \* strings_map and its like: the nodes by their first numbers
  step,         \* of CreateImage
  offset,       \* its local variable
  node_offset,  \* of type lists and code
  image         \* the sections written so far

dexVars == <<name, rank, calls, nodes, maps, step, offset, node_offset, image>>

-----------------------------------------------------------------------------
(* dex_builder *)

GeneratedClass == <<"L", "LSPHooker_">>
ObjectType == <<"L", "Object">>
HookerType == <<"L", "HookInfo">>
ToArray(d) == <<"[">> \o d
Descriptor(t) == IF t = "L" THEN ObjectType ELSE <<t>>
ToBoxType(t) == <<"L", "boxed", t>>

Prototype(ret, params) == [ret |-> ret, params |-> params]
MethodDecl(parent, called, prototype) == [parent |-> parent, name |-> called, prototype |-> prototype]

ShortDescriptor(d) == IF d[1] = "[" THEN "L" ELSE d[1]
Shorty(p) == <<ShortDescriptor(p.ret)>> \o [i \in DOMAIN p.params |-> ShortDescriptor(p.params[i])]

\* A node gets a number where it is new.
Add(ir, kind, x) == [ir EXCEPT ![kind] = IF x \in Range(@) THEN @ ELSE Append(@, x)]
GetOrAddString(ir, s) == Add(ir, "strings", s)
GetOrAddType(ir, t) == Add(GetOrAddString(ir, t), "types", t)

\* A prototype brings its shorty, its types and, unless empty, a type list.
GetOrEncodeProto(ir, p) ==
  IF p \in Range(ir.protos) THEN ir
  ELSE LET named == GetOrAddString(Add(ir, "protos", p), Shorty(p))
           typed == FoldLeft(GetOrAddType, GetOrAddType(named, p.ret), p.params)
       IN IF p.params = <<>> THEN typed ELSE Add(typed, "type_lists", p)

\* The key of a field is its class and its name.
GetOrAddField(ir, f) ==
  IF \E g \in Range(ir.fields) : g.parent = f.parent /\ g.name = f.name THEN ir
  ELSE Add(GetOrAddType(GetOrAddString(GetOrAddType(ir, f.parent), f.name), f.type), "fields", f)

GetOrDeclareMethod(ir, m) ==
  IF m \in Range(ir.methods) THEN ir
  ELSE Add(GetOrEncodeProto(GetOrAddType(GetOrAddString(ir, m.name), m.parent), m.prototype), "methods", m)

-----------------------------------------------------------------------------
(* What BuildDex declares for a method *)

HookerField == [parent |-> GeneratedClass, name |-> <<"hooker">>, type |-> HookerType]
ValueOf(t) == MethodDecl(ToBoxType(t), <<"valueOf">>, Prototype(ToBoxType(t), <<Descriptor(t)>>))
UnboxMethod(t) == MethodDecl(ToBoxType(t), <<"Value", t>>, Prototype(Descriptor(t), <<>>))
HandleHookMethod == MethodDecl(HookerType, <<"callback">>, Prototype(ObjectType, <<ToArray(ObjectType)>>))

Generated(called, m) ==
  MethodDecl(GeneratedClass, called,
    Prototype(Descriptor(m.ret), [i \in DOMAIN ParameterTypes(m) |-> Descriptor(ParameterTypes(m)[i])]))

\* The backup returns zero; it never runs.
BackupCode(m) ==
  CASE m.ret = "V" -> <<Code("return-void", 0, 0, "")>>
    [] m.ret \in Wide -> <<Code("const-wide", 0, 0, ""), Code("return-wide", 0, 0, "")>>
    [] m.ret = "L" -> <<Const(0, 0), Code("return-object", 0, 0, "")>>
    [] OTHER -> <<Const(0, 0), Code("return", 0, 0, "")>>

\* The code items as MethodBuilder encodes them.
CodeItem(m, registers, outs, instructions) ==
  [registers |-> registers, ins |-> Slots(ParameterTypes(m)), outs |-> outs, instructions |-> instructions]

HookCode(m) == CodeItem(m, Registers(m), Outs(m), BuildDex(m))
StubCode(m) ==
  CodeItem(m, (IF m.ret = "V" THEN 0 ELSE 2) + Slots(ParameterTypes(m)), IF m.ret = "V" THEN 0 ELSE 1, BackupCode(m))

Adds(kind, x) == <<[kind |-> kind, of |-> x]>>
Encodes(decl, code) == Adds("types", Descriptor("V")) \o Adds("code", [decl |-> decl, code |-> code])

BuildCalls(called, m) ==
  Adds("types", GeneratedClass) \o Adds("types", ObjectType) \o Adds("strings", <<"LSP">>)
    \o Adds("fields", HookerField) \o Adds("methods", Generated(called, m))
    \o Adds("types", ToArray(ObjectType))
    \o FoldLeft(LAMBDA s, t : IF t \in Primitive THEN s \o Adds("methods", ValueOf(t)) ELSE s,
                <<>>, ParameterTypes(m))
    \o Adds("methods", HandleHookMethod)
    \o (CASE m.ret = "V" -> <<>>
          [] m.ret = "L" -> Adds("types", ObjectType)
          [] m.ret \in Primitive -> Adds("types", ToBoxType(m.ret)) \o Adds("methods", UnboxMethod(m.ret)))
    \o Encodes(Generated(called, m), HookCode(m))
    \o Adds("methods", Generated(<<"backup">>, m))
    \o Encodes(Generated(<<"backup">>, m), StubCode(m))

\* The kind of node an instruction names, and which.
Names(i) == i.op \in {"new-array", "valueOf", "sget-object", "callback", "check-cast", "unbox"}
KindOf(i) ==
  CASE i.op \in {"new-array", "check-cast"} -> "types"
    [] i.op = "sget-object" -> "fields"
    [] i.op \in {"valueOf", "callback", "unbox"} -> "methods"
NodeOf(i) ==
  CASE i.op = "new-array" -> ToArray(ObjectType)
    [] i.op = "check-cast" -> IF i.c = "L" THEN ObjectType ELSE ToBoxType(i.c)
    [] i.op = "sget-object" -> HookerField
    [] i.op = "valueOf" -> ValueOf(i.c)
    [] i.op = "callback" -> HandleHookMethod
    [] i.op = "unbox" -> UnboxMethod(i.c)

\* The number of a node: its place among its kind, from 0.
NumberIn(vector, x) == (CHOOSE i \in DOMAIN vector : vector[i] = x) - 1

\* The first numbers go into the instructions.
EncodeInstructions(ir, instructions) ==
  [k \in DOMAIN instructions |-> LET i == instructions[k]
     IN IF Names(i) THEN [i EXCEPT !.c = NumberIn(ir[KindOf(i)], NodeOf(i))] ELSE i]

AddCode(ir, x) ==
  LET new == [decl |-> x.decl, code |-> [x.code EXCEPT !.instructions = EncodeInstructions(ir, @)]]
  IN Add(Add(ir, "code", new), "direct_methods", new)

Made(ir, call) ==
  CASE call.kind = "strings" -> GetOrAddString(ir, call.of)
    [] call.kind = "types" -> GetOrAddType(ir, call.of)
    [] call.kind = "fields" -> GetOrAddField(ir, call.of)
    [] call.kind = "methods" -> GetOrDeclareMethod(ir, call.of)
    [] call.kind = "code" -> AddCode(ir, call.of)

Kinds == <<"strings", "types", "protos", "fields", "methods">>
NoNodes == [k \in Range(Kinds) \cup {"type_lists", "code", "direct_methods"} |-> <<>>]

ImageInit ==
  /\ name \in TargetNames
  /\ rank \in {[c \in Range(a) |-> NumberIn(a, c)] : a \in Alphabets}
  /\ calls = BuildCalls(name, method)
  /\ nodes = NoNodes /\ maps = NoNodes
  /\ step = "build" /\ offset = 0 /\ node_offset = <<>> /\ image = <<>>

Build ==
  /\ step = "build" /\ calls # <<>>
  /\ nodes' = Made(nodes, Head(calls)) /\ maps' = nodes'
  /\ calls' = Tail(calls)
  /\ UNCHANGED <<name, rank, step, offset, node_offset, image>>

-----------------------------------------------------------------------------
(* Normalize: each kind is sorted by the numbers of those before *)

Index(kind, x) == NumberIn(nodes[kind], x)

\* Utf8Cmp, and std::lexicographical_compare.
Less(s, t) ==
  \E k \in DOMAIN t :
    /\ k <= Len(s) + 1 /\ SubSeq(s, 1, k - 1) = SubSeq(t, 1, k - 1)
    /\ k <= Len(s) => s[k] < t[k]

SortKey(kind, x) ==
  CASE kind = "strings" -> [i \in DOMAIN x |-> rank[x[i]]]
    [] kind = "types" -> <<Index("strings", x)>>
    [] kind = "protos" -> <<Index("types", x.ret)>> \o [i \in DOMAIN x.params |-> Index("types", x.params[i])]
    [] kind = "fields" -> <<Index("types", x.parent), Index("strings", x.name), Index("types", x.type)>>
    [] kind = "methods" -> <<Index("types", x.parent), Index("strings", x.name), Index("protos", x.prototype)>>

IndexItems(kind) ==
  LET key == [x \in Range(nodes[kind]) |-> SortKey(kind, x)]
  IN nodes' = [nodes EXCEPT ![kind] = SortSeq(@, LAMBDA x, y : Less(key[x], key[y]))]

Then(now, next) == step = now /\ step' = next

\* The methods of the class are sorted last.
NormalizeClass ==
  /\ Then("class", "layout")
  /\ nodes' = [nodes EXCEPT !.direct_methods =
                 SortSeq(@, LAMBDA x, y : Index("methods", x.decl) < Index("methods", y.decl))]
  /\ UNCHANGED <<name, rank, calls, maps, offset, node_offset, image>>

Normalize ==
  /\ \/ calls = <<>> /\ Then("build", "strings") /\ UNCHANGED nodes
     \/ \E k \in 1 .. 5 : Then(Kinds[k], (Kinds \o <<"class">>)[k + 1]) /\ IndexItems(Kinds[k])
  /\ UNCHANGED <<name, rank, calls, maps, offset, node_offset, image>>

-----------------------------------------------------------------------------
(* CreateImage: the sections, one after the other.  An item is [at, size,   *)
(* data], at counted from the start of its section.                         *)

HeaderSize == 112
IndexSections == <<"string_ids", "type_ids", "proto_ids", "field_ids", "method_ids", "class_defs">>
DataSections == <<"string_data", "type_lists", "code", "class_data">>
IdSizes == <<4, 4, 12, 8, 8, 32>>

Up(n, alignment) == ((n + alignment - 1) \div alignment) * alignment
End(items) == IF items = <<>> THEN 0 ELSE Last(items).at + Last(items).size

\* AddItem aligns, and what is pushed then is the item.
AddItem(items, alignment, size, data) ==
  Append(items, [at |-> Up(End(items), alignment), size |-> size, data |-> data])

Ids(k, data) == [i \in DOMAIN data |-> [at |-> (i - 1) * IdSizes[k], size |-> IdSizes[k], data |-> data[i]]]
Absolute(section, i) == image[section].offset + image[section].items[i].at

FilePointer(x) == node_offset[x]

\* The index sections get their places, their contents come later.
InitIndexes ==
  LET count == [k \in 1 .. 6 |-> IF k = 6 THEN 1 ELSE Len(nodes[Kinds[k]])]
      Start(k) == HeaderSize + MapThenSumSet(LAMBDA j : count[j] * IdSizes[j], 1 .. k - 1)
  IN /\ Then("layout", "string_data")
     /\ image' = [s \in Range(IndexSections) |->
                    LET k == NumberIn(IndexSections, s) + 1
                    IN [offset |-> Start(k), items |-> Ids(k, [i \in 1 .. count[k] |-> Null])]]
     /\ offset' = Start(7)
     /\ UNCHANGED <<name, rank, calls, nodes, maps, node_offset>>

\* A section of data starts where the one before was sealed.
With(section, items) ==
  /\ image' = image @@ section :> [offset |-> offset, items |-> items]
  /\ offset' = offset + Up(End(items), 4)

Remember(vector, items) ==
  node_offset' = node_offset @@ [x \in Range(vector) |-> offset + items[NumberIn(vector, x) + 1].at]

\* Length, characters and the zero.
CreateStringDataSection ==
  /\ Then("string_data", "type_lists")
  /\ With("string_data", FoldLeft(LAMBDA items, s : AddItem(items, 1, Len(s) + 2, s), <<>>, nodes.strings))
  /\ UNCHANGED <<name, rank, calls, nodes, maps, node_offset>>

CreateTypeListsSection ==
  LET List(p) == [i \in DOMAIN p.params |-> Index("types", p.params[i])]
      items == FoldLeft(LAMBDA s, p : AddItem(s, 4, 4 + 2 * Len(p.params), List(p)), <<>>, nodes.type_lists)
  IN /\ Then("type_lists", "code")
     /\ With("type_lists", items) /\ Remember(nodes.type_lists, items)
     /\ UNCHANGED <<name, rank, calls, nodes, maps>>

\* GetWidthFromBytecode: the units of 16 bits of an instruction.
Width(i) ==
  CASE i.op \in {"valueOf", "callback", "unbox"} -> 3
    [] i.op \in {"new-array", "aput-object", "sget-object", "check-cast", "const-wide"} -> 2
    [] i.op = "const" -> IF i.a < ShortSpan /\ i.b < ShortSpan \div 2 THEN 1 ELSE 2
    [] OTHER -> 1

\* Mutant: the numbers stay what they were when the code was encoded.
NotRelocated(instructions) == instructions

\* WriteInstructions: the new number of what the old one was of.
Relocated(instructions) ==
  [k \in DOMAIN instructions |-> LET i == instructions[k]
     IN IF Names(i) THEN [i EXCEPT !.c = Index(KindOf(i), maps[KindOf(i)][i.c + 1])] ELSE i]

CreateCodeItemSection ==
  LET Units(c) == FoldLeft(LAMBDA n, i : n + Width(i), 0, c.instructions)
      Written(c) == [c EXCEPT !.instructions = Relocated(@)]
      items == FoldLeft(LAMBDA s, x : AddItem(s, 4, 16 + 2 * Units(x.code), Written(x.code)), <<>>, nodes.code)
  IN /\ Then("code", "class_data")
     /\ With("code", items) /\ Remember(nodes.code, items)
     /\ UNCHANGED <<name, rank, calls, nodes, maps>>

UlebSize(n) == Min({k \in 1 .. 4 : n < 128 ^ k})

\* WriteClassData: fields and methods by the difference to the one before,
\* with the access flags, in one byte; two of one number end the program in
\* the builds whose SLICER_CHECK is not empty.
CreateClassDataSection ==
  LET field == Index("fields", HookerField)
      number == [k \in DOMAIN nodes.direct_methods |-> Index("methods", nodes.direct_methods[k].decl)]
      delta == [k \in DOMAIN number |-> IF k = 1 THEN number[1] ELSE number[k] - number[k - 1]]
      encoded == [k \in DOMAIN number |-> [delta |-> delta[k], code_off |-> FilePointer(nodes.direct_methods[k])]]
      size == FoldLeft(LAMBDA n, m : n + UlebSize(m.delta) + 1 + UlebSize(m.code_off), 4 + UlebSize(field) + 1, encoded)
  IN /\ \/ /\ \E k \in DOMAIN number : k > 1 /\ delta[k] = 0
           /\ Then("class_data", "aborted") /\ UNCHANGED <<offset, image>>
        \/ /\ Then("class_data", "map_list")
           /\ With("class_data", AddItem(<<>>, 1, size, [static_fields |-> <<field>>, direct_methods |-> encoded]))
     /\ UNCHANGED <<name, rank, calls, nodes, maps, node_offset>>

\* The sections that have items, by their offsets; the map is one of them.
CreateMapSection ==
  LET Item(s, count, o) == [type |-> s, size |-> count, offset |-> o]
      sections == SelectSeq(IndexSections \o DataSections, LAMBDA s : image[s].items # <<>>)
      listed == [k \in DOMAIN sections |-> Item(sections[k], Len(image[sections[k]].items), image[sections[k]].offset)]
      map == SortSeq(<<Item("header", 1, 0)>> \o listed \o <<Item("map_list", 1, offset)>>,
                     LAMBDA i, j : i.offset < j.offset)
  IN /\ Then("map_list", "fill")
     /\ With("map_list", AddItem(<<>>, 4, 4 + 12 * Len(map), map))
     /\ UNCHANGED <<name, rank, calls, nodes, maps, node_offset>>

\* The contents of the index sections.
StringId(i) == Absolute("string_data", i)
TypeId(t) == Index("strings", t)
ProtoId(p) ==
  [shorty_idx |-> Index("strings", Shorty(p)), return_type_idx |-> Index("types", p.ret),
   parameters_off |-> IF p.params = <<>> THEN 0 ELSE FilePointer(p)]
FieldId(f) ==
  [class_idx |-> Index("types", f.parent), type_idx |-> Index("types", f.type), name_idx |-> Index("strings", f.name)]
MethodId(m) ==
  [class_idx |-> Index("types", m.parent), proto_idx |-> Index("protos", m.prototype), name_idx |-> Index("strings", m.name)]
ClassDef ==
  [class_idx |-> Index("types", GeneratedClass), superclass_idx |-> Index("types", ObjectType),
   source_file_idx |-> Index("strings", <<"LSP">>), class_data_off |-> Absolute("class_data", 1)]

\* FillTypes and its like; the header is last.
Fill ==
  LET Mapped(kind, Id(_)) == [i \in DOMAIN nodes[kind] |-> Id(nodes[kind][i])]
  IN /\ Then("fill", "done")
     /\ image' = [image EXCEPT
          !.string_ids.items = Ids(1, [i \in DOMAIN nodes.strings |-> StringId(i)]),
          !.type_ids.items = Ids(2, Mapped("types", TypeId)),
          !.proto_ids.items = Ids(3, Mapped("protos", ProtoId)),
          !.field_ids.items = Ids(4, Mapped("fields", FieldId)),
          !.method_ids.items = Ids(5, Mapped("methods", MethodId)),
          !.class_defs.items = Ids(6, <<ClassDef>>)]
     /\ UNCHANGED <<name, rank, calls, nodes, maps, offset, node_offset>>

CreateImage ==
  \/ Normalize \/ NormalizeClass \/ InitIndexes \/ CreateStringDataSection \/ CreateTypeListsSection
  \/ CreateCodeItemSection \/ CreateClassDataSection \/ CreateMapSection \/ Fill

ImageNext == (Build \/ CreateImage) /\ UNCHANGED <<hookerVars, vars>>

-----------------------------------------------------------------------------
(* What the runtime reads in an image *)

ItemAt(section, o) == image[section].items[CHOOSE i \in DOMAIN image[section].items : Absolute(section, i) = o].data
Id(section, i) == image[section].items[i + 1].data

StringAt(i) == ItemAt("string_data", Id("string_ids", i))
TypeAt(i) == StringAt(Id("type_ids", i))
TypesAt(o) == IF o = 0 THEN <<>> ELSE [i \in DOMAIN ItemAt("type_lists", o) |-> TypeAt(ItemAt("type_lists", o)[i])]
ProtoAt(i) == Prototype(TypeAt(Id("proto_ids", i).return_type_idx), TypesAt(Id("proto_ids", i).parameters_off))
FieldAt(i) ==
  LET f == Id("field_ids", i) IN [parent |-> TypeAt(f.class_idx), name |-> StringAt(f.name_idx), type |-> TypeAt(f.type_idx)]
MethodAt(i) ==
  LET m == Id("method_ids", i) IN MethodDecl(TypeAt(m.class_idx), StringAt(m.name_idx), ProtoAt(m.proto_idx))

NamedBy(i) ==
  CASE KindOf(i) = "types" -> TypeAt(i.c) [] KindOf(i) = "fields" -> FieldAt(i.c) [] KindOf(i) = "methods" -> MethodAt(i.c)

CodeAt(o) ==
  LET c == ItemAt("code", o)
  IN [c EXCEPT !.instructions =
        [k \in DOMAIN c.instructions |->
           LET i == c.instructions[k] IN IF Names(i) THEN [i EXCEPT !.c = NamedBy(i)] ELSE i]]

\* The class that is loaded: its methods by what they are, with their code.
LoadedClass ==
  LET def == Id("class_defs", 0)
      data == ItemAt("class_data", def.class_data_off)
      MethodNumber(k) == FoldLeft(LAMBDA n, m : n + m.delta, 0, SubSeq(data.direct_methods, 1, k))
  IN [type |-> TypeAt(def.class_idx), super |-> TypeAt(def.superclass_idx),
      static_fields |-> {FieldAt(n) : n \in Range(data.static_fields)},
      methods |-> {[decl |-> MethodAt(MethodNumber(k)), code |-> CodeAt(data.direct_methods[k].code_off)] :
                     k \in DOMAIN data.direct_methods}]

\* Each id once, in the order that lookups by binary search rely on.
Increasing(keys) == \A i \in 2 .. Len(keys) : Less(keys[i - 1], keys[i])
Keys(section, Key(_)) == [i \in DOMAIN image[section].items |-> Key(i - 1)]

IdsAreSorted ==
  /\ Increasing(Keys("string_ids", LAMBDA i : [k \in DOMAIN StringAt(i) |-> rank[StringAt(i)[k]]]))
  /\ Increasing(Keys("type_ids", LAMBDA i : <<Id("type_ids", i)>>))
  /\ Increasing(Keys("proto_ids", LAMBDA i : LET p == Id("proto_ids", i)
       IN <<p.return_type_idx>> \o (IF p.parameters_off = 0 THEN <<>> ELSE ItemAt("type_lists", p.parameters_off))))
  /\ Increasing(Keys("field_ids", LAMBDA i : LET f == Id("field_ids", i) IN <<f.class_idx, f.name_idx, f.type_idx>>))
  /\ Increasing(Keys("method_ids", LAMBDA i : LET m == Id("method_ids", i) IN <<m.class_idx, m.name_idx, m.proto_idx>>))

\* The sections lie in the order of the map, each aligned and behind the last.
SectionsAreApart ==
  LET map == image.map_list.items[1].data
      EndOf(i) == IF map[i].type = "header" THEN HeaderSize ELSE map[i].offset + End(image[map[i].type].items)
  IN /\ {map[i].type : i \in DOMAIN map} = DOMAIN image \cup {"header"}
     /\ \A i \in DOMAIN map : map[i].offset % 4 = 0
     /\ \A i \in 2 .. Len(map) : EndOf(i - 1) <= map[i].offset
     /\ EndOf(Len(map)) <= offset

\* What an instruction of BuildDex names.
Meant(code) ==
  [code EXCEPT !.instructions =
     [k \in DOMAIN @ |-> LET i == @[k] IN IF Names(i) THEN [i EXCEPT !.c = NodeOf(i)] ELSE i]]

\* The image is the class that BuildDex built, whatever the names and however
\* they sort: ids sorted and unique, sections apart and aligned, and each
\* number and offset, those inside the relocated code too, leading to the
\* string, type, field, method or code that was meant (lsplant.cc:361-447,
\* writer.cc:245-393).  No method is in the class twice, and no check ends the
\* program, but for a hooked method called "backup", whose declaration is that
\* of the generated backup (lsplant.cc:434, writer.cc:1035).
DexIsClass ==
  /\ step = "aborted" => name = <<"backup">>
  /\ step = "done" =>
       /\ IdsAreSorted
       /\ SectionsAreApart
       /\ LoadedClass =
            [type |-> GeneratedClass, super |-> ObjectType, static_fields |-> {HookerField},
             methods |-> {[decl |-> Generated(name, method), code |-> Meant(HookCode(method))],
                          [decl |-> Generated(<<"backup">>, method), code |-> StubCode(method)]}]
       /\ name # <<"backup">> => image.class_data.items[1].data.direct_methods[2].delta > 0
=============================================================================
