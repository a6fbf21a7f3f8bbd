------------------------------- MODULE ClassFile ------------------------------
(* ClassParser over the class files the JVM hands to the class file load hook:  *)
(* first parseJustName, then parse on the same bytes, as cbClassFileLoadHook    *)
(* and loadDependencies call them.  A class file is a sequence of cells, one    *)
(* for each u1, u2, u4 or u8 item and one for the bytes of a string.            *)
EXTENDS Integers, FiniteSets, SequencesExt

CONSTANTS
  Classes,   \* the classes to be parsed, see Encode
  Half       \* 2^15: where an unsigned 16-bit item turns negative in a short

ASSUME ClassFileAssumption == Half \in Nat \ {0}

Pair == {"Fieldref", "Methodref", "InterfaceMethodref", "NameAndType", "InvokeDynamic", "MethodHandle"}
Single == {"Class", "String", "MethodType"}
Word == {"Integer", "Float"}
Wide == {"Long", "Double"}
KnownTags == {"Utf8"} \cup Pair \cup Single \cup Word \cup Wide

-------------------------------------------------------------------------------
\* Class files as a compiler writes them.

\* Types: a class or a primitive (""), or an array of them.  Texts: the strings of the constant pool.
Type(c) == [array |-> FALSE, class |-> c]
ArrayOf(c) == [array |-> TRUE, class |-> c]
Text(kind, name, params, type) ==
  [kind |-> kind, name |-> name, params |-> params, type |-> type, ascii |-> TRUE, len |-> 1]
NameText(n) == Text("name", n, <<>>, Type(""))
FieldText(t) == Text("field", "", <<>>, t)
MethodText(m) == Text("method", "", m.params, m.type)

Utf8(t) == [tag |-> "Utf8", text |-> t]
ClassOf(t) == [tag |-> "Class", text |-> t]
Constant(tag) == [tag |-> tag, text |-> NameText("")]
MapSeq(Op(_), s) == [k \in 1..Len(s) |-> Op(s[k])]

\* c.first and c.mid are constants of the methods' code, c.super is <<>> for java.lang.Object.
NamedBy(c) == <<c.this>> \o c.super \o c.interfaces
PoolOf(c) ==
  c.first \o MapSeq(ClassOf, NamedBy(c)) \o c.mid \o MapSeq(Utf8, NamedBy(c))
  \o SetToSeq({Utf8(FieldText(f)) : f \in Range(c.fields)})
  \o SetToSeq({Utf8(MethodText(m)) : m \in Range(c.methods)})
  \o <<Utf8(NameText("Code"))>>
\* An eight-byte constant takes two numbers.
Slot(P, e) == e + Cardinality({d \in 1..e - 1 : P[d].tag \in Wide})
SlotOf(P, entry) == Slot(P, CHOOSE e \in 1..Len(P) : P[e] = entry)
ConstantCells(P, e) ==
  CASE P[e].tag = "Utf8" -> <<"Utf8", P[e].text.len, P[e].text>>
    [] P[e].tag = "Class" -> <<"Class", SlotOf(P, Utf8(P[e].text))>>
    [] P[e].tag \in Pair -> <<P[e].tag, 0, 0>>
    [] OTHER -> <<P[e].tag, 0>>
\* Every member has c.attributes attributes of c.length cells.
MemberCells(P, c, text) ==
  LET code == <<SlotOf(P, Utf8(NameText("Code"))), c.length>> \o [k \in 1..c.length |-> 0]
  IN <<{}, SlotOf(P, Utf8(NameText("Code"))), SlotOf(P, Utf8(text)), c.attributes>>
     \o FlattenSeq([k \in 1..c.attributes |-> code])
Encode(c) ==
  LET P == PoolOf(c)
      index(t) == SlotOf(P, ClassOf(t)) IN
  <<"CAFEBABE", 0, 52, Slot(P, Len(P) + 1)>>
  \o FlattenSeq([e \in 1..Len(P) |-> ConstantCells(P, e)])
  \o <<c.flags, index(c.this), IF c.super = <<>> THEN 0 ELSE index(c.super[1])>>
  \o <<Len(c.interfaces)>> \o MapSeq(index, c.interfaces)
  \o <<Len(c.fields)>> \o FlattenSeq(MapSeq(LAMBDA f : MemberCells(P, c, FieldText(f)), c.fields))
  \o <<Len(c.methods)>> \o FlattenSeq(MapSeq(LAMBDA m : MemberCells(P, c, MethodText(m)), c.methods))
  \o <<0>>

\* What the class file format asks of a class: its items are u2, a class constant has its name in
\* the pool, there is at most one super class, and nothing abstract is final.
\* (Strings is STRING; its members named here are the ones the definitions write out.)
Strings == STRING \cup KnownTags \cup {"", "Code", "garbled", "name", "field", "method"}
Types == [array : BOOLEAN, class : Strings]
Texts == [kind : Strings, name : Strings, params : Seq(Types), type : Types, ascii : BOOLEAN, len : Nat]
Signatures == [params : Seq(Types), type : Types]
Entries == [tag : Strings, text : Texts]
Shape == [first : Seq(Entries), mid : Seq(Entries), flags : SUBSET Strings, this : Texts,
          super : Seq(Texts), interfaces : Seq(Texts), fields : Seq(Types),
          methods : Seq(Signatures), attributes : Nat, length : Nat]
Legal(c) ==
  LET P == PoolOf(c) IN
  /\ c \in Shape /\ Len(c.super) <= 1
  /\ "final" \in c.flags => {"interface", "abstract"} \cap c.flags = {}
  /\ \A n \in {Len(c.interfaces), Len(c.fields), Len(c.methods), c.attributes, Slot(P, Len(P) + 1)} :
       n < 2 * Half
  /\ \A e \in 1..Len(P) :
       P[e].text.len < 2 * Half /\ (P[e].tag = "Class" => Utf8(P[e].text) \in Range(P))
ASSUME LegalAssumption == \A c \in Classes : Legal(c)

-------------------------------------------------------------------------------
VARIABLES
  class,      \* the class being loaded
  file,       \* bytes
  mode,       \* "name": parseJustName, "all": parse
  pos,        \* nextPos
  step,       \* what is read next
  pool,       \* number -> constant, as far as it was filled in
  i,          \* the loop's variable; of a member or an interface, how many are left
  left,       \* attributes of the member that are left
  sig,        \* signature_index
  refs,       \* the four sets of references, as one
  name,       \* className
  first,      \* the name parseJustName returned
  outcome     \* "reading", "done", "thrown", or "garbage": an uninitialized slot was used
vars == <<class, file, mode, pos, step, pool, i, left, sig, refs, name, first, outcome>>

NoName == ""
Garbage == [tag |-> "garbage", index |-> 0, text |-> NameText(NoName)]

Init ==
  /\ class \in Classes
  /\ file = Encode(class)
  /\ mode = "name" /\ pos = 1 /\ step = "header"
  /\ pool = <<>> /\ i = 0 /\ left = 0 /\ sig = 0
  /\ refs = {} /\ name = NoName /\ first = NoName /\ outcome = "reading"

\* readShort: a short.
Short(v) == IF v < Half THEN v ELSE v - 2 * Half
Cell(k) == file[pos + k]
ShortAt(k) == Short(Cell(k))
Reads(s) == outcome = "reading" /\ step = s
Skip(k) == pos' = pos + k
Then(s) == step' = s
Throw == outcome' = "thrown" /\ UNCHANGED <<pos, step, pool, i, left, sig, refs, name>>
UseGarbage == outcome' = "garbage" /\ UNCHANGED <<pos, step, pool, i, left, sig, refs, name>>

\* readUTF narrows each decoded character to a char.
Garbled(t) == [t EXCEPT !.name = "garbled"]
ReadText(t) == IF t.ascii THEN t ELSE Garbled(t)

\* ConstantPool::getConstant(index, tag)
Count == Len(pool)        \* slot k of the array is pool[k + 1]
Constants(index) == pool[index + 1]
Uninitialized(index) == index \in 0..Count - 1 /\ Constants(index) = Garbage
\* Mutant: the last number of the pool is refused.
HasNotLast(index, tag) == index \in 0..Count - 2 /\ Constants(index).tag = tag
Has(index, tag) == index \in 0..Count - 1 /\ Constants(index).tag = tag
\* getConstantString(index, CONSTANT_Class): both look-ups succeed.
HasClass(index) == Has(index, "Class") /\ Has(Constants(index).index, "Utf8")
\* Mutant: the name is taken from the class constant, not from the constant it points to.
NameInPlace(index) == Constants(index).text.name
ClassName(index) == Constants(Constants(index).index).text.name

ReadHeader ==
  /\ Reads("header")
  /\ Skip(3) /\ Then("count")
  /\ UNCHANGED <<pool, i, left, sig, refs, name, outcome>>
\* new Constant*[count] throws if the count is negative and leaves its slots as they are.
ReadPoolCount ==
  /\ Reads("count")
  /\ \/ ShortAt(0) < 0 /\ Throw
     \/ /\ ShortAt(0) >= 0
        /\ pool' = [k \in 1..ShortAt(0) |-> Garbage]
        /\ i' = 1 /\ Skip(1) /\ Then("constants")
        /\ UNCHANGED <<left, sig, refs, name, outcome>>

\* Constant::readConstant and the constructors of the constants.
Stores(constant, cells) ==
  /\ pool' = [pool EXCEPT ![i + 1] = constant]
  /\ i' = i + (IF constant.tag \in Wide THEN 2 ELSE 1)
  /\ Skip(cells)
ReadConstant ==
  /\ Reads("constants") /\ i < Count
  /\ \/ Cell(0) = "Utf8" /\ ShortAt(1) < 0 /\ Throw
     \/ Cell(0) \notin KnownTags /\ Throw
     \/ /\ \/ /\ Cell(0) = "Utf8" /\ ShortAt(1) >= 0
              /\ Stores([tag |-> "Utf8", index |-> 0, text |-> ReadText(Cell(2))], 3)
           \/ /\ Cell(0) \in Single
              /\ Stores([tag |-> Cell(0), index |-> ShortAt(1), text |-> Garbage.text], 2)
           \/ /\ Cell(0) \in Pair \cup Word \cup Wide
              /\ Stores([tag |-> Cell(0), index |-> 0, text |-> Garbage.text], IF Cell(0) \in Pair THEN 3 ELSE 2)
        /\ UNCHANGED <<step, left, sig, refs, name, outcome>>
EndConstants ==
  /\ Reads("constants") /\ i >= Count
  /\ Then("info")
  /\ UNCHANGED <<pos, pool, i, left, sig, refs, name, outcome>>

\* readClassInfo; a super class number that is not positive means java.lang.Object.
ReadClassInfo ==
  LET abstract == {"interface", "abstract"} \cap Cell(0) # {}
      super == ShortAt(2) IN
  /\ Reads("info")
  /\ \/ (abstract /\ "final" \in Cell(0)) /\ Throw
     \/ Uninitialized(ShortAt(1)) /\ UseGarbage
     \/ ~Uninitialized(ShortAt(1)) /\ ~HasClass(ShortAt(1)) /\ Throw
     \/ HasClass(ShortAt(1)) /\ super > 0 /\ ~HasClass(super) /\ Throw
     \/ /\ HasClass(ShortAt(1)) /\ (super > 0 => HasClass(super))
        /\ name' = ClassName(ShortAt(1))
        /\ refs' = {IF super > 0 THEN ClassName(super) ELSE "java/lang/Object"}
        /\ Skip(3) /\ Then(IF mode = "name" THEN "end" ELSE "interfaces")
        /\ UNCHANGED <<pool, i, left, sig, outcome>>

\* A count drives a loop; new T[count] throws if it is negative.
ReadLoopCount(s, body) ==
  /\ Reads(s)
  /\ \/ ShortAt(0) < 0 /\ Throw
     \/ /\ ShortAt(0) >= 0
        /\ i' = ShortAt(0) /\ Skip(1) /\ Then(body)
        /\ UNCHANGED <<pool, left, sig, refs, name, outcome>>
EndLoop(body, next) ==
  /\ Reads(body) /\ i = 0
  /\ Then(next)
  /\ UNCHANGED <<pos, pool, i, left, sig, refs, name, outcome>>
ReadInterface ==
  /\ Reads("interface") /\ i > 0
  /\ \/ Uninitialized(ShortAt(0)) /\ UseGarbage
     \/ ~Uninitialized(ShortAt(0)) /\ ~HasClass(ShortAt(0)) /\ Throw
     \/ /\ HasClass(ShortAt(0))
        /\ refs' = refs \cup {ClassName(ShortAt(0))}
        /\ i' = i - 1 /\ Skip(1)
        /\ UNCHANGED <<step, pool, left, sig, name, outcome>>

\* FieldOrMethod: flags, name, signature and the number of attributes.
Of == [field |-> "fieldAttribute", method |-> "methodAttribute"]
ReadMember(kind) ==
  /\ Reads(kind) /\ i > 0
  /\ \/ ShortAt(3) < 0 /\ Throw
     \/ /\ ShortAt(3) >= 0
        /\ sig' = ShortAt(2) /\ left' = ShortAt(3)
        /\ Skip(4) /\ Then(Of[kind])
        /\ UNCHANGED <<pool, i, refs, name, outcome>>
\* Mutant: the length of an attribute is taken for a u2.
SkipShort(length) == Skip(2 + Short(length))
SkipAttribute(length) == Skip(2 + length)
ReadAttribute(kind) ==
  /\ Reads(Of[kind]) /\ left > 0
  /\ \/ Uninitialized(ShortAt(0)) /\ UseGarbage
     \/ ~Uninitialized(ShortAt(0)) /\ ~Has(ShortAt(0), "Utf8") /\ Throw
     \/ /\ Has(ShortAt(0), "Utf8")
        /\ SkipAttribute(Cell(1)) /\ left' = left - 1
        /\ UNCHANGED <<step, pool, i, sig, refs, name, outcome>>

\* classNameFromSignature
ClassNameFromSignature(t) == IF t.array THEN {} ELSE {t.class} \ {""}
\* parseAndSaveArguments looks for "L" anywhere: array types included.
\* Mutant: only the first argument is looked at.
FirstArgument(params) == IF params = <<>> THEN {} ELSE {params[1].class} \ {""}
ParseAndSaveArguments(params) == {params[k].class : k \in 1..Len(params)} \ {""}
SaveSignature(kind) ==
  /\ Reads(Of[kind]) /\ left = 0
  /\ \/ Uninitialized(sig) /\ UseGarbage
     \/ ~Uninitialized(sig) /\ ~Has(sig, "Utf8") /\ Throw
     \/ /\ Has(sig, "Utf8")
        /\ LET t == Constants(sig).text IN
           refs' = refs \cup ClassNameFromSignature(t.type)
                        \cup (IF kind = "method" THEN ParseAndSaveArguments(t.params) ELSE {})
        /\ i' = i - 1 /\ Then(kind)
        /\ UNCHANGED <<pos, pool, left, sig, name, outcome>>

\* The end of a parse: the hook goes on with parse after parseJustName.
Finish ==
  /\ Reads("end")
  /\ IF mode = "name"
       THEN /\ first' = name /\ mode' = "all" /\ pos' = 1 /\ Then("header")
            /\ pool' = <<>> /\ name' = NoName /\ refs' = {} /\ UNCHANGED outcome
       ELSE outcome' = "done" /\ UNCHANGED <<first, mode, pos, step, pool, name, refs>>
  /\ UNCHANGED <<class, file, i, left, sig>>

Read ==
  \/ ReadHeader \/ ReadPoolCount \/ ReadConstant \/ EndConstants \/ ReadClassInfo
  \/ ReadLoopCount("interfaces", "interface") \/ ReadInterface \/ EndLoop("interface", "fields")
  \/ ReadLoopCount("fields", "field") \/ EndLoop("field", "methods")
  \/ ReadLoopCount("methods", "method") \/ EndLoop("method", "end")
  \/ \E kind \in {"field", "method"} : ReadMember(kind) \/ ReadAttribute(kind) \/ SaveSignature(kind)
Next ==
  \/ Read /\ UNCHANGED <<class, file, mode, first>>
  \/ Finish
Spec == Init /\ [][Next]_vars

-------------------------------------------------------------------------------
\* What the class says of itself, without its encoding.
Named(t) == IF t.ascii THEN t.name ELSE "garbled"
TypeRefs(t) == IF t.array THEN {} ELSE {t.class} \ {""}
RefsOf(c) ==
  {Named(t) : t \in Range(c.interfaces)}
  \cup (IF c.super = <<>> THEN {"java/lang/Object"} ELSE {Named(c.super[1])})
  \cup (UNION {TypeRefs(f) : f \in Range(c.fields)})
  \cup (UNION {TypeRefs(m.type) \cup ({t.class : t \in Range(m.params)} \ {""}) : m \in Range(c.methods)})
\* Some 16-bit count or length of the class file does not fit into a short, or a constant is newer
\* than the parser.
Exceeds(c) ==
  LET P == PoolOf(c) IN
  \/ Slot(P, Len(P) + 1) >= Half
  \/ Len(c.interfaces) >= Half \/ Len(c.fields) >= Half \/ Len(c.methods) >= Half
  \/ c.attributes >= Half /\ c.fields \o c.methods # <<>>
  \/ \E e \in 1..Len(P) : P[e].text.len >= Half \/ P[e].tag \notin KnownTags

\* A class that is parsed to its end has exactly the references its signatures name, wherever the
\* compiler put the constants (getAllRefs, which loadDependencies walks).
RefsComplete == outcome = "done" => refs = RefsOf(class)

\* parseJustName, by which the hook decides, and parse find one name, the class's own.
NamesAgree ==
  /\ mode = "all" => first = Named(class.this)
  /\ outcome = "done" => name = first

\* The parse stays inside the class file (ByteReader never looks at bytesLen), and when it ends only
\* the attributes of the class have not been read.
StaysInside ==
  /\ pos <= Len(file)
  /\ outcome = "done" => pos = Len(file)

\* A legal class file is never refused, unless one of its counts does not fit (the exception would
\* leave the hook with the monitor held), and no slot is used that was not filled in.
ThrownIfExceeds ==
  /\ outcome = "thrown" => Exceeds(class)
  /\ outcome # "garbage"
===============================================================================
