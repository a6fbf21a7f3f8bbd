------------------------------ MODULE MCClassFile -----------------------------
(* Instances of ClassFile for TLC: small classes around the limit Half.        *)
EXTENDS ClassFile

LimitIs == 16
This == NameText("A")
NonAscii == [NameText("U") EXCEPT !.ascii = FALSE]
Super == NameText("B")
Plain ==
  [first |-> <<>>, mid |-> <<>>, flags |-> {}, this |-> This, super |-> <<Super>>, interfaces |-> <<>>,
   fields |-> <<>>, methods |-> <<>>, attributes |-> 0, length |-> 0]
Times(n, x) == [k \in 1..n |-> x]
Long == Constant("Long")
Literal(n) == Utf8([NameText("literal") EXCEPT !.len = n])

\* Constants of every kind before and between the ones the parser looks up.
Before == {<<>>, <<Long>>, <<Constant("Integer"), Constant("Double")>>, <<Long, Constant("Double"), Constant("MethodHandle")>>,
           <<Constant("Fieldref"), Constant("String"), Literal(LimitIs - 1)>>}
Between == {<<>>, <<Long>>, <<Constant("NameAndType"), Constant("Double")>>}
Fields == {<<>>, <<Type("")>>, <<Type("C"), ArrayOf("D")>>}
Methods == {<<>>, <<[params |-> <<>>, type |-> Type("C")]>>,
            <<[params |-> <<Type(""), Type("E"), ArrayOf("F")>>, type |-> ArrayOf("G")]>>}
\* With and without a super class and an interface, with and without attributes of three cells.
Shapes == {[Plain EXCEPT !.first = b, !.mid = m, !.fields = f, !.methods = g,
                         !.super = IF o THEN <<>> ELSE <<Super>>,
                         !.interfaces = IF o THEN <<>> ELSE <<NameText("I")>>,
                         !.attributes = a, !.length = IF a = 0 THEN 0 ELSE 3] :
             b \in Before, m \in Between, f \in Fields, g \in Methods, o \in BOOLEAN, a \in {0, 2}}
\* One step below and one at each limit.
AtLimit ==
  {[Plain EXCEPT !.first = Times(LimitIs - 7 + d, Constant("Float"))] : d \in 0..2}
  \cup {[Plain EXCEPT !.first = Times(LimitIs - 9, Constant("Float")) \o <<Long>>, !.mid = Times(d, Constant("Methodref"))] : d \in 0..2}
  \cup {[Plain EXCEPT !.first = <<Literal(n)>>] : n \in {LimitIs - 1, LimitIs}}
  \cup {[Plain EXCEPT !.fields = <<Type("C")>>, !.attributes = n, !.length = 1] : n \in {LimitIs - 1, LimitIs}}
  \cup {[Plain EXCEPT !.fields = Times(n, Type(""))] : n \in {LimitIs - 1, LimitIs}}
  \cup {[Plain EXCEPT !.methods = <<[params |-> <<>>, type |-> Type("")]>>, !.attributes = 1, !.length = LimitIs + 3],
        [Plain EXCEPT !.mid = <<Constant("Dynamic")>>], [Plain EXCEPT !.this = NonAscii],
        [Plain EXCEPT !.flags = {"interface", "abstract"}, !.super = <<>>], [Plain EXCEPT !.flags = {"final"}]}
AllClasses == Shapes \cup AtLimit
===============================================================================
