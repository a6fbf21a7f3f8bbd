---------------------------- MODULE ClassFile_proofs ----------------------------
(* Proofs about ClassFile for every legal class and every limit of a short: the *)
(* parser finds the references and the name the class has, stays inside the     *)
(* class file, and throws only if an item does not fit.                         *)
EXTENDS ClassFile, SequenceTheorems, FiniteSetTheorems, TLAPS

-------------------------------------------------------------------------------
\* Induction.  The library's induction theorems are about operators; this one is about a set.

\* A set of natural numbers that is not empty has a least element.
LEMMA Least ==
  ASSUME NEW T, T \subseteq Nat, T # {}
  PROVE  \E x \in T : \A y \in T : x <= y
<1> DEFINE R == StrictSubsetOrdering(Nat)
           D == FiniteSubsetsOf(Nat)
           U == {1..x : x \in T}
<1>1. U \subseteq D /\ U # {}
  <2>1. ASSUME NEW x \in T
        PROVE  1..x \in D
    <3>1. x \in Int /\ 1 \in Int /\ 1..x \subseteq Nat
      OBVIOUS
    <3>2. IsFiniteSet(1..x)
      BY <3>1, FS_Interval
    <3> QED BY <3>1, <3>2 DEF FiniteSubsetsOf
  <2> QED BY <2>1
<1>2. PICK u \in U : \A v \in U : <<v, u>> \notin R
  <2>1. IsWellFoundedOn(R, D)
    BY FS_StrictSubsetOrderingWellFounded
  <2> HIDE DEF R, D, U
  <2> QED BY <1>1, <2>1, WFMin
<1>3. PICK x \in T : u = 1..x
  OBVIOUS
<1>4. ASSUME NEW y \in T, y < x
      PROVE  FALSE
  <2>1. 1..y \in U /\ 1..y \subseteq u /\ x \in u /\ x \notin 1..y /\ u \subseteq Nat /\ 1..y \subseteq Nat
    BY <1>3, <1>4
  <2>2. <<1..y, u>> \in R
    BY <2>1 DEF StrictSubsetOrdering
  <2> QED BY <1>2, <2>1, <2>2
<1> QED BY <1>4

\* A set with 1 in it that has the next number with every number has all of them.
LEMMA Steps ==
  ASSUME NEW T, NEW n \in Nat, 1 \in T, \A m \in 1..n - 1 : m \in T => m + 1 \in T
  PROVE  1..n \subseteq T
<1> SUFFICES ASSUME ~(1..n \subseteq T) PROVE FALSE
  OBVIOUS
<1> DEFINE U == (1..n) \ T
<1>1. PICK x \in U : \A y \in U : x <= y
  <2>1. U \subseteq Nat /\ U # {}
    OBVIOUS
  <2> HIDE DEF U
  <2> QED BY <2>1, Least
<1>2. x # 1 /\ x \in 1..n /\ x \notin T /\ x - 1 \in 1..n - 1 /\ (x - 1) + 1 = x /\ x - 1 \in 1..n
  OBVIOUS
<1>3. x - 1 \in T
  <2>1. ~(x <= x - 1)
    BY <1>2
  <2> QED BY <1>1, <1>2, <2>1
<1> QED BY <1>2, <1>3

-------------------------------------------------------------------------------
\* Sequences put end to end.

\* s is in f, after the first p elements.
At(f, p, s) == p + Len(s) <= Len(f) /\ \A k \in 1..Len(s) : f[p + k] = s[k]

\* A sequence is at its own beginning.
LEMMA AtWhole == ASSUME NEW S, NEW f \in Seq(S) PROVE At(f, 0, f)
BY DEF At

\* Two sequences put together are where the first is, and behind it.
LEMMA AtParts ==
  ASSUME NEW S, NEW s \in Seq(S), NEW t \in Seq(S), NEW f, Len(f) \in Nat, NEW p \in Nat
  PROVE  /\ s \o t \in Seq(S) /\ Len(s \o t) = Len(s) + Len(t) /\ p + Len(s) \in Nat
         /\ At(f, p, s \o t) => At(f, p, s) /\ At(f, p + Len(s), t)
<1>0. /\ s \o t \in Seq(S) /\ Len(s \o t) = Len(s) + Len(t)
      /\ \A k \in 1..Len(s) + Len(t) : (s \o t)[k] = IF k <= Len(s) THEN s[k] ELSE t[k - Len(s)]
  BY ConcatProperties, Zenon
<1>1. Len(s) \in Nat /\ Len(t) \in Nat
  OBVIOUS
<1> DEFINE u == s \o t
           m == Len(s)
           n == Len(t)
<1> HIDE DEF u
<1>2. SUFFICES ASSUME At(f, p, u)
               PROVE  At(f, p, s) /\ At(f, p + m, t)
  BY <1>0, <1>1 DEF u
<1>3. Len(u) = m + n /\ \A k \in 1..m + n : u[k] = IF k <= m THEN s[k] ELSE t[k - m]
  BY <1>0 DEF u
<1>4. p + (m + n) <= Len(f) /\ \A k \in 1..m + n : f[p + k] = u[k]
  BY <1>2, <1>3 DEF At
<1>5. ASSUME NEW k \in 1..m PROVE f[p + k] = s[k]
  <2>1. k \in 1..m + n /\ k <= m
    BY <1>1
  <2> QED BY <1>3, <1>4, <2>1
<1>6. ASSUME NEW k \in 1..n PROVE f[(p + m) + k] = t[k]
  <2>1. m + k \in 1..m + n /\ ~(m + k <= m) /\ (m + k) - m = k /\ p + (m + k) = (p + m) + k
    BY <1>1
  <2>2. u[m + k] = t[k]
    BY <1>3, <2>1
  <2>3. f[p + (m + k)] = u[m + k]
    BY <1>4, <2>1
  <2> QED BY <2>1, <2>2, <2>3
<1> QED BY <1>1, <1>4, <1>5, <1>6 DEF At

\* The first k of some sequences put end to end, for every k: what FlattenSeq computes.
PartsUpTo(s) ==
  CHOOSE f : f = [k \in 1..Len(s) |-> IF k = 1 THEN s[k] ELSE f[k - 1] \o s[k]]

\* The recursion of FlattenSeq has a solution.
LEMMA PartsUpToExist ==
  ASSUME NEW s, Len(s) \in Nat
  PROVE  PartsUpTo(s) = [k \in 1..Len(s) |-> IF k = 1 THEN s[k] ELSE PartsUpTo(s)[k - 1] \o s[k]]
<1> DEFINE n == Len(s)
           T == {m \in 1..n : \E g : g = [k \in 1..m |-> IF k = 1 THEN s[k] ELSE g[k - 1] \o s[k]]}
<1>1. \E g : g = [k \in 1..n |-> IF k = 1 THEN s[k] ELSE g[k - 1] \o s[k]]
  <2>1. CASE n = 0
    <3>1. [k \in 1..n |-> 0] = [k \in 1..n |-> IF k = 1 THEN s[k] ELSE [j \in 1..n |-> 0][k - 1] \o s[k]]
      BY <2>1
    <3> QED BY <3>1
  <2>2. CASE n # 0
    <3>1. 1 \in T
      <4>1. 1 \in 1..n
        BY <2>2
      <4> DEFINE g == [k \in 1..1 |-> s[k]]
      <4>2. g = [k \in 1..1 |-> IF k = 1 THEN s[k] ELSE g[k - 1] \o s[k]]
        OBVIOUS
      <4> HIDE DEF g
      <4> QED BY <4>1, <4>2
    <3>2. ASSUME NEW m \in 1..n - 1, m \in T
          PROVE  m + 1 \in T
      <4>1. PICK g : g = [k \in 1..m |-> IF k = 1 THEN s[k] ELSE g[k - 1] \o s[k]]
        BY <3>2
      <4> DEFINE h == [k \in 1..m + 1 |-> IF k <= m THEN g[k] ELSE g[m] \o s[m + 1]]
      <4>2. ASSUME NEW k \in 1..m + 1
            PROVE  h[k] = IF k = 1 THEN s[k] ELSE h[k - 1] \o s[k]
        <5>1. CASE k \in 1..m
          <6>1. h[k] = g[k] /\ (k # 1 => h[k - 1] = g[k - 1])
            BY <5>1
          <6>2. g[k] = IF k = 1 THEN s[k] ELSE g[k - 1] \o s[k]
            BY <4>1, <5>1
          <6> QED BY <6>1, <6>2
        <5>2. CASE k = m + 1
          <6>1. ~(k <= m) /\ k - 1 = m /\ m \in 1..m + 1 /\ m <= m /\ k # 1
            BY <5>2
          <6>2. h[m] = g[m]
            BY <6>1
          <6>3. h[k] = g[m] \o s[m + 1]
            BY <6>1
          <6> QED BY <5>2, <6>1, <6>2, <6>3
        <5> QED BY <5>1, <5>2
      <4>3. h = [k \in 1..m + 1 |-> h[k]]
        OBVIOUS
      <4> HIDE DEF h
      <4>4. h = [k \in 1..m + 1 |-> IF k = 1 THEN s[k] ELSE h[k - 1] \o s[k]]
        BY <4>2, <4>3
      <4>5. m + 1 \in 1..n
        OBVIOUS
      <4> QED BY <4>4, <4>5
    <3> HIDE DEF T
    <3>3. n \in 1..n /\ 1..n \subseteq T
      BY <2>2, <3>1, <3>2, Steps
    <3> QED BY <3>3 DEF T
  <2> QED BY <2>1, <2>2
<1> QED BY <1>1 DEF PartsUpTo

\* FlattenSeq and its prefixes, one from the other.
LEMMA PartsUpToAre ==
  ASSUME NEW S, NEW s \in Seq(Seq(S)), Len(s) # 0
  PROVE  /\ FlattenSeq(s) = PartsUpTo(s)[Len(s)]
         /\ \A k \in 1..Len(s) : PartsUpTo(s)[k] \in Seq(S)
         /\ PartsUpTo(s)[1] = s[1]
         /\ \A k \in 1..Len(s) - 1 : PartsUpTo(s)[k + 1] = PartsUpTo(s)[k] \o s[k + 1]
<1> DEFINE n == Len(s)
           P == PartsUpTo(s)
           T == {k \in 1..n : P[k] \in Seq(S)}
<1>0. n \in Nat \ {0} /\ \A k \in 1..n : s[k] \in Seq(S)
  OBVIOUS
<1>1. FlattenSeq(s) = P[n]
  BY Zenon DEF FlattenSeq, PartsUpTo
<1>2. P = [k \in 1..n |-> IF k = 1 THEN s[k] ELSE P[k - 1] \o s[k]]
  BY <1>0, PartsUpToExist
<1> HIDE DEF P, n
<1>3. P[1] = s[1]
  BY <1>0, <1>2
<1>4. ASSUME NEW k \in 1..n - 1
      PROVE  P[k + 1] = P[k] \o s[k + 1]
  <2>1. k + 1 \in 1..n /\ k + 1 # 1 /\ (k + 1) - 1 = k
    BY <1>0
  <2> QED BY <1>2, <2>1
<1>5. 1..n \subseteq T
  <2>1. 1 \in T
    BY <1>0, <1>3
  <2>2. ASSUME NEW k \in 1..n - 1, k \in T
        PROVE  k + 1 \in T
    <3>1. k + 1 \in 1..n /\ k \in 1..n
      BY <1>0
    <3>2. P[k] \in Seq(S) /\ s[k + 1] \in Seq(S)
      BY <1>0, <2>2, <3>1
    <3>3. P[k] \o s[k + 1] \in Seq(S)
      BY <3>2, ConcatProperties
    <3> QED BY <1>4, <3>1, <3>3
  <2> HIDE DEF T
  <2> QED BY <1>0, <2>1, <2>2, Steps
<1> QED BY <1>1, <1>3, <1>4, <1>5 DEF P, n

\* Where each of the sequences starts when they are put end to end from p on.
Starts(s, p) == [e \in 1..Len(s) + 1 |-> IF e = 1 THEN p ELSE p + Len(PartsUpTo(s)[e - 1])]

\* No sequences end to end are no items.
LEMMA FlattenNone ==
  ASSUME NEW S, NEW s \in Seq(Seq(S)), Len(s) = 0
  PROVE  FlattenSeq(s) \in Seq(S) /\ Len(FlattenSeq(s)) = 0
<1>1. FlattenSeq(s) = s
  BY Zenon DEF FlattenSeq
<1>2. s = <<>>
  BY EmptySeq
<1> QED BY <1>1, <1>2

\* Where each of the sequences put end to end begins, and where the last one ends.
LEMMA StartsAre ==
  ASSUME NEW S, NEW s \in Seq(Seq(S)), NEW p \in Nat
  PROVE  /\ FlattenSeq(s) \in Seq(S) /\ Len(s) \in Nat
         /\ \A e \in 1..Len(s) + 1 : Starts(s, p)[e] \in Nat
         /\ Starts(s, p)[1] = p
         /\ \A e \in 1..Len(s) : Starts(s, p)[e + 1] = Starts(s, p)[e] + Len(s[e])
         /\ Starts(s, p)[Len(s) + 1] = p + Len(FlattenSeq(s))
<1> DEFINE n == Len(s)
           P == PartsUpTo(s)
           B == Starts(s, p)
<1>0. /\ n \in Nat /\ \A k \in 1..n : s[k] \in Seq(S)
      /\ \A e \in 1..n + 1 : B[e] = IF e = 1 THEN p ELSE p + Len(P[e - 1])
  BY DEF Starts
<1>1. CASE n = 0
  <2>1. FlattenSeq(s) \in Seq(S) /\ Len(FlattenSeq(s)) = 0
    BY <1>1, FlattenNone
  <2> HIDE DEF B, n
  <2> QED BY <1>0, <1>1, <2>1 DEF B, n
<1>2. CASE n # 0
  <2>1. /\ FlattenSeq(s) = P[n] /\ P[1] = s[1]
        /\ \A k \in 1..n : P[k] \in Seq(S)
        /\ \A k \in 1..n - 1 : P[k + 1] = P[k] \o s[k + 1]
    BY <1>2, PartsUpToAre
  <2> HIDE DEF P, B, n
  <2>2. \A k \in 1..n : Len(P[k]) \in Nat
    BY <2>1
  <2>3. ASSUME NEW e \in 1..n + 1 PROVE B[e] \in Nat
    <3>1. CASE e = 1
      BY <1>0, <3>1
    <3>2. CASE e # 1
      <4>1. e - 1 \in 1..n
        BY <1>0, <3>2
      <4>2. B[e] = p + Len(P[e - 1])
        BY <1>0, <3>2
      <4> QED BY <2>2, <4>1, <4>2
    <3> QED BY <3>1, <3>2
  <2>4. B[1] = p
    BY <1>0
  <2>5. ASSUME NEW e \in 1..n PROVE B[e + 1] = B[e] + Len(s[e])
    <3>1. e + 1 \in 1..n + 1 /\ e + 1 # 1 /\ (e + 1) - 1 = e /\ e \in 1..n + 1
      BY <1>0
    <3>2. B[e + 1] = p + Len(P[e])
      BY <1>0, <3>1
    <3>3. CASE e = 1
      BY <2>1, <2>4, <3>2, <3>3
    <3>4. CASE e # 1
      <4>1. e - 1 \in 1..n /\ e - 1 \in 1..n - 1 /\ (e - 1) + 1 = e
        BY <1>0, <3>4
      <4>2. P[e] = P[e - 1] \o s[e]
        BY <2>1, <4>1
      <4>3. P[e - 1] \in Seq(S) /\ s[e] \in Seq(S)
        BY <1>0, <2>1, <4>1
      <4>4. Len(P[e - 1] \o s[e]) = Len(P[e - 1]) + Len(s[e])
        BY <4>3, ConcatProperties, Zenon
      <4>5. B[e] = p + Len(P[e - 1])
        BY <1>0, <3>1, <3>4
      <4>6. Len(P[e - 1]) \in Nat /\ Len(s[e]) \in Nat
        BY <4>3
      <4>7. Len(P[e]) = Len(P[e - 1]) + Len(s[e])
        BY <4>2, <4>4
      <4> DEFINE x == Len(P[e - 1])
                 y == Len(s[e])
      <4>8. B[e + 1] = p + (x + y) /\ B[e] = p + x /\ x \in Nat /\ y \in Nat
        BY <3>2, <4>5, <4>6, <4>7
      <4> HIDE DEF x, y
      <4>9. B[e + 1] = B[e] + y
        BY <4>8
      <4> QED BY <4>9 DEF y
    <3> QED BY <3>3, <3>4
  <2>6. B[n + 1] = p + Len(FlattenSeq(s))
    <3>1. n + 1 \in 1..n + 1 /\ n + 1 # 1 /\ (n + 1) - 1 = n
      BY <1>0, <1>2
    <3> QED BY <1>0, <2>1, <3>1
  <2>7. FlattenSeq(s) \in Seq(S)
    BY <1>0, <1>2, <2>1
  <2> QED BY <1>0, <2>3, <2>4, <2>5, <2>6, <2>7 DEF B, n
<1> QED BY <1>1, <1>2

\* Each of the sequences is where it starts.
LEMMA FlattenAt ==
  ASSUME NEW S, NEW s \in Seq(Seq(S)), NEW f, Len(f) \in Nat, NEW p \in Nat,
         At(f, p, FlattenSeq(s)), NEW e \in 1..Len(s)
  PROVE  At(f, Starts(s, p)[e], s[e])
<1> DEFINE n == Len(s)
           P == PartsUpTo(s)
           B == Starts(s, p)
           T == {m \in 1..n : At(f, p, P[m]) => \A d \in 1..m : At(f, B[d], s[d])}
<1>0. n \in Nat \ {0} /\ \A k \in 1..n : s[k] \in Seq(S)
  OBVIOUS
<1>1. /\ FlattenSeq(s) = P[n] /\ P[1] = s[1]
      /\ \A k \in 1..n : P[k] \in Seq(S)
      /\ \A k \in 1..n - 1 : P[k + 1] = P[k] \o s[k + 1]
  BY <1>0, PartsUpToAre
<1>2. B[1] = p /\ \A k \in 1..n - 1 : B[k + 1] = p + Len(P[k])
  <2>1. 1 \in 1..n + 1 /\ \A k \in 1..n - 1 : k + 1 \in 1..n + 1 /\ k + 1 # 1 /\ (k + 1) - 1 = k
    BY <1>0
  <2> QED BY <2>1 DEF Starts
<1> HIDE DEF P, B, n
<1>3. 1 \in T
  <2>1. 1 \in 1..n /\ 1..1 = {1}
    BY <1>0
  <2> QED BY <1>1, <1>2, <2>1
<1>4. ASSUME NEW m \in 1..n - 1, m \in T
      PROVE  m + 1 \in T
  <2>1. m + 1 \in 1..n /\ m \in 1..n /\ 1..m + 1 = (1..m) \cup {m + 1}
    BY <1>0
  <2>2. SUFFICES ASSUME At(f, p, P[m + 1]) PROVE \A d \in 1..m + 1 : At(f, B[d], s[d])
    BY <2>1
  <2>3. P[m] \in Seq(S) /\ s[m + 1] \in Seq(S) /\ P[m + 1] = P[m] \o s[m + 1]
    BY <1>0, <1>1, <2>1
  <2>4. At(f, p, P[m]) /\ At(f, p + Len(P[m]), s[m + 1])
    <3>1. At(f, p, P[m] \o s[m + 1])
      BY <2>2, <2>3
    <3> QED BY <2>3, <3>1, AtParts, Zenon
  <2> QED BY <1>2, <1>4, <2>1, <2>4
<1> HIDE DEF T
<1>5. n \in T
  <2>1. 1..n \subseteq T
    BY <1>0, <1>3, <1>4, Steps
  <2> QED BY <1>0, <2>1
<1> QED BY <1>1, <1>5 DEF T, B, n
-------------------------------------------------------------------------------
\* Where the parts of a class file are.
Kinds == {"field", "method"}
Members(c, kind) == IF kind = "field" THEN c.fields ELSE c.methods
Signature(kind, m) == IF kind = "field" THEN FieldText(m) ELSE MethodText(m)
CodeSlot(c) == SlotOf(PoolOf(c), Utf8(NameText("Code")))
SignatureSlot(c, kind, m) == SlotOf(PoolOf(c), Utf8(Signature(kind, m)))
ClassSlot(c, t) == SlotOf(PoolOf(c), ClassOf(t))
Count16(c) == Slot(PoolOf(c), Len(PoolOf(c)) + 1)

ConstantParts(c) == [e \in 1..Len(PoolOf(c)) |-> ConstantCells(PoolOf(c), e)]
CodeCells(c) == <<CodeSlot(c), c.length>> \o [k \in 1..c.length |-> 0]
CodeParts(c) == [k \in 1..c.attributes |-> CodeCells(c)]
MemberPart(c, kind, m) == MemberCells(PoolOf(c), c, Signature(kind, m))
MemberParts(c, kind) == [k \in 1..Len(Members(c, kind)) |-> MemberPart(c, kind, Members(c, kind)[k])]
Info(c) == <<c.flags, ClassSlot(c, c.this), IF c.super = <<>> THEN 0 ELSE ClassSlot(c, c.super[1])>>
InterfaceSlots(c) == [k \in 1..Len(c.interfaces) |-> ClassSlot(c, c.interfaces[k])]

\* The number of cells before the class's own items, before the number of its fields or methods
\* and before the number of its attributes.
InfoAt(c) == 4 + Len(FlattenSeq(ConstantParts(c)))
FieldsAt(c) == InfoAt(c) + 4 + Len(c.interfaces)
MethodsAt(c) == FieldsAt(c) + 1 + Len(FlattenSeq(MemberParts(c, "field")))
EndAt(c) == MethodsAt(c) + 1 + Len(FlattenSeq(MemberParts(c, "method")))
MembersAt(c, kind) == IF kind = "field" THEN FieldsAt(c) ELSE MethodsAt(c)

\* The cells before the constant e, before a member and before one of a member's attributes.
ConstantAt(c, e) == Starts(ConstantParts(c), 4)[e]
MemberAt(c, kind, k) == Starts(MemberParts(c, kind), MembersAt(c, kind) + 1)[k]
AttributeAt(c, kind, k, a) == Starts(CodeParts(c), MemberAt(c, kind, k) + 4)[a]

\* What the parser makes of a constant.
Parsed(c, e) ==
  LET entry == PoolOf(c)[e] IN
  [tag |-> entry.tag,
   index |-> IF entry.tag = "Class" THEN SlotOf(PoolOf(c), Utf8(entry.text)) ELSE 0,
   text |-> IF entry.tag = "Utf8" THEN ReadText(entry.text) ELSE NameText(NoName)]
\* A slot of the pool.
Slots == [tag : Strings \cup {"garbage"}, index : Nat, text : Texts]
\* The pool has its final size and the constants before number e.
Filled(c, e) ==
  /\ pool \in Seq(Slots) /\ Len(pool) = Count16(c) /\ Count16(c) < Half
  /\ \A d \in 1..e - 1 : pool[Slot(PoolOf(c), d) + 1] = Parsed(c, d)
AllFilled(c) == Filled(c, Len(PoolOf(c)) + 1)

\* The references the first n interfaces, fields or methods add.
SuperName(c) == IF c.super = <<>> THEN "java/lang/Object" ELSE Named(c.super[1])
InterfaceNames(c, n) == {Named(c.interfaces[k]) : k \in 1..n}
MemberRefs(kind, m) ==
  IF kind = "field" THEN TypeRefs(m)
  ELSE TypeRefs(m.type) \cup ({t.class : t \in Range(m.params)} \ {""})
MembersRefs(c, kind, n) == UNION {MemberRefs(kind, Members(c, kind)[k]) : k \in 1..n}
RefsBefore(c, kind) ==
  {SuperName(c)} \cup InterfaceNames(c, Len(c.interfaces))
  \cup (IF kind = "field" THEN {} ELSE MembersRefs(c, "field", Len(c.fields)))

-------------------------------------------------------------------------------
\* The constant pool of a class.

\* x is an element of the sequence s.
Occurs(x, s) == \E k \in 1..Len(s) : s[k] = x

\* What is in either of two sequences is in the two put together.
LEMMA Among ==
  ASSUME NEW S, NEW s \in Seq(S), NEW t \in Seq(S)
  PROVE  /\ s \o t \in Seq(S)
         /\ \A x : Occurs(x, s) \/ Occurs(x, t) => Occurs(x, s \o t)
<1>1. /\ s \o t \in Seq(S) /\ Len(s \o t) = Len(s) + Len(t)
      /\ \A k \in 1..Len(s) + Len(t) : (s \o t)[k] = IF k <= Len(s) THEN s[k] ELSE t[k - Len(s)]
  BY ConcatProperties, Zenon
<1>2. Len(s) \in Nat /\ Len(t) \in Nat
  OBVIOUS
<1> DEFINE u == s \o t
           m == Len(s)
           n == Len(t)
<1> HIDE DEF u
<1>3. Len(u) = m + n /\ \A k \in 1..m + n : u[k] = IF k <= m THEN s[k] ELSE t[k - m]
  BY <1>1 DEF u
<1>4. ASSUME NEW x, NEW k \in 1..m, s[k] = x
      PROVE  Occurs(x, u)
  <2>1. k \in 1..m + n /\ k <= m
    BY <1>2
  <2> QED BY <1>3, <1>4, <2>1 DEF Occurs
<1>5. ASSUME NEW x, NEW k \in 1..n, t[k] = x
      PROVE  Occurs(x, u)
  <2>1. m + k \in 1..m + n /\ ~(m + k <= m) /\ (m + k) - m = k
    BY <1>2
  <2>2. u[m + k] = t[k]
    BY <1>3, <2>1
  <2> QED BY <1>3, <1>5, <2>1, <2>2 DEF Occurs
<1>6. ASSUME NEW x, Occurs(x, s) \/ Occurs(x, t)
      PROVE  Occurs(x, u)
  <2>1. CASE Occurs(x, s)
    BY <1>4, <2>1 DEF Occurs
  <2>2. CASE Occurs(x, t)
    BY <1>5, <2>2 DEF Occurs
  <2> QED BY <1>6, <2>1, <2>2
<1> QED BY <1>1, <1>6 DEF u

\* SetToSeq puts the elements of a finite set into a sequence.
LEMMA SetAsSeq ==
  ASSUME NEW S, IsFiniteSet(S)
  PROVE  SetToSeq(S) \in Seq(S) /\ \A x \in S : Occurs(x, SetToSeq(S))
<1> DEFINE n == Cardinality(S)
<1>1. n \in Nat /\ ExistsBijection(1..n, S)
  BY FS_CardinalityType
<1>2. \E f \in [1..n -> S] : IsInjective(f)
  BY <1>1 DEF ExistsBijection, Bijection, Injection
<1>3. SetToSeq(S) \in [1..n -> S] /\ IsInjective(SetToSeq(S))
  BY <1>2 DEF SetToSeq
<1>4. SetToSeq(S) \in Injection(1..n, S)
  BY <1>3 DEF Injection
<1>5. IsFiniteSet(1..n) /\ Cardinality(1..n) = n
  <2>1. n \in Int /\ 1 \in Int
    BY <1>1
  <2>2. Cardinality(1..n) = IF 1 > n THEN 0 ELSE n - 1 + 1
    BY <2>1, FS_Interval
  <2>3. IsFiniteSet(1..n)
    BY <2>1, FS_Interval
  <2> HIDE DEF n
  <2> QED BY <1>1, <2>2, <2>3
<1>6. SetToSeq(S) \in Surjection(1..n, S)
  BY <1>4, <1>5, FS_Injection
<1>7. \A x \in S : \E k \in 1..n : SetToSeq(S)[k] = x
  BY <1>6 DEF Surjection
<1> DEFINE q == SetToSeq(S)
<1> HIDE DEF q, n
<1>8. q \in Seq(S) /\ Len(q) = n
  BY <1>1, <1>3 DEF q
<1> QED BY <1>7, <1>8 DEF Occurs, q

\* The image of a sequence is a finite set.
LEMMA ImageFinite ==
  ASSUME NEW s, Len(s) \in Nat, NEW T, NEW g, DOMAIN g = 1..Len(s), T = {g[k] : k \in 1..Len(s)},
         g = [k \in 1..Len(s) |-> g[k]]
  PROVE  IsFiniteSet(T)
<1>1. g \in Surjection(1..Len(s), T)
  BY DEF Surjection
<1>2. IsFiniteSet(1..Len(s))
  <2>1. 1 \in Int /\ Len(s) \in Int
    OBVIOUS
  <2> QED BY <2>1, FS_Interval
<1> QED BY <1>1, <1>2, FS_Surjection

\* The strings a compiler makes of names and signatures, and the constants that hold them.
LEMMA TextsAre ==
  /\ NameText("Code") \in Texts /\ NameText("") \in Texts
  /\ \A f \in Types : FieldText(f) \in Texts
  /\ \A m \in Signatures : MethodText(m) \in Texts
  /\ \A t \in Texts : Utf8(t) \in Entries /\ ClassOf(t) \in Entries
<1>1. <<>> \in Seq(Types)
  BY EmptySeq
<1>2. Type("") \in Types
  BY DEF Types, Type, Strings
<1>3. NameText("Code") \in Texts /\ NameText("") \in Texts
  BY <1>1, <1>2 DEF NameText, Text, Texts, Strings
<1>4. ASSUME NEW f \in Types PROVE FieldText(f) \in Texts
  BY <1>1 DEF FieldText, Text, Texts, Strings
<1>5. ASSUME NEW m \in Signatures PROVE MethodText(m) \in Texts
  <2>1. m.params \in Seq(Types) /\ m.type \in Types
    BY DEF Signatures
  <2> QED BY <2>1 DEF MethodText, Text, Texts, Strings
<1>6. \A t \in Texts : Utf8(t) \in Entries /\ ClassOf(t) \in Entries
  BY DEF Utf8, ClassOf, Entries, Strings, KnownTags, Single
<1> QED BY <1>3, <1>4, <1>5, <1>6
\* What a class is.
LEMMA ClassIs ==
  ASSUME NEW c \in Classes
  PROVE  /\ c.first \in Seq(Entries) /\ c.mid \in Seq(Entries) /\ c.this \in Texts
         /\ c.super \in Seq(Texts) /\ Len(c.super) <= 1 /\ c.interfaces \in Seq(Texts)
         /\ c.fields \in Seq(Types) /\ c.methods \in Seq(Signatures)
         /\ c.attributes \in Nat /\ c.length \in Nat /\ c.flags \in SUBSET Strings
BY LegalAssumption DEF Legal, Shape

\* The classes a class names.
NamedIn(c) == {c.this} \cup {c.super[k] : k \in 1..Len(c.super)} \cup {c.interfaces[k] : k \in 1..Len(c.interfaces)}

\* Every class that a class names in its own items is in NamedBy.
LEMMA NamedByIs ==
  ASSUME NEW c \in Classes
  PROVE  NamedBy(c) \in Seq(Texts) /\ \A t \in NamedIn(c) : Occurs(t, NamedBy(c))
<1>1. /\ c.this \in Texts /\ c.super \in Seq(Texts) /\ c.interfaces \in Seq(Texts)
  BY ClassIs
<1>2. <<c.this>> \in Seq(Texts) /\ Occurs(c.this, <<c.this>>)
  BY <1>1 DEF Occurs
<1> DEFINE a == <<c.this>> \o c.super
<1>3. a \in Seq(Texts) /\ \A x : Occurs(x, <<c.this>>) \/ Occurs(x, c.super) => Occurs(x, a)
  BY <1>1, <1>2, Among
<1> HIDE DEF a
<1>4. /\ a \o c.interfaces \in Seq(Texts)
      /\ \A x : Occurs(x, a) \/ Occurs(x, c.interfaces) => Occurs(x, a \o c.interfaces)
  BY <1>1, <1>3, Among
<1>5. \A k \in 1..Len(c.super) : Occurs(c.super[k], c.super)
  BY DEF Occurs
<1>6. \A k \in 1..Len(c.interfaces) : Occurs(c.interfaces[k], c.interfaces)
  BY DEF Occurs
<1> QED BY <1>2, <1>3, <1>4, <1>5, <1>6 DEF NamedBy, NamedIn, a

\* The constants of a sequence of class names.
LEMMA MappedClasses ==
  ASSUME NEW s \in Seq(Texts)
  PROVE  /\ MapSeq(ClassOf, s) \in Seq(Entries) /\ MapSeq(Utf8, s) \in Seq(Entries)
         /\ \A t : Occurs(t, s) => Occurs(ClassOf(t), MapSeq(ClassOf, s)) /\ Occurs(Utf8(t), MapSeq(Utf8, s))
<1>1. Len(s) \in Nat /\ \A k \in 1..Len(s) : s[k] \in Texts
  OBVIOUS
<1> DEFINE a == [k \in 1..Len(s) |-> ClassOf(s[k])]
           b == [k \in 1..Len(s) |-> Utf8(s[k])]
<1>2. a = MapSeq(ClassOf, s) /\ b = MapSeq(Utf8, s)
  BY DEF MapSeq
<1>3. a \in Seq(Entries) /\ Len(a) = Len(s)
  <2>1. \A k \in 1..Len(s) : ClassOf(s[k]) \in Entries
    BY <1>1, TextsAre
  <2> QED BY <1>1, <2>1
<1>4. b \in Seq(Entries) /\ Len(b) = Len(s)
  <2>1. \A k \in 1..Len(s) : Utf8(s[k]) \in Entries
    BY <1>1, TextsAre
  <2> QED BY <1>1, <2>1
<1>5. ASSUME NEW t, NEW k \in 1..Len(s), s[k] = t
      PROVE  Occurs(ClassOf(t), a) /\ Occurs(Utf8(t), b)
  <2>1. a[k] = ClassOf(t) /\ b[k] = Utf8(t)
    BY <1>5
  <2> HIDE DEF a, b
  <2> QED BY <1>3, <1>4, <2>1 DEF Occurs
<1> HIDE DEF a, b
<1>6. \A t : Occurs(t, s) => Occurs(ClassOf(t), a) /\ Occurs(Utf8(t), b)
  BY <1>5 DEF Occurs
<1> QED BY <1>2, <1>3, <1>4, <1>6

\* The signatures of the fields and of the methods, put into sequences.
FieldTexts(c) == {Utf8(FieldText(f)) : f \in Range(c.fields)}
MethodTexts(c) == {Utf8(MethodText(m)) : m \in Range(c.methods)}

\* The constants of the members' signatures.
LEMMA SignaturesAre ==
  ASSUME NEW c \in Classes
  PROVE  /\ SetToSeq(FieldTexts(c)) \in Seq(Entries) /\ SetToSeq(MethodTexts(c)) \in Seq(Entries)
         /\ \A k \in 1..Len(c.fields) : Occurs(Utf8(FieldText(c.fields[k])), SetToSeq(FieldTexts(c)))
         /\ \A k \in 1..Len(c.methods) : Occurs(Utf8(MethodText(c.methods[k])), SetToSeq(MethodTexts(c)))
<1>1. /\ c.fields \in Seq(Types) /\ c.methods \in Seq(Signatures)
      /\ Len(c.fields) \in Nat /\ Len(c.methods) \in Nat
  BY ClassIs
<1>2. /\ Range(c.fields) = {c.fields[k] : k \in 1..Len(c.fields)}
      /\ Range(c.methods) = {c.methods[k] : k \in 1..Len(c.methods)}
  BY <1>1 DEF Range
<1> DEFINE F == FieldTexts(c)
           M == MethodTexts(c)
           f == [k \in 1..Len(c.fields) |-> Utf8(FieldText(c.fields[k]))]
           m == [k \in 1..Len(c.methods) |-> Utf8(MethodText(c.methods[k]))]
<1>3. F = {f[k] : k \in 1..Len(c.fields)} /\ M = {m[k] : k \in 1..Len(c.methods)}
  <2>1. F = {Utf8(FieldText(x)) : x \in {c.fields[k] : k \in 1..Len(c.fields)}}
    BY <1>2 DEF FieldTexts
  <2>2. M = {Utf8(MethodText(x)) : x \in {c.methods[k] : k \in 1..Len(c.methods)}}
    BY <1>2 DEF MethodTexts
  <2>3. \A k \in 1..Len(c.fields) : f[k] = Utf8(FieldText(c.fields[k]))
    OBVIOUS
  <2>4. \A k \in 1..Len(c.methods) : m[k] = Utf8(MethodText(c.methods[k]))
    OBVIOUS
  <2> HIDE DEF F, M, f, m
  <2>5. F = {f[k] : k \in 1..Len(c.fields)}
    BY <2>1, <2>3
  <2>6. M = {m[k] : k \in 1..Len(c.methods)}
    BY <2>2, <2>4
  <2> QED BY <2>5, <2>6
<1>4. F \subseteq Entries
  <2>1. \A k \in 1..Len(c.fields) : c.fields[k] \in Types
    BY <1>1
  <2>2. \A k \in 1..Len(c.fields) : f[k] \in Entries
    BY <2>1, TextsAre
  <2> QED BY <1>3, <2>2
<1>5. M \subseteq Entries
  <2>1. \A k \in 1..Len(c.methods) : c.methods[k] \in Signatures
    BY <1>1
  <2>2. \A k \in 1..Len(c.methods) : m[k] \in Entries
    BY <2>1, TextsAre
  <2> QED BY <1>3, <2>2
<1>6. \A k \in 1..Len(c.fields) : Utf8(FieldText(c.fields[k])) \in F
  BY <1>2 DEF FieldTexts
<1>7. \A k \in 1..Len(c.methods) : Utf8(MethodText(c.methods[k])) \in M
  BY <1>2 DEF MethodTexts
<1>8. /\ DOMAIN f = 1..Len(c.fields) /\ f = [k \in 1..Len(c.fields) |-> f[k]]
      /\ DOMAIN m = 1..Len(c.methods) /\ m = [k \in 1..Len(c.methods) |-> m[k]]
  OBVIOUS
<1> HIDE DEF F, M, f, m
<1>9. IsFiniteSet(F)
  BY <1>1, <1>3, <1>8, ImageFinite
<1>10. IsFiniteSet(M)
  BY <1>1, <1>3, <1>8, ImageFinite
<1>11. SetToSeq(F) \in Seq(F) /\ \A x \in F : Occurs(x, SetToSeq(F))
  BY <1>9, SetAsSeq
<1>12. SetToSeq(M) \in Seq(M) /\ \A x \in M : Occurs(x, SetToSeq(M))
  BY <1>10, SetAsSeq
<1>13. SetToSeq(F) \in Seq(Entries)
  BY <1>4, <1>11, SeqMonotonic
<1>14. SetToSeq(M) \in Seq(Entries)
  BY <1>5, <1>12, SeqMonotonic
<1> QED BY <1>6, <1>7, <1>11, <1>12, <1>13, <1>14 DEF F, M

\* The constant pool has a constant for every name and every signature.
LEMMA PoolIs ==
  ASSUME NEW c \in Classes
  PROVE  /\ PoolOf(c) \in Seq(Entries)
         /\ Occurs(Utf8(NameText("Code")), PoolOf(c))
         /\ \A t \in NamedIn(c) : Occurs(ClassOf(t), PoolOf(c)) /\ Occurs(Utf8(t), PoolOf(c))
         /\ \A k \in 1..Len(c.fields) : Occurs(Utf8(FieldText(c.fields[k])), PoolOf(c))
         /\ \A k \in 1..Len(c.methods) : Occurs(Utf8(MethodText(c.methods[k])), PoolOf(c))
<1> DEFINE a == c.first
           b == MapSeq(ClassOf, NamedBy(c))
           d == c.mid
           e == MapSeq(Utf8, NamedBy(c))
           f == SetToSeq(FieldTexts(c))
           g == SetToSeq(MethodTexts(c))
           h == <<Utf8(NameText("Code"))>>
<1>1. /\ a \in Seq(Entries) /\ b \in Seq(Entries) /\ d \in Seq(Entries) /\ e \in Seq(Entries)
      /\ f \in Seq(Entries) /\ g \in Seq(Entries) /\ h \in Seq(Entries)
  <2>1. a \in Seq(Entries) /\ d \in Seq(Entries)
    BY ClassIs
  <2>2. b \in Seq(Entries) /\ e \in Seq(Entries)
    BY NamedByIs, MappedClasses
  <2>3. f \in Seq(Entries) /\ g \in Seq(Entries)
    BY SignaturesAre
  <2>4. h \in Seq(Entries)
    <3>1. Utf8(NameText("Code")) \in Entries
      BY TextsAre
    <3> HIDE DEF a, b, d, e, f, g
    <3> QED BY <3>1
  <2> QED BY <2>1, <2>2, <2>3, <2>4
<1>2. /\ \A t \in NamedIn(c) : Occurs(ClassOf(t), b) /\ Occurs(Utf8(t), e)
      /\ \A k \in 1..Len(c.fields) : Occurs(Utf8(FieldText(c.fields[k])), f)
      /\ \A k \in 1..Len(c.methods) : Occurs(Utf8(MethodText(c.methods[k])), g)
      /\ Occurs(Utf8(NameText("Code")), h)
  <2>1. \A t \in NamedIn(c) : Occurs(ClassOf(t), b) /\ Occurs(Utf8(t), e)
    BY NamedByIs, MappedClasses
  <2>2. Occurs(Utf8(NameText("Code")), h)
    BY DEF Occurs
  <2> QED BY <2>1, <2>2, SignaturesAre
<1>3. PoolOf(c) = a \o b \o d \o e \o f \o g \o h
  BY Zenon DEF PoolOf, FieldTexts, MethodTexts
<1> HIDE DEF a, b, d, e, f, g, h
<1> DEFINE p == a \o b
           q == p \o d
           r == q \o e
           s == r \o f
           t == s \o g
<1>4. p \in Seq(Entries) /\ \A x : Occurs(x, a) \/ Occurs(x, b) => Occurs(x, p)
  BY <1>1, Among
<1> HIDE DEF p
<1>5. q \in Seq(Entries) /\ \A x : Occurs(x, p) \/ Occurs(x, d) => Occurs(x, q)
  BY <1>1, <1>4, Among
<1> HIDE DEF q
<1>6. r \in Seq(Entries) /\ \A x : Occurs(x, q) \/ Occurs(x, e) => Occurs(x, r)
  BY <1>1, <1>5, Among
<1> HIDE DEF r
<1>7. s \in Seq(Entries) /\ \A x : Occurs(x, r) \/ Occurs(x, f) => Occurs(x, s)
  BY <1>1, <1>6, Among
<1> HIDE DEF s
<1>8. t \in Seq(Entries) /\ \A x : Occurs(x, s) \/ Occurs(x, g) => Occurs(x, t)
  BY <1>1, <1>7, Among
<1> HIDE DEF t
<1>9. t \o h \in Seq(Entries) /\ \A x : Occurs(x, t) \/ Occurs(x, h) => Occurs(x, t \o h)
  BY <1>1, <1>8, Among
<1>10. PoolOf(c) = t \o h
  BY <1>3, Zenon DEF p, q, r, s, t
<1> QED BY <1>2, <1>4, <1>5, <1>6, <1>7, <1>8, <1>9, <1>10
\* The numbers of the constants, one after the other.
LEMMA SlotIs ==
  ASSUME NEW P \in Seq(Entries)
  PROVE  /\ Len(P) \in Nat /\ Slot(P, 1) = 1
         /\ \A e \in 1..Len(P) : Slot(P, e + 1) = Slot(P, e) + (IF P[e].tag \in Wide THEN 2 ELSE 1)
         /\ \A e \in 1..Len(P) + 1 : Slot(P, e) \in Nat \ {0}
         /\ \A d, e \in 1..Len(P) + 1 : d < e => Slot(P, d) < Slot(P, e)
<1> DEFINE W(e) == {d \in 1..e - 1 : P[d].tag \in Wide}
           n == Len(P)
<1>1. n \in Nat
  OBVIOUS
<1>2. \A e : Slot(P, e) = e + Cardinality(W(e))
  BY Zenon DEF Slot
<1> HIDE DEF n
<1>3. ASSUME NEW e \in 1..n + 1
      PROVE  IsFiniteSet(W(e)) /\ Cardinality(W(e)) \in Nat
  <2>1. 1 \in Int /\ e - 1 \in Int
    BY <1>1
  <2>2. IsFiniteSet(1..e - 1)
    BY <2>1, FS_Interval
  <2>3. W(e) \in SUBSET (1..e - 1)
    OBVIOUS
  <2> HIDE DEF W
  <2>4. IsFiniteSet(W(e))
    BY <2>2, <2>3, FS_Subset
  <2> QED BY <2>4, FS_CardinalityType
<1>4. Slot(P, 1) = 1
  <2>1. W(1) = {}
    OBVIOUS
  <2> HIDE DEF W
  <2>2. Cardinality(W(1)) = 0
    BY <2>1, FS_EmptySet
  <2> QED BY <1>2, <2>2
<1>5. ASSUME NEW e \in 1..n
      PROVE  Slot(P, e + 1) = Slot(P, e) + (IF P[e].tag \in Wide THEN 2 ELSE 1)
  <2>1. e \in 1..n + 1 /\ e \in Nat
    BY <1>1
  <2>2. 1..(e + 1) - 1 = (1..e - 1) \cup {e} /\ e \notin 1..e - 1
    BY <2>1
  <2>3. W(e + 1) = IF P[e].tag \in Wide THEN W(e) \cup {e} ELSE W(e)
    BY <2>2
  <2>4. e \notin W(e)
    BY <2>2
  <2>5. IsFiniteSet(W(e)) /\ Cardinality(W(e)) \in Nat
    BY <1>3, <2>1
  <2> HIDE DEF W
  <2>6. Cardinality(W(e) \cup {e}) = Cardinality(W(e)) + 1
    BY <2>4, <2>5, FS_AddElement
  <2> DEFINE x == Cardinality(W(e))
             w == P[e].tag \in Wide
  <2>7. Cardinality(W(e + 1)) = IF w THEN x + 1 ELSE x
    BY <2>3, <2>6
  <2>8. /\ Slot(P, e + 1) = (e + 1) + (IF w THEN x + 1 ELSE x) /\ Slot(P, e) = e + x
        /\ x \in Nat /\ w \in BOOLEAN
    BY <1>2, <2>5, <2>7
  <2> HIDE DEF x, w
  <2>9. Slot(P, e + 1) = Slot(P, e) + (IF w THEN 2 ELSE 1)
    BY <2>1, <2>8
  <2> QED BY <2>9 DEF w
<1>6. ASSUME NEW e \in 1..n + 1
      PROVE  Slot(P, e) \in Nat \ {0}
  <2>1. Cardinality(W(e)) \in Nat
    BY <1>3
  <2> HIDE DEF W
  <2> QED BY <1>2, <2>1
<1>7. ASSUME NEW d \in 1..n + 1, NEW e \in 1..n + 1, d < e
      PROVE  Slot(P, d) < Slot(P, e)
  <2>1. W(d) \in SUBSET W(e)
    BY <1>7
  <2>2. IsFiniteSet(W(e)) /\ Cardinality(W(e)) \in Nat /\ Cardinality(W(d)) \in Nat
    BY <1>3
  <2> HIDE DEF W
  <2>3. Cardinality(W(d)) <= Cardinality(W(e))
    BY <2>1, <2>2, FS_Subset
  <2> QED BY <1>2, <1>7, <2>2, <2>3
<1> QED BY <1>1, <1>4, <1>5, <1>6, <1>7 DEF n

\* A constant that occurs has the number of one of its occurrences.
LEMMA SlotOfIs ==
  ASSUME NEW P \in Seq(Entries), NEW entry, Occurs(entry, P)
  PROVE  \E e \in 1..Len(P) : /\ P[e] = entry /\ SlotOf(P, entry) = Slot(P, e)
                              /\ SlotOf(P, entry) \in Nat \ {0} /\ SlotOf(P, entry) < Slot(P, Len(P) + 1)
<1> DEFINE e == CHOOSE k \in 1..Len(P) : P[k] = entry
<1>1. e \in 1..Len(P) /\ P[e] = entry
  BY DEF Occurs
<1>2. SlotOf(P, entry) = Slot(P, e)
  BY DEF SlotOf
<1> HIDE DEF e
<1>3. e \in 1..Len(P) + 1 /\ Len(P) + 1 \in 1..Len(P) + 1 /\ e < Len(P) + 1
  <2>1. Len(P) \in Nat
    OBVIOUS
  <2> QED BY <1>1, <2>1
<1>4. Slot(P, e) \in Nat \ {0} /\ Slot(P, e) < Slot(P, Len(P) + 1)
  BY <1>3, SlotIs
<1> QED BY <1>1, <1>2, <1>4

\* The number of the constants and the number of a constant that occurs.
LEMMA SlotsOf ==
  ASSUME NEW c \in Classes, NEW entry, Occurs(entry, PoolOf(c))
  PROVE  SlotOf(PoolOf(c), entry) \in Nat
<1>1. PoolOf(c) \in Seq(Entries)
  BY PoolIs
<1> QED BY <1>1, SlotOfIs

Cells == Strings \cup Nat \cup Texts \cup (SUBSET Strings) \cup {"CAFEBABE"}

\* What a cell of a class file may be.
LEMMA CellsAre == /\ Strings \subseteq Cells /\ Nat \subseteq Cells /\ Texts \subseteq Cells
                  /\ SUBSET Strings \subseteq Cells /\ "CAFEBABE" \in Cells
BY DEF Cells

\* The cells of a constant.
LEMMA ConstantIs ==
  ASSUME NEW c \in Classes, NEW e \in 1..Len(PoolOf(c))
  PROVE  LET P == PoolOf(c)
             s == ConstantCells(P, e) IN
         /\ P[e].tag \in Strings /\ P[e].text \in Texts
         /\ s \in Seq(Cells) /\ s[1] = P[e].tag
         /\ Len(s) = IF P[e].tag \in {"Utf8"} \cup Pair THEN 3 ELSE 2
         /\ P[e].tag = "Utf8" => s[2] = P[e].text.len /\ s[3] = P[e].text
         /\ P[e].tag = "Class" => /\ s[2] = SlotOf(P, Utf8(P[e].text))
                                  /\ Occurs(Utf8(P[e].text), P)
         /\ P[e].tag \notin {"Utf8", "Class"} => s[2] = 0
<1> DEFINE P == PoolOf(c)
           x == P[e]
           s == ConstantCells(P, e)
<1>1. P \in Seq(Entries)
  BY PoolIs
<1>2. x \in Entries
  BY <1>1
<1>3. x.tag \in Strings /\ x.text \in Texts
  BY <1>2 DEF Entries
<1>4. x.text.len \in Nat
  BY <1>3 DEF Texts
<1>5. x.tag = "Class" => Occurs(Utf8(x.text), P)
  <2>1. SUFFICES ASSUME x.tag = "Class" PROVE Occurs(Utf8(x.text), P)
    OBVIOUS
  <2>2. Utf8(x.text) \in Range(P)
    BY <2>1, LegalAssumption DEF Legal
  <2>3. DOMAIN P = 1..Len(P)
    BY <1>1
  <2> HIDE DEF P, x
  <2> QED BY <2>2, <2>3 DEF Range, Occurs
<1>6. x.tag = "Class" => SlotOf(P, Utf8(x.text)) \in Nat
  BY <1>5, SlotsOf
<1>7. s = CASE x.tag = "Utf8" -> <<"Utf8", x.text.len, x.text>>
            [] x.tag = "Class" -> <<"Class", SlotOf(P, Utf8(x.text))>>
            [] x.tag \in Pair -> <<x.tag, 0, 0>>
            [] OTHER -> <<x.tag, 0>>
  BY Zenon DEF ConstantCells
<1> HIDE DEF P, x, s
<1>8. CASE x.tag = "Utf8"
  <2>1. s = <<"Utf8", x.text.len, x.text>>
    BY <1>7, <1>8 DEF Pair
  <2>2. x.tag \in Cells /\ x.text.len \in Cells /\ x.text \in Cells
    BY <1>3, <1>4, CellsAre
  <2>3. s \in Seq(Cells) /\ Len(s) = 3 /\ s[1] = "Utf8" /\ s[2] = x.text.len /\ s[3] = x.text
    BY <1>8, <2>1, <2>2
  <2> QED BY <1>3, <1>8, <2>3 DEF P, s, x
<1>9. CASE x.tag = "Class"
  <2>1. s = <<"Class", SlotOf(P, Utf8(x.text))>>
    BY <1>7, <1>9 DEF Pair
  <2>2. x.tag \in Cells /\ SlotOf(P, Utf8(x.text)) \in Cells
    BY <1>3, <1>6, <1>9, CellsAre
  <2>3. s \in Seq(Cells) /\ Len(s) = 2 /\ s[1] = "Class" /\ s[2] = SlotOf(P, Utf8(x.text))
    BY <1>9, <2>1, <2>2
  <2> QED BY <1>3, <1>5, <1>9, <2>3 DEF P, s, x, Pair
<1>10. CASE x.tag \in Pair
  <2>1. s = <<x.tag, 0, 0>> /\ x.tag # "Utf8" /\ x.tag # "Class"
    BY <1>7, <1>10 DEF Pair
  <2>2. x.tag \in Cells /\ 0 \in Cells
    BY <1>3, CellsAre
  <2>3. s \in Seq(Cells) /\ Len(s) = 3 /\ s[1] = x.tag /\ s[2] = 0
    BY <2>1, <2>2
  <2> QED BY <1>3, <1>10, <2>1, <2>3 DEF P, s, x
<1>11. CASE x.tag \notin {"Utf8", "Class"} \cup Pair
  <2>1. s = <<x.tag, 0>>
    BY <1>7, <1>11
  <2>2. x.tag \in Cells /\ 0 \in Cells
    BY <1>3, CellsAre
  <2>3. s \in Seq(Cells) /\ Len(s) = 2 /\ s[1] = x.tag /\ s[2] = 0
    BY <2>1, <2>2
  <2> QED BY <1>3, <1>11, <2>3 DEF P, s, x
<1> QED BY <1>8, <1>9, <1>10, <1>11
\* The parts of a class file.
LEMMA PartsAre ==
  ASSUME NEW c \in Classes
  PROVE  /\ Count16(c) \in Nat /\ CodeSlot(c) \in Nat
         /\ ConstantParts(c) \in Seq(Seq(Cells)) /\ Len(ConstantParts(c)) = Len(PoolOf(c))
         /\ \A e \in 1..Len(PoolOf(c)) : ConstantParts(c)[e] = ConstantCells(PoolOf(c), e)
         /\ CodeCells(c) \in Seq(Cells) /\ Len(CodeCells(c)) = 2 + c.length
         /\ CodeCells(c)[1] = CodeSlot(c) /\ CodeCells(c)[2] = c.length
         /\ CodeParts(c) \in Seq(Seq(Cells)) /\ Len(CodeParts(c)) = c.attributes
         /\ \A a \in 1..c.attributes : CodeParts(c)[a] = CodeCells(c)
<1>1. PoolOf(c) \in Seq(Entries) /\ c.attributes \in Nat /\ c.length \in Nat
  BY PoolIs, ClassIs
<1>2. Len(PoolOf(c)) \in Nat /\ Len(PoolOf(c)) + 1 \in 1..Len(PoolOf(c)) + 1
  <2>1. Len(PoolOf(c)) \in Nat
    BY <1>1
  <2> QED BY <2>1
<1>3. Count16(c) \in Nat
  BY <1>1, <1>2, SlotIs DEF Count16
<1>4. CodeSlot(c) \in Nat
  BY PoolIs, SlotsOf DEF CodeSlot
<1>5. /\ ConstantParts(c) \in Seq(Seq(Cells)) /\ Len(ConstantParts(c)) = Len(PoolOf(c))
      /\ \A e \in 1..Len(PoolOf(c)) : ConstantParts(c)[e] = ConstantCells(PoolOf(c), e)
  <2>1. \A e \in 1..Len(PoolOf(c)) : ConstantCells(PoolOf(c), e) \in Seq(Cells)
    BY ConstantIs
  <2> QED BY <1>2, <2>1 DEF ConstantParts
<1>6. /\ CodeCells(c) \in Seq(Cells) /\ Len(CodeCells(c)) = 2 + c.length
      /\ CodeCells(c)[1] = CodeSlot(c) /\ CodeCells(c)[2] = c.length
  <2> DEFINE x == CodeSlot(c)
             y == c.length
             s == <<x, y>>
             t == [k \in 1..y |-> 0]
  <2>1. x \in Cells /\ y \in Cells /\ 0 \in Cells /\ y \in Nat
    BY <1>1, <1>4, CellsAre
  <2> HIDE DEF x, y
  <2>2. s \in Seq(Cells) /\ Len(s) = 2 /\ s[1] = x /\ s[2] = y
    BY <2>1
  <2>3. t \in Seq(Cells) /\ Len(t) = y
    BY <2>1
  <2> HIDE DEF s, t
  <2>4. /\ s \o t \in Seq(Cells) /\ Len(s \o t) = 2 + y
        /\ \A k \in 1..2 + y : (s \o t)[k] = IF k <= 2 THEN s[k] ELSE t[k - 2]
    <3>1. /\ s \o t \in Seq(Cells) /\ Len(s \o t) = Len(s) + Len(t)
          /\ \A k \in 1..Len(s) + Len(t) : (s \o t)[k] = IF k <= Len(s) THEN s[k] ELSE t[k - Len(s)]
      BY <2>2, <2>3, ConcatProperties, Zenon
    <3> QED BY <2>2, <2>3, <3>1, Zenon
  <2>5. (s \o t)[1] = x /\ (s \o t)[2] = y
    BY <2>1, <2>2, <2>4
  <2>6. CodeCells(c) = s \o t
    BY DEF CodeCells, s, t, x, y
  <2> QED BY <2>4, <2>5, <2>6 DEF x, y
<1>7. /\ CodeParts(c) \in Seq(Seq(Cells)) /\ Len(CodeParts(c)) = c.attributes
      /\ \A a \in 1..c.attributes : CodeParts(c)[a] = CodeCells(c)
  BY <1>1, <1>6 DEF CodeParts
<1> QED BY <1>3, <1>4, <1>5, <1>6, <1>7

\* The fields or the methods of a class and their cells.
LEMMA MemberIs ==
  ASSUME NEW c \in Classes, NEW kind \in Kinds, NEW k \in 1..Len(Members(c, kind))
  PROVE  LET m == Members(c, kind)[k]
             s == MemberPart(c, kind, m)
             h == <<{}, CodeSlot(c), SignatureSlot(c, kind, m), c.attributes>> IN
         /\ Occurs(Utf8(Signature(kind, m)), PoolOf(c))
         /\ SignatureSlot(c, kind, m) \in Nat
         /\ h \in Seq(Cells) /\ FlattenSeq(CodeParts(c)) \in Seq(Cells)
         /\ s = h \o FlattenSeq(CodeParts(c)) /\ s \in Seq(Cells)
         /\ Len(s) = 4 + Len(FlattenSeq(CodeParts(c)))
<1> DEFINE m == Members(c, kind)[k]
           s == MemberPart(c, kind, m)
           x == SignatureSlot(c, kind, m)
           y == CodeSlot(c)
           z == c.attributes
           h == <<{}, y, x, z>>
           g == FlattenSeq(CodeParts(c))
<1>1. Occurs(Utf8(Signature(kind, m)), PoolOf(c))
  <2>1. CASE kind = "field"
    <3>1. k \in 1..Len(c.fields) /\ Signature(kind, m) = FieldText(c.fields[k])
      BY <2>1 DEF Members, Signature
    <3> QED BY <3>1, PoolIs
  <2>2. CASE kind = "method"
    <3>1. k \in 1..Len(c.methods) /\ Signature(kind, m) = MethodText(c.methods[k])
      BY <2>2 DEF Members, Signature
    <3> QED BY <3>1, PoolIs
  <2> QED BY <2>1, <2>2 DEF Kinds
<1>2. x \in Nat /\ y \in Nat /\ z \in Nat
  <2>1. x \in Nat
    BY <1>1, SlotsOf DEF SignatureSlot
  <2> QED BY <2>1, PartsAre, ClassIs
<1>3. g \in Seq(Cells)
  <2>1. CodeParts(c) \in Seq(Seq(Cells)) /\ 0 \in Nat
    BY PartsAre
  <2> QED BY <2>1, StartsAre
<1>4. s = h \o g
  BY Zenon DEF MemberPart, MemberCells, CodeParts, CodeCells, CodeSlot, SignatureSlot
<1> HIDE DEF m, s, x, y, z, g
<1>5. x \in Cells /\ y \in Cells /\ z \in Cells /\ {} \in Cells
  BY <1>2, CellsAre
<1>6. h \in Seq(Cells) /\ Len(h) = 4
  BY <1>5
<1> HIDE DEF h
<1>7. s \in Seq(Cells) /\ Len(s) = 4 + Len(g)
  <2>1. h \o g \in Seq(Cells) /\ Len(h \o g) = Len(h) + Len(g)
    BY <1>3, <1>6, ConcatProperties, Zenon
  <2> QED BY <1>4, <1>6, <2>1
<1> QED BY <1>1, <1>2, <1>3, <1>4, <1>6, <1>7 DEF m, s, x, y, z, h, g

\* The members of either kind, and the cells of each.
LEMMA MembersAre ==
  ASSUME NEW c \in Classes, NEW kind \in Kinds
  PROVE  /\ Len(Members(c, kind)) \in Nat
         /\ MemberParts(c, kind) \in Seq(Seq(Cells)) /\ Len(MemberParts(c, kind)) = Len(Members(c, kind))
         /\ \A k \in 1..Len(Members(c, kind)) : MemberParts(c, kind)[k] = MemberPart(c, kind, Members(c, kind)[k])
<1>1. Len(Members(c, kind)) \in Nat
  <2>1. Len(c.fields) \in Nat /\ Len(c.methods) \in Nat
    BY ClassIs
  <2> QED BY <2>1 DEF Members
<1>2. \A k \in 1..Len(Members(c, kind)) : MemberPart(c, kind, Members(c, kind)[k]) \in Seq(Cells)
  BY MemberIs
<1> QED BY <1>1, <1>2 DEF MemberParts

\* The class file is its parts, one after the other.
LEMMA EncodeIs ==
  ASSUME NEW c
  PROVE  Encode(c) =
           <<"CAFEBABE", 0, 52, Count16(c)>> \o FlattenSeq(ConstantParts(c)) \o Info(c)
           \o <<Len(c.interfaces)>> \o InterfaceSlots(c)
           \o <<Len(c.fields)>> \o FlattenSeq(MemberParts(c, "field"))
           \o <<Len(c.methods)>> \o FlattenSeq(MemberParts(c, "method")) \o <<0>>
<1>1. MapSeq(LAMBDA f : MemberCells(PoolOf(c), c, FieldText(f)), c.fields) = MemberParts(c, "field")
  BY DEF MapSeq, MemberParts, Members, MemberPart, Signature
<1>2. MapSeq(LAMBDA m : MemberCells(PoolOf(c), c, MethodText(m)), c.methods) = MemberParts(c, "method")
  BY DEF MapSeq, MemberParts, Members, MemberPart, Signature
<1>3. MapSeq(LAMBDA t : SlotOf(PoolOf(c), ClassOf(t)), c.interfaces) = InterfaceSlots(c)
  BY DEF MapSeq, InterfaceSlots, ClassSlot
<1> QED BY <1>1, <1>2, <1>3, Zenon DEF Encode, Count16, ConstantParts, Info, ClassSlot

\* The class's own items: its flags, itself, its superclass and its interfaces.
LEMMA PartsTyped ==
  ASSUME NEW c \in Classes
  PROVE  /\ Info(c) \in Seq(Cells) /\ Len(Info(c)) = 3 /\ Info(c)[1] = c.flags
         /\ Info(c)[2] = ClassSlot(c, c.this)
         /\ Info(c)[3] = IF c.super = <<>> THEN 0 ELSE ClassSlot(c, c.super[1])
         /\ InterfaceSlots(c) \in Seq(Cells) /\ Len(InterfaceSlots(c)) = Len(c.interfaces)
         /\ \A k \in 1..Len(c.interfaces) : InterfaceSlots(c)[k] = ClassSlot(c, c.interfaces[k])
         /\ Len(c.interfaces) \in Nat /\ Len(c.fields) \in Nat /\ Len(c.methods) \in Nat
<1>1. \A t \in NamedIn(c) : ClassSlot(c, t) \in Nat
  BY PoolIs, SlotsOf DEF ClassSlot
<1>2. /\ c.super \in Seq(Texts) /\ c.interfaces \in Seq(Texts) /\ c.flags \in SUBSET Strings
      /\ c.fields \in Seq(Types) /\ c.methods \in Seq(Signatures)
  BY ClassIs
<1>3. c.super # <<>> => 1 \in 1..Len(c.super)
  BY <1>2
<1> DEFINE x == c.flags
           y == ClassSlot(c, c.this)
           z == IF c.super = <<>> THEN 0 ELSE ClassSlot(c, c.super[1])
<1>4. y \in Nat /\ z \in Nat
  <2>1. c.this \in NamedIn(c) /\ (c.super # <<>> => c.super[1] \in NamedIn(c))
    BY <1>3 DEF NamedIn
  <2> QED BY <1>1, <2>1
<1>5. \A k \in 1..Len(c.interfaces) : ClassSlot(c, c.interfaces[k]) \in Nat
  BY <1>1 DEF NamedIn
<1>6. /\ InterfaceSlots(c) \in Seq(Cells) /\ Len(InterfaceSlots(c)) = Len(c.interfaces)
      /\ \A k \in 1..Len(c.interfaces) : InterfaceSlots(c)[k] = ClassSlot(c, c.interfaces[k])
  <2>1. \A k \in 1..Len(c.interfaces) : ClassSlot(c, c.interfaces[k]) \in Cells
    BY <1>5, CellsAre
  <2> QED BY <1>2, <2>1 DEF InterfaceSlots
<1>7. Info(c) = <<x, y, z>>
  BY DEF Info
<1>8. x \in Cells /\ y \in Cells /\ z \in Cells
  BY <1>2, <1>4, CellsAre
<1> HIDE DEF x, y, z
<1>9. /\ Info(c) \in Seq(Cells) /\ Len(Info(c)) = 3
      /\ Info(c)[1] = x /\ Info(c)[2] = y /\ Info(c)[3] = z
  BY <1>7, <1>8
<1>10. /\ Info(c)[1] = c.flags /\ Info(c)[2] = ClassSlot(c, c.this)
       /\ Info(c)[3] = IF c.super = <<>> THEN 0 ELSE ClassSlot(c, c.super[1])
  BY <1>9, Zenon DEF x, y, z
<1>11. Len(c.interfaces) \in Nat /\ Len(c.fields) \in Nat /\ Len(c.methods) \in Nat
  BY <1>2
<1> QED BY <1>6, <1>9, <1>10, <1>11, Zenon

\* Where the parts are in the class file, and how long it is.
LEMMA Layout ==
  ASSUME NEW c \in Classes
  PROVE  LET f == Encode(c) IN
         /\ f \in Seq(Cells) /\ InfoAt(c) \in Nat /\ EndAt(c) \in Nat /\ Len(f) = EndAt(c) + 1
         /\ At(f, 0, <<"CAFEBABE", 0, 52, Count16(c)>>) /\ At(f, 4, FlattenSeq(ConstantParts(c)))
         /\ At(f, InfoAt(c), Info(c)) /\ At(f, InfoAt(c) + 3, <<Len(c.interfaces)>>)
         /\ At(f, InfoAt(c) + 4, InterfaceSlots(c))
         /\ FieldsAt(c) \in Nat /\ At(f, FieldsAt(c), <<Len(c.fields)>>)
         /\ At(f, FieldsAt(c) + 1, FlattenSeq(MemberParts(c, "field")))
         /\ MethodsAt(c) \in Nat /\ At(f, MethodsAt(c), <<Len(c.methods)>>)
         /\ At(f, MethodsAt(c) + 1, FlattenSeq(MemberParts(c, "method")))
<1> DEFINE f == Encode(c)
           a1 == <<"CAFEBABE", 0, 52, Count16(c)>>
           a2 == FlattenSeq(ConstantParts(c))
           a3 == Info(c)
           a4 == <<Len(c.interfaces)>>
           a5 == InterfaceSlots(c)
           a6 == <<Len(c.fields)>>
           a7 == FlattenSeq(MemberParts(c, "field"))
           a8 == <<Len(c.methods)>>
           a9 == FlattenSeq(MemberParts(c, "method"))
           a10 == <<0>>
<1>1. /\ Len(c.interfaces) \in Nat /\ Len(c.fields) \in Nat /\ Len(c.methods) \in Nat
      /\ Count16(c) \in Nat
  BY PartsTyped, PartsAre
<1>2. a1 \in Seq(Cells) /\ Len(a1) = 4
  <2>1. "CAFEBABE" \in Cells /\ 0 \in Cells /\ 52 \in Cells /\ Count16(c) \in Cells
    BY <1>1, CellsAre
  <2> QED BY <2>1
<1>3. a2 \in Seq(Cells) /\ a7 \in Seq(Cells) /\ a9 \in Seq(Cells)
  <2>1. 0 \in Nat /\ "field" \in Kinds /\ "method" \in Kinds
    BY DEF Kinds
  <2>2. /\ ConstantParts(c) \in Seq(Seq(Cells)) /\ MemberParts(c, "field") \in Seq(Seq(Cells))
        /\ MemberParts(c, "method") \in Seq(Seq(Cells))
    BY <2>1, PartsAre, MembersAre
  <2> QED BY <2>1, <2>2, StartsAre
<1>4. a3 \in Seq(Cells) /\ Len(a3) = 3 /\ a5 \in Seq(Cells) /\ Len(a5) = Len(c.interfaces)
  BY PartsTyped
<1>5. a4 \in Seq(Cells) /\ Len(a4) = 1
  <2>1. Len(c.interfaces) \in Cells
    BY <1>1, CellsAre
  <2> QED BY <2>1
<1>6. a6 \in Seq(Cells) /\ Len(a6) = 1
  <2>1. Len(c.fields) \in Cells
    BY <1>1, CellsAre
  <2> QED BY <2>1
<1>7. a8 \in Seq(Cells) /\ Len(a8) = 1
  <2>1. Len(c.methods) \in Cells
    BY <1>1, CellsAre
  <2> QED BY <2>1
<1>8. a10 \in Seq(Cells) /\ Len(a10) = 1
  <2>1. 0 \in Cells
    BY CellsAre
  <2> QED BY <2>1
<1>9. f = a1 \o a2 \o a3 \o a4 \o a5 \o a6 \o a7 \o a8 \o a9 \o a10
  BY EncodeIs, Zenon
<1>10. /\ InfoAt(c) = 4 + Len(a2) /\ FieldsAt(c) = InfoAt(c) + 4 + Len(c.interfaces)
       /\ MethodsAt(c) = FieldsAt(c) + 1 + Len(a7) /\ EndAt(c) = MethodsAt(c) + 1 + Len(a9)
  BY Zenon DEF InfoAt, FieldsAt, MethodsAt, EndAt
<1> HIDE DEF f, a1, a2, a3, a4, a5, a6, a7, a8, a9, a10
<1> DEFINE u2 == a1 \o a2
           u3 == u2 \o a3
           u4 == u3 \o a4
           u5 == u4 \o a5
           u6 == u5 \o a6
           u7 == u6 \o a7
           u8 == u7 \o a8
           u9 == u8 \o a9
<1>11. u2 \in Seq(Cells) /\ Len(u2) = Len(a1) + Len(a2)
  BY <1>2, <1>3, ConcatProperties, Zenon
<1> HIDE DEF u2
<1>12. u3 \in Seq(Cells) /\ Len(u3) = Len(u2) + Len(a3)
  BY <1>11, <1>4, ConcatProperties, Zenon
<1> HIDE DEF u3
<1>13. u4 \in Seq(Cells) /\ Len(u4) = Len(u3) + Len(a4)
  BY <1>12, <1>5, ConcatProperties, Zenon
<1> HIDE DEF u4
<1>14. u5 \in Seq(Cells) /\ Len(u5) = Len(u4) + Len(a5)
  BY <1>13, <1>4, ConcatProperties, Zenon
<1> HIDE DEF u5
<1>15. u6 \in Seq(Cells) /\ Len(u6) = Len(u5) + Len(a6)
  BY <1>14, <1>6, ConcatProperties, Zenon
<1> HIDE DEF u6
<1>16. u7 \in Seq(Cells) /\ Len(u7) = Len(u6) + Len(a7)
  BY <1>15, <1>3, ConcatProperties, Zenon
<1> HIDE DEF u7
<1>17. u8 \in Seq(Cells) /\ Len(u8) = Len(u7) + Len(a8)
  BY <1>16, <1>7, ConcatProperties, Zenon
<1> HIDE DEF u8
<1>18. u9 \in Seq(Cells) /\ Len(u9) = Len(u8) + Len(a9)
  BY <1>17, <1>3, ConcatProperties, Zenon
<1> HIDE DEF u9
<1>19. f = u9 \o a10
  BY <1>9, Zenon DEF u2, u3, u4, u5, u6, u7, u8, u9
<1>20. f \in Seq(Cells) /\ Len(f) = Len(u9) + Len(a10) /\ Len(f) \in Nat /\ 0 \in Nat
  <2>1. u9 \o a10 \in Seq(Cells) /\ Len(u9 \o a10) = Len(u9) + Len(a10)
    BY <1>18, <1>8, ConcatProperties, Zenon
  <2>2. f \in Seq(Cells)
    BY <1>19, <2>1
  <2> QED BY <1>19, <2>1, <2>2
<1>21. At(f, 0, u9 \o a10)
  BY <1>19, <1>20, AtWhole
<1>22. At(f, 0, u9)
  BY <1>20, <1>21, <1>18, <1>8, AtParts
<1>23. At(f, 0, u8) /\ At(f, 0 + Len(u8), a9)
  <2>1. At(f, 0, u8 \o a9)
    BY <1>22 DEF u9
  <2> QED BY <1>20, <1>17, <1>3, <2>1, AtParts, Zenon
<1>24. At(f, 0, u7) /\ At(f, 0 + Len(u7), a8)
  <2>1. At(f, 0, u7 \o a8)
    BY <1>23 DEF u8
  <2> QED BY <1>20, <1>16, <1>7, <2>1, AtParts, Zenon
<1>25. At(f, 0, u6) /\ At(f, 0 + Len(u6), a7)
  <2>1. At(f, 0, u6 \o a7)
    BY <1>24 DEF u7
  <2> QED BY <1>20, <1>15, <1>3, <2>1, AtParts, Zenon
<1>26. At(f, 0, u5) /\ At(f, 0 + Len(u5), a6)
  <2>1. At(f, 0, u5 \o a6)
    BY <1>25 DEF u6
  <2> QED BY <1>20, <1>14, <1>6, <2>1, AtParts, Zenon
<1>27. At(f, 0, u4) /\ At(f, 0 + Len(u4), a5)
  <2>1. At(f, 0, u4 \o a5)
    BY <1>26 DEF u5
  <2> QED BY <1>20, <1>13, <1>4, <2>1, AtParts, Zenon
<1>28. At(f, 0, u3) /\ At(f, 0 + Len(u3), a4)
  <2>1. At(f, 0, u3 \o a4)
    BY <1>27 DEF u4
  <2> QED BY <1>20, <1>12, <1>5, <2>1, AtParts, Zenon
<1>29. At(f, 0, u2) /\ At(f, 0 + Len(u2), a3)
  <2>1. At(f, 0, u2 \o a3)
    BY <1>28 DEF u3
  <2> QED BY <1>20, <1>11, <1>4, <2>1, AtParts, Zenon
<1>30. At(f, 0, a1) /\ At(f, 0 + Len(a1), a2)
  <2>1. At(f, 0, a1 \o a2)
    BY <1>29 DEF u2
  <2> QED BY <1>20, <1>2, <1>3, <2>1, AtParts, Zenon
<1>31. Len(a2) \in Nat /\ Len(a7) \in Nat /\ Len(a9) \in Nat
  BY <1>3
<1> DEFINE p == Len(a2)
           q == Len(a7)
           r == Len(a9)
           l == Len(c.interfaces)
<1>32. /\ Len(a1) = 4 /\ Len(u2) = 4 + p /\ Len(u3) = 4 + p + 3 /\ Len(u4) = 4 + p + 4
       /\ Len(u5) = 4 + p + 4 + l /\ Len(u6) = 4 + p + 4 + l + 1 /\ Len(u7) = 4 + p + 4 + l + 1 + q
       /\ Len(u8) = 4 + p + 4 + l + 1 + q + 1 /\ Len(u9) = 4 + p + 4 + l + 1 + q + 1 + r
  <2> HIDE DEF p, q, r, l
  <2>1. /\ Len(u2) = Len(a1) + p /\ Len(u3) = Len(u2) + 3 /\ Len(u4) = Len(u3) + 1 /\ Len(u5) = Len(u4) + l
        /\ Len(u6) = Len(u5) + 1 /\ Len(u7) = Len(u6) + q /\ Len(u8) = Len(u7) + 1 /\ Len(u9) = Len(u8) + r
        /\ Len(a1) = 4
    BY <1>2, <1>4, <1>5, <1>6, <1>7, <1>11, <1>12, <1>13, <1>14, <1>15, <1>16, <1>17, <1>18 DEF p, q, r, l
  <2>2. p \in Nat /\ q \in Nat /\ r \in Nat /\ l \in Nat
    BY <1>1, <1>31 DEF p, q, r, l
  <2> QED BY <2>1, <2>2
<1>33. /\ InfoAt(c) = 4 + p /\ FieldsAt(c) = 4 + p + 4 + l /\ MethodsAt(c) = 4 + p + 4 + l + 1 + q
       /\ EndAt(c) = 4 + p + 4 + l + 1 + q + 1 + r
       /\ p \in Nat /\ q \in Nat /\ r \in Nat /\ l \in Nat
  BY <1>1, <1>10, <1>31
<1> HIDE DEF p, q, r, l
<1>34. /\ 0 + Len(a1) = 4 /\ 0 + Len(u2) = InfoAt(c) /\ 0 + Len(u3) = InfoAt(c) + 3
       /\ 0 + Len(u4) = InfoAt(c) + 4 /\ 0 + Len(u5) = FieldsAt(c) /\ 0 + Len(u6) = FieldsAt(c) + 1
       /\ 0 + Len(u7) = MethodsAt(c) /\ 0 + Len(u8) = MethodsAt(c) + 1
       /\ Len(f) = EndAt(c) + 1 /\ InfoAt(c) \in Nat /\ FieldsAt(c) \in Nat /\ MethodsAt(c) \in Nat
       /\ EndAt(c) \in Nat
  BY <1>8, <1>20, <1>32, <1>33
<1> QED
  <2>1. f \in Seq(Cells)
    BY <1>20
  <2> QED BY <2>1, <1>34, <1>30, <1>29, <1>28, <1>27, <1>26, <1>25, <1>24, <1>23 DEF f, a1, a2, a3, a4, a5, a6, a7, a8, a9
\* None of the sequences starts behind the last one's end.
LEMMA StartsBelow ==
  ASSUME NEW S, NEW s \in Seq(Seq(S)), NEW p \in Nat, NEW e \in 1..Len(s) + 1
  PROVE  Starts(s, p)[e] <= p + Len(FlattenSeq(s))
<1> DEFINE f == FlattenSeq(s)
           B == Starts(s, 0)
           C == Starts(s, p)
<1>1. f \in Seq(S) /\ 0 \in Nat /\ Len(f) \in Nat
  <2>1. f \in Seq(S)
    BY StartsAre
  <2> HIDE DEF f
  <2> QED BY <2>1
<1>2. /\ Len(s) \in Nat /\ \A d \in 1..Len(s) + 1 : B[d] \in Nat /\ C[d] \in Nat
      /\ C[Len(s) + 1] = p + Len(f)
  <2>1. 0 \in Nat
    OBVIOUS
  <2> QED BY <2>1, StartsAre
<1>3. CASE e = Len(s) + 1
  <2> HIDE DEF B, C, f
  <2>1. C[e] = p + Len(f)
    BY <1>2, <1>3
  <2> QED BY <1>1, <2>1 DEF C, f
<1>4. CASE e # Len(s) + 1
  <2>1. e \in 1..Len(s) /\ s[e] \in Seq(S)
    <3>1. e \in 1..Len(s)
      BY <1>2, <1>4
    <3> QED BY <3>1
  <2>2. At(f, B[e], s[e])
    <3>1. At(f, 0, FlattenSeq(s))
      BY <1>1, AtWhole
    <3> QED BY <1>1, <2>1, <3>1, FlattenAt
  <2>3. Len(s[e]) \in Nat
    BY <2>1
  <2>4. B[e] + Len(s[e]) <= Len(f)
    BY <2>2 DEF At
  <2>5. C[e] = p + B[e]
    BY DEF Starts
  <2> HIDE DEF B, C, f
  <2>6. C[e] <= p + Len(f)
    BY <1>1, <1>2, <2>3, <2>4, <2>5
  <2> QED BY <2>6 DEF C, f
<1> QED BY <1>3, <1>4

\* The parts' bounds.
NextAt(c, kind) == IF kind = "field" THEN MethodsAt(c) ELSE EndAt(c)

\* Where the parts begin and end, and that none goes beyond the last cell.
LEMMA Bounds ==
  ASSUME NEW c \in Classes
  PROVE  /\ InfoAt(c) = 4 + Len(FlattenSeq(ConstantParts(c)))
         /\ FieldsAt(c) = InfoAt(c) + 4 + Len(c.interfaces)
         /\ InfoAt(c) + 4 + Len(c.interfaces) <= EndAt(c) /\ Len(c.interfaces) \in Nat
         /\ \A kind \in Kinds :
              /\ MembersAt(c, kind) \in Nat /\ NextAt(c, kind) <= EndAt(c) /\ NextAt(c, kind) \in Nat
              /\ NextAt(c, kind) = MembersAt(c, kind) + 1 + Len(FlattenSeq(MemberParts(c, kind)))
              /\ Len(FlattenSeq(MemberParts(c, kind))) \in Nat
<1>1. /\ InfoAt(c) \in Nat /\ FieldsAt(c) \in Nat /\ MethodsAt(c) \in Nat /\ EndAt(c) \in Nat
      /\ Len(c.interfaces) \in Nat
  BY Layout, PartsTyped
<1>2. \A kind \in Kinds : Len(FlattenSeq(MemberParts(c, kind))) \in Nat
  <2>1. ASSUME NEW kind \in Kinds PROVE FlattenSeq(MemberParts(c, kind)) \in Seq(Cells)
    <3>1. MemberParts(c, kind) \in Seq(Seq(Cells)) /\ 0 \in Nat
      BY MembersAre
    <3> QED BY <3>1, StartsAre
  <2> QED BY <2>1
<1> DEFINE x == Len(FlattenSeq(MemberParts(c, "field")))
           y == Len(FlattenSeq(MemberParts(c, "method")))
<1>3. /\ FieldsAt(c) = InfoAt(c) + 4 + Len(c.interfaces)
      /\ MethodsAt(c) = FieldsAt(c) + 1 + x /\ EndAt(c) = MethodsAt(c) + 1 + y
      /\ x \in Nat /\ y \in Nat
  BY <1>2 DEF FieldsAt, MethodsAt, EndAt, Kinds
<1> HIDE DEF x, y
<1>4. MethodsAt(c) <= EndAt(c) /\ FieldsAt(c) <= EndAt(c)
  <2> DEFINE k == FieldsAt(c)
             m == MethodsAt(c)
             n == EndAt(c)
  <2>1. k \in Nat /\ x \in Nat /\ y \in Nat /\ m = k + 1 + x /\ n = m + 1 + y
    BY <1>1, <1>3
  <2> HIDE DEF k, m, n
  <2>2. k <= m /\ m <= n /\ m \in Nat /\ n \in Nat
    BY <2>1
  <2>3. k <= n
    BY <2>1, <2>2
  <2> QED BY <2>2, <2>3 DEF k, m, n
<1>5. \A kind \in Kinds :
        /\ MembersAt(c, kind) \in Nat /\ NextAt(c, kind) <= EndAt(c) /\ NextAt(c, kind) \in Nat
        /\ NextAt(c, kind) = MembersAt(c, kind) + 1 + Len(FlattenSeq(MemberParts(c, kind)))
  BY <1>1, <1>3, <1>4 DEF MembersAt, NextAt, Kinds, x, y
<1> QED BY <1>1, <1>2, <1>3, <1>4, <1>5 DEF InfoAt

\* What the parser finds at each constant, and where the next one is.
LEMMA ConstantSeen ==
  ASSUME NEW c \in Classes
  PROVE  /\ ConstantAt(c, 1) = 4 /\ ConstantAt(c, Len(PoolOf(c)) + 1) = InfoAt(c)
         /\ \A e \in 1..Len(PoolOf(c)) + 1 : ConstantAt(c, e) \in Nat /\ ConstantAt(c, e) <= EndAt(c)
         /\ \A e \in 1..Len(PoolOf(c)) :
              /\ At(Encode(c), ConstantAt(c, e), ConstantCells(PoolOf(c), e))
              /\ ConstantAt(c, e + 1) = ConstantAt(c, e) + Len(ConstantCells(PoolOf(c), e))
<1> DEFINE s == ConstantParts(c)
           f == Encode(c)
           n == Len(PoolOf(c))
<1>1. s \in Seq(Seq(Cells)) /\ Len(s) = n /\ \A e \in 1..n : s[e] = ConstantCells(PoolOf(c), e)
  BY PartsAre
<1>2. f \in Seq(Cells) /\ At(f, 4, FlattenSeq(s)) /\ 4 \in Nat
  BY Layout
<1>3. \A e : ConstantAt(c, e) = Starts(s, 4)[e]
  BY DEF ConstantAt
<1>4. /\ InfoAt(c) = 4 + Len(FlattenSeq(s)) /\ InfoAt(c) \in Nat /\ EndAt(c) \in Nat
      /\ InfoAt(c) <= EndAt(c)
  <2>1. /\ InfoAt(c) + 4 + Len(c.interfaces) <= EndAt(c) /\ Len(c.interfaces) \in Nat
        /\ InfoAt(c) \in Nat /\ EndAt(c) \in Nat
    BY Bounds, Layout
  <2>2. InfoAt(c) <= EndAt(c)
    BY <2>1
  <2> QED BY <2>1, <2>2, Bounds
<1> HIDE DEF s, f, n
<1>5. Len(f) \in Nat
  BY <1>2
<1>6. /\ \A e \in 1..n + 1 : Starts(s, 4)[e] \in Nat
      /\ Starts(s, 4)[1] = 4
      /\ \A e \in 1..n : Starts(s, 4)[e + 1] = Starts(s, 4)[e] + Len(s[e])
      /\ Starts(s, 4)[n + 1] = 4 + Len(FlattenSeq(s))
  BY <1>1, <1>2, StartsAre
<1>7. \A e \in 1..n + 1 : Starts(s, 4)[e] <= InfoAt(c)
  BY <1>1, <1>2, <1>4, StartsBelow
<1>8. ASSUME NEW e \in 1..n PROVE At(f, Starts(s, 4)[e], s[e])
  BY <1>1, <1>2, <1>5, FlattenAt
<1>9. \A e \in 1..n + 1 : ConstantAt(c, e) \in Nat /\ ConstantAt(c, e) <= EndAt(c)
  BY <1>3, <1>4, <1>6, <1>7
<1> QED BY <1>1, <1>3, <1>4, <1>6, <1>8, <1>9 DEF f, n

\* What the parser finds before the members and at each of them, and where the next one is.
LEMMA MemberSeen ==
  ASSUME NEW c \in Classes, NEW kind \in Kinds
  PROVE  LET n == Len(Members(c, kind)) IN
         /\ At(Encode(c), MembersAt(c, kind), <<n>>)
         /\ MemberAt(c, kind, 1) = MembersAt(c, kind) + 1 /\ MemberAt(c, kind, n + 1) = NextAt(c, kind)
         /\ \A k \in 1..n + 1 : MemberAt(c, kind, k) \in Nat /\ MemberAt(c, kind, k) <= EndAt(c)
         /\ \A k \in 1..n :
              /\ At(Encode(c), MemberAt(c, kind, k), MemberPart(c, kind, Members(c, kind)[k]))
              /\ MemberAt(c, kind, k + 1) = MemberAt(c, kind, k) + Len(MemberPart(c, kind, Members(c, kind)[k]))
<1> DEFINE s == MemberParts(c, kind)
           f == Encode(c)
           n == Len(Members(c, kind))
           p == MembersAt(c, kind) + 1
<1>1. s \in Seq(Seq(Cells)) /\ Len(s) = n /\ \A k \in 1..n : s[k] = MemberPart(c, kind, Members(c, kind)[k])
  BY MembersAre
<1>2. MembersAt(c, kind) \in Nat /\ NextAt(c, kind) = p + Len(FlattenSeq(s))
  <2>1. /\ MembersAt(c, kind) \in Nat
        /\ NextAt(c, kind) = MembersAt(c, kind) + 1 + Len(FlattenSeq(MemberParts(c, kind)))
    BY Bounds
  <2> QED BY <2>1
<1>3. f \in Seq(Cells) /\ At(f, p, FlattenSeq(s)) /\ At(f, MembersAt(c, kind), <<n>>)
  <2>1. CASE kind = "field"
    BY <2>1, Layout DEF MembersAt, Members
  <2>2. CASE kind = "method"
    BY <2>2, Layout DEF MembersAt, Members
  <2> QED BY <2>1, <2>2 DEF Kinds
<1>4. \A k : MemberAt(c, kind, k) = Starts(s, p)[k]
  BY DEF MemberAt
<1>5. p \in Nat
  BY <1>2
<1>6. NextAt(c, kind) \in Nat /\ EndAt(c) \in Nat /\ NextAt(c, kind) <= EndAt(c)
  BY Bounds, Layout
<1> HIDE DEF s, f, n, p
<1>7. Len(f) \in Nat
  BY <1>3
<1>8. /\ \A e \in 1..n + 1 : Starts(s, p)[e] \in Nat
      /\ Starts(s, p)[1] = p
      /\ \A e \in 1..n : Starts(s, p)[e + 1] = Starts(s, p)[e] + Len(s[e])
      /\ Starts(s, p)[n + 1] = p + Len(FlattenSeq(s))
  BY <1>1, <1>5, StartsAre
<1>9. \A e \in 1..n + 1 : Starts(s, p)[e] <= NextAt(c, kind)
  BY <1>1, <1>2, <1>5, StartsBelow
<1>10. ASSUME NEW e \in 1..n PROVE At(f, Starts(s, p)[e], s[e])
  BY <1>1, <1>3, <1>5, <1>7, FlattenAt
<1>11. \A e \in 1..n + 1 : MemberAt(c, kind, e) \in Nat /\ MemberAt(c, kind, e) <= EndAt(c)
  BY <1>4, <1>6, <1>8, <1>9
<1> QED BY <1>1, <1>2, <1>3, <1>4, <1>8, <1>10, <1>11 DEF f, n, p

\* A member's flags, its numbers, its attributes, and what comes after them.
LEMMA AttributeSeen ==
  ASSUME NEW c \in Classes, NEW kind \in Kinds, NEW k \in 1..Len(Members(c, kind))
  PROVE  /\ At(Encode(c), MemberAt(c, kind, k),
              <<{}, CodeSlot(c), SignatureSlot(c, kind, Members(c, kind)[k]), c.attributes>>)
         /\ AttributeAt(c, kind, k, 1) = MemberAt(c, kind, k) + 4
         /\ AttributeAt(c, kind, k, c.attributes + 1) = MemberAt(c, kind, k + 1)
         /\ \A a \in 1..c.attributes + 1 :
              AttributeAt(c, kind, k, a) \in Nat /\ AttributeAt(c, kind, k, a) <= EndAt(c)
         /\ \A a \in 1..c.attributes :
              /\ At(Encode(c), AttributeAt(c, kind, k, a), CodeCells(c))
              /\ AttributeAt(c, kind, k, a + 1) = AttributeAt(c, kind, k, a) + (2 + c.length)
<1> DEFINE s == CodeParts(c)
           f == Encode(c)
           n == c.attributes
           q == MemberAt(c, kind, k)
           p == MemberAt(c, kind, k) + 4
           r == MemberAt(c, kind, k + 1)
           h == <<{}, CodeSlot(c), SignatureSlot(c, kind, Members(c, kind)[k]), n>>
           g == FlattenSeq(s)
           x == MemberPart(c, kind, Members(c, kind)[k])
<1>1. s \in Seq(Seq(Cells)) /\ Len(s) = n /\ \A a \in 1..n : s[a] = CodeCells(c)
  BY PartsAre
<1>2. Len(CodeCells(c)) = 2 + c.length
  BY PartsAre
<1>3. x = h \o g /\ h \in Seq(Cells) /\ g \in Seq(Cells) /\ Len(x) = 4 + Len(g)
  BY MemberIs
<1>4. Len(h) = 4
  OBVIOUS
<1>5. f \in Seq(Cells)
  BY Layout
<1>6. k \in 1..Len(Members(c, kind)) + 1 /\ k + 1 \in 1..Len(Members(c, kind)) + 1
  <2>1. Len(Members(c, kind)) \in Nat
    BY MembersAre
  <2> QED BY <2>1
<1>7. q \in Nat /\ r \in Nat /\ r <= EndAt(c) /\ EndAt(c) \in Nat /\ At(f, q, x) /\ r = q + Len(x)
  BY <1>6, MemberSeen, Layout
<1>8. \A a : AttributeAt(c, kind, k, a) = Starts(s, p)[a]
  BY DEF AttributeAt
<1>9. p = q + 4
  OBVIOUS
<1> HIDE DEF s, f, n, p, q, r, h, g, x
<1>10. Len(f) \in Nat /\ Len(g) \in Nat
  BY <1>3, <1>5
<1>11. p \in Nat /\ r = p + Len(g)
  BY <1>3, <1>7, <1>9, <1>10
<1>12. At(f, q, h) /\ At(f, p, g)
  <2>1. At(f, q, h \o g)
    BY <1>3, <1>7
  <2>2. At(f, q, h) /\ At(f, q + Len(h), g)
    BY <1>3, <1>7, <1>10, <2>1, AtParts, Zenon
  <2> QED BY <1>4, <1>9, <2>2
<1>13. /\ \A a \in 1..n + 1 : Starts(s, p)[a] \in Nat
       /\ Starts(s, p)[1] = p
       /\ \A a \in 1..n : Starts(s, p)[a + 1] = Starts(s, p)[a] + Len(s[a])
       /\ Starts(s, p)[n + 1] = p + Len(g)
  BY <1>1, <1>11, StartsAre DEF g
<1>14. \A a \in 1..n + 1 : Starts(s, p)[a] <= r
  BY <1>1, <1>11, StartsBelow DEF g
<1>15. ASSUME NEW a \in 1..n PROVE At(f, Starts(s, p)[a], s[a])
  BY <1>1, <1>10, <1>11, <1>12, FlattenAt DEF g
<1>16. \A a \in 1..n + 1 : AttributeAt(c, kind, k, a) \in Nat /\ AttributeAt(c, kind, k, a) <= EndAt(c)
  BY <1>7, <1>8, <1>13, <1>14
<1>17. \A a \in 1..n :
         /\ At(f, AttributeAt(c, kind, k, a), CodeCells(c))
         /\ AttributeAt(c, kind, k, a + 1) = AttributeAt(c, kind, k, a) + (2 + c.length)
  BY <1>1, <1>2, <1>8, <1>13, <1>15
<1> QED BY <1>8, <1>9, <1>11, <1>12, <1>13, <1>16, <1>17 DEF f, q, r, h, n
-------------------------------------------------------------------------------
\* The inductive invariant.

\* Before the constant e.
AtConstant(e) ==
  /\ e \in 1..Len(PoolOf(class)) + 1
  /\ pos = ConstantAt(class, e) + 1 /\ i = Slot(PoolOf(class), e) /\ Filled(class, e)
\* The class's own items were read.
Known == AllFilled(class) /\ name = Named(class.this)
\* Before the k-th interface, the k-th member and the a-th attribute of the k-th member.
AtInterface(k) ==
  /\ k \in 1..Len(class.interfaces) + 1
  /\ pos = InfoAt(class) + 4 + k /\ i = Len(class.interfaces) - (k - 1)
  /\ refs = {SuperName(class)} \cup InterfaceNames(class, k - 1)
AtMember(kind, k) ==
  /\ k \in 1..Len(Members(class, kind)) + 1
  /\ pos = MemberAt(class, kind, k) + 1 /\ i = Len(Members(class, kind)) - (k - 1)
  /\ refs = RefsBefore(class, kind) \cup MembersRefs(class, kind, k - 1)
AtAttribute(kind, k, a) ==
  /\ k \in 1..Len(Members(class, kind)) /\ a \in 1..class.attributes + 1
  /\ pos = AttributeAt(class, kind, k, a) + 1
  /\ i = Len(Members(class, kind)) - (k - 1) /\ left = class.attributes - (a - 1)
  /\ sig = SignatureSlot(class, kind, Members(class, kind)[k])
  /\ refs = RefsBefore(class, kind) \cup MembersRefs(class, kind, k - 1)

MembersStep == [field |-> "fields", method |-> "methods"]
\* What has been read when the parser is about to read what step says.
Reading ==
  \/ step = "header" /\ pos = 1
  \/ step = "count" /\ pos = 4
  \/ step = "constants" /\ \E e \in Nat : AtConstant(e)
  \/ step = "info" /\ pos = InfoAt(class) + 1 /\ AllFilled(class)
  \/ /\ mode = "all" /\ Known
     /\ \/ step = "interfaces" /\ pos = InfoAt(class) + 4 /\ refs = {SuperName(class)}
        \/ step = "interface" /\ \E k \in Nat : AtInterface(k)
        \/ \E kind \in Kinds :
             \/ step = MembersStep[kind] /\ pos = MembersAt(class, kind) + 1 /\ refs = RefsBefore(class, kind)
             \/ step = kind /\ \E k \in Nat : AtMember(kind, k)
             \/ step = Of[kind] /\ \E k, a \in Nat : AtAttribute(kind, k, a)
  \/ /\ step = "end" /\ Known
     /\ mode = "all" => pos = EndAt(class) + 1 /\ refs = RefsOf(class)

ClassInv ==
  /\ class \in Classes /\ file = Encode(class)
  /\ mode \in {"name", "all"} /\ (mode = "all" => first = Named(class.this))
  /\ outcome \in {"reading", "done", "thrown"}
  /\ pos <= Len(file)
  /\ outcome = "reading" => Reading
  /\ outcome = "done" => mode = "all" /\ pos = Len(file) /\ refs = RefsOf(class) /\ name = first
  /\ outcome = "thrown" => Exceeds(class)

\* What the invariant says of each step.
LEMMA Where ==
  ASSUME Reading
  PROVE  /\ step = "header" => pos = 1
         /\ step = "count" => pos = 4
         /\ step = "constants" => \E e \in Nat : AtConstant(e)
         /\ step = "info" => pos = InfoAt(class) + 1 /\ AllFilled(class)
         /\ step = "interfaces" => /\ mode = "all" /\ Known /\ pos = InfoAt(class) + 4
                                   /\ refs = {SuperName(class)}
         /\ step = "interface" => mode = "all" /\ Known /\ \E k \in Nat : AtInterface(k)
         /\ \A kind \in Kinds :
              /\ step = MembersStep[kind] => /\ mode = "all" /\ Known /\ pos = MembersAt(class, kind) + 1
                                             /\ refs = RefsBefore(class, kind)
              /\ step = kind => mode = "all" /\ Known /\ \E k \in Nat : AtMember(kind, k)
              /\ step = Of[kind] => mode = "all" /\ Known /\ \E k, a \in Nat : AtAttribute(kind, k, a)
         /\ step = "end" => Known /\ (mode = "all" => pos = EndAt(class) + 1 /\ refs = RefsOf(class))
BY DEF Reading, MembersStep, Of, Kinds

\* A step that reads on, and one that throws.
LEMMA Goes ==
  ASSUME ClassInv, UNCHANGED <<class, file, mode, first>>, outcome = "reading", outcome' = outcome,
         pos' <= Len(file), Reading'
  PROVE  ClassInv'
BY DEF ClassInv
LEMMA Throws ==
  ASSUME ClassInv, UNCHANGED <<class, file, mode, first>>, Throw, Exceeds(class)
  PROVE  ClassInv'
BY DEF ClassInv, Throw

-------------------------------------------------------------------------------
\* Looking a constant up.
LEMMA ReadTextIs ==
  ASSUME NEW t \in Texts
  PROVE  /\ ReadText(t) \in Texts /\ ReadText(t).name = Named(t)
         /\ t.ascii => ReadText(t) = t
<1>1. Garbled(t) \in Texts /\ Garbled(t).name = "garbled"
  BY DEF Garbled, Texts, Strings
<1>2. t.ascii \in BOOLEAN
  BY DEF Texts
<1> QED BY <1>1, <1>2 DEF ReadText, Named

\* What the parser makes of a constant.
LEMMA ParsedIs ==
  ASSUME NEW c \in Classes, NEW e \in 1..Len(PoolOf(c))
  PROVE  LET x == Parsed(c, e)
             entry == PoolOf(c)[e] IN
         /\ x \in Slots /\ x.tag = entry.tag
         /\ entry.tag = "Class" => x.index = SlotOf(PoolOf(c), Utf8(entry.text))
         /\ entry.tag = "Utf8" => x.text = ReadText(entry.text)
<1> DEFINE entry == PoolOf(c)[e]
           j == SlotOf(PoolOf(c), Utf8(entry.text))
<1>1. entry.tag \in Strings /\ entry.text \in Texts /\ (entry.tag = "Class" => Occurs(Utf8(entry.text), PoolOf(c)))
  BY ConstantIs
<1>2. entry.tag = "Class" => j \in Nat
  BY <1>1, SlotsOf
<1>3. ReadText(entry.text) \in Texts /\ NameText(NoName) \in Texts
  BY <1>1, ReadTextIs, TextsAre DEF NoName
<1>4. Parsed(c, e) = [tag |-> entry.tag, index |-> IF entry.tag = "Class" THEN j ELSE 0,
                      text |-> IF entry.tag = "Utf8" THEN ReadText(entry.text) ELSE NameText(NoName)]
  BY DEF Parsed
<1> HIDE DEF entry, j
<1> QED BY <1>1, <1>2, <1>3, <1>4 DEF Slots, entry, j

\* A constant that occurs is found under its number once the pool is filled.
LEMMA Lookup ==
  ASSUME class \in Classes, AllFilled(class), NEW tag \in {"Utf8", "Class"}, NEW t,
         Occurs([tag |-> tag, text |-> t], PoolOf(class))
  PROVE  LET n == SlotOf(PoolOf(class), [tag |-> tag, text |-> t]) IN
         /\ n \in Nat \ {0} /\ n < Half /\ Short(n) = n /\ Has(n, tag) /\ ~Uninitialized(n)
         /\ tag = "Class" => Constants(n).index = SlotOf(PoolOf(class), Utf8(t))
         /\ tag = "Utf8" => Constants(n).text = ReadText(t)
<1> DEFINE P == PoolOf(class)
           entry == [tag |-> tag, text |-> t]
           n == SlotOf(P, entry)
<1>1. P \in Seq(Entries)
  BY PoolIs
<1>2. PICK e \in 1..Len(P) : P[e] = entry /\ n = Slot(P, e) /\ n \in Nat \ {0} /\ n < Slot(P, Len(P) + 1)
  <2>1. Occurs(entry, P)
    OBVIOUS
  <2> HIDE DEF P, entry
  <2> QED BY <1>1, <2>1, SlotOfIs
<1>3. Len(pool) = Slot(P, Len(P) + 1) /\ Len(pool) < Half /\ pool \in Seq(Slots)
  BY DEF AllFilled, Filled, Count16
<1>4. pool[n + 1] = Parsed(class, e)
  <2>1. e \in 1..(Len(P) + 1) - 1
    BY <1>1
  <2> QED BY <1>2, <2>1 DEF AllFilled, Filled
<1>5. entry.tag = tag /\ entry.text = t /\ tag # "garbage"
  OBVIOUS
<1>6. /\ Parsed(class, e).tag = tag
      /\ tag = "Class" => Parsed(class, e).index = SlotOf(P, Utf8(t))
      /\ tag = "Utf8" => Parsed(class, e).text = ReadText(t)
  BY <1>2, <1>5, ParsedIs
<1>7. Parsed(class, e) # Garbage
  BY <1>5, <1>6 DEF Garbage
<1> HIDE DEF n, P, entry
<1>8. n \in 0..Len(pool) - 1 /\ n < Half /\ Len(pool) \in Nat
  <2>1. Len(pool) \in Nat /\ Half \in Nat
    BY <1>3, ClassFileAssumption
  <2> QED BY <1>2, <1>3, <2>1
<1>9. Short(n) = n
  BY <1>8 DEF Short
<1> QED BY <1>2, <1>4, <1>6, <1>7, <1>8, <1>9 DEF Has, Uninitialized, Constants, Count, n, P, entry

\* In the full pool the index of a class leads to its name.
LEMMA ClassLookup ==
  ASSUME class \in Classes, AllFilled(class), NEW t \in NamedIn(class)
  PROVE  LET n == ClassSlot(class, t) IN
         /\ n \in Nat \ {0} /\ Short(n) = n /\ HasClass(n) /\ ~Uninitialized(n) /\ ClassName(n) = Named(t)
<1> DEFINE n == ClassSlot(class, t)
           m == SlotOf(PoolOf(class), Utf8(t))
<1>1. Occurs(ClassOf(t), PoolOf(class)) /\ Occurs(Utf8(t), PoolOf(class))
  BY PoolIs
<1>2. /\ n \in Nat \ {0} /\ Short(n) = n /\ Has(n, "Class") /\ ~Uninitialized(n) /\ Constants(n).index = m
  <2>1. ClassOf(t) = [tag |-> "Class", text |-> t]
    BY DEF ClassOf
  <2> QED BY <1>1, <2>1, Lookup DEF ClassSlot
<1>3. Has(m, "Utf8") /\ Constants(m).text = ReadText(t)
  <2>1. Utf8(t) = [tag |-> "Utf8", text |-> t]
    BY DEF Utf8
  <2> QED BY <1>1, <2>1, Lookup
<1>4. t \in Texts
  <2>1. /\ class.this \in Texts /\ \A k \in 1..Len(class.super) : class.super[k] \in Texts
        /\ \A k \in 1..Len(class.interfaces) : class.interfaces[k] \in Texts
    BY ClassIs
  <2> QED BY <2>1 DEF NamedIn
<1>5. ReadText(t).name = Named(t)
  BY <1>4, ReadTextIs
<1> HIDE DEF n, m
<1> QED BY <1>2, <1>3, <1>5 DEF HasClass, ClassName, n

\* The numbers in a member.
LEMMA TextLookup ==
  ASSUME class \in Classes, AllFilled(class), NEW t, Occurs(Utf8(t), PoolOf(class))
  PROVE  LET n == SlotOf(PoolOf(class), Utf8(t)) IN
         /\ n \in Nat /\ Short(n) = n /\ Has(n, "Utf8") /\ ~Uninitialized(n)
         /\ Constants(n).text = ReadText(t)
<1>1. Utf8(t) = [tag |-> "Utf8", text |-> t]
  BY DEF Utf8
<1> QED BY <1>1, Lookup
-------------------------------------------------------------------------------
\* The steps of the parser.

\* The cell that is k behind the position.
LEMMA Seen ==
  ASSUME NEW p \in Nat, NEW s, Len(s) \in Nat, At(file, p, s), pos = p + 1, NEW k \in 0..Len(s) - 1
  PROVE  Cell(k) = s[k + 1]
<1>1. k + 1 \in 1..Len(s) /\ p + (k + 1) = pos + k
  OBVIOUS
<1>2. file[p + (k + 1)] = s[k + 1]
  BY <1>1 DEF At
<1> QED BY <1>1, <1>2 DEF Cell

\* The class file and the bounds every step refers to.
LEMMA FileIs ==
  ASSUME ClassInv
  PROVE  /\ class \in Classes /\ file = Encode(class) /\ Len(file) = EndAt(class) + 1
         /\ EndAt(class) \in Nat /\ InfoAt(class) \in Nat /\ Half \in Nat \ {0}
         /\ 4 <= InfoAt(class) /\ InfoAt(class) + 4 <= EndAt(class)
         /\ outcome = "reading" => Reading
<1>1. class \in Classes /\ file = Encode(class) /\ (outcome = "reading" => Reading)
  BY DEF ClassInv
<1>2. /\ Len(file) = EndAt(class) + 1 /\ EndAt(class) \in Nat /\ InfoAt(class) \in Nat
  BY <1>1, Layout
<1>3. /\ InfoAt(class) = 4 + Len(FlattenSeq(ConstantParts(class)))
      /\ InfoAt(class) + 4 + Len(class.interfaces) <= EndAt(class) /\ Len(class.interfaces) \in Nat
  BY <1>1, Bounds
<1>4. Len(FlattenSeq(ConstantParts(class))) \in Nat
  <2>1. ConstantParts(class) \in Seq(Seq(Cells)) /\ 0 \in Nat
    BY <1>1, PartsAre
  <2>2. FlattenSeq(ConstantParts(class)) \in Seq(Cells)
    BY <2>1, StartsAre
  <2> QED BY <2>2
<1>5. 4 <= InfoAt(class) /\ InfoAt(class) + 4 <= EndAt(class)
  <2> DEFINE x == Len(FlattenSeq(ConstantParts(class)))
             y == Len(class.interfaces)
             m == InfoAt(class)
             n == EndAt(class)
  <2>1. x \in Nat /\ y \in Nat /\ m \in Nat /\ n \in Nat /\ m = 4 + x /\ m + 4 + y <= n
    BY <1>2, <1>3, <1>4
  <2> HIDE DEF x, y, m, n
  <2>2. 4 <= m /\ m + 4 <= n
    BY <2>1
  <2> QED BY <2>2 DEF m, n
<1> QED BY <1>1, <1>2, <1>5, ClassFileAssumption

\* One lemma for each action: the version and the magic number.
LEMMA HeaderStep ==
  ASSUME ClassInv, ReadHeader, UNCHANGED <<class, file, mode, first>>
  PROVE  ClassInv'
<1>1. /\ outcome = "reading" /\ step = "header" /\ pos' = pos + 3 /\ step' = "count" /\ outcome' = outcome
  BY DEF ReadHeader, Reads, Skip, Then
<1>2. pos = 1
  BY <1>1, Where, FileIs
<1>3. pos' = 4
  BY <1>1, <1>2
<1>4. pos' <= Len(file)
  BY <1>3, FileIs
<1>5. Reading'
  BY <1>1, <1>3 DEF Reading
<1> QED BY <1>1, <1>4, <1>5, Goes

\* The number of constants, as a short: the pool is made, with nothing in it.
LEMMA PoolCountStep ==
  ASSUME ClassInv, ReadPoolCount, UNCHANGED <<class, file, mode, first>>
  PROVE  ClassInv'
<1>1. outcome = "reading" /\ step = "count"
  BY DEF ReadPoolCount, Reads
<1>2. pos = 4
  BY <1>1, Where, FileIs
<1> DEFINE n == Count16(class)
           s == <<"CAFEBABE", 0, 52, n>>
<1>3. n \in Nat /\ At(file, 0, s)
  BY FileIs, PartsAre, Layout
<1>4. Cell(0) = n
  <2>1. Len(s) = 4 /\ s[4] = n
    OBVIOUS
  <2> HIDE DEF s, n
  <2>2. file[0 + 4] = s[4]
    BY <1>3, <2>1 DEF At
  <2> QED BY <1>2, <2>1, <2>2 DEF Cell
<1>5. CASE ShortAt(0) < 0 /\ Throw
  <2>1. n >= Half
    BY <1>3, <1>4, <1>5, ClassFileAssumption DEF ShortAt, Short
  <2>2. Exceeds(class)
    BY <2>1 DEF Exceeds, Count16
  <2> QED BY <1>5, <2>2, Throws
<1>6. CASE /\ ShortAt(0) >= 0
           /\ pool' = [k \in 1..ShortAt(0) |-> Garbage]
           /\ i' = 1 /\ Skip(1) /\ Then("constants")
           /\ UNCHANGED <<left, sig, refs, name, outcome>>
  <2>1. n < Half /\ ShortAt(0) = n
    <3>1. n \in Nat /\ n < 2 * Half
      BY <1>3, FileIs, LegalAssumption DEF Legal, Count16
    <3> HIDE DEF n
    <3> QED BY <3>1, <1>4, <1>6, ClassFileAssumption DEF ShortAt, Short
  <2>2. pool' = [k \in 1..n |-> Garbage] /\ i' = 1 /\ pos' = 5 /\ step' = "constants" /\ outcome' = outcome
    BY <1>2, <1>6, <2>1 DEF Skip, Then
  <2>3. Garbage \in Slots
    BY TextsAre DEF Garbage, Slots, NoName
  <2>4. Filled(class, 1)'
    <3>1. pool' \in Seq(Slots) /\ Len(pool') = n
      BY <1>3, <2>2, <2>3
    <3>2. 1..1 - 1 = {}
      OBVIOUS
    <3> QED BY <2>1, <3>1, <3>2 DEF Filled
  <2>5. ConstantAt(class, 1) = 4 /\ PoolOf(class) \in Seq(Entries)
    BY FileIs, ConstantSeen, PoolIs
  <2>6. Slot(PoolOf(class), 1) = 1 /\ Len(PoolOf(class)) \in Nat
    BY <2>5, SlotIs
  <2>7. AtConstant(1)'
    <3>1. 1 \in 1..Len(PoolOf(class)) + 1
      BY <2>6
    <3>2. pos' = 4 + 1
      BY <2>2
    <3> QED BY <2>2, <2>4, <2>5, <2>6, <3>1, <3>2 DEF AtConstant
  <2>8. Reading'
    BY <2>2, <2>7 DEF Reading
  <2>9. pos' <= Len(file)
    BY <2>2, FileIs
  <2> QED BY <1>1, <2>2, <2>8, <2>9, Goes
<1> QED BY <1>5, <1>6 DEF ReadPoolCount

\* The next constant is stored in its slot.
LEMMA Stored ==
  ASSUME class \in Classes, class' = class, NEW e \in 1..Len(PoolOf(class)), AtConstant(e),
         Stores(Parsed(class, e), Len(ConstantCells(PoolOf(class), e)))
  PROVE  AtConstant(e + 1)'
<1> DEFINE P == PoolOf(class)
           n == Len(P)
           x == Parsed(class, e)
<1>1. P \in Seq(Entries)
  BY PoolIs
<1>2. n \in Nat
  BY <1>1
<1>3. /\ pos = ConstantAt(class, e) + 1 /\ i = Slot(P, e)
      /\ pool \in Seq(Slots) /\ Len(pool) = Count16(class) /\ Count16(class) < Half
      /\ \A d \in 1..e - 1 : pool[Slot(P, d) + 1] = Parsed(class, d)
  BY DEF AtConstant, Filled
<1>4. /\ pool' = [pool EXCEPT ![i + 1] = x] /\ i' = i + (IF x.tag \in Wide THEN 2 ELSE 1)
      /\ pos' = pos + Len(ConstantCells(P, e))
  BY DEF Stores, Skip
<1>5. x \in Slots /\ x.tag = P[e].tag
  BY ParsedIs
<1>6. /\ ConstantAt(class, e + 1) = ConstantAt(class, e) + Len(ConstantCells(P, e))
      /\ ConstantAt(class, e) \in Nat /\ Len(ConstantCells(P, e)) \in Nat
  <2>1. e \in 1..n + 1
    BY <1>2
  <2>2. ConstantCells(P, e) \in Seq(Cells)
    BY ConstantIs
  <2>3. Len(ConstantCells(P, e)) \in Nat
    BY <2>2
  <2> QED BY <2>1, <2>3, ConstantSeen
<1> HIDE DEF P, n, x
<1>7. /\ Slot(P, e + 1) = Slot(P, e) + (IF P[e].tag \in Wide THEN 2 ELSE 1)
      /\ \A d \in 1..n + 1 : Slot(P, d) \in Nat \ {0}
      /\ \A d, b \in 1..n + 1 : d < b => Slot(P, d) < Slot(P, b)
      /\ Len(pool) = Slot(P, n + 1)
  <2>1. e \in 1..Len(P) /\ n = Len(P)
    BY DEF P, n
  <2> QED BY <1>1, <1>3, <2>1, SlotIs DEF Count16, P, n
<1>8. e \in 1..n + 1 /\ n + 1 \in 1..n + 1 /\ e < n + 1 /\ e + 1 \in 1..n + 1 /\ e \in Nat
  BY <1>2 DEF P, n
<1>9. i + 1 \in 1..Len(pool) /\ i \in Nat
  <2>1. Slot(P, e) \in Nat /\ Slot(P, e) < Slot(P, n + 1) /\ Slot(P, n + 1) \in Nat
    BY <1>7, <1>8
  <2> QED BY <1>3, <1>7, <2>1
<1>10. /\ pool' \in Seq(Slots) /\ Len(pool') = Len(pool)
       /\ \A j \in 1..Len(pool) : pool'[j] = IF j = i + 1 THEN x ELSE pool[j]
  BY <1>3, <1>4, <1>5, <1>9, ExceptSeq
<1>11. ASSUME NEW d \in 1..(e + 1) - 1
       PROVE  pool'[Slot(P, d) + 1] = Parsed(class, d)
  <2>1. d \in 1..n + 1 /\ d \in Nat /\ d < n + 1 /\ (d = e \/ d < e)
    BY <1>2, <1>8
  <2>2. Slot(P, d) \in Nat /\ Slot(P, d) < Slot(P, n + 1) /\ Slot(P, n + 1) \in Nat
    BY <1>7, <1>8, <2>1
  <2>3. Slot(P, d) + 1 \in 1..Len(pool)
    BY <1>7, <2>2
  <2>4. CASE d = e
    BY <1>3, <1>10, <2>3, <2>4 DEF x
  <2>5. CASE d < e
    <3>1. Slot(P, d) < i /\ d \in 1..e - 1
      BY <1>3, <1>7, <1>8, <2>1, <2>5
    <3>2. Slot(P, d) + 1 # i + 1
      BY <1>9, <2>2, <3>1
    <3> QED BY <1>3, <1>10, <2>3, <3>1, <3>2
  <2> QED BY <2>1, <2>4, <2>5
<1>12. i' = Slot(P, e + 1)
  BY <1>3, <1>4, <1>5, <1>7
<1>13. pos' = ConstantAt(class, e + 1) + 1
  BY <1>3, <1>4, <1>6
<1>14. Filled(class, e + 1)'
  BY <1>3, <1>10, <1>11 DEF Filled, P
<1> QED BY <1>8, <1>12, <1>13, <1>14 DEF AtConstant, P, n

\* A constant is stored in its slot, or is one the parser does not know.
LEMMA ConstantStep ==
  ASSUME ClassInv, ReadConstant, UNCHANGED <<class, file, mode, first>>
  PROVE  ClassInv'
<1>1. outcome = "reading" /\ step = "constants" /\ i < Count
  BY DEF ReadConstant, Reads
<1>2. PICK e \in Nat : AtConstant(e)
  BY <1>1, Where, FileIs
<1> DEFINE P == PoolOf(class)
           s == ConstantCells(P, e)
           p == ConstantAt(class, e)
           x == P[e]
<1>3. class \in Classes /\ file = Encode(class) /\ P \in Seq(Entries) /\ Len(P) \in Nat
  <2>1. P \in Seq(Entries)
    BY FileIs, PoolIs
  <2>2. Len(P) \in Nat
    BY <2>1
  <2> QED BY <2>1, <2>2, FileIs
<1>4. /\ e \in 1..Len(P) + 1 /\ pos = p + 1 /\ i = Slot(P, e)
      /\ Count16(class) < Half /\ Count = Slot(P, Len(P) + 1)
  BY <1>2 DEF AtConstant, Filled, Count16, Count
<1>5. e \in 1..Len(P)
  <2>1. e # Len(P) + 1
    <3>1. Slot(P, e) \in Nat
      BY <1>3, <1>4, SlotIs
    <3> QED BY <1>1, <1>4, <3>1
  <2> HIDE DEF P
  <2> QED BY <1>3, <1>4, <2>1
<1>6. p \in Nat /\ At(file, p, s) /\ ConstantAt(class, e + 1) \in Nat /\ ConstantAt(class, e + 1) <= EndAt(class)
  <2>1. e + 1 \in 1..Len(P) + 1
    BY <1>3, <1>5
  <2> QED BY <1>3, <1>4, <1>5, <2>1, ConstantSeen
<1>7. /\ x.tag \in Strings /\ x.text \in Texts /\ s \in Seq(Cells) /\ s[1] = x.tag
      /\ Len(s) = IF x.tag \in {"Utf8"} \cup Pair THEN 3 ELSE 2
      /\ x.tag = "Utf8" => s[2] = x.text.len /\ s[3] = x.text
      /\ x.tag = "Class" => s[2] = SlotOf(P, Utf8(x.text)) /\ Occurs(Utf8(x.text), P)
      /\ x.tag \notin {"Utf8", "Class"} => s[2] = 0
  BY <1>3, <1>5, ConstantIs
<1>8. Parsed(class, e) = [tag |-> x.tag, index |-> IF x.tag = "Class" THEN SlotOf(P, Utf8(x.text)) ELSE 0,
                          text |-> IF x.tag = "Utf8" THEN ReadText(x.text) ELSE NameText(NoName)]
  BY DEF Parsed
<1>9. x.tag = "Class" => /\ SlotOf(P, Utf8(x.text)) \in Nat
                         /\ Short(SlotOf(P, Utf8(x.text))) = SlotOf(P, Utf8(x.text))
  <2>1. SUFFICES ASSUME x.tag = "Class"
                 PROVE  /\ SlotOf(P, Utf8(x.text)) \in Nat
                        /\ Short(SlotOf(P, Utf8(x.text))) = SlotOf(P, Utf8(x.text))
    OBVIOUS
  <2> DEFINE m == SlotOf(P, Utf8(x.text))
  <2>2. Occurs(Utf8(x.text), P)
    BY <1>7, <2>1
  <2>3. m \in Nat /\ m < Slot(P, Len(P) + 1)
    <3> HIDE DEF P, x
    <3> QED BY <1>3, <2>2, SlotOfIs
  <2>4. Count16(class) = Slot(P, Len(P) + 1) /\ Count16(class) \in Nat
    BY <1>3, PartsAre DEF Count16
  <2> HIDE DEF m, P
  <2>5. m < Half
    BY <1>4, <2>3, <2>4, ClassFileAssumption
  <2> QED BY <2>3, <2>5 DEF Short, m
<1> HIDE DEF s, p, x
<1>10. Cell(0) = x.tag /\ Cell(1) = s[2] /\ (x.tag = "Utf8" => Cell(2) = x.text)
  <2>1. Len(s) \in Nat /\ 0 \in 0..Len(s) - 1 /\ 1 \in 0..Len(s) - 1 /\ (x.tag = "Utf8" => 2 \in 0..Len(s) - 1)
    BY <1>7
  <2>2. Cell(0) = s[0 + 1]
    BY <1>4, <1>6, <2>1, Seen
  <2>3. Cell(1) = s[1 + 1]
    BY <1>4, <1>6, <2>1, Seen
  <2>4. x.tag = "Utf8" => Cell(2) = s[2 + 1]
    BY <1>4, <1>6, <2>1, Seen
  <2> QED BY <1>7, <2>2, <2>3, <2>4
<1>11. CASE Cell(0) = "Utf8" /\ ShortAt(1) < 0 /\ Throw
  <2>1. x.text.len >= Half
    <3>1. x.text.len \in Nat
      BY <1>7 DEF Texts
    <3>2. Cell(1) = x.text.len
      BY <1>7, <1>10, <1>11
    <3> QED BY <1>11, <3>1, <3>2, ClassFileAssumption DEF ShortAt, Short
  <2>2. Exceeds(class)
    BY <1>5, <2>1 DEF Exceeds, x
  <2> QED BY <1>11, <2>2, Throws
<1>12. CASE Cell(0) \notin KnownTags /\ Throw
  <2>1. Exceeds(class)
    BY <1>5, <1>10, <1>12 DEF Exceeds, x
  <2> QED BY <1>12, <2>1, Throws
<1>13. ASSUME Stores(Parsed(class, e), Len(s)), UNCHANGED <<step, left, sig, refs, name, outcome>>
       PROVE  ClassInv'
  <2>1. AtConstant(e + 1)'
    BY <1>2, <1>3, <1>5, <1>13, Stored DEF s
  <2>2. pos' = ConstantAt(class, e + 1) + 1
    BY <2>1 DEF AtConstant
  <2>3. Reading'
    BY <1>1, <1>13, <2>1 DEF Reading
  <2>4. pos' <= Len(file)
    BY <1>6, <2>2, FileIs
  <2> QED BY <1>1, <1>13, <2>3, <2>4, Goes
<1>14. CASE /\ Cell(0) = "Utf8" /\ ShortAt(1) >= 0
            /\ Stores([tag |-> "Utf8", index |-> 0, text |-> ReadText(Cell(2))], 3)
            /\ UNCHANGED <<step, left, sig, refs, name, outcome>>
  <2>1. Parsed(class, e) = [tag |-> "Utf8", index |-> 0, text |-> ReadText(Cell(2))] /\ Len(s) = 3
    BY <1>7, <1>8, <1>10, <1>14
  <2> QED BY <1>13, <1>14, <2>1
<1>15. CASE /\ Cell(0) \in Single
            /\ Stores([tag |-> Cell(0), index |-> ShortAt(1), text |-> Garbage.text], 2)
            /\ UNCHANGED <<step, left, sig, refs, name, outcome>>
  <2>1. x.tag # "Utf8" /\ Len(s) = 2
    BY <1>7, <1>10, <1>15 DEF Single, Pair
  <2>2. ShortAt(1) = IF x.tag = "Class" THEN SlotOf(P, Utf8(x.text)) ELSE 0
    <3>1. Short(0) = 0
      BY ClassFileAssumption DEF Short
    <3> QED BY <1>7, <1>9, <1>10, <2>1, <3>1 DEF ShortAt
  <2>3. Garbage.text = NameText(NoName)
    BY DEF Garbage
  <2>4. Parsed(class, e) = [tag |-> Cell(0), index |-> ShortAt(1), text |-> Garbage.text]
    BY <1>8, <1>10, <2>1, <2>2, <2>3
  <2> QED BY <1>13, <1>15, <2>1, <2>4
<1>16. CASE /\ Cell(0) \in Pair \cup Word \cup Wide
            /\ Stores([tag |-> Cell(0), index |-> 0, text |-> Garbage.text], IF Cell(0) \in Pair THEN 3 ELSE 2)
            /\ UNCHANGED <<step, left, sig, refs, name, outcome>>
  <2>1. x.tag # "Utf8" /\ x.tag # "Class" /\ Len(s) = IF Cell(0) \in Pair THEN 3 ELSE 2
    BY <1>7, <1>10, <1>16 DEF Pair, Word, Wide
  <2>2. Garbage.text = NameText(NoName)
    BY DEF Garbage
  <2>3. Parsed(class, e) = [tag |-> Cell(0), index |-> 0, text |-> Garbage.text]
    BY <1>8, <1>10, <2>1, <2>2
  <2> QED BY <1>13, <1>16, <2>1, <2>3
<1> QED
  <2>1. \/ Cell(0) = "Utf8" /\ ShortAt(1) < 0 /\ Throw
        \/ Cell(0) \notin KnownTags /\ Throw
        \/ /\ \/ /\ Cell(0) = "Utf8" /\ ShortAt(1) >= 0
                 /\ Stores([tag |-> "Utf8", index |-> 0, text |-> ReadText(Cell(2))], 3)
              \/ /\ Cell(0) \in Single
                 /\ Stores([tag |-> Cell(0), index |-> ShortAt(1), text |-> Garbage.text], 2)
              \/ /\ Cell(0) \in Pair \cup Word \cup Wide
                 /\ Stores([tag |-> Cell(0), index |-> 0, text |-> Garbage.text], IF Cell(0) \in Pair THEN 3 ELSE 2)
           /\ UNCHANGED <<step, left, sig, refs, name, outcome>>
    BY Zenon DEF ReadConstant
  <2> QED BY <1>11, <1>12, <1>14, <1>15, <1>16, <2>1

\* Behind the last constant the pool is full.
LEMMA EndConstantsStep ==
  ASSUME ClassInv, EndConstants, UNCHANGED <<class, file, mode, first>>
  PROVE  ClassInv'
<1>1. /\ outcome = "reading" /\ step = "constants" /\ i >= Count /\ step' = "info"
      /\ pos' = pos /\ pool' = pool /\ outcome' = outcome
  BY DEF EndConstants, Reads, Then
<1>2. PICK e \in Nat : AtConstant(e)
  BY <1>1, Where, FileIs
<1> DEFINE P == PoolOf(class)
           n == Len(P)
<1>3. class \in Classes /\ P \in Seq(Entries) /\ n \in Nat
  <2>1. P \in Seq(Entries)
    BY FileIs, PoolIs
  <2>2. n \in Nat
    BY <2>1
  <2> QED BY <2>1, <2>2, FileIs
<1>4. /\ e \in 1..n + 1 /\ pos = ConstantAt(class, e) + 1 /\ i = Slot(P, e)
      /\ Count = Slot(P, n + 1) /\ Filled(class, e)
  BY <1>2 DEF AtConstant, Filled, Count16, Count
<1>5. e = n + 1
  <2>1. n + 1 \in 1..n + 1
    BY <1>3
  <2>2. Slot(P, e) \in Nat /\ Slot(P, n + 1) \in Nat /\ (e < n + 1 => Slot(P, e) < Slot(P, n + 1))
    BY <1>3, <1>4, <2>1, SlotIs
  <2>3. ~(e < n + 1)
    BY <1>1, <1>4, <2>2
  <2> HIDE DEF n
  <2> QED BY <1>3, <1>4, <2>3
<1>6. pos' = InfoAt(class) + 1
  BY <1>1, <1>3, <1>4, <1>5, ConstantSeen
<1>7. AllFilled(class)'
  BY <1>1, <1>4, <1>5 DEF AllFilled, Filled
<1>8. Reading'
  BY <1>1, <1>6, <1>7 DEF Reading
<1>9. pos' <= Len(file)
  <2> DEFINE a == InfoAt(class)
             b == EndAt(class)
  <2>1. a \in Nat /\ b \in Nat /\ a + 4 <= b /\ Len(file) = b + 1 /\ pos' = a + 1
    BY <1>6, FileIs
  <2> HIDE DEF a, b
  <2> QED BY <2>1
<1> QED BY <1>1, <1>8, <1>9, Goes

\* What is known of the class stays known as long as the pool and the name do.
LEMMA KnownStays ==
  ASSUME Known, UNCHANGED <<class, pool, name>>
  PROVE  Known'
BY DEF Known, AllFilled, Filled

\* The flags, the class and its superclass: the name is known, and a parse for it ends.
LEMMA ClassInfoStep ==
  ASSUME ClassInv, ReadClassInfo, UNCHANGED <<class, file, mode, first>>
  PROVE  ClassInv'
<1>1. outcome = "reading" /\ step = "info"
  BY DEF ReadClassInfo, Reads
<1>2. pos = InfoAt(class) + 1 /\ AllFilled(class) /\ class \in Classes
  BY <1>1, Where, FileIs
<1> DEFINE s == Info(class)
           p == InfoAt(class)
           x == ClassSlot(class, class.this)
           z == IF class.super = <<>> THEN 0 ELSE ClassSlot(class, class.super[1])
<1>3. /\ s \in Seq(Cells) /\ Len(s) = 3 /\ s[1] = class.flags /\ s[2] = x /\ s[3] = z
      /\ p \in Nat /\ At(file, p, s)
  BY <1>2, PartsTyped, Layout, FileIs
<1>4. Cell(0) = class.flags /\ Cell(1) = x /\ Cell(2) = z
  <2> HIDE DEF s, p, x, z
  <2>1. 0 \in 0..Len(s) - 1 /\ 1 \in 0..Len(s) - 1 /\ 2 \in 0..Len(s) - 1 /\ Len(s) \in Nat /\ pos = p + 1
    BY <1>2, <1>3 DEF p
  <2>2. Cell(0) = s[0 + 1]
    BY <1>3, <2>1, Seen
  <2>3. Cell(1) = s[1 + 1]
    BY <1>3, <2>1, Seen
  <2>4. Cell(2) = s[2 + 1]
    BY <1>3, <2>1, Seen
  <2> QED BY <1>3, <2>2, <2>3, <2>4
<1>5. HasClass(ShortAt(1)) /\ ~Uninitialized(ShortAt(1)) /\ ClassName(ShortAt(1)) = Named(class.this)
  <2>1. class.this \in NamedIn(class)
    BY DEF NamedIn
  <2>2. /\ Short(x) = x /\ HasClass(x) /\ ~Uninitialized(x) /\ ClassName(x) = Named(class.this)
    BY <1>2, <2>1, ClassLookup
  <2> QED BY <1>4, <2>2 DEF ShortAt
<1>6. /\ ShortAt(2) > 0 => HasClass(ShortAt(2))
      /\ SuperName(class) = IF ShortAt(2) > 0 THEN ClassName(ShortAt(2)) ELSE "java/lang/Object"
  <2>1. CASE class.super = <<>>
    <3>1. ShortAt(2) = 0
      BY <1>4, <2>1, ClassFileAssumption DEF ShortAt, Short
    <3> QED BY <2>1, <3>1 DEF SuperName
  <2>2. CASE class.super # <<>>
    <3>1. class.super[1] \in NamedIn(class)
      <4>1. class.super \in Seq(Texts)
        BY <1>2, ClassIs
      <4>2. 1 \in 1..Len(class.super)
        BY <2>2, <4>1
      <4> QED BY <4>2 DEF NamedIn
    <3>2. /\ z \in Nat \ {0} /\ Short(z) = z /\ HasClass(z) /\ ClassName(z) = Named(class.super[1])
      BY <1>2, <2>2, <3>1, ClassLookup
    <3>3. ShortAt(2) = z
      BY <1>4, <3>2 DEF ShortAt
    <3> HIDE DEF z
    <3> QED BY <2>2, <3>2, <3>3 DEF SuperName
  <2> QED BY <2>1, <2>2
<1>7. ~({"interface", "abstract"} \cap Cell(0) # {} /\ "final" \in Cell(0))
  BY <1>2, <1>4, LegalAssumption DEF Legal
<1> HIDE DEF s, p, x, z
<1>8. /\ name' = ClassName(ShortAt(1))
      /\ refs' = {IF ShortAt(2) > 0 THEN ClassName(ShortAt(2)) ELSE "java/lang/Object"}
      /\ Skip(3) /\ Then(IF mode = "name" THEN "end" ELSE "interfaces")
      /\ UNCHANGED <<pool, i, left, sig, outcome>>
  BY <1>5, <1>6, <1>7, Zenon DEF ReadClassInfo
<1>9. /\ pos' = InfoAt(class) + 4 /\ pos' <= Len(file)
  <2>1. pos' = pos + 3 /\ InfoAt(class) \in Nat
    BY <1>8, FileIs DEF Skip
  <2>2. pos' = InfoAt(class) + 4
    BY <1>2, <2>1
  <2> DEFINE a == InfoAt(class)
             b == EndAt(class)
  <2>3. a \in Nat /\ b \in Nat /\ a + 4 <= b /\ Len(file) = b + 1 /\ pos' = a + 4
    BY <2>2, FileIs
  <2> HIDE DEF a, b
  <2>4. pos' <= Len(file)
    BY <2>3
  <2> QED BY <2>2, <2>4
<1>10. Known'
  BY <1>2, <1>5, <1>8 DEF Known, AllFilled, Filled
<1>11. refs' = {SuperName(class)}
  BY <1>6, <1>8
<1>12. mode \in {"name", "all"}
  BY DEF ClassInv
<1>13. Reading'
  <2>1. CASE mode = "name"
    <3>1. step' = "end" /\ mode' = "name"
      BY <1>8, <2>1 DEF Then
    <3> QED BY <1>10, <3>1 DEF Reading
  <2>2. CASE mode = "all"
    <3>1. step' = "interfaces" /\ mode' = "all"
      BY <1>8, <2>2 DEF Then
    <3> QED BY <1>9, <1>10, <1>11, <3>1 DEF Reading
  <2> QED BY <1>12, <2>1, <2>2
<1> QED BY <1>1, <1>8, <1>9, <1>13, Goes

\* The count of a loop: none is refused that fits.
LEMMA LoopCount ==
  ASSUME ClassInv, NEW n \in Nat, Cell(0) = n, n < 2 * Half, n >= Half => Exceeds(class),
         UNCHANGED <<class, file, mode, first>>, NEW s, NEW body, ReadLoopCount(s, body)
  PROVE  \/ ClassInv'
         \/ /\ i' = n /\ pos' = pos + 1 /\ step' = body /\ UNCHANGED <<pool, left, sig, refs, name, outcome>>
            /\ n < Half
<1>1. CASE ShortAt(0) < 0 /\ Throw
  <2>1. n >= Half
    BY <1>1, ClassFileAssumption DEF ShortAt, Short
  <2> QED BY <1>1, <2>1, Throws
<1>2. CASE /\ ShortAt(0) >= 0
           /\ i' = ShortAt(0) /\ Skip(1) /\ Then(body)
           /\ UNCHANGED <<pool, left, sig, refs, name, outcome>>
  <2>1. n < Half /\ ShortAt(0) = n
    BY <1>2, ClassFileAssumption DEF ShortAt, Short
  <2> QED BY <1>2, <2>1 DEF Skip, Then
<1> QED BY <1>1, <1>2 DEF ReadLoopCount

\* The number of interfaces.
LEMMA InterfacesStep ==
  ASSUME ClassInv, ReadLoopCount("interfaces", "interface"), UNCHANGED <<class, file, mode, first>>
  PROVE  ClassInv'
<1>1. outcome = "reading" /\ step = "interfaces"
  BY DEF ReadLoopCount, Reads
<1>2. /\ mode = "all" /\ Known /\ pos = InfoAt(class) + 4 /\ refs = {SuperName(class)} /\ class \in Classes
  BY <1>1, Where, FileIs
<1> DEFINE n == Len(class.interfaces)
           p == InfoAt(class)
           s == <<n>>
<1>3. n \in Nat /\ p \in Nat /\ At(file, p + 3, s) /\ n < 2 * Half /\ (n >= Half => Exceeds(class))
  <2>1. n < 2 * Half
    BY <1>2, LegalAssumption DEF Legal
  <2>2. n >= Half => Exceeds(class)
    BY DEF Exceeds
  <2> QED BY <1>2, <2>1, <2>2, PartsTyped, Layout, FileIs
<1>4. Len(s) = 1 /\ s[1] = n
  OBVIOUS
<1> HIDE DEF n, p, s
<1>5. Cell(0) = n
  <2>1. p + 3 \in Nat /\ pos = (p + 3) + 1 /\ 0 \in 0..Len(s) - 1 /\ Len(s) \in Nat
    BY <1>2, <1>3, <1>4 DEF p
  <2>2. Cell(0) = s[0 + 1]
    BY <1>3, <2>1, Seen
  <2> QED BY <1>4, <2>2
<1>6. CASE /\ i' = n /\ pos' = pos + 1 /\ step' = "interface"
           /\ UNCHANGED <<pool, left, sig, refs, name, outcome>>
  <2>1. AtInterface(1)'
    <3>1. 1 \in 1..n + 1 /\ n - (1 - 1) = n /\ pos' = p + 4 + 1
      BY <1>2, <1>3, <1>6 DEF p
    <3>2. InterfaceNames(class, 1 - 1) = {}
      BY DEF InterfaceNames
    <3> QED BY <1>2, <1>6, <3>1, <3>2 DEF AtInterface, n, p
  <2>2. Known'
    BY <1>2, <1>6, KnownStays
  <2>3. Reading'
    BY <1>2, <1>6, <2>1, <2>2 DEF Reading
  <2>4. pos' <= Len(file)
    <3> DEFINE b == EndAt(class)
    <3>1. b \in Nat /\ p + 4 <= b /\ Len(file) = b + 1 /\ pos' = p + 5
      BY <1>2, <1>3, <1>6, FileIs DEF p
    <3> HIDE DEF b
    <3> QED BY <1>3, <3>1
  <2> QED BY <1>1, <1>6, <2>3, <2>4, Goes
<1> QED BY <1>3, <1>5, <1>6, LoopCount

\* An interface is referred to.
LEMMA InterfaceStep ==
  ASSUME ClassInv, ReadInterface, UNCHANGED <<class, file, mode, first>>
  PROVE  ClassInv'
<1>1. outcome = "reading" /\ step = "interface" /\ i > 0
  BY DEF ReadInterface, Reads
<1>2. mode = "all" /\ Known /\ class \in Classes
  BY <1>1, Where, FileIs
<1>3. PICK k \in Nat : AtInterface(k)
  BY <1>1, Where, FileIs
<1> DEFINE n == Len(class.interfaces)
           p == InfoAt(class)
           s == InterfaceSlots(class)
           t == class.interfaces[k]
           x == ClassSlot(class, t)
<1>4. /\ k \in 1..n + 1 /\ pos = p + 4 + k /\ i = n - (k - 1)
      /\ refs = {SuperName(class)} \cup InterfaceNames(class, k - 1)
  BY <1>3 DEF AtInterface
<1>5. n \in Nat /\ p \in Nat /\ At(file, p + 4, s) /\ Len(s) = n
  BY <1>2, PartsTyped, Layout, FileIs
<1>6. k \in 1..n
  <2> HIDE DEF n
  <2> QED BY <1>1, <1>4, <1>5
<1>7. s[k] = x
  BY <1>2, <1>6, PartsTyped
<1>8. Cell(0) = x
  <2> HIDE DEF n, p, s, x
  <2>1. file[(p + 4) + k] = s[k]
    BY <1>5, <1>6 DEF At
  <2>2. (p + 4) + k = pos + 0
    BY <1>4, <1>5, <1>6
  <2> QED BY <1>7, <2>1, <2>2 DEF Cell
<1>9. /\ HasClass(ShortAt(0)) /\ ~Uninitialized(ShortAt(0)) /\ ClassName(ShortAt(0)) = Named(t)
  <2>1. t \in NamedIn(class)
    BY <1>6 DEF NamedIn
  <2>2. Short(x) = x /\ HasClass(x) /\ ~Uninitialized(x) /\ ClassName(x) = Named(t)
    BY <1>2, <2>1, ClassLookup DEF Known
  <2> QED BY <1>8, <2>2 DEF ShortAt
<1>10. /\ refs' = refs \cup {Named(t)} /\ i' = i - 1 /\ pos' = pos + 1
       /\ UNCHANGED <<step, pool, left, sig, name, outcome>>
  BY <1>9 DEF ReadInterface, Skip
<1>11. InterfaceNames(class, k) = InterfaceNames(class, k - 1) \cup {Named(t)}
  <2>1. 1..k = (1..k - 1) \cup {k}
    BY <1>4
  <2> QED BY <2>1 DEF InterfaceNames
<1>12. AtInterface(k + 1)'
  <2> HIDE DEF n, p, t
  <2>1. /\ k + 1 \in 1..n + 1 /\ pos' = p + 4 + (k + 1) /\ i' = n - ((k + 1) - 1) /\ (k + 1) - 1 = k
    BY <1>4, <1>5, <1>6, <1>10
  <2>2. refs' = {SuperName(class)} \cup InterfaceNames(class, k)
    BY <1>4, <1>10, <1>11
  <2> QED BY <2>1, <2>2 DEF AtInterface, n, p
<1>13. Known'
  BY <1>2, <1>10, KnownStays
<1>14. Reading'
  BY <1>1, <1>2, <1>10, <1>12, <1>13 DEF Reading
<1>15. pos' <= Len(file)
  <2> DEFINE b == EndAt(class)
  <2>1. b \in Nat /\ p + 4 + n <= b /\ Len(file) = b + 1
    BY <1>2, FileIs, Bounds
  <2> HIDE DEF b, p, n
  <2> QED BY <1>4, <1>5, <1>6, <1>10, <2>1
<1> QED BY <1>1, <1>10, <1>14, <1>15, Goes

\* Behind the last interface come the fields.
LEMMA EndInterfacesStep ==
  ASSUME ClassInv, EndLoop("interface", "fields"), UNCHANGED <<class, file, mode, first>>
  PROVE  ClassInv'
<1>1. /\ outcome = "reading" /\ step = "interface" /\ i = 0 /\ step' = "fields"
      /\ UNCHANGED <<pos, pool, i, left, sig, refs, name, outcome>>
  BY DEF EndLoop, Reads, Then
<1>2. mode = "all" /\ Known /\ class \in Classes
  BY <1>1, Where, FileIs
<1>3. PICK k \in Nat : AtInterface(k)
  BY <1>1, Where, FileIs
<1> DEFINE n == Len(class.interfaces)
           p == InfoAt(class)
<1>4. /\ k \in 1..n + 1 /\ pos = p + 4 + k /\ i = n - (k - 1)
      /\ refs = {SuperName(class)} \cup InterfaceNames(class, k - 1)
  BY <1>3 DEF AtInterface
<1>5. n \in Nat /\ p \in Nat /\ FieldsAt(class) = p + 4 + n
  BY <1>2, PartsTyped, FileIs, Bounds
<1>6. k - 1 = n /\ pos = FieldsAt(class) + 1
  <2> HIDE DEF n, p
  <2> QED BY <1>1, <1>4, <1>5
<1>7. refs = RefsBefore(class, "field")
  BY <1>4, <1>6 DEF RefsBefore
<1>8. Known'
  BY <1>1, <1>2, KnownStays
<1>9. Reading'
  <2>1. "field" \in Kinds /\ MembersStep["field"] = "fields" /\ MembersAt(class, "field") = FieldsAt(class)
    BY DEF Kinds, MembersStep, MembersAt
  <2>2. /\ mode' = "all" /\ step' = MembersStep["field"] /\ pos' = MembersAt(class, "field") + 1
        /\ refs' = RefsBefore(class, "field") /\ class' = class
    BY <1>1, <1>2, <1>6, <1>7, <2>1
  <2> QED BY <1>8, <2>1, <2>2 DEF Reading
<1>10. pos' <= Len(file)
  <2> DEFINE b == EndAt(class)
  <2>1. b \in Nat /\ p + 4 + n <= b /\ Len(file) = b + 1
    BY <1>2, FileIs, Bounds
  <2> HIDE DEF b, p, n
  <2> QED BY <1>1, <1>5, <1>6, <2>1
<1> QED BY <1>1, <1>9, <1>10, Goes

\* The number of fields or of methods.
LEMMA MembersCountStep ==
  ASSUME ClassInv, NEW kind \in Kinds, ReadLoopCount(MembersStep[kind], kind),
         UNCHANGED <<class, file, mode, first>>
  PROVE  ClassInv'
<1>1. outcome = "reading" /\ step = MembersStep[kind]
  BY DEF ReadLoopCount, Reads
<1> DEFINE n == Len(Members(class, kind))
           p == MembersAt(class, kind)
           s == <<n>>
<1>2. /\ mode = "all" /\ Known /\ pos = p + 1 /\ refs = RefsBefore(class, kind) /\ class \in Classes
  BY <1>1, Where, FileIs
<1>3. n \in Nat /\ p \in Nat /\ At(file, p, s) /\ n < 2 * Half /\ (n >= Half => Exceeds(class))
  <2>1. n < 2 * Half
    BY <1>2, LegalAssumption DEF Legal, Members
  <2>2. n >= Half => Exceeds(class)
    BY DEF Exceeds, Members, Kinds
  <2> QED BY <1>2, <2>1, <2>2, MembersAre, MemberSeen, Bounds, FileIs
<1>4. Len(s) = 1 /\ s[1] = n
  OBVIOUS
<1>5. /\ MemberAt(class, kind, 1) = p + 1
      /\ \A k \in 1..n + 1 : MemberAt(class, kind, k) \in Nat /\ MemberAt(class, kind, k) <= EndAt(class)
  BY <1>2, MemberSeen
<1> HIDE DEF n, p, s
<1>6. Cell(0) = n
  <2>1. 0 \in 0..Len(s) - 1 /\ Len(s) \in Nat
    BY <1>4
  <2>2. Cell(0) = s[0 + 1]
    BY <1>2, <1>3, <2>1, Seen
  <2> QED BY <1>4, <2>2
<1>7. CASE /\ i' = n /\ pos' = pos + 1 /\ step' = kind
           /\ UNCHANGED <<pool, left, sig, refs, name, outcome>>
  <2>1. 1 \in 1..n + 1 /\ n - (1 - 1) = n
    BY <1>3
  <2>2. pos' = MemberAt(class, kind, 1) + 1
    BY <1>2, <1>5, <1>7
  <2>3. AtMember(kind, 1)'
    <3>1. MembersRefs(class, kind, 1 - 1) = {}
      BY DEF MembersRefs
    <3> QED BY <1>2, <1>7, <2>1, <2>2, <3>1 DEF AtMember, n
  <2>4. Known'
    BY <1>2, <1>7, KnownStays
  <2>5. Reading'
    BY <1>2, <1>7, <2>3, <2>4 DEF Reading
  <2>6. pos' <= Len(file)
    <3>1. MemberAt(class, kind, 1) \in Nat /\ MemberAt(class, kind, 1) <= EndAt(class)
      BY <1>5, <2>1
    <3> QED BY <2>2, <3>1, FileIs
  <2> QED BY <1>1, <1>7, <2>5, <2>6, Goes
<1> QED BY <1>3, <1>6, <1>7, LoopCount

\* A member's flags, name, signature and number of attributes.
LEMMA MemberStep ==
  ASSUME ClassInv, NEW kind \in Kinds, ReadMember(kind), UNCHANGED <<class, file, mode, first>>
  PROVE  ClassInv'
<1>1. outcome = "reading" /\ step = kind /\ i > 0
  BY DEF ReadMember, Reads
<1>2. mode = "all" /\ Known /\ class \in Classes
  BY <1>1, Where, FileIs
<1>3. PICK k \in Nat : AtMember(kind, k)
  BY <1>1, Where, FileIs
<1> DEFINE n == Len(Members(class, kind))
           m == Members(class, kind)[k]
           p == MemberAt(class, kind, k)
           x == SignatureSlot(class, kind, m)
           y == CodeSlot(class)
           z == class.attributes
           h == <<{}, y, x, z>>
<1>4. /\ k \in 1..n + 1 /\ pos = p + 1 /\ i = n - (k - 1)
      /\ refs = RefsBefore(class, kind) \cup MembersRefs(class, kind, k - 1)
  BY <1>3 DEF AtMember
<1>5. n \in Nat /\ z \in Nat /\ p \in Nat
  BY <1>2, <1>4, MembersAre, MemberSeen, ClassIs
<1>6. k \in 1..n
  <2> HIDE DEF n
  <2> QED BY <1>1, <1>4, <1>5
<1>7. /\ At(file, p, h) /\ AttributeAt(class, kind, k, 1) = p + 4
      /\ \A a \in 1..z + 1 : AttributeAt(class, kind, k, a) \in Nat /\ AttributeAt(class, kind, k, a) <= EndAt(class)
  BY <1>2, <1>6, AttributeSeen, FileIs
<1>8. Short(x) = x
  <2>1. Occurs(Utf8(Signature(kind, m)), PoolOf(class))
    BY <1>2, <1>6, MemberIs
  <2> QED BY <1>2, <2>1, TextLookup DEF SignatureSlot, Known
<1>9. Len(h) = 4 /\ h[3] = x /\ h[4] = z
  OBVIOUS
<1>10. z < 2 * Half
  BY <1>2, LegalAssumption DEF Legal
<1>11. z >= Half => Exceeds(class)
  <2>1. class.fields \o class.methods # <<>>
    <3>1. class.fields \in Seq(Types) /\ class.methods \in Seq(Signatures)
      BY <1>2, ClassIs
    <3>2. class.fields \in Seq(Types \cup Signatures) /\ class.methods \in Seq(Types \cup Signatures)
      BY <3>1, SeqMonotonic
    <3>3. Len(class.fields \o class.methods) = Len(class.fields) + Len(class.methods)
      BY <3>2, ConcatProperties, Zenon
    <3>4. Len(class.fields) \in Nat /\ Len(class.methods) \in Nat
      BY <3>1
    <3>5. Len(class.fields) >= 1 \/ Len(class.methods) >= 1
      BY <1>6, <3>4 DEF Members
    <3>6. Len(class.fields \o class.methods) # 0
      <4> DEFINE a == Len(class.fields)
                 b == Len(class.methods)
                 d == Len(class.fields \o class.methods)
      <4>1. d = a + b /\ a \in Nat /\ b \in Nat /\ (a >= 1 \/ b >= 1)
        BY <3>3, <3>4, <3>5
      <4> HIDE DEF a, b, d
      <4>2. d # 0
        BY <4>1
      <4> QED BY <4>2 DEF d
    <3> QED BY <3>6, EmptySeq
  <2> QED BY <2>1 DEF Exceeds
<1> HIDE DEF n, m, p, x, y, z, h
<1>12. Cell(2) = x /\ Cell(3) = z
  <2>1. 2 \in 0..Len(h) - 1 /\ 3 \in 0..Len(h) - 1 /\ Len(h) \in Nat
    BY <1>9
  <2>2. Cell(2) = h[2 + 1]
    BY <1>4, <1>5, <1>7, <2>1, Seen
  <2>3. Cell(3) = h[3 + 1]
    BY <1>4, <1>5, <1>7, <2>1, Seen
  <2> QED BY <1>9, <2>2, <2>3
<1>13. CASE ShortAt(3) < 0 /\ Throw
  <2>1. z >= Half
    BY <1>5, <1>12, <1>13, ClassFileAssumption DEF ShortAt, Short
  <2> QED BY <1>11, <1>13, <2>1, Throws
<1>14. CASE /\ ShortAt(3) >= 0
            /\ sig' = ShortAt(2) /\ left' = ShortAt(3)
            /\ Skip(4) /\ Then(Of[kind])
            /\ UNCHANGED <<pool, i, refs, name, outcome>>
  <2>1. ShortAt(3) = z /\ ShortAt(2) = x
    BY <1>5, <1>8, <1>10, <1>12, <1>14, ClassFileAssumption DEF ShortAt, Short
  <2>2. /\ pos' = AttributeAt(class, kind, k, 1) + 1 /\ step' = Of[kind] /\ sig' = x /\ left' = z - (1 - 1)
        /\ 1 \in 1..z + 1
    BY <1>4, <1>5, <1>7, <1>14, <2>1 DEF Skip, Then
  <2>3. AtAttribute(kind, k, 1)'
    BY <1>4, <1>6, <1>14, <2>2 DEF AtAttribute, n, m, x, z
  <2>4. Known'
    BY <1>2, <1>14, KnownStays
  <2>5. Reading'
    <3>1. 1 \in Nat
      OBVIOUS
    <3> QED BY <1>2, <2>2, <2>3, <2>4, <3>1 DEF Reading
  <2>6. pos' <= Len(file)
    <3>1. AttributeAt(class, kind, k, 1) \in Nat /\ AttributeAt(class, kind, k, 1) <= EndAt(class)
      BY <1>7, <2>2
    <3> QED BY <2>2, <3>1, FileIs
  <2> QED BY <1>1, <1>14, <2>5, <2>6, Goes
<1> QED BY <1>13, <1>14 DEF ReadMember

\* An attribute is skipped by its length.
LEMMA AttributeStep ==
  ASSUME ClassInv, NEW kind \in Kinds, ReadAttribute(kind), UNCHANGED <<class, file, mode, first>>
  PROVE  ClassInv'
<1>1. outcome = "reading" /\ step = Of[kind] /\ left > 0
  BY DEF ReadAttribute, Reads
<1>2. mode = "all" /\ Known /\ class \in Classes
  BY <1>1, Where, FileIs
<1>3. PICK k \in Nat, a \in Nat : AtAttribute(kind, k, a)
  BY <1>1, Where, FileIs
<1> DEFINE z == class.attributes
           p == AttributeAt(class, kind, k, a)
           q == AttributeAt(class, kind, k, a + 1)
           s == CodeCells(class)
           x == CodeSlot(class)
           l == class.length
<1>4. /\ k \in 1..Len(Members(class, kind)) /\ a \in 1..z + 1 /\ pos = p + 1 /\ left = z - (a - 1)
  BY <1>3 DEF AtAttribute
<1>5. z \in Nat /\ l \in Nat
  BY <1>2, ClassIs
<1>6. a \in 1..z /\ a + 1 \in 1..z + 1 /\ left - 1 = z - ((a + 1) - 1)
  <2> HIDE DEF z
  <2> QED BY <1>1, <1>4, <1>5
<1>7. /\ p \in Nat /\ At(file, p, s) /\ q \in Nat /\ q <= EndAt(class) /\ q = p + (2 + l)
  BY <1>2, <1>4, <1>6, AttributeSeen, FileIs
<1>8. s \in Seq(Cells) /\ Len(s) = 2 + l /\ s[1] = x /\ s[2] = l
  BY <1>2, PartsAre
<1>9. Short(x) = x /\ Has(x, "Utf8") /\ ~Uninitialized(x)
  <2>1. Occurs(Utf8(NameText("Code")), PoolOf(class))
    BY <1>2, PoolIs
  <2> QED BY <1>2, <2>1, TextLookup DEF CodeSlot, Known
<1> HIDE DEF z, p, q, s, x, l
<1>10. Cell(0) = x /\ Cell(1) = l
  <2>1. 0 \in 0..Len(s) - 1 /\ 1 \in 0..Len(s) - 1 /\ Len(s) \in Nat
    BY <1>5, <1>8
  <2>2. Cell(0) = s[0 + 1]
    BY <1>4, <1>7, <2>1, Seen
  <2>3. Cell(1) = s[1 + 1]
    BY <1>4, <1>7, <2>1, Seen
  <2> QED BY <1>8, <2>2, <2>3
<1>11. /\ pos' = pos + (2 + l) /\ left' = left - 1
       /\ UNCHANGED <<step, pool, i, sig, refs, name, outcome>>
  BY <1>9, <1>10 DEF ReadAttribute, ShortAt, SkipAttribute, Skip
<1>12. pos' = q + 1
  BY <1>4, <1>5, <1>7, <1>11
<1>13. AtAttribute(kind, k, a + 1)'
  BY <1>3, <1>6, <1>11, <1>12 DEF AtAttribute, z, q
<1>14. Known'
  BY <1>2, <1>11, KnownStays
<1>15. Reading'
  <2>1. a + 1 \in Nat
    OBVIOUS
  <2> QED BY <1>1, <1>2, <1>11, <1>13, <1>14, <2>1 DEF Reading
<1>16. pos' <= Len(file)
  BY <1>7, <1>12, FileIs
<1> QED BY <1>1, <1>11, <1>15, <1>16, Goes
\* The references of one signature.
LEMMA SignatureRefs ==
  ASSUME class \in Classes, NEW kind \in Kinds, NEW k \in 1..Len(Members(class, kind))
  PROVE  LET m == Members(class, kind)[k]
             t == ReadText(Signature(kind, m)) IN
         ClassNameFromSignature(t.type) \cup (IF kind = "method" THEN ParseAndSaveArguments(t.params) ELSE {})
           = MemberRefs(kind, m)
<1> DEFINE m == Members(class, kind)[k]
<1>1. class.fields \in Seq(Types) /\ class.methods \in Seq(Signatures)
  BY ClassIs
<1>2. CASE kind = "field"
  <2>1. m \in Types
    BY <1>1, <1>2 DEF Members
  <2> HIDE DEF m
  <2>2. FieldText(m) \in Texts /\ FieldText(m).ascii /\ FieldText(m).type = m
    BY <2>1, TextsAre DEF FieldText, Text
  <2>3. ReadText(Signature(kind, m)) = FieldText(m)
    BY <1>2, <2>2, ReadTextIs DEF Signature
  <2>4. kind # "method"
    BY <1>2
  <2>5. ClassNameFromSignature(m) = MemberRefs(kind, m)
    BY <1>2 DEF ClassNameFromSignature, MemberRefs, TypeRefs
  <2> QED BY <2>2, <2>3, <2>4, <2>5 DEF m
<1>3. CASE kind = "method"
  <2>1. m \in Signatures
    BY <1>1, <1>3 DEF Members
  <2> HIDE DEF m
  <2>2. /\ MethodText(m) \in Texts /\ MethodText(m).ascii /\ MethodText(m).type = m.type
        /\ MethodText(m).params = m.params
    BY <2>1, TextsAre DEF MethodText, Text
  <2>3. ReadText(Signature(kind, m)) = MethodText(m)
    BY <1>3, <2>2, ReadTextIs DEF Signature
  <2>4. kind # "field"
    BY <1>3
  <2>5. m.params \in Seq(Types)
    BY <2>1 DEF Signatures
  <2>6. DOMAIN m.params = 1..Len(m.params)
    BY <2>5
  <2>7. ParseAndSaveArguments(m.params) = {t.class : t \in Range(m.params)} \ {""}
    <3> DEFINE s == m.params
    <3>1. DOMAIN s = 1..Len(s)
      BY <2>6
    <3> HIDE DEF s
    <3>2. ParseAndSaveArguments(s) = {t.class : t \in Range(s)} \ {""}
      BY <3>1 DEF ParseAndSaveArguments, Range
    <3> QED BY <3>2 DEF s
  <2>8. ClassNameFromSignature(m.type) \cup ParseAndSaveArguments(m.params) = MemberRefs(kind, m)
    BY <2>4, <2>7 DEF ClassNameFromSignature, MemberRefs, TypeRefs
  <2> QED BY <1>3, <2>2, <2>3, <2>8 DEF m
<1> QED BY <1>2, <1>3 DEF Kinds

\* Behind a member's attributes its signature is taken apart.
LEMMA SignatureStep ==
  ASSUME ClassInv, NEW kind \in Kinds, SaveSignature(kind), UNCHANGED <<class, file, mode, first>>
  PROVE  ClassInv'
<1>1. outcome = "reading" /\ step = Of[kind] /\ left = 0
  BY DEF SaveSignature, Reads
<1>2. mode = "all" /\ Known /\ class \in Classes
  BY <1>1, Where, FileIs
<1>3. PICK k \in Nat, a \in Nat : AtAttribute(kind, k, a)
  BY <1>1, Where, FileIs
<1> DEFINE n == Len(Members(class, kind))
           m == Members(class, kind)[k]
           z == class.attributes
           q == MemberAt(class, kind, k + 1)
           t == Signature(kind, m)
<1>4. /\ k \in 1..n /\ a \in 1..z + 1 /\ pos = AttributeAt(class, kind, k, a) + 1
      /\ i = n - (k - 1) /\ left = z - (a - 1) /\ sig = SignatureSlot(class, kind, m)
      /\ refs = RefsBefore(class, kind) \cup MembersRefs(class, kind, k - 1)
  BY <1>3 DEF AtAttribute
<1>5. z \in Nat /\ n \in Nat
  BY <1>2, ClassIs, MembersAre
<1>6. /\ a = z + 1 /\ k + 1 \in 1..n + 1 /\ i - 1 = n - ((k + 1) - 1) /\ (k + 1) - 1 = k
      /\ 1..k = (1..k - 1) \cup {k}
  <2> HIDE DEF n, z
  <2> QED BY <1>1, <1>4, <1>5
<1>7. pos = q + 1 /\ q \in Nat /\ q <= EndAt(class)
  <2>1. AttributeAt(class, kind, k, z + 1) = q
    BY <1>2, <1>4, AttributeSeen
  <2>2. q \in Nat /\ q <= EndAt(class)
    BY <1>2, <1>6, MemberSeen
  <2> QED BY <1>4, <1>6, <2>1, <2>2
<1>8. Has(sig, "Utf8") /\ ~Uninitialized(sig) /\ Constants(sig).text = ReadText(t)
  <2>1. Occurs(Utf8(t), PoolOf(class))
    BY <1>2, <1>4, MemberIs
  <2> QED BY <1>2, <1>4, <2>1, TextLookup DEF SignatureSlot, Known
<1>9. /\ refs' = refs \cup ClassNameFromSignature(ReadText(t).type)
                      \cup (IF kind = "method" THEN ParseAndSaveArguments(ReadText(t).params) ELSE {})
      /\ i' = i - 1 /\ step' = kind /\ UNCHANGED <<pos, pool, left, sig, name, outcome>>
  BY <1>8 DEF SaveSignature, Then
<1>10. refs' = refs \cup MemberRefs(kind, m)
  <2>1. ClassNameFromSignature(ReadText(t).type)
          \cup (IF kind = "method" THEN ParseAndSaveArguments(ReadText(t).params) ELSE {})
          = MemberRefs(kind, m)
    BY <1>2, <1>4, SignatureRefs
  <2> QED BY <1>9, <2>1
<1>11. MembersRefs(class, kind, k) = MembersRefs(class, kind, k - 1) \cup MemberRefs(kind, m)
  <2> HIDE DEF n
  <2> QED BY <1>6 DEF MembersRefs
<1>12. AtMember(kind, k + 1)'
  <2>1. refs' = RefsBefore(class, kind) \cup MembersRefs(class, kind, (k + 1) - 1)
    BY <1>4, <1>6, <1>10, <1>11
  <2>2. pos' = q + 1 /\ i' = n - ((k + 1) - 1)
    BY <1>6, <1>7, <1>9
  <2> QED BY <1>6, <2>1, <2>2 DEF AtMember
<1>13. Known'
  BY <1>2, <1>9, KnownStays
<1>14. Reading'
  <2>1. k + 1 \in Nat
    OBVIOUS
  <2> QED BY <1>2, <1>9, <1>12, <1>13, <2>1 DEF Reading
<1>15. pos' <= Len(file)
  BY <1>7, <1>9, FileIs
<1> QED BY <1>1, <1>9, <1>14, <1>15, Goes

\* The references of all members are those of the class.
LEMMA AllRefs ==
  ASSUME NEW c \in Classes
  PROVE  RefsBefore(c, "method") \cup MembersRefs(c, "method", Len(c.methods)) = RefsOf(c)
<1>1. c.interfaces \in Seq(Texts) /\ c.fields \in Seq(Types) /\ c.methods \in Seq(Signatures)
  BY ClassIs
<1>2. /\ Range(c.interfaces) = {c.interfaces[k] : k \in 1..Len(c.interfaces)}
      /\ Range(c.fields) = {c.fields[k] : k \in 1..Len(c.fields)}
      /\ Range(c.methods) = {c.methods[k] : k \in 1..Len(c.methods)}
  BY <1>1 DEF Range
<1>3. InterfaceNames(c, Len(c.interfaces)) = {Named(t) : t \in Range(c.interfaces)}
  BY <1>2 DEF InterfaceNames
<1>4. {SuperName(c)} = IF c.super = <<>> THEN {"java/lang/Object"} ELSE {Named(c.super[1])}
  BY DEF SuperName
<1>5. MembersRefs(c, "field", Len(c.fields)) = UNION {TypeRefs(f) : f \in Range(c.fields)}
  <2> DEFINE F == {c.fields[k] : k \in 1..Len(c.fields)}
  <2>1. MembersRefs(c, "field", Len(c.fields)) = UNION {TypeRefs(c.fields[k]) : k \in 1..Len(c.fields)}
    BY DEF MembersRefs, Members, MemberRefs
  <2> QED BY <1>2, <2>1
<1>6. MembersRefs(c, "method", Len(c.methods))
        = UNION {TypeRefs(m.type) \cup ({t.class : t \in Range(m.params)} \ {""}) : m \in Range(c.methods)}
  <2> DEFINE R(m) == TypeRefs(m.type) \cup ({t.class : t \in Range(m.params)} \ {""})
  <2>1. \A m : MemberRefs("method", m) = R(m)
    BY DEF MemberRefs
  <2>2. Members(c, "method") = c.methods
    BY DEF Members
  <2> HIDE DEF R
  <2>3. MembersRefs(c, "method", Len(c.methods)) = UNION {R(c.methods[k]) : k \in 1..Len(c.methods)}
    BY <2>1, <2>2 DEF MembersRefs
  <2>4. UNION {R(c.methods[k]) : k \in 1..Len(c.methods)} = UNION {R(m) : m \in Range(c.methods)}
    BY <1>2
  <2> QED BY <2>3, <2>4 DEF R
<1>7. RefsBefore(c, "method")
        = {SuperName(c)} \cup InterfaceNames(c, Len(c.interfaces)) \cup MembersRefs(c, "field", Len(c.fields))
  BY DEF RefsBefore
<1> QED BY <1>3, <1>4, <1>5, <1>6, <1>7 DEF RefsOf

\* Behind the last field come the methods, behind the last method the end.
LEMMA EndMembersStep ==
  ASSUME ClassInv, UNCHANGED <<class, file, mode, first>>,
         EndLoop("field", "methods") \/ EndLoop("method", "end")
  PROVE  ClassInv'
<1>1. PICK kind \in Kinds : /\ outcome = "reading" /\ step = kind /\ i = 0
                            /\ UNCHANGED <<pos, pool, i, left, sig, refs, name, outcome>>
                            /\ kind = "field" => step' = "methods"
                            /\ kind = "method" => step' = "end"
  BY DEF EndLoop, Reads, Then, Kinds
<1>2. mode = "all" /\ Known /\ class \in Classes
  BY <1>1, Where, FileIs
<1>3. PICK k \in Nat : AtMember(kind, k)
  BY <1>1, Where, FileIs
<1> DEFINE n == Len(Members(class, kind))
<1>4. /\ k \in 1..n + 1 /\ pos = MemberAt(class, kind, k) + 1 /\ i = n - (k - 1)
      /\ refs = RefsBefore(class, kind) \cup MembersRefs(class, kind, k - 1)
  BY <1>3 DEF AtMember
<1>5. n \in Nat
  BY <1>2, MembersAre
<1>6. k - 1 = n /\ k = n + 1
  <2> HIDE DEF n
  <2> QED BY <1>1, <1>4, <1>5
<1>7. pos = NextAt(class, kind) + 1 /\ NextAt(class, kind) \in Nat /\ NextAt(class, kind) <= EndAt(class)
  BY <1>2, <1>4, <1>6, MemberSeen, Bounds
<1>8. Known'
  BY <1>1, <1>2, KnownStays
<1>9. Reading'
  <2>1. CASE kind = "field"
    <3>1. "method" \in Kinds /\ MembersStep["method"] = "methods" /\ NextAt(class, kind) = MembersAt(class, "method")
      BY <2>1 DEF Kinds, MembersStep, MembersAt, NextAt
    <3>2. refs = RefsBefore(class, "method")
      <4>1. /\ RefsBefore(class, "method") = RefsBefore(class, "field") \cup MembersRefs(class, "field", Len(class.fields))
            /\ n = Len(class.fields)
        BY <2>1 DEF RefsBefore, Members
      <4> QED BY <1>4, <1>6, <2>1, <4>1
    <3>3. /\ mode' = "all" /\ step' = MembersStep["method"] /\ pos' = MembersAt(class, "method") + 1
          /\ refs' = RefsBefore(class, "method") /\ class' = class
      BY <1>1, <1>2, <1>7, <2>1, <3>1, <3>2
    <3> QED BY <1>8, <3>1, <3>3 DEF Reading
  <2>2. CASE kind = "method"
    <3>1. NextAt(class, kind) = EndAt(class) /\ n = Len(class.methods)
      BY <2>2 DEF NextAt, Members
    <3>2. refs = RefsOf(class)
      BY <1>2, <1>4, <1>6, <2>2, <3>1, AllRefs
    <3>3. /\ mode' = "all" /\ step' = "end" /\ pos' = EndAt(class) + 1 /\ refs' = RefsOf(class)
          /\ class' = class
      BY <1>1, <1>2, <1>7, <2>2, <3>1, <3>2
    <3> QED BY <1>8, <3>3 DEF Reading
  <2> QED BY <2>1, <2>2 DEF Kinds
<1>10. pos' <= Len(file)
  BY <1>1, <1>7, FileIs
<1> QED BY <1>1, <1>9, <1>10, Goes

\* A parse ends: the one for the name is followed by the whole one.
LEMMA FinishStep ==
  ASSUME ClassInv, Finish
  PROVE  ClassInv'
<1>1. outcome = "reading" /\ step = "end" /\ UNCHANGED <<class, file>>
  BY DEF Finish, Reads
<1>2. Known /\ (mode = "all" => pos = EndAt(class) + 1 /\ refs = RefsOf(class)) /\ class \in Classes
  BY <1>1, Where, FileIs
<1>3. mode \in {"name", "all"} /\ (mode = "all" => first = Named(class.this)) /\ pos <= Len(file)
  BY DEF ClassInv
<1>4. CASE mode = "name"
  <2>1. first' = name /\ mode' = "all" /\ pos' = 1 /\ step' = "header" /\ outcome' = outcome
    BY <1>4 DEF Finish, Then
  <2>2. Reading'
    BY <2>1 DEF Reading
  <2>3. 1 <= Len(file)
    BY FileIs
  <2> QED BY <1>1, <1>2, <2>1, <2>2, <2>3 DEF ClassInv, Known
<1>5. CASE mode = "all"
  <2>1. outcome' = "done" /\ UNCHANGED <<first, mode, pos, step, pool, name, refs>>
    BY <1>5 DEF Finish
  <2>2. pos = Len(file) /\ name = first
    BY <1>2, <1>3, <1>5, FileIs DEF Known
  <2> QED BY <1>1, <1>2, <1>3, <1>5, <2>1, <2>2 DEF ClassInv
<1> QED BY <1>3, <1>4, <1>5
-------------------------------------------------------------------------------
\* Every step keeps the invariant.

\* The parser starts at the beginning of a class file.
LEMMA ClassStart == Init => ClassInv
<1> SUFFICES ASSUME Init PROVE ClassInv
  OBVIOUS
<1>1. /\ class \in Classes /\ file = Encode(class) /\ mode = "name" /\ pos = 1 /\ step = "header"
      /\ outcome = "reading"
  BY DEF Init
<1>2. 1 <= Len(file)
  <2> DEFINE a == InfoAt(class)
             b == EndAt(class)
  <2>1. Len(file) = b + 1 /\ b \in Nat
    BY <1>1, Layout
  <2> HIDE DEF a, b
  <2> QED BY <2>1
<1>3. Reading
  BY <1>1 DEF Reading
<1> QED BY <1>1, <1>2, <1>3 DEF ClassInv

\* Every step keeps the invariant.
LEMMA ClassStep == ClassInv /\ [Next]_vars => ClassInv'
<1> SUFFICES ASSUME ClassInv, [Next]_vars PROVE ClassInv'
  OBVIOUS
<1>1. CASE Read /\ UNCHANGED <<class, file, mode, first>>
  <2> USE <1>1
  <2>1. CASE ReadHeader
    BY <2>1, HeaderStep
  <2>2. CASE ReadPoolCount
    BY <2>2, PoolCountStep
  <2>3. CASE ReadConstant
    BY <2>3, ConstantStep
  <2>4. CASE EndConstants
    BY <2>4, EndConstantsStep
  <2>5. CASE ReadClassInfo
    BY <2>5, ClassInfoStep
  <2>6. CASE ReadLoopCount("interfaces", "interface")
    BY <2>6, InterfacesStep
  <2>7. CASE ReadInterface
    BY <2>7, InterfaceStep
  <2>8. CASE EndLoop("interface", "fields")
    BY <2>8, EndInterfacesStep
  <2>9. CASE ReadLoopCount("fields", "field") \/ ReadLoopCount("methods", "method")
    <3>1. /\ "field" \in Kinds /\ MembersStep["field"] = "fields"
          /\ "method" \in Kinds /\ MembersStep["method"] = "methods"
      BY DEF Kinds, MembersStep
    <3> QED BY <2>9, <3>1, MembersCountStep
  <2>10. CASE EndLoop("field", "methods") \/ EndLoop("method", "end")
    BY <2>10, EndMembersStep
  <2>11. CASE \E kind \in Kinds : ReadMember(kind) \/ ReadAttribute(kind) \/ SaveSignature(kind)
    BY <2>11, MemberStep, AttributeStep, SignatureStep
  <2> QED BY <1>1, <2>1, <2>2, <2>3, <2>4, <2>5, <2>6, <2>7, <2>8, <2>9, <2>10, <2>11 DEF Read, Kinds
<1>2. CASE Finish
  BY <1>2, FinishStep
<1>3. CASE UNCHANGED vars
  <2>1. Reading => Reading'
    BY <1>3 DEF vars, Reading, Known, AllFilled, Filled, AtConstant, AtInterface, AtMember, AtAttribute
  <2> QED BY <1>3, <2>1 DEF vars, ClassInv
<1> QED BY <1>1, <1>2, <1>3 DEF Next

\* Between two reads the position, the pool, the signature and the references are those the class
\* file's layout gives for what was read so far.
THEOREM ParserFollowsLayout == Spec => []ClassInv
<1>1. Init => ClassInv
  BY ClassStart
<1>2. ClassInv /\ [Next]_vars => ClassInv'
  BY ClassStep
<1> QED BY <1>1, <1>2, PTL DEF Spec

\* RefsComplete for every class and every width of a short: what getAllRefs returns after a parse
\* is what the class refers to, whatever is in its constant pool besides.
THEOREM ReferencesComplete == Spec => []RefsComplete
<1>1. ClassInv => RefsComplete
  BY DEF ClassInv, RefsComplete
<1> QED BY <1>1, ParserFollowsLayout, PTL

\* NamesAgree for every class: parseJustName and parse find the class's own name.
THEOREM NamesAgreed == Spec => []NamesAgree
<1>1. ClassInv => NamesAgree
  BY DEF ClassInv, NamesAgree
<1> QED BY <1>1, ParserFollowsLayout, PTL

\* StaysInside for every class file: no read is behind its end, and the parse ends where the
\* attributes of the class are all that is left.
THEOREM StaysInsideFile == Spec => []StaysInside
<1>1. ClassInv => StaysInside
  BY DEF ClassInv, StaysInside
<1> QED BY <1>1, ParserFollowsLayout, PTL

\* ThrownIfExceeds for every class: a legal class file is refused only when one of its items does
\* not fit into a short or its constants are newer than the parser.
THEOREM ThrownOnlyIfExceeds == Spec => []ThrownIfExceeds
<1>1. ClassInv => ThrownIfExceeds
  BY DEF ClassInv, ThrownIfExceeds
<1> QED BY <1>1, ParserFollowsLayout, PTL
===============================================================================
