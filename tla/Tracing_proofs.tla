---------------------------- MODULE Tracing_proofs ----------------------------
(* Every operation of the tracing library preserves the library's invariant,   *)
(* for any number of contexts and spans and chains of any length.              *)
EXTENDS Tracing, SequenceTheorems, TLAPS

\* The spans of a context are spans of its trace.
ChainsInTrace ==
  \A c \in DOMAIN contexts : \A k \in DOMAIN Chain(c) :
    spans[Chain(c)[k]].trace = contexts[c].trace

LibraryInv ==
  /\ TracingTypeOK
  /\ SpansPrivate
  /\ ChainLinked
  /\ ChainsInTrace
  /\ OneTrace

(* Types *)

\* A sequence over a set is a sequence over every larger one.
LEMMA SeqMonotone ==
  ASSUME NEW S, NEW T, S \subseteq T, NEW s \in Seq(S)
  PROVE  s \in Seq(T)
  OBVIOUS

\* Every type grows with the number of objects.
LEMMA TypesGrow ==
  ASSUME NEW m \in Nat, NEW n \in Nat, NEW m2 \in Nat, NEW n2 \in Nat, m <= m2, n <= n2
  PROVE  /\ ContextType(m, n) \subseteq ContextType(m2, n2)
         /\ SpanType(m, n) \subseteq SpanType(m2, n2)
         /\ JSONType(m, n) \subseteq JSONType(m2, n2)
         /\ TaskType(m) \subseteq TaskType(m2)
<1>1. 1..m \subseteq 1..m2 /\ 0..m \subseteq 0..m2 /\ 1..n \subseteq 1..n2
  OBVIOUS
<1>2. Seq(1..m) \subseteq Seq(1..m2)
  BY <1>1, SeqMonotone
<1> QED BY <1>1, <1>2 DEF ContextType, SpanType, JSONType, TaskType

\* When contexts and spans are only added, what the other variables say stays well typed.
LEMMA TypesKept ==
  ASSUME TracingTypeOK, NEW m \in Nat, NEW n \in Nat, Len(spans) <= m, Len(contexts) <= n
  PROVE  /\ contexts \in Seq(ContextType(m, n))
         /\ spans \in Seq(SpanType(m, n))
         /\ attached \in [DOMAIN attached -> 0..n]
         /\ tasks \in Seq(TaskType(m))
         /\ posted \subseteq [task : 1..Len(tasks), json : JSONType(m, n)]
<1>1. Len(spans) \in Nat /\ Len(contexts) \in Nat
  BY DEF TracingTypeOK
<1>2. /\ ContextType(Len(spans), Len(contexts)) \subseteq ContextType(m, n)
      /\ SpanType(Len(spans), Len(contexts)) \subseteq SpanType(m, n)
      /\ JSONType(Len(spans), Len(contexts)) \subseteq JSONType(m, n)
      /\ TaskType(Len(spans)) \subseteq TaskType(m)
  BY <1>1, TypesGrow
<1>3. contexts \in Seq(ContextType(m, n)) /\ spans \in Seq(SpanType(m, n))
      /\ tasks \in Seq(TaskType(m))
  BY <1>2, SeqMonotone DEF TracingTypeOK
<1>4. attached \in [DOMAIN attached -> 0..n]
  BY <1>1 DEF TracingTypeOK
<1>5. posted \subseteq [task : 1..Len(tasks), json : JSONType(m, n)]
  BY <1>2 DEF TracingTypeOK
<1> QED BY <1>3, <1>4, <1>5

\* What Append does to a sequence.
LEMMA AppendFacts ==
  ASSUME NEW S, NEW s \in Seq(S), NEW e \in S
  PROVE  /\ Append(s, e) \in Seq(S)
         /\ Len(s) \in Nat /\ Len(Append(s, e)) = Len(s) + 1
         /\ DOMAIN s = 1..Len(s) /\ DOMAIN Append(s, e) = 1..(Len(s) + 1)
         /\ \A i \in 1..Len(s) : Append(s, e)[i] = s[i]
         /\ Append(s, e)[Len(s) + 1] = e
  OBVIOUS

\* A sequence without its last element.
LEMMA ButLastFacts ==
  ASSUME NEW S, NEW s \in Seq(S)
  PROVE  LET r == SubSeq(s, 1, Len(s) - 1) IN
         /\ r \in Seq(S) /\ DOMAIN r \subseteq DOMAIN s
         /\ \A k \in DOMAIN r : r[k] = s[k] /\ (k # 1 => k - 1 \in DOMAIN r)
<1> DEFINE r == SubSeq(s, 1, Len(s) - 1)
<1>1. Len(s) \in Nat /\ DOMAIN s = 1..Len(s) /\ \A k \in 1..Len(s) : s[k] \in S OBVIOUS
<1>2. /\ r \in Seq(S) /\ Len(r) = IF 1 <= Len(s) - 1 THEN Len(s) - 1 - 1 + 1 ELSE 0
      /\ \A k \in 1..Len(s) - 1 - 1 + 1 : r[k] = s[1 + k - 1]
  BY <1>1, SubSeqProperties
<1> HIDE DEF r
<1>3. DOMAIN r = 1..Len(r) /\ Len(r) \in Nat BY <1>2
<1>4. Len(r) <= Len(s) /\ \A k \in 1..Len(r) : k \in 1..Len(s) /\ r[k] = s[k]
  <2>1. Len(s) \in Nat /\ Len(r) = IF 1 <= Len(s) - 1 THEN Len(s) - 1 - 1 + 1 ELSE 0
    BY <1>1, <1>2
  <2>2. Len(r) <= Len(s) BY <2>1
  <2>3. ASSUME NEW k \in 1..Len(r) PROVE k \in 1..Len(s) /\ r[k] = s[k]
    <3>1. k \in 1..Len(s) - 1 - 1 + 1 /\ k \in 1..Len(s) /\ 1 + k - 1 = k BY <2>1, <2>3
    <3>2. r[k] = s[1 + k - 1] BY <1>2, <3>1
    <3> QED BY <3>1, <3>2
  <2> QED BY <2>2, <2>3
<1>5. \A k \in 1..Len(r) : k # 1 => k - 1 \in 1..Len(r) BY <1>3
<1>6. r \in Seq(S) BY <1>2
<1>7. /\ r \in Seq(S) /\ DOMAIN r \subseteq DOMAIN s
      /\ \A k \in DOMAIN r : r[k] = s[k] /\ (k # 1 => k - 1 \in DOMAIN r)
  BY <1>1, <1>3, <1>4, <1>5, <1>6
<1> QED BY <1>7 DEF r

\* What replacing one element does to a sequence.
LEMMA ReplaceFacts ==
  ASSUME NEW S, NEW s \in Seq(S), NEW i \in 1..Len(s), NEW e \in S
  PROVE  /\ [s EXCEPT ![i] = e] \in Seq(S)
         /\ Len([s EXCEPT ![i] = e]) = Len(s)
         /\ DOMAIN [s EXCEPT ![i] = e] = 1..Len(s)
         /\ [s EXCEPT ![i] = e][i] = e
         /\ \A j \in 1..Len(s) : j # i => [s EXCEPT ![i] = e][j] = s[j]
  OBVIOUS

\* What a concatenation is made of.
LEMMA ConcatFacts ==
  ASSUME NEW S, NEW s \in Seq(S), NEW u \in Seq(S)
  PROVE  /\ s \o u \in Seq(S) /\ Len(s \o u) = Len(s) + Len(u)
         /\ \A i \in 1..Len(s) : (s \o u)[i] = s[i]
  OBVIOUS

\* A context whose chain is replaced keeps its trace.
LEMMA ChainReplaced ==
  ASSUME NEW ctx, NEW trace, NEW old, NEW new, ctx = [trace |-> trace, chain |-> old]
  PROVE  [ctx EXCEPT !.chain = new] = [trace |-> trace, chain |-> new]
  OBVIOUS

\* The copy of a span has another parent; the rest is the original's.
LEMMA CopyTyped ==
  ASSUME NEW m, NEW n, NEW s, spans[s] \in SpanType(m, n), NEW p \in 0..m
  PROVE  /\ CopyOfSpan(s, p) \in SpanType(m, n)
         /\ CopyOfSpan(s, p).trace = spans[s].trace
         /\ CopyOfSpan(s, p).parent = p
BY DEF SpanType, CopyOfSpan

\* What a context is made of.
LEMMA ContextsTyped ==
  ASSUME TracingTypeOK
  PROVE  /\ Len(contexts) \in Nat /\ DOMAIN contexts = 1..Len(contexts)
         /\ \A c \in 1..Len(contexts) :
              /\ contexts[c] \in ContextType(Len(spans), Len(contexts))
              /\ contexts[c] = [trace |-> contexts[c].trace, chain |-> Chain(c)]
              /\ contexts[c].trace \in 1..Len(contexts)
              /\ Chain(c) \in Seq(1..Len(spans))
              /\ Len(Chain(c)) \in Nat /\ DOMAIN Chain(c) = 1..Len(Chain(c))
              /\ \A k \in 1..Len(Chain(c)) : Chain(c)[k] \in 1..Len(spans)
              /\ Current(c) \in 0..Len(spans)
<1>1. contexts \in Seq(ContextType(Len(spans), Len(contexts))) /\ Len(spans) \in Nat
  BY DEF TracingTypeOK
<1>2. Len(contexts) \in Nat /\ DOMAIN contexts = 1..Len(contexts)
  BY <1>1
<1>3. \A c \in 1..Len(contexts) : contexts[c] \in ContextType(Len(spans), Len(contexts))
  BY <1>1
<1> SUFFICES ASSUME NEW c \in 1..Len(contexts)
             PROVE  /\ contexts[c] = [trace |-> contexts[c].trace, chain |-> Chain(c)]
                    /\ contexts[c].trace \in 1..Len(contexts)
                    /\ Chain(c) \in Seq(1..Len(spans))
                    /\ Len(Chain(c)) \in Nat /\ DOMAIN Chain(c) = 1..Len(Chain(c))
                    /\ \A k \in 1..Len(Chain(c)) : Chain(c)[k] \in 1..Len(spans)
                    /\ Current(c) \in 0..Len(spans)
  BY <1>2, <1>3
<1>4. /\ contexts[c] = [trace |-> contexts[c].trace, chain |-> contexts[c].chain]
      /\ contexts[c].trace \in 1..Len(contexts) /\ contexts[c].chain \in Seq(1..Len(spans))
  BY <1>3 DEF ContextType
<1>5. /\ Len(Chain(c)) \in Nat /\ DOMAIN Chain(c) = 1..Len(Chain(c))
      /\ \A k \in 1..Len(Chain(c)) : Chain(c)[k] \in 1..Len(spans)
  BY <1>4 DEF Chain
<1>6. Current(c) \in 0..Len(spans)
  <2>1. CASE Chain(c) = <<>>
    BY <2>1, <1>1 DEF Current
  <2>2. CASE Chain(c) # <<>>
    <3>1. Len(Chain(c)) # 0
      BY <2>2, <1>4 DEF Chain
    <3> QED BY <2>2, <3>1, <1>1, <1>5 DEF Current
  <2> QED BY <2>1, <2>2
<1> QED BY <1>4, <1>5, <1>6 DEF Chain

\* What a span is made of.
LEMMA SpansTyped ==
  ASSUME TracingTypeOK
  PROVE  /\ Len(spans) \in Nat /\ DOMAIN spans = 1..Len(spans)
         /\ \A s \in 1..Len(spans) :
              /\ spans[s] \in SpanType(Len(spans), Len(contexts))
              /\ spans[s].id \in 1..Len(spans) /\ spans[s].trace \in 1..Len(contexts)
              /\ spans[s].parent \in 0..Len(spans)
              /\ spans[s].name \in SpanNames /\ spans[s].timestamp \in 0..MaxTime
<1>1. spans \in Seq(SpanType(Len(spans), Len(contexts)))
  BY DEF TracingTypeOK
<1>2. /\ Len(spans) \in Nat /\ DOMAIN spans = 1..Len(spans)
      /\ \A s \in 1..Len(spans) : spans[s] \in SpanType(Len(spans), Len(contexts))
  BY <1>1
<1> QED BY <1>2 DEF SpanType

\* Every span has its details.
LEMMA DetailsTyped ==
  ASSUME TracingTypeOK
  PROVE  /\ details \in Seq(DetailsType) /\ Len(details) = Len(spans) /\ DOMAIN details = 1..Len(spans)
         /\ \A s \in 1..Len(spans) :
              /\ details[s] \in DetailsType
              /\ details[s].service \in Services /\ details[s].notes \subseteq Notes
<1>1. details \in Seq(DetailsType) /\ Len(details) = Len(spans)
  BY DEF TracingTypeOK
<1>2. DOMAIN details = 1..Len(spans) /\ \A s \in 1..Len(spans) : details[s] \in DetailsType
  BY <1>1
<1> QED BY <1>1, <1>2 DEF DetailsType

\* New spans bring their details; those of the others stay.
LEMMA DetailsAppended ==
  ASSUME TracingTypeOK, NEW u \in Seq(DetailsType), details' = details \o u
  PROVE  /\ details' \in Seq(DetailsType) /\ Len(details') = Len(spans) + Len(u)
         /\ \A s \in 1..Len(spans) : details'[s] = details[s]
<1>1. details \in Seq(DetailsType) /\ Len(details) = Len(spans)
  BY DetailsTyped
<1>2. /\ details \o u \in Seq(DetailsType) /\ Len(details \o u) = Len(details) + Len(u)
      /\ \A s \in 1..Len(details) : (details \o u)[s] = details[s]
  BY <1>1, ConcatFacts
<1> QED BY <1>1, <1>2

\* A setter, or closing, changes one span's details.
LEMMA NotesAdded ==
  ASSUME TracingTypeOK, NEW s \in 1..Len(spans), NEW note \in Notes,
         details' = [details EXCEPT ![s].notes = @ \cup {note}]
  PROVE  /\ details' \in Seq(DetailsType) /\ Len(details') = Len(spans)
         /\ \A u \in 1..Len(spans) : u # s => details'[u] = details[u]
<1> DEFINE new == [details[s] EXCEPT !.notes = @ \cup {note}]
<1>1. /\ details \in Seq(DetailsType) /\ Len(details) = Len(spans) /\ details[s] \in DetailsType
  BY DetailsTyped
<1>2. new \in DetailsType
  BY <1>1 DEF DetailsType
<1>3. details' = [details EXCEPT ![s] = new]
  OBVIOUS
<1>4. s \in 1..Len(details)
  BY <1>1
<1> HIDE DEF new
<1>5. /\ [details EXCEPT ![s] = new] \in Seq(DetailsType)
      /\ Len([details EXCEPT ![s] = new]) = Len(details)
      /\ \A u \in 1..Len(details) : u # s => [details EXCEPT ![s] = new][u] = details[u]
  BY <1>1, <1>2, <1>4, ReplaceFacts
<1> QED BY <1>1, <1>3, <1>5

(* TraceContext *)

\* Create adds a context with an empty chain.
LEMMA CreatePreserves ==
  ASSUME LibraryInv, Create PROVE LibraryInv'
<1> DEFINE m == Len(spans)
           n == Len(contexts)
           new == [trace |-> n + 1, chain |-> <<>>]
<1>1. TracingTypeOK /\ SpansPrivate /\ ChainLinked /\ ChainsInTrace /\ OneTrace
  BY DEF LibraryInv
<1>2. m \in Nat /\ n \in Nat /\ m <= m /\ n <= n + 1 /\ n + 1 \in Nat
  BY <1>1, ContextsTyped, SpansTyped
<1>3. /\ contexts' = Append(contexts, new)
      /\ UNCHANGED <<spans, details, attached, tasks, posted, files, clock, exited>>
  BY DEF Create, NewContext
<1>4. new \in ContextType(m, n + 1)
  BY <1>2 DEF ContextType
<1>5. /\ contexts \in Seq(ContextType(m, n + 1)) /\ spans \in Seq(SpanType(m, n + 1))
      /\ attached \in [DOMAIN attached -> 0..(n + 1)] /\ tasks \in Seq(TaskType(m))
      /\ posted \subseteq [task : 1..Len(tasks), json : JSONType(m, n + 1)]
  BY <1>1, <1>2, TypesKept
<1>6. /\ contexts' \in Seq(ContextType(m, n + 1))
      /\ Len(contexts') = n + 1
      /\ \A c \in 1..n : contexts'[c] = contexts[c]
      /\ contexts'[n + 1] = new
      /\ DOMAIN contexts = 1..n /\ DOMAIN contexts' = 1..(n + 1)
  <2> HIDE DEF new
  <2> QED BY <1>3, <1>4, <1>5, AppendFacts
<1>7. TracingTypeOK'
  BY <1>1, <1>3, <1>5, <1>6 DEF TracingTypeOK
<1>8. \A c \in DOMAIN contexts' : \A k \in DOMAIN Chain(c)' :
         c \in DOMAIN contexts /\ Chain(c)' = Chain(c)
  BY <1>2, <1>6 DEF Chain
<1>9. SpansPrivate'
  BY <1>1, <1>8 DEF SpansPrivate
<1>10. ChainLinked'
  BY <1>1, <1>3, <1>8 DEF ChainLinked
<1>11. ChainsInTrace'
  BY <1>1, <1>3, <1>6, <1>8 DEF ChainsInTrace
<1>12. OneTrace'
  BY <1>1, <1>3 DEF OneTrace
<1> QED BY <1>7, <1>9, <1>10, <1>11, <1>12 DEF LibraryInv

\* Attaching changes no context.
LEMMA AttachPreserves ==
  ASSUME LibraryInv, NEW h, NEW c \in 0..Len(contexts), AttachTo(h, c) PROVE LibraryInv'
<1>1. /\ UNCHANGED <<contexts, spans, details, tasks, posted, files, clock, exited>>
      /\ attached' = [attached EXCEPT ![h] = c]
  BY DEF AttachTo
<1>2. TracingTypeOK'
  BY <1>1 DEF TracingTypeOK, LibraryInv
<1> QED BY <1>1, <1>2 DEF LibraryInv, SpansPrivate, ChainLinked, ChainsInTrace, OneTrace, Chain

\* Opening puts a new span object, linked to the current one, on one chain.
LEMMA OpenPreserves ==
  ASSUME LibraryInv, NEW c \in 1..Len(contexts), NEW name \in SpanNames, NEW service \in Services,
         OpenNestedSpan(c, name, service)
  PROVE  LibraryInv'
<1> DEFINE m == Len(spans)
           n == Len(contexts)
           new == NewSpan(c, name)
           ctx == [trace |-> contexts[c].trace, chain |-> Append(Chain(c), m + 1)]
<1>1. TracingTypeOK /\ SpansPrivate /\ ChainLinked /\ ChainsInTrace /\ OneTrace
  BY DEF LibraryInv
<1>2. m \in Nat /\ n \in Nat /\ m <= m + 1 /\ n <= n /\ m + 1 \in Nat
  BY <1>1, ContextsTyped, SpansTyped
<1>3. /\ DOMAIN contexts = 1..n /\ DOMAIN spans = 1..m
      /\ \A d \in 1..n :
           /\ contexts[d] = [trace |-> contexts[d].trace, chain |-> Chain(d)]
           /\ Len(Chain(d)) \in Nat /\ DOMAIN Chain(d) = 1..Len(Chain(d))
           /\ \A k \in 1..Len(Chain(d)) : Chain(d)[k] \in 1..m
  BY <1>1, ContextsTyped, SpansTyped
<1>4. /\ contexts[c].trace \in 1..n /\ Chain(c) \in Seq(1..m) /\ Current(c) \in 0..m
  BY <1>1, ContextsTyped
<1>5. /\ spans' = Append(spans, new)
      /\ contexts' = [contexts EXCEPT ![c] = ctx]
      /\ UNCHANGED <<attached, tasks, posted, files, clock, exited>>
  <2>1. contexts[c] = [trace |-> contexts[c].trace, chain |-> Chain(c)]
    BY <1>3
  <2>2. [contexts[c] EXCEPT !.chain = Append(Chain(c), m + 1)] = ctx
    BY <2>1, ChainReplaced
  <2> QED BY <2>2 DEF OpenNestedSpan, Chain
<1>6. /\ contexts \in Seq(ContextType(m + 1, n)) /\ spans \in Seq(SpanType(m + 1, n))
      /\ attached \in [DOMAIN attached -> 0..n] /\ tasks \in Seq(TaskType(m + 1))
      /\ posted \subseteq [task : 1..Len(tasks), json : JSONType(m + 1, n)]
  BY <1>1, <1>2, TypesKept
<1>7. /\ spans' \in Seq(SpanType(m + 1, n)) /\ Len(spans') = m + 1
      /\ \A s \in 1..m : spans'[s] = spans[s]
      /\ spans'[m + 1] = new /\ DOMAIN spans' = 1..(m + 1)
  <2>1. clock \in 0..MaxTime
    BY <1>1 DEF TracingTypeOK
  <2>2. new \in SpanType(m + 1, n)
    BY <1>2, <1>4, <2>1 DEF NewSpan, SpanType
  <2> HIDE DEF new
  <2> QED BY <1>2, <1>5, <1>6, <2>2, AppendFacts
<1>8. /\ contexts' \in Seq(ContextType(m + 1, n)) /\ Len(contexts') = n
      /\ DOMAIN contexts' = 1..n
      /\ \A d \in 1..n : d # c => contexts'[d] = contexts[d]
      /\ contexts'[c] = ctx
  <2>1. Append(Chain(c), m + 1) \in Seq(1..(m + 1))
    <3>1. Chain(c) \in Seq(1..(m + 1))
      BY <1>2, <1>4, SeqMonotone
    <3> QED BY <1>2, <3>1, AppendFacts
  <2>2. ctx \in ContextType(m + 1, n)
    BY <1>4, <2>1 DEF ContextType
  <2> HIDE DEF ctx
  <2> QED BY <1>2, <1>5, <1>6, <2>2, ReplaceFacts
<1>9. TracingTypeOK'
  <2>1. details' = Append(details, NewDetails(service)) /\ NewDetails(service) \in DetailsType
    BY DEF OpenNestedSpan, NewDetails, DetailsType, Notes
  <2>2. details \in Seq(DetailsType) /\ Len(details) = m
    BY <1>1, DetailsTyped
  <2>3. details' \in Seq(DetailsType) /\ Len(details') = m + 1
    BY <2>1, <2>2, AppendFacts
  <2> QED BY <1>1, <1>5, <1>6, <1>7, <1>8, <2>3 DEF TracingTypeOK
<1>10. /\ Chain(c)' = Append(Chain(c), m + 1)
       /\ DOMAIN Chain(c)' = 1..(Len(Chain(c)) + 1)
       /\ \A k \in 1..Len(Chain(c)) : Chain(c)'[k] = Chain(c)[k]
       /\ Chain(c)'[Len(Chain(c)) + 1] = m + 1
       /\ contexts'[c].trace = contexts[c].trace
  <2>1. Chain(c)' = Append(Chain(c), m + 1) /\ contexts'[c].trace = contexts[c].trace
    BY <1>8 DEF Chain
  <2> QED BY <1>2, <1>4, <2>1
<1>11. \A d \in 1..n : d # c => Chain(d)' = Chain(d)
  BY <1>8 DEF Chain
<1>12. ASSUME NEW d \in 1..n, NEW k \in DOMAIN Chain(d)'
        PROVE  \/ /\ k \in DOMAIN Chain(d) /\ Chain(d)'[k] = Chain(d)[k]
                  /\ Chain(d)[k] \in 1..m
                  /\ k # 1 => Chain(d)'[k - 1] = Chain(d)[k - 1]
               \/ d = c /\ k = Len(Chain(c)) + 1 /\ Chain(d)'[k] = m + 1
  <2>1. CASE d = c
    BY <2>1, <1>3, <1>10
  <2>2. CASE d # c
    BY <2>2, <1>3, <1>11
  <2> QED BY <2>1, <2>2
<1>13. SpansPrivate'
  <2> SUFFICES ASSUME NEW d \in 1..n, NEW e \in 1..n,
                      NEW j \in DOMAIN Chain(d)', NEW k \in DOMAIN Chain(e)',
                      Chain(d)'[j] = Chain(e)'[k]
               PROVE  d = e /\ j = k
    BY <1>8 DEF SpansPrivate
  <2>1. CASE j \in DOMAIN Chain(d) /\ k \in DOMAIN Chain(e)
    <3>1. Chain(d)[j] = Chain(e)[k]
      BY <2>1, <1>3, <1>10, <1>12
    <3>2. d \in DOMAIN contexts /\ e \in DOMAIN contexts
      BY <1>3
    <3> QED BY <2>1, <3>1, <3>2, <1>1 DEF SpansPrivate
  <2>2. CASE j \in DOMAIN Chain(d) /\ k \notin DOMAIN Chain(e)
    <3>1. Chain(e)'[k] = m + 1
      BY <2>2, <1>12
    <3>2. ~(d = c /\ j = Len(Chain(c)) + 1)
      <4> SUFFICES ASSUME d = c PROVE j # Len(Chain(c)) + 1
        OBVIOUS
      <4>1. j \in 1..Len(Chain(c)) /\ Len(Chain(c)) \in Nat BY <2>2, <1>3
      <4> QED BY <4>1
    <3>3. Chain(d)'[j] = Chain(d)[j] /\ Chain(d)[j] \in 1..m
      BY <3>2, <1>12
    <3>4. m \in Nat BY <1>2
    <3> HIDE DEF m
    <3>5. m + 1 \notin 1..m BY <3>4
    <3> QED BY <3>1, <3>3, <3>5
  <2>3. CASE j \notin DOMAIN Chain(d) /\ k \in DOMAIN Chain(e)
    <3>1. Chain(d)'[j] = m + 1
      BY <2>3, <1>12
    <3>2. ~(e = c /\ k = Len(Chain(c)) + 1)
      <4> SUFFICES ASSUME e = c PROVE k # Len(Chain(c)) + 1
        OBVIOUS
      <4>1. k \in 1..Len(Chain(c)) /\ Len(Chain(c)) \in Nat BY <2>3, <1>3
      <4> QED BY <4>1
    <3>3. Chain(e)'[k] = Chain(e)[k] /\ Chain(e)[k] \in 1..m
      BY <3>2, <1>12
    <3>4. m \in Nat BY <1>2
    <3> HIDE DEF m
    <3>5. m + 1 \notin 1..m BY <3>4
    <3> QED BY <3>1, <3>3, <3>5
  <2>4. CASE j \notin DOMAIN Chain(d) /\ k \notin DOMAIN Chain(e)
    BY <2>4, <1>12
  <2> QED BY <2>1, <2>2, <2>3, <2>4
<1>14. ChainLinked'
  <2> SUFFICES ASSUME NEW d \in 1..n, NEW k \in DOMAIN Chain(d)'
               PROVE  spans'[Chain(d)'[k]].parent = IF k = 1 THEN 0 ELSE Chain(d)'[k - 1]
    BY <1>8 DEF ChainLinked
  <2>1. CASE k \in DOMAIN Chain(d)
    <3>1. /\ Chain(d)'[k] = Chain(d)[k] /\ Chain(d)[k] \in 1..m
          /\ k # 1 => Chain(d)'[k - 1] = Chain(d)[k - 1]
      BY <2>1, <1>3, <1>12
    <3>2. spans[Chain(d)[k]].parent = IF k = 1 THEN 0 ELSE Chain(d)[k - 1]
      BY <2>1, <1>1, <1>3 DEF ChainLinked
    <3> QED BY <3>1, <3>2, <1>7
  <2>2. CASE k \notin DOMAIN Chain(d)
    <3>1. d = c /\ k = Len(Chain(c)) + 1
      BY <2>2, <1>3, <1>10, <1>11
    <3>2. spans'[Chain(d)'[k]].parent = Current(c)
      BY <3>1, <1>7, <1>10 DEF NewSpan
    <3>3. Chain(c) = <<>> <=> Len(Chain(c)) = 0
      BY <1>4
    <3>4. Len(Chain(c)) # 0 => Chain(c)'[k - 1] = Chain(c)[Len(Chain(c))]
      BY <3>1, <1>3, <1>10
    <3> QED BY <3>1, <3>2, <3>3, <3>4, <1>3 DEF Current
  <2> QED BY <2>1, <2>2
<1>15. ChainsInTrace'
  <2> SUFFICES ASSUME NEW d \in 1..n, NEW k \in DOMAIN Chain(d)'
               PROVE  spans'[Chain(d)'[k]].trace = contexts'[d].trace
    BY <1>8 DEF ChainsInTrace
  <2>1. contexts'[d].trace = contexts[d].trace
    BY <1>8, <1>10
  <2>2. CASE k \in DOMAIN Chain(d)
    <3>1. Chain(d)'[k] = Chain(d)[k] /\ Chain(d)[k] \in 1..m
      BY <2>2, <1>3, <1>12
    <3> QED BY <2>1, <2>2, <3>1, <1>1, <1>3, <1>7 DEF ChainsInTrace
  <2>3. CASE k \notin DOMAIN Chain(d)
    <3>1. d = c /\ Chain(d)'[k] = m + 1
      BY <2>3, <1>12
    <3> QED BY <2>1, <3>1, <1>7 DEF NewSpan
  <2> QED BY <2>2, <2>3
<1>16. OneTrace'
  <2>1. Current(c) # 0 => spans[Current(c)].trace = contexts[c].trace
    <3>1. Current(c) # 0 => Len(Chain(c)) \in DOMAIN Chain(c)
      BY <1>3, <1>4 DEF Current
    <3> QED BY <3>1, <1>1, <1>3 DEF ChainsInTrace, Current
  <2> SUFFICES ASSUME NEW s \in 1..(m + 1), spans'[s].parent # 0
               PROVE  spans'[spans'[s].parent].trace = spans'[s].trace
    BY <1>7 DEF OneTrace
  <2>2. CASE s = m + 1
    BY <2>1, <2>2, <1>2, <1>4, <1>7 DEF NewSpan
  <2>3. CASE s # m + 1
    <3>1. s \in 1..m /\ spans'[s] = spans[s] /\ spans[s].parent \in 1..m
      BY <2>3, <1>1, <1>2, <1>7, SpansTyped
    <3> QED BY <3>1, <1>1, <1>3, <1>7 DEF OneTrace
  <2> QED BY <2>2, <2>3
<1> QED BY <1>9, <1>13, <1>14, <1>15, <1>16 DEF LibraryInv

\* Every copy has the details of its original, but for the service name.
LEMMA DetailsCopied ==
  ASSUME TracingTypeOK, NEW c \in 1..Len(contexts)
  PROVE  DetailCopies(c) \in Seq(DetailsType) /\ Len(DetailCopies(c)) = Len(Chain(c))
<1>1. /\ Len(Chain(c)) \in Nat /\ \A k \in 1..Len(Chain(c)) : Chain(c)[k] \in 1..Len(spans)
  BY ContextsTyped
<1>2. \A k \in 1..Len(Chain(c)) : CopyOfDetails(Chain(c)[k]) \in DetailsType
  <2> TAKE k \in 1..Len(Chain(c))
  <2>1. details[Chain(c)[k]] \in DetailsType
    BY <1>1, DetailsTyped
  <2> QED BY <2>1, TracingAssumption DEF CopyOfDetails, DetailsType
<1> HIDE DEF DetailsType
<1> QED BY <1>1, <1>2 DEF DetailCopies

\* A deep copy is a new context over new span objects, linked among themselves.
LEMMA DeepCopyPreserves ==
  ASSUME LibraryInv, NEW c \in 1..Len(contexts), DeepCopy(c) PROVE LibraryInv'
<1> DEFINE m == Len(spans)
           n == Len(contexts)
           l == Len(Chain(c))
           new == [trace |-> contexts[c].trace, chain |-> [k \in 1..l |-> m + k]]
<1>1. TracingTypeOK /\ SpansPrivate /\ ChainLinked /\ ChainsInTrace /\ OneTrace
  BY DEF LibraryInv
<1>2. m \in Nat /\ n \in Nat /\ l \in Nat /\ m <= m + l /\ n <= n + 1 /\ m + l \in Nat
      /\ n + 1 \in Nat
  BY <1>1, ContextsTyped, SpansTyped
<1>3. /\ DOMAIN contexts = 1..n /\ DOMAIN spans = 1..m
      /\ \A d \in 1..n :
           /\ Len(Chain(d)) \in Nat /\ DOMAIN Chain(d) = 1..Len(Chain(d))
           /\ \A k \in 1..Len(Chain(d)) : Chain(d)[k] \in 1..m
  BY <1>1, ContextsTyped, SpansTyped
<1>4. /\ contexts[c].trace \in 1..n
      /\ \A k \in 1..l : Chain(c)[k] \in 1..m
  BY <1>1, ContextsTyped
<1>5. /\ spans' = spans \o Copies(c)
      /\ contexts' = Append(contexts, new)
      /\ UNCHANGED <<attached, tasks, posted, files, clock, exited>>
  BY DEF DeepCopy
<1>6. /\ contexts \in Seq(ContextType(m + l, n + 1)) /\ spans \in Seq(SpanType(m + l, n + 1))
      /\ attached \in [DOMAIN attached -> 0..(n + 1)] /\ tasks \in Seq(TaskType(m + l))
      /\ posted \subseteq [task : 1..Len(tasks), json : JSONType(m + l, n + 1)]
  BY <1>1, <1>2, TypesKept
<1>7. \A k \in 1..l :
        /\ Copies(c)[k] \in SpanType(m + l, n + 1)
        /\ Copies(c)[k].trace = contexts[c].trace
        /\ Copies(c)[k].parent = IF k = 1 THEN 0 ELSE m + k - 1
  <2> SUFFICES ASSUME NEW k \in 1..l
               PROVE  /\ Copies(c)[k] \in SpanType(m + l, n + 1)
                      /\ Copies(c)[k].trace = contexts[c].trace
                      /\ Copies(c)[k].parent = IF k = 1 THEN 0 ELSE m + k - 1
    OBVIOUS
  <2> DEFINE s == Chain(c)[k]
             p == IF k = 1 THEN 0 ELSE m + k - 1
  <2>1. Copies(c)[k] = CopyOfSpan(s, p)
    BY DEF Copies
  <2>2. spans[s] \in SpanType(m + l, n + 1)
    BY <1>3, <1>4, <1>6
  <2>3. p \in 0..(m + l)
    BY <1>2
  <2>4. spans[s].trace = contexts[c].trace
    BY <1>1, <1>3 DEF ChainsInTrace
  <2> HIDE DEF s, p, m, n, l
  <2>5. /\ Copies(c)[k] \in SpanType(m + l, n + 1)
        /\ Copies(c)[k].trace = spans[s].trace /\ Copies(c)[k].parent = p
    BY <2>1, <2>2, <2>3, CopyTyped
  <2> QED BY <2>4, <2>5 DEF p
<1>8. Copies(c) \in Seq(SpanType(m + l, n + 1)) /\ Len(Copies(c)) = l
  <2>1. Copies(c) = [k \in 1..l |-> Copies(c)[k]]
    BY DEF Copies
  <2> QED BY <1>2, <1>7, <2>1
<1>9. /\ spans' \in Seq(SpanType(m + l, n + 1)) /\ Len(spans') = m + l
      /\ DOMAIN spans' = 1..(m + l)
      /\ \A s \in 1..m : spans'[s] = spans[s]
      /\ \A k \in 1..l : spans'[m + k] = Copies(c)[k]
  <2> DEFINE u == Copies(c)
             S == SpanType(m + l, n + 1)
  <2>1. u \in Seq(S) /\ Len(u) = l /\ spans' = spans \o u /\ spans \in Seq(S)
    BY <1>2, <1>5, <1>6, <1>8
  <2> HIDE DEF u, S, l
  <2>2. /\ spans' \in Seq(S) /\ Len(spans') = m + l
        /\ DOMAIN spans' = 1..(m + l)
        /\ \A s \in 1..m : spans'[s] = spans[s]
        /\ \A k \in 1..l : spans'[m + k] = u[k]
    <3> HIDE DEF m
    <3>1. spans \in Seq(S) /\ u \in Seq(S)
      BY <2>1
    <3>2. /\ spans \o u \in Seq(S)
          /\ Len(spans \o u) = Len(spans) + Len(u)
          /\ DOMAIN (spans \o u) = 1..(Len(spans) + Len(u))
          /\ \A i \in 1..Len(spans) : (spans \o u)[i] = spans[i]
          /\ \A i \in 1..Len(u) : (spans \o u)[Len(spans) + i] = u[i]
      BY <3>1
    <3> QED BY <2>1, <3>2 DEF m
  <2> QED BY <2>2 DEF u, S
<1>10. new \in ContextType(m + l, n + 1)
  <2>1. [k \in 1..l |-> m + k] \in Seq(1..(m + l))
    BY <1>2
  <2> QED BY <1>2, <1>4, <2>1 DEF ContextType
<1>11. /\ contexts' \in Seq(ContextType(m + l, n + 1)) /\ Len(contexts') = n + 1
       /\ DOMAIN contexts' = 1..(n + 1)
       /\ \A d \in 1..n : contexts'[d] = contexts[d]
       /\ contexts'[n + 1] = new
  <2> HIDE DEF new
  <2> QED BY <1>5, <1>6, <1>10, AppendFacts
<1>12. TracingTypeOK'
  <2>1. DetailCopies(c) \in Seq(DetailsType) /\ Len(DetailCopies(c)) = l
    BY <1>1, <1>2, DetailsCopied
  <2>2. details' = details \o DetailCopies(c)
    BY DEF DeepCopy
  <2>3. details' \in Seq(DetailsType) /\ Len(details') = m + l
    BY <1>1, <2>1, <2>2, DetailsAppended
  <2> QED BY <1>1, <1>5, <1>6, <1>9, <1>11, <2>3 DEF TracingTypeOK
<1>13. \A d \in 1..n : Chain(d)' = Chain(d) /\ contexts'[d].trace = contexts[d].trace
  BY <1>11 DEF Chain
<1>14. ASSUME NEW d, d = n + 1
       PROVE  /\ Chain(d)' = [k \in 1..l |-> m + k] /\ DOMAIN Chain(d)' = 1..l
              /\ contexts'[d].trace = contexts[c].trace
  <2>1. contexts'[d] = new
    BY <1>11, <1>14
  <2> QED BY <2>1 DEF Chain
<1>15. SpansPrivate'
  <2> SUFFICES ASSUME NEW d \in 1..(n + 1), NEW e \in 1..(n + 1),
                      NEW j \in DOMAIN Chain(d)', NEW k \in DOMAIN Chain(e)',
                      Chain(d)'[j] = Chain(e)'[k]
               PROVE  d = e /\ j = k
    BY <1>11 DEF SpansPrivate
  <2>1. CASE d = n + 1 /\ e = n + 1
    <3>1. Chain(d)'[j] = m + j /\ j \in 1..l /\ Chain(e)'[k] = m + k /\ k \in 1..l
      BY <2>1, <1>14
    <3> QED BY <2>1, <3>1, <1>2
  <2>2. CASE d \in 1..n /\ e \in 1..n
    <3>1. /\ Chain(d)' = Chain(d) /\ Chain(e)' = Chain(e)
          /\ d \in DOMAIN contexts /\ e \in DOMAIN contexts
      BY <2>2, <1>3, <1>13
    <3>2. /\ j \in DOMAIN Chain(d) /\ k \in DOMAIN Chain(e)
          /\ Chain(d)[j] = Chain(e)[k]
      BY <3>1
    <3> QED BY <3>1, <3>2, <1>1 DEF SpansPrivate
  <2>3. CASE d = n + 1 /\ e \in 1..n
    <3>1. Chain(d)'[j] = m + j /\ j \in 1..l
      BY <2>3, <1>14
    <3>2. Chain(e)'[k] \in 1..m
      BY <2>3, <1>3, <1>13
    <3> QED BY <3>1, <3>2, <1>2
  <2>4. CASE d \in 1..n /\ e = n + 1
    <3>1. Chain(e)'[k] = m + k /\ k \in 1..l
      BY <2>4, <1>14
    <3>2. Chain(d)'[j] \in 1..m
      BY <2>4, <1>3, <1>13
    <3> QED BY <3>1, <3>2, <1>2
  <2> QED BY <1>2, <2>1, <2>2, <2>3, <2>4
<1>16. ChainLinked'
  <2> SUFFICES ASSUME NEW d \in 1..(n + 1), NEW k \in DOMAIN Chain(d)'
               PROVE  spans'[Chain(d)'[k]].parent = IF k = 1 THEN 0 ELSE Chain(d)'[k - 1]
    BY <1>11 DEF ChainLinked
  <2>1. CASE d \in 1..n
    <3>1. Chain(d)' = Chain(d) /\ k \in DOMAIN Chain(d) /\ Chain(d)[k] \in 1..m
      BY <2>1, <1>3, <1>13
    <3>2. spans[Chain(d)[k]].parent = IF k = 1 THEN 0 ELSE Chain(d)[k - 1]
      BY <2>1, <3>1, <1>1, <1>3 DEF ChainLinked
    <3> QED BY <3>1, <3>2, <1>9
  <2>2. CASE d = n + 1
    <3>1. k \in 1..l /\ Chain(d)'[k] = m + k /\ (k # 1 => Chain(d)'[k - 1] = m + k - 1)
      BY <2>2, <1>2, <1>14
    <3>2. spans'[Chain(d)'[k]] = Copies(c)[k] BY <3>1, <1>9
    <3>3. Copies(c)[k].parent = IF k = 1 THEN 0 ELSE m + k - 1 BY <3>1, <1>7
    <3> HIDE DEF m, l, n
    <3> QED BY <3>1, <3>2, <3>3
  <2> QED BY <1>2, <2>1, <2>2
<1>17. ChainsInTrace'
  <2> SUFFICES ASSUME NEW d \in 1..(n + 1), NEW k \in DOMAIN Chain(d)'
               PROVE  spans'[Chain(d)'[k]].trace = contexts'[d].trace
    BY <1>11 DEF ChainsInTrace
  <2>1. CASE d \in 1..n
    <3>1. Chain(d)' = Chain(d) /\ k \in DOMAIN Chain(d) /\ Chain(d)[k] \in 1..m
      BY <2>1, <1>3, <1>13
    <3>2. spans[Chain(d)[k]].trace = contexts[d].trace
      BY <2>1, <3>1, <1>1, <1>3 DEF ChainsInTrace
    <3>3. contexts'[d].trace = contexts[d].trace BY <2>1, <1>13
    <3>4. spans'[Chain(d)[k]] = spans[Chain(d)[k]] BY <3>1, <1>9
    <3> QED BY <3>1, <3>2, <3>3, <3>4
  <2>2. CASE d = n + 1
    <3>1. k \in 1..l /\ Chain(d)'[k] = m + k
      BY <2>2, <1>14
    <3> QED BY <2>2, <3>1, <1>7, <1>9, <1>14
  <2> QED BY <1>2, <2>1, <2>2
<1>18. OneTrace'
  <2> SUFFICES ASSUME NEW s \in 1..(m + l), spans'[s].parent # 0
               PROVE  spans'[spans'[s].parent].trace = spans'[s].trace
    BY <1>9 DEF OneTrace
  <2>1. CASE s \in 1..m
    <3>1. spans'[s] = spans[s] /\ spans[s].parent \in 1..m
      BY <2>1, <1>1, <1>2, <1>9, SpansTyped
    <3> QED BY <2>1, <3>1, <1>1, <1>3, <1>9 DEF OneTrace
  <2>2. CASE s \notin 1..m
    <3>1. PICK k \in 1..l : s = m + k
      <4>1. s - m \in 1..l /\ s = m + (s - m)
        BY <2>2, <1>2
      <4> QED BY <4>1
    <3>2. spans'[s].parent = m + (k - 1) /\ k - 1 \in 1..l
      BY <3>1, <1>2, <1>7, <1>9
    <3>3. spans'[m + k].trace = contexts[c].trace /\ spans'[m + (k - 1)].trace = contexts[c].trace
      BY <3>2, <1>7, <1>9
    <3> QED BY <3>1, <3>2, <3>3
  <2> QED BY <2>1, <2>2
<1> QED BY <1>12, <1>15, <1>16, <1>17, <1>18 DEF LibraryInv

\* Handing a span to the exporter changes no context and no span.
LEMMA ExportPreserves ==
  ASSUME LibraryInv, NEW c \in 1..Len(contexts), Current(c) # 0, ExportCurrent(c)
  PROVE  LibraryInv'
<1> DEFINE task == [span |-> Current(c), state |-> "submitted"]
<1>1. /\ tasks' = Append(tasks, task)
      /\ UNCHANGED <<contexts, spans, attached, posted, files, clock, exited>>
      /\ details' = [details EXCEPT ![Current(c)].notes = @ \cup {"closing"}]
  BY DEF ExportCurrent
<1>2. TracingTypeOK
  BY DEF LibraryInv
<1>3. task \in TaskType(Len(spans))
  <2>1. Current(c) \in 1..Len(spans)
    BY <1>2, ContextsTyped, SpansTyped
  <2> QED BY <2>1 DEF TaskType
<1>4. /\ tasks' \in Seq(TaskType(Len(spans)))
      /\ Len(tasks) \in Nat /\ Len(tasks') = Len(tasks) + 1
  <2>1. tasks \in Seq(TaskType(Len(spans)))
    BY <1>2 DEF TracingTypeOK
  <2> HIDE DEF task
  <2> QED BY <1>1, <1>3, <2>1, AppendFacts
<1>5. 1..Len(tasks) \subseteq 1..Len(tasks')
  BY <1>4
<1>6. /\ posted' \subseteq [task : 1..Len(tasks'), json : JSONType(Len(spans), Len(contexts))]
      /\ files' \in [0..MaxTime -> SUBSET (1..Len(tasks'))]
  BY <1>1, <1>2, <1>5 DEF TracingTypeOK
<1>7. TracingTypeOK'
  <2>1. Current(c) \in 1..Len(spans) /\ "closing" \in Notes
    BY <1>2, ContextsTyped, SpansTyped DEF Notes
  <2>2. details' \in Seq(DetailsType) /\ Len(details') = Len(spans)
    BY <1>1, <1>2, <2>1, NotesAdded
  <2> QED BY <1>1, <1>2, <1>4, <1>6, <2>2 DEF TracingTypeOK
<1> QED BY <1>1, <1>7 DEF LibraryInv, SpansPrivate, ChainLinked, ChainsInTrace, OneTrace, Chain

\* A setter changes no context, and of one span only the details.
LEMMA AnnotatePreserves ==
  ASSUME LibraryInv, NEW c \in 1..Len(contexts), Current(c) # 0, Annotate(c)
  PROVE  LibraryInv'
<1>1. /\ UNCHANGED <<contexts, spans, attached, tasks, posted, files, clock, exited>>
      /\ details' = [details EXCEPT ![Current(c)].notes = @ \cup {"added"}]
  BY DEF Annotate
<1>2. TracingTypeOK
  BY DEF LibraryInv
<1>3. Current(c) \in 1..Len(spans) /\ "added" \in Notes
  BY <1>2, ContextsTyped, SpansTyped DEF Notes
<1>4. details' \in Seq(DetailsType) /\ Len(details') = Len(spans)
  BY <1>1, <1>2, <1>3, NotesAdded
<1>5. TracingTypeOK'
  BY <1>1, <1>2, <1>4 DEF TracingTypeOK
<1> QED BY <1>1, <1>5 DEF LibraryInv, SpansPrivate, ChainLinked, ChainsInTrace, OneTrace, Chain

\* Moving up takes the last span from one chain.
LEMMA MoveUpPreserves ==
  ASSUME LibraryInv, NEW c \in 1..Len(contexts), MoveUp(c) PROVE LibraryInv'
<1> DEFINE m == Len(spans)
           n == Len(contexts)
           rest == SubSeq(Chain(c), 1, Len(Chain(c)) - 1)
           ctx == [trace |-> contexts[c].trace, chain |-> rest]
<1>1. TracingTypeOK /\ SpansPrivate /\ ChainLinked /\ ChainsInTrace /\ OneTrace
  BY DEF LibraryInv
<1>2. /\ DOMAIN contexts = 1..n /\ n \in Nat
      /\ contexts[c] = [trace |-> contexts[c].trace, chain |-> Chain(c)]
      /\ contexts[c].trace \in 1..n /\ Chain(c) \in Seq(1..m)
      /\ Len(Chain(c)) \in Nat /\ DOMAIN Chain(c) = 1..Len(Chain(c))
  BY <1>1, ContextsTyped
<1>3. /\ contexts' = [contexts EXCEPT ![c] = ctx]
      /\ UNCHANGED <<spans, details, attached, tasks, posted, files, clock, exited>>
  <2>1. contexts[c] = [trace |-> contexts[c].trace, chain |-> Chain(c)]
    BY <1>2
  <2>2. [contexts[c] EXCEPT !.chain = rest] = ctx
    <3> HIDE DEF rest
    <3> QED BY <2>1, ChainReplaced
  <2> QED BY <2>2 DEF MoveUp, Chain
<1>4. /\ rest \in Seq(1..m)
      /\ DOMAIN rest \subseteq DOMAIN Chain(c)
      /\ \A k \in DOMAIN rest : rest[k] = Chain(c)[k] /\ (k # 1 => k - 1 \in DOMAIN rest)
  <2>1. Chain(c) \in Seq(1..m) BY <1>2
  <2> HIDE DEF m
  <2> QED BY <2>1, ButLastFacts
<1>5. /\ contexts' \in Seq(ContextType(m, n)) /\ Len(contexts') = n
      /\ DOMAIN contexts' = 1..n
      /\ \A d \in 1..n : d # c => contexts'[d] = contexts[d]
      /\ contexts'[c] = ctx
  <2>1. ctx \in ContextType(m, n)
    BY <1>2, <1>4 DEF ContextType
  <2>2. contexts \in Seq(ContextType(m, n))
    BY <1>1 DEF TracingTypeOK
  <2> HIDE DEF ctx
  <2> QED BY <1>3, <2>1, <2>2, ReplaceFacts
<1>6. TracingTypeOK'
  BY <1>1, <1>3, <1>5 DEF TracingTypeOK
<1>7. ASSUME NEW d \in 1..n, NEW k \in DOMAIN Chain(d)'
      PROVE  /\ d \in DOMAIN contexts /\ contexts'[d].trace = contexts[d].trace
             /\ k \in DOMAIN Chain(d) /\ Chain(d)'[k] = Chain(d)[k]
             /\ k # 1 => Chain(d)'[k - 1] = Chain(d)[k - 1]
  <2>1. CASE d = c
    <3>1. Chain(d)' = rest /\ contexts'[d].trace = contexts[d].trace
      BY <2>1, <1>5 DEF Chain
    <3> HIDE DEF rest
    <3> QED BY <2>1, <3>1, <1>2, <1>4
  <2>2. CASE d # c
    BY <2>2, <1>2, <1>5 DEF Chain
  <2> QED BY <2>1, <2>2
<1>8. SpansPrivate'
  <2> SUFFICES ASSUME NEW d \in 1..n, NEW e \in 1..n,
                      NEW j \in DOMAIN Chain(d)', NEW k \in DOMAIN Chain(e)',
                      Chain(d)'[j] = Chain(e)'[k]
               PROVE  d = e /\ j = k
    BY <1>5 DEF SpansPrivate
  <2>1. j \in DOMAIN Chain(d) /\ Chain(d)'[j] = Chain(d)[j] /\ d \in DOMAIN contexts
    BY <1>2, <1>7
  <2>2. k \in DOMAIN Chain(e) /\ Chain(e)'[k] = Chain(e)[k] /\ e \in DOMAIN contexts
    BY <1>2, <1>7
  <2>3. Chain(d)[j] = Chain(e)[k]
    BY <2>1, <2>2
  <2> QED BY <2>1, <2>2, <2>3, <1>1 DEF SpansPrivate
<1>9. ChainLinked'
  <2> SUFFICES ASSUME NEW d \in 1..n, NEW k \in DOMAIN Chain(d)'
               PROVE  spans'[Chain(d)'[k]].parent = IF k = 1 THEN 0 ELSE Chain(d)'[k - 1]
    BY <1>5 DEF ChainLinked
  <2>1. /\ k \in DOMAIN Chain(d) /\ Chain(d)'[k] = Chain(d)[k] /\ d \in DOMAIN contexts
        /\ k # 1 => Chain(d)'[k - 1] = Chain(d)[k - 1]
    BY <1>2, <1>7
  <2> QED BY <2>1, <1>1, <1>3 DEF ChainLinked
<1>10. ChainsInTrace'
  <2> SUFFICES ASSUME NEW d \in 1..n, NEW k \in DOMAIN Chain(d)'
               PROVE  spans'[Chain(d)'[k]].trace = contexts'[d].trace
    BY <1>5 DEF ChainsInTrace
  <2>1. /\ k \in DOMAIN Chain(d) /\ Chain(d)'[k] = Chain(d)[k] /\ d \in DOMAIN contexts
        /\ contexts'[d].trace = contexts[d].trace
    BY <1>2, <1>7
  <2> QED BY <2>1, <1>1, <1>3 DEF ChainsInTrace
<1>11. OneTrace'
  BY <1>1, <1>3 DEF OneTrace
<1> QED BY <1>6, <1>8, <1>9, <1>10, <1>11 DEF LibraryInv

(* What an operation leaves alone *)

\* A new context has a trace of its own; the others are as they were.
LEMMA CreateEffect ==
  ASSUME TracingTypeOK, Create
  PROVE  /\ Len(contexts') = Len(contexts) + 1
         /\ \A d \in 1..Len(contexts) : contexts'[d] = contexts[d]
         /\ contexts'[Len(contexts) + 1].trace = Len(contexts) + 1
         /\ contexts'[Len(contexts) + 1].chain = <<>>
<1> DEFINE new == [trace |-> Len(contexts) + 1, chain |-> <<>>]
<1>1. /\ contexts \in Seq(ContextType(Len(spans), Len(contexts)))
      /\ contexts' = Append(contexts, new)
  BY DEF TracingTypeOK, Create, NewContext
<1>2. new.trace = Len(contexts) + 1 /\ new.chain = <<>>
  OBVIOUS
<1> HIDE DEF new
<1> QED BY <1>1, <1>2

\* A copy is of the same trace as the original; the others are as they were.
LEMMA DeepCopyEffect ==
  ASSUME TracingTypeOK, NEW c \in 1..Len(contexts), DeepCopy(c)
  PROVE  /\ Len(contexts') = Len(contexts) + 1
         /\ \A d \in 1..Len(contexts) : contexts'[d] = contexts[d]
         /\ contexts'[Len(contexts) + 1].trace = contexts[c].trace
         /\ contexts'[Len(contexts) + 1].chain = [k \in 1..Len(Chain(c)) |-> Len(spans) + k]
<1> DEFINE copy == [k \in 1..Len(Chain(c)) |-> Len(spans) + k]
           new == [trace |-> contexts[c].trace, chain |-> copy]
<1>1. /\ contexts \in Seq(ContextType(Len(spans), Len(contexts)))
      /\ contexts' = Append(contexts, new)
  BY DEF TracingTypeOK, DeepCopy
<1>2. new.trace = contexts[c].trace /\ new.chain = copy
  OBVIOUS
<1> HIDE DEF new, copy
<1>3. /\ Len(contexts') = Len(contexts) + 1
      /\ \A d \in 1..Len(contexts) : contexts'[d] = contexts[d]
      /\ contexts'[Len(contexts) + 1].trace = contexts[c].trace
      /\ contexts'[Len(contexts) + 1].chain = copy
  BY <1>1, <1>2
<1> QED BY <1>3 DEF copy

\* Opening changes one context, and not its trace.
LEMMA OpenEffect ==
  ASSUME TracingTypeOK, NEW c \in 1..Len(contexts), NEW name, NEW service,
         OpenNestedSpan(c, name, service)
  PROVE  /\ Len(contexts') = Len(contexts)
         /\ \A d \in 1..Len(contexts) : d # c => contexts'[d] = contexts[d]
         /\ \A d \in 1..Len(contexts) : contexts'[d].trace = contexts[d].trace
         /\ contexts'[c].chain = Append(Chain(c), Len(spans) + 1)
         /\ contexts'[c].chain # <<>>
<1> DEFINE ctx == [trace |-> contexts[c].trace, chain |-> Append(Chain(c), Len(spans) + 1)]
<1>1. /\ DOMAIN contexts = 1..Len(contexts) /\ Len(contexts) \in Nat
      /\ contexts[c] = [trace |-> contexts[c].trace, chain |-> Chain(c)]
      /\ Chain(c) \in Seq(1..Len(spans))
  BY ContextsTyped
<1>2. contexts' = [contexts EXCEPT ![c] = ctx]
  <2>1. contexts[c] = [trace |-> contexts[c].trace, chain |-> Chain(c)]
    BY <1>1
  <2>2. [contexts[c] EXCEPT !.chain = Append(Chain(c), Len(spans) + 1)] = ctx
    BY <2>1, ChainReplaced
  <2> QED BY <2>2 DEF OpenNestedSpan, Chain
<1>3. /\ ctx.trace = contexts[c].trace /\ ctx.chain # <<>>
      /\ ctx.chain = Append(Chain(c), Len(spans) + 1)
  BY <1>1
<1>4. contexts \in Seq(ContextType(Len(spans), Len(contexts)))
  BY DEF TracingTypeOK
<1> HIDE DEF ctx
<1> QED BY <1>1, <1>2, <1>3, <1>4

\* Moving up changes one context, and not its trace.
LEMMA MoveUpEffect ==
  ASSUME TracingTypeOK, NEW c \in 1..Len(contexts), MoveUp(c)
  PROVE  /\ Len(contexts') = Len(contexts)
         /\ \A d \in 1..Len(contexts) : d # c => contexts'[d] = contexts[d]
         /\ \A d \in 1..Len(contexts) : contexts'[d].trace = contexts[d].trace
         /\ contexts'[c].chain = SubSeq(Chain(c), 1, Len(Chain(c)) - 1)
<1> DEFINE rest == SubSeq(Chain(c), 1, Len(Chain(c)) - 1)
           ctx == [trace |-> contexts[c].trace, chain |-> rest]
<1>1. /\ DOMAIN contexts = 1..Len(contexts) /\ Len(contexts) \in Nat
      /\ contexts[c] = [trace |-> contexts[c].trace, chain |-> Chain(c)]
  BY ContextsTyped
<1>2. contexts' = [contexts EXCEPT ![c] = ctx]
  <2>1. [contexts[c] EXCEPT !.chain = rest] = ctx
    <3> HIDE DEF rest
    <3> QED BY <1>1, ChainReplaced
  <2> QED BY <2>1 DEF MoveUp, Chain
<1>3. ctx.trace = contexts[c].trace /\ ctx.chain = rest
  OBVIOUS
<1>4. contexts \in Seq(ContextType(Len(spans), Len(contexts)))
  BY DEF TracingTypeOK
<1> HIDE DEF ctx, rest
<1>5. /\ Len(contexts') = Len(contexts)
      /\ \A d \in 1..Len(contexts) : d # c => contexts'[d] = contexts[d]
      /\ \A d \in 1..Len(contexts) : contexts'[d].trace = contexts[d].trace
      /\ contexts'[c].chain = rest
  BY <1>1, <1>2, <1>3, <1>4
<1> QED BY <1>5 DEF rest

\* Opening adds one span object, which has an id of its own.
LEMMA OpenedSpan ==
  ASSUME TracingTypeOK, NEW c, NEW name, NEW service, OpenNestedSpan(c, name, service)
  PROVE  /\ Len(spans') = Len(spans) + 1 /\ DOMAIN spans' = 1..Len(spans')
         /\ \A s \in 1..Len(spans) : spans'[s] = spans[s]
         /\ spans'[Len(spans) + 1] = NewSpan(c, name)
         /\ NewSpan(c, name).id = Len(spans) + 1
         /\ NewSpan(c, name).parent = Current(c)
<1>1. spans \in Seq(SpanType(Len(spans), Len(contexts)))
  BY DEF TracingTypeOK
<1>2. spans' = Append(spans, NewSpan(c, name))
  BY DEF OpenNestedSpan
<1>3. /\ NewSpan(c, name).id = Len(spans) + 1
      /\ NewSpan(c, name).parent = Current(c)
  BY DEF NewSpan
<1> QED BY <1>1, <1>2, <1>3

\* A deep copy adds a span object for every one on the chain, of the same id, name and trace.
LEMMA CopiedSpans ==
  ASSUME TracingTypeOK, NEW c \in 1..Len(contexts), DeepCopy(c)
  PROVE  /\ Len(spans') = Len(spans) + Len(Chain(c)) /\ DOMAIN spans' = 1..Len(spans')
         /\ \A s \in 1..Len(spans) : spans'[s] = spans[s]
         /\ \A k \in 1..Len(Chain(c)) :
              /\ spans'[Len(spans) + k].id = spans[Chain(c)[k]].id
              /\ spans'[Len(spans) + k].name = spans[Chain(c)[k]].name
              /\ spans'[Len(spans) + k].trace = spans[Chain(c)[k]].trace
<1> PICK l : l = Len(Chain(c))
  OBVIOUS
<1> PICK u : u = Copies(c)
  OBVIOUS
<1>1. /\ spans \in Seq(SpanType(Len(spans), Len(contexts))) /\ Len(spans) \in Nat /\ l \in Nat
      /\ \A k \in 1..l : Chain(c)[k] \in 1..Len(spans)
      /\ \A s \in 1..Len(spans) : spans[s] \in SpanType(Len(spans), Len(contexts))
      /\ DOMAIN spans = 1..Len(spans)
  BY ContextsTyped, SpansTyped DEF TracingTypeOK
<1>2. u = [k \in 1..l |-> u[k]] /\ spans' = spans \o u
  BY DEF Copies, DeepCopy
<1>3. \A k \in 1..l : /\ u[k].id = spans[Chain(c)[k]].id
                     /\ u[k].name = spans[Chain(c)[k]].name
                     /\ u[k].trace = spans[Chain(c)[k]].trace
  <2> TAKE k \in 1..l
  <2>1. u[k] = CopyOfSpan(Chain(c)[k], IF k = 1 THEN 0 ELSE Len(spans) + k - 1)
    BY DEF Copies
  <2>2. \A s, p : spans[s] \in SpanType(Len(spans), Len(contexts)) =>
           /\ CopyOfSpan(s, p).id = spans[s].id
           /\ CopyOfSpan(s, p).name = spans[s].name
           /\ CopyOfSpan(s, p).trace = spans[s].trace
    BY DEF CopyOfSpan, SpanType
  <2> QED BY <2>1, <2>2, <1>1
<1>4. u \in Seq({u[k] : k \in 1..l}) /\ Len(u) = l
  BY <1>1, <1>2
<1>5. /\ Len(spans') = Len(spans) + l /\ DOMAIN spans' = 1..Len(spans')
      /\ \A s \in 1..Len(spans) : spans'[s] = spans[s]
      /\ \A k \in 1..l : spans'[Len(spans) + k] = u[k]
  BY ONLY <1>1, <1>2, <1>4
<1> QED BY <1>3, <1>5

\* An exporter's thread changes no span that its or another task has to save.
LEMMA ExporterEffect ==
  ASSUME TracingTypeOK, ExporterStep
  PROVE  /\ UNCHANGED <<contexts, spans, details, attached, clock, exited>>
         /\ DOMAIN tasks' = DOMAIN tasks
         /\ \A k \in DOMAIN tasks : tasks'[k].span = tasks[k].span
<1>1. PICK j \in DOMAIN tasks : \E from, to : TaskMoves(j, from, to)
  BY DEF ExporterStep, Post, DropSpan, OpenFile, WriteFile, FileFails
<1>2. PICK from, to : TaskMoves(j, from, to)
  BY <1>1
<1>3. /\ tasks \in Seq(TaskType(Len(spans)))
      /\ \A k \in DOMAIN tasks : tasks[k] \in TaskType(Len(spans))
  BY DEF TracingTypeOK
<1>4. tasks' = [tasks EXCEPT ![j] = [tasks[j] EXCEPT !.state = to]]
  BY <1>2 DEF TaskMoves
<1>5. [tasks[j] EXCEPT !.state = to].span = tasks[j].span
  BY <1>3 DEF TaskType
<1>6. UNCHANGED <<contexts, spans, details, attached, clock, exited>>
  BY <1>2 DEF TaskMoves
<1> QED BY <1>3, <1>4, <1>5, <1>6

(* The exporter, the clock and the end of the program touch no context and no span *)

\* The exporter's thread changes its task, the server and the files.
LEMMA ExporterPreserves ==
  ASSUME LibraryInv, ExporterStep PROVE LibraryInv'
<1> DEFINE m == Len(spans)
           n == Len(contexts)
           l == Len(tasks)
<1>1. TracingTypeOK
  BY DEF LibraryInv
<1>2. PICK k \in DOMAIN tasks : Post(k) \/ DropSpan(k) \/ OpenFile(k) \/ WriteFile(k)
  BY DEF ExporterStep
<1>3. /\ l \in Nat /\ k \in 1..l /\ DOMAIN tasks = 1..l
      /\ tasks \in Seq(TaskType(m))
      /\ tasks[k] \in TaskType(m)
  BY <1>1, <1>2 DEF TracingTypeOK
<1>4. tasks[k].span \in 1..m
  BY <1>3 DEF TaskType
<1>5. ASSUME NEW from, NEW to \in {"open", "done", "dropped"}, TaskMoves(k, from, to)
      PROVE  /\ UNCHANGED <<contexts, spans, details, attached, clock, exited>>
             /\ tasks' \in Seq(TaskType(m)) /\ Len(tasks') = l
  <2> DEFINE task == [tasks[k] EXCEPT !.state = to]
  <2>1. /\ UNCHANGED <<contexts, spans, details, attached, clock, exited>>
        /\ tasks' = [tasks EXCEPT ![k] = task]
    BY <1>5 DEF TaskMoves
  <2>2. task \in TaskType(m)
    BY <1>3, <1>5 DEF TaskType
  <2> HIDE DEF task
  <2> QED BY <2>1, <2>2, <1>3, ReplaceFacts
<1>6. TracingTypeOK' /\ UNCHANGED <<contexts, spans>>
  <2>1. CASE Post(k)
    <3>1. TaskMoves(k, "submitted", "done") /\ UNCHANGED files
          /\ posted' = posted \cup {[task |-> k, json |-> ToJSON(tasks[k].span)]}
      BY <2>1 DEF Post
    <3>2. ToJSON(tasks[k].span) \in JSONType(m, n)
      <4> DEFINE s == tasks[k].span
      <4>1. ParentId(s) \in 0..m
        BY <1>1, <1>4, SpansTyped DEF ParentId
      <4> QED BY <4>1, <1>1, <1>4, SpansTyped, DetailsTyped DEF ToJSON, JSONType
    <3> HIDE DEF m, n, l
    <3>3. posted' \subseteq [task : 1..l, json : JSONType(m, n)]
      BY <3>1, <3>2, <1>1, <1>3 DEF TracingTypeOK, m, n, l
    <3>4. /\ UNCHANGED <<contexts, spans, details, attached, clock, exited>>
          /\ tasks' \in Seq(TaskType(m)) /\ Len(tasks') = l
      BY <3>1, <1>5
    <3> QED BY <3>1, <3>3, <3>4, <1>1 DEF TracingTypeOK, m, n, l
  <2>2. CASE DropSpan(k)
    <3>1. TaskMoves(k, "submitted", "dropped") /\ UNCHANGED <<posted, files>>
      BY <2>2 DEF DropSpan
    <3>2. /\ UNCHANGED <<contexts, spans, details, attached, clock, exited>>
          /\ tasks' \in Seq(TaskType(m)) /\ Len(tasks') = l
      BY <3>1, <1>5
    <3> QED BY <3>1, <3>2, <1>1 DEF TracingTypeOK
  <2>3. CASE OpenFile(k)
    <3>1. \/ TaskMoves(k, "submitted", "open") /\ files' = [files EXCEPT ![FileOf(k)] = {}]
          \/ TaskMoves(k, "submitted", "dropped") /\ files' = files
      BY <2>3 DEF OpenFile, FileFails
    <3>2. /\ UNCHANGED <<contexts, spans, details, attached, clock, exited>>
          /\ tasks' \in Seq(TaskType(m)) /\ Len(tasks') = l
      BY <3>1, <1>5
    <3>3. files' \in [0..MaxTime -> SUBSET (1..l)]
      BY <3>1, <1>1 DEF TracingTypeOK
    <3>4. posted' = posted
      BY <2>3 DEF OpenFile
    <3> QED BY <3>2, <3>3, <3>4, <1>1 DEF TracingTypeOK
  <2>4. CASE WriteFile(k)
    <3>1. \/ TaskMoves(k, "open", "done") /\ files' = [files EXCEPT ![FileOf(k)] = @ \cup {k}]
          \/ TaskMoves(k, "open", "dropped") /\ files' = files
      BY <2>4 DEF WriteFile, FileFails
    <3>2. /\ UNCHANGED <<contexts, spans, details, attached, clock, exited>>
          /\ tasks' \in Seq(TaskType(m)) /\ Len(tasks') = l
      BY <3>1, <1>5
    <3>3. files' \in [0..MaxTime -> SUBSET (1..l)]
      BY <3>1, <1>1, <1>3 DEF TracingTypeOK
    <3>4. posted' = posted
      BY <2>4 DEF WriteFile
    <3> QED BY <3>2, <3>3, <3>4, <1>1 DEF TracingTypeOK
  <2> QED BY <1>2, <2>1, <2>2, <2>3, <2>4
<1> QED BY <1>6 DEF LibraryInv, SpansPrivate, ChainLinked, ChainsInTrace, OneTrace, Chain

\* Time passes.
LEMMA TickPreserves ==
  ASSUME LibraryInv, Tick PROVE LibraryInv'
<1>1. TracingTypeOK'
  BY TracingAssumption DEF LibraryInv, TracingTypeOK, Tick
<1> QED BY <1>1 DEF Tick, LibraryInv, SpansPrivate, ChainLinked, ChainsInTrace, OneTrace, Chain

\* System.exit only stops the program.
LEMMA ExitPreserves ==
  ASSUME LibraryInv, SystemExit PROVE LibraryInv'
<1>1. TracingTypeOK'
  BY DEF LibraryInv, TracingTypeOK, SystemExit
<1> QED BY <1>1 DEF SystemExit, LibraryInv, SpansPrivate, ChainLinked, ChainsInTrace, OneTrace,
  Chain

\* What the library does not see does not concern it.
LEMMA StutterPreserves ==
  ASSUME LibraryInv, UNCHANGED tracing PROVE LibraryInv'
<1>1. UNCHANGED <<contexts, spans, details, attached, tasks, posted, files, clock, exited>>
  BY DEF tracing
<1>2. TracingTypeOK'
  BY <1>1 DEF LibraryInv, TracingTypeOK
<1> QED BY <1>1, <1>2 DEF LibraryInv, SpansPrivate, ChainLinked, ChainsInTrace, OneTrace, Chain

\* A program starts without contexts and spans.
LEMMA InitialLibrary ==
  ASSUME NEW holders, TracingInit(holders) PROVE LibraryInv
<1>1. /\ contexts = <<>> /\ spans = <<>> /\ details = <<>> /\ tasks = <<>> /\ posted = {} /\ clock = 0
      /\ attached = [h \in holders |-> 0] /\ files = [t \in 0..MaxTime |-> {}] /\ exited = FALSE
  BY DEF TracingInit
<1>2. /\ contexts \in Seq(ContextType(Len(spans), Len(contexts)))
      /\ spans \in Seq(SpanType(Len(spans), Len(contexts)))
      /\ tasks \in Seq(TaskType(Len(spans)))
      /\ details \in Seq(DetailsType) /\ Len(details) = Len(spans)
  BY <1>1
<1>3. /\ attached \in [DOMAIN attached -> 0..Len(contexts)]
      /\ files \in [0..MaxTime -> SUBSET (1..Len(tasks))]
  BY <1>1
<1>4. clock \in 0..MaxTime /\ exited \in BOOLEAN
  <2>1. MaxTime \in Nat
    BY TracingAssumption
  <2> QED BY <1>1, <2>1
<1>5. TracingTypeOK
  BY <1>1, <1>2, <1>3, <1>4 DEF TracingTypeOK
<1> QED BY <1>1, <1>5 DEF LibraryInv, SpansPrivate, ChainLinked, ChainsInTrace, OneTrace, Chain
===============================================================================
