-------------------------- MODULE TracingClient_proofs ------------------------
(* For any number of threads, contexts and spans: a program that deep-copies a *)
(* context before it hands it on never shares a span between two contexts.     *)
EXTENDS TracingClient, Tracing_proofs

ClientInv ==
  /\ LibraryInv
  /\ DOMAIN attached = Threads
  /\ given \in [Threads -> 0..Len(contexts)]
  /\ base \in [Threads -> Nat]
  /\ closing \in [Threads -> BOOLEAN]
  /\ \A t \in Threads : closing[t] => attached[t] # 0

\* What the invariant says of a thread's context.
LEMMA AttachedTyped ==
  ASSUME ClientInv, NEW t \in Threads
  PROVE  /\ attached[t] \in 0..Len(contexts) /\ given[t] \in 0..Len(contexts)
         /\ Len(contexts) \in Nat
         /\ attached[t] # 0 => attached[t] \in 1..Len(contexts)
<1>1. TracingTypeOK
  BY DEF ClientInv, LibraryInv
<1>2. Len(contexts) \in Nat
  BY <1>1, ContextsTyped
<1>3. attached \in [Threads -> 0..Len(contexts)] /\ given \in [Threads -> 0..Len(contexts)]
  BY <1>1 DEF ClientInv, TracingTypeOK
<1> QED BY <1>2, <1>3

\* The initial states satisfy the invariant.
LEMMA ClientInvInit ==
  ASSUME Init PROVE ClientInv
<1>1. TracingInit(Threads) /\ LibraryInv
  BY InitialLibrary DEF Init
<1>2. DOMAIN attached = Threads /\ Len(contexts) = 0
  BY <1>1 DEF TracingInit
<1>3. /\ given \in [Threads -> 0..Len(contexts)]
      /\ base \in [Threads -> Nat]
      /\ closing \in [Threads -> BOOLEAN]
      /\ \A t \in Threads : ~closing[t]
  BY <1>2 DEF Init
<1> QED BY <1>1, <1>2, <1>3 DEF ClientInv

\* Every step preserves it.
LEMMA ClientInvStep ==
  ASSUME ClientInv, [Next]_vars PROVE ClientInv'
<1>1. /\ LibraryInv /\ DOMAIN attached = Threads
      /\ given \in [Threads -> 0..Len(contexts)]
      /\ base \in [Threads -> Nat]
      /\ closing \in [Threads -> BOOLEAN]
      /\ \A t \in Threads : closing[t] => attached[t] # 0
      /\ Len(contexts) \in Nat /\ Len(spans) \in Nat
  <2>1. Len(contexts) \in Nat /\ Len(spans) \in Nat
    BY ContextsTyped, SpansTyped DEF ClientInv, LibraryInv
  <2> QED BY <2>1 DEF ClientInv
<1>2. ASSUME NEW t \in Threads, GiveNew(t) PROVE ClientInv'
  <2>1. /\ Create /\ given' = [given EXCEPT ![t] = Len(contexts) + 1]
        /\ UNCHANGED <<attached, base, closing>>
    BY <1>2 DEF GiveNew, Create, NewContext
  <2>2. LibraryInv'
    BY <1>1, <2>1, CreatePreserves
  <2>3. Len(contexts') = Len(contexts) + 1
    <3>1. contexts \in Seq(ContextType(Len(spans), Len(contexts)))
      BY <1>1 DEF LibraryInv, TracingTypeOK
    <3> QED BY <2>1, <3>1 DEF Create
  <2>4. given' \in [Threads -> 0..Len(contexts')]
    BY <1>1, <2>1, <2>3
  <2> QED BY <1>1, <2>1, <2>2, <2>4 DEF ClientInv
<1>3. ASSUME NEW t \in Threads, NEW u \in Threads, GiveCopy(t, u) PROVE ClientInv'
  <2>1. /\ attached[t] \in 1..Len(contexts) /\ DeepCopy(attached[t])
        /\ given' = [given EXCEPT ![u] = Len(contexts) + 1]
        /\ base' = [base EXCEPT ![u] = Len(Chain(attached[t]))]
        /\ UNCHANGED <<attached, closing>>
    BY <1>3, AttachedTyped DEF GiveCopy, DeepCopy, NewContext
  <2>2. LibraryInv'
    BY <1>1, <2>1, DeepCopyPreserves
  <2>3. Len(contexts') = Len(contexts) + 1
    <3>1. contexts \in Seq(ContextType(Len(spans), Len(contexts)))
      BY <1>1 DEF LibraryInv, TracingTypeOK
    <3> QED BY <2>1, <3>1 DEF DeepCopy
  <2>4. Len(Chain(attached[t])) \in Nat
    BY <1>1, <2>1, ContextsTyped DEF LibraryInv
  <2>5. given' \in [Threads -> 0..Len(contexts')] /\ base' \in [Threads -> Nat]
    BY <1>1, <2>1, <2>3, <2>4
  <2> QED BY <1>1, <2>1, <2>2, <2>5 DEF ClientInv
<1>4. ASSUME NEW t \in Threads, Attach(t) PROVE ClientInv'
  <2>1. /\ given[t] \in 0..Len(contexts) /\ given[t] # 0 /\ AttachTo(t, given[t])
        /\ attached' = [attached EXCEPT ![t] = given[t]]
        /\ UNCHANGED <<contexts, given, base, closing>>
    BY <1>4, AttachedTyped DEF Attach, AttachTo, client
  <2>2. LibraryInv'
    BY <1>1, <2>1, AttachPreserves
  <2>3. DOMAIN attached' = Threads /\ \A u \in Threads : closing'[u] => attached'[u] # 0
    BY <1>1, <2>1
  <2> QED BY <1>1, <2>1, <2>2, <2>3 DEF ClientInv
<1>5. ASSUME NEW t \in Threads, Open(t) PROVE ClientInv'
  <2>1. /\ attached[t] \in 1..Len(contexts)
        /\ OpenNestedSpan(attached[t], "span", "service")
        /\ UNCHANGED <<attached, given, base, closing>>
    BY <1>5, AttachedTyped DEF Open, OpenNestedSpan, client
  <2>2. LibraryInv'
    BY <1>1, <2>1, ClientAssumption, OpenPreserves
  <2>3. Len(contexts') = Len(contexts)
    <3>1. contexts \in Seq(ContextType(Len(spans), Len(contexts)))
      BY <1>1 DEF LibraryInv, TracingTypeOK
    <3> QED BY <2>1, <3>1 DEF OpenNestedSpan
  <2> QED BY <1>1, <2>1, <2>2, <2>3 DEF ClientInv
<1>6. ASSUME NEW t \in Threads, StartClose(t) PROVE ClientInv'
  <2> DEFINE c == attached[t]
  <2>1. /\ c \in 1..Len(contexts) /\ c # 0 /\ Len(Chain(c)) > base[t] /\ ExportCurrent(c)
        /\ closing' = [closing EXCEPT ![t] = TRUE]
        /\ UNCHANGED <<contexts, attached, given, base>>
    BY <1>6, AttachedTyped DEF StartClose, ExportCurrent
  <2>2. Current(c) # 0
    <3>1. base[t] \in Nat
      BY <1>1
    <3>2. /\ Len(Chain(c)) \in Nat /\ Chain(c) \in Seq(1..Len(spans))
          /\ \A k \in 1..Len(Chain(c)) : Chain(c)[k] \in 1..Len(spans)
      BY <1>1, <2>1, ContextsTyped DEF LibraryInv
    <3>3. Chain(c) # <<>> /\ Chain(c)[Len(Chain(c))] \in 1..Len(spans)
      BY <2>1, <3>1, <3>2
    <3> QED BY <1>1, <3>3 DEF Current
  <2>3. LibraryInv'
    BY <1>1, <2>1, <2>2, ExportPreserves
  <2>4. closing' \in [Threads -> BOOLEAN] /\ \A u \in Threads : closing'[u] => attached'[u] # 0
    BY <1>1, <2>1
  <2> QED BY <1>1, <2>1, <2>3, <2>4 DEF ClientInv
<1>7. ASSUME NEW t \in Threads, EndClose(t) PROVE ClientInv'
  <2>1. /\ attached[t] \in 1..Len(contexts) /\ MoveUp(attached[t])
        /\ closing' = [closing EXCEPT ![t] = FALSE]
        /\ UNCHANGED <<attached, given, base>>
    BY <1>1, <1>7, AttachedTyped DEF EndClose, MoveUp
  <2>2. LibraryInv'
    BY <1>1, <2>1, MoveUpPreserves
  <2>3. Len(contexts') = Len(contexts)
    <3>1. contexts \in Seq(ContextType(Len(spans), Len(contexts)))
      BY <1>1 DEF LibraryInv, TracingTypeOK
    <3> QED BY <2>1, <3>1 DEF MoveUp
  <2>4. closing' \in [Threads -> BOOLEAN] /\ \A u \in Threads : closing'[u] => attached'[u] # 0
    BY <1>1, <2>1
  <2> QED BY <1>1, <2>1, <2>2, <2>3, <2>4 DEF ClientInv
<1>8. ASSUME ExporterStep \/ Tick, UNCHANGED client PROVE ClientInv'
  <2>1. LibraryInv'
    BY <1>1, <1>8, ExporterPreserves, TickPreserves
  <2>2. UNCHANGED <<contexts, attached, given, base, closing>>
    BY <1>8 DEF ExporterStep, Post, DropSpan, OpenFile, WriteFile, FileFails, TaskMoves, Tick,
                client
  <2> QED BY <1>1, <2>1, <2>2 DEF ClientInv
<1>9. ASSUME NEW t \in Threads, Change(t) PROVE ClientInv'
  <2>1. /\ attached[t] \in 1..Len(contexts) /\ Current(attached[t]) # 0 /\ Annotate(attached[t])
        /\ UNCHANGED <<contexts, attached, given, base, closing>>
    BY <1>9, AttachedTyped DEF Change, Annotate, client
  <2>2. LibraryInv'
    BY <1>1, <2>1, AnnotatePreserves
  <2> QED BY <1>1, <2>1, <2>2 DEF ClientInv
<1>10. ASSUME UNCHANGED vars PROVE ClientInv'
  <2>1. UNCHANGED tracing /\ UNCHANGED <<contexts, attached, given, base, closing>>
    BY <1>10 DEF vars, tracing
  <2> QED BY <1>1, <2>1, StutterPreserves DEF ClientInv
<1> QED BY <1>2, <1>3, <1>4, <1>5, <1>6, <1>7, <1>8, <1>9, <1>10 DEF Next, ThreadStep

\* All the theorems below follow from one invariant.
THEOREM LibraryCorrect == Spec => []ClientInv
<1>1. Init => ClientInv
  BY ClientInvInit
<1>2. ClientInv /\ [Next]_vars => ClientInv'
  BY ClientInvStep
<1> QED BY <1>1, <1>2, PTL DEF Spec

\* Every object a context, a span or a task refers to exists, and a thread has the context that
\* was made for it.
THEOREM ObjectsExist == Spec => []TypeOK
<1>1. ClientInv => TypeOK
  BY DEF ClientInv, LibraryInv, TypeOK
<1> QED BY <1>1, LibraryCorrect, PTL

\* No two contexts reach the same span object, so threads that have their own contexts never
\* write to a span of another thread (TraceContext.java:169).
THEOREM NoSharing == Spec => []SpansPrivate
<1>1. ClientInv => SpansPrivate
  BY DEF ClientInv, LibraryInv
<1> QED BY <1>1, LibraryCorrect, PTL

\* closeCurrentSpan always leads to the span that was current when the closed one was opened, or to
\* the copy of it.
THEOREM ClosingGoesUp == Spec => []ChainLinked
<1>1. ClientInv => ChainLinked
  BY DEF ClientInv, LibraryInv
<1> QED BY <1>1, LibraryCorrect, PTL

\* Spans are nested within one trace only.
THEOREM TracesSeparate == Spec => []OneTrace
<1>1. ClientInv => OneTrace
  BY DEF ClientInv, LibraryInv
<1> QED BY <1>1, LibraryCorrect, PTL

\* A step adds span objects and leaves what is fixed in those that exist alone.
LEMMA SpansKept ==
  ASSUME ClientInv, [Next]_vars
  PROVE  \A s \in 1..Len(spans) : spans'[s] = spans[s]
<1>1. TracingTypeOK /\ spans \in Seq(SpanType(Len(spans), Len(contexts))) /\ Len(spans) \in Nat
  BY SpansTyped DEF ClientInv, LibraryInv, TracingTypeOK
<1>2. ASSUME NEW t \in Threads, Open(t) PROVE \A s \in 1..Len(spans) : spans'[s] = spans[s]
  BY <1>1, <1>2 DEF Open, OpenNestedSpan
<1>3. ASSUME NEW t \in Threads, NEW u \in Threads, GiveCopy(t, u)
      PROVE  \A s \in 1..Len(spans) : spans'[s] = spans[s]
  <2> DEFINE c == attached[t]
  <2>1. spans' = spans \o Copies(c) /\ c \in 1..Len(contexts)
    BY <1>3, AttachedTyped DEF GiveCopy, DeepCopy
  <2>2. Copies(c) = [k \in 1..Len(Chain(c)) |-> Copies(c)[k]] /\ Len(Chain(c)) \in Nat
    BY <1>1, <2>1, ContextsTyped DEF Copies
  <2> HIDE DEF c
  <2>3. Copies(c) \in Seq({Copies(c)[k] : k \in 1..Len(Chain(c))})
    BY <2>2
  <2> QED BY <1>1, <2>1, <2>3
<1>4. ASSUME \/ \E t \in Threads : \/ GiveNew(t) \/ Attach(t) \/ Change(t)
                                   \/ StartClose(t) \/ EndClose(t)
             \/ ExporterStep \/ Tick \/ UNCHANGED vars
      PROVE  \A s \in 1..Len(spans) : spans'[s] = spans[s]
  <2>1. UNCHANGED spans
    BY <1>4 DEF GiveNew, Create, Attach, AttachTo, Change, Annotate, StartClose, ExportCurrent,
                EndClose, MoveUp, ExporterStep, Post, DropSpan, OpenFile, WriteFile, FileFails,
                TaskMoves, Tick, vars
  <2> QED BY <2>1
<1> QED BY <1>2, <1>3, <1>4 DEF Next, ThreadStep

(* What is exported *)

\* No thread has two contexts, and no context two threads.
GivenInv ==
  /\ \A t \in Threads : attached[t] # 0 => attached[t] = given[t]
  /\ \A t, u \in Threads : given[t] # 0 /\ given[t] = given[u] => t = u
\* What a thread may close it has opened: those spans are no copies.
OwnInv ==
  \A t \in Threads : given[t] # 0 => \A k \in DOMAIN Chain(given[t]) :
    k > base[t] => spans[Chain(given[t])[k]].id = Chain(given[t])[k]
\* What was exported is no copy and was not exported before; it is in no chain any more, unless it
\* is just being closed.
Leaving(c, p) == p = Len(Chain(c)) /\ \E t \in Threads : closing[t] /\ attached[t] = c
OnceInv ==
  /\ \A k \in DOMAIN tasks : spans[tasks[k].span].id = tasks[k].span
  /\ \A j, k \in DOMAIN tasks : tasks[j].span = tasks[k].span => j = k
  /\ \A k \in DOMAIN tasks : \A c \in DOMAIN contexts : \A p \in DOMAIN Chain(c) :
       Chain(c)[p] = tasks[k].span => Leaving(c, p)
ExportInv == GivenInv /\ OwnInv /\ OnceInv

\* The types these proofs need.
LEMMA ExportTypes ==
  ASSUME ClientInv
  PROVE  /\ TracingTypeOK /\ SpansPrivate
         /\ Len(contexts) \in Nat /\ DOMAIN contexts = 1..Len(contexts)
         /\ Len(spans) \in Nat /\ DOMAIN spans = 1..Len(spans)
         /\ \A c \in 1..Len(contexts) :
              /\ Chain(c) \in Seq(1..Len(spans)) /\ Len(Chain(c)) \in Nat
              /\ DOMAIN Chain(c) = 1..Len(Chain(c))
              /\ \A k \in 1..Len(Chain(c)) : Chain(c)[k] \in 1..Len(spans)
         /\ \A t \in Threads : /\ attached[t] \in 0..Len(contexts)
                               /\ given[t] \in 0..Len(contexts) /\ base[t] \in Nat
         /\ DOMAIN given = Threads /\ DOMAIN base = Threads /\ DOMAIN attached = Threads
         /\ DOMAIN closing = Threads
         /\ tasks \in Seq(TaskType(Len(spans)))
         /\ DOMAIN tasks = 1..Len(tasks) /\ Len(tasks) \in Nat
         /\ \A k \in DOMAIN tasks : tasks[k].span \in 1..Len(spans)
<1>1. TracingTypeOK /\ SpansPrivate
  BY DEF ClientInv, LibraryInv
<1>2. /\ tasks \in Seq(TaskType(Len(spans))) /\ DOMAIN tasks = 1..Len(tasks) /\ Len(tasks) \in Nat
      /\ \A k \in DOMAIN tasks : tasks[k] \in TaskType(Len(spans))
  BY <1>1 DEF TracingTypeOK
<1>3. \A k \in DOMAIN tasks : tasks[k].span \in 1..Len(spans)
  BY <1>2 DEF TaskType
<1>4. /\ given \in [Threads -> 0..Len(contexts)] /\ base \in [Threads -> Nat]
      /\ closing \in [Threads -> BOOLEAN] /\ DOMAIN attached = Threads
  BY DEF ClientInv
<1>5. /\ DOMAIN given = Threads /\ DOMAIN base = Threads /\ DOMAIN closing = Threads
      /\ \A t \in Threads : given[t] \in 0..Len(contexts) /\ base[t] \in Nat
  BY <1>4
<1>6. \A t \in Threads : attached[t] \in 0..Len(contexts)
  BY AttachedTyped
<1> QED BY <1>1, <1>2, <1>3, <1>4, <1>5, <1>6, ContextsTyped, SpansTyped

\* The initial states have no contexts and no tasks.
LEMMA ExportInit ==
  ASSUME Init PROVE ExportInv
<1>1. /\ contexts = <<>> /\ tasks = <<>> /\ \A t \in Threads : attached[t] = 0 /\ given[t] = 0
  BY DEF Init, TracingInit
<1>2. DOMAIN tasks = {}
  BY <1>1
<1> QED BY <1>1, <1>2 DEF ExportInv, GivenInv, OwnInv, OnceInv

\* A new context, empty or a copy, belongs to one thread, which may close none of the spans copied.
LEMMA GivenPreserves ==
  ASSUME ClientInv, ExportInv, NEW t \in Threads,
         given[t] = 0, given' = [given EXCEPT ![t] = Len(contexts) + 1],
         UNCHANGED <<attached, tasks, closing>>,
         \A u \in Threads \ {t} : base'[u] = base[u],
         NEW copy, Len(contexts') = Len(contexts) + 1, DOMAIN contexts' = 1..Len(contexts'),
         \A d \in 1..Len(contexts) : contexts'[d] = contexts[d],
         contexts'[Len(contexts) + 1].chain = copy,
         \A k \in DOMAIN copy : k <= base'[t] /\ copy[k] > Len(spans) /\ k \in Nat,
         base'[t] \in Nat,
         \A k \in DOMAIN copy : copy[k] \in Nat,
         \A s \in 1..Len(spans) : spans'[s] = spans[s]
  PROVE  ExportInv'
<1> PICK n : n = Len(contexts)
  OBVIOUS
<1>1. /\ n \in Nat /\ DOMAIN contexts = 1..n /\ DOMAIN given = Threads /\ Len(spans) \in Nat
      /\ \A u \in Threads : given[u] \in 0..n /\ attached[u] \in 0..n
      /\ \A k \in DOMAIN tasks : tasks[k].span \in 1..Len(spans)
      /\ \A d \in 1..n : /\ DOMAIN Chain(d) = 1..Len(Chain(d))
                         /\ \A k \in 1..Len(Chain(d)) : Chain(d)[k] \in 1..Len(spans)
  BY ExportTypes
<1>2. /\ \A d \in 1..n : Chain(d)' = Chain(d) /\ d \in DOMAIN contexts
      /\ Chain(n + 1)' = copy
  BY <1>1 DEF Chain
<1>3. /\ \A u \in Threads \ {t} : given'[u] = given[u]
      /\ given'[t] = n + 1
  BY <1>1
<1>4. attached[t] = 0
  BY DEF ExportInv, GivenInv
<1>5. GivenInv'
  <2>1. \A u \in Threads : attached'[u] # 0 => attached'[u] = given'[u]
    BY <1>3, <1>4 DEF ExportInv, GivenInv
  <2>2. ASSUME NEW u \in Threads, NEW v \in Threads, given'[u] # 0, given'[u] = given'[v]
        PROVE  u = v
    <3>1. \A w \in Threads : given[w] # n + 1
      BY <1>1
    <3> QED BY <2>2, <3>1, <1>3 DEF ExportInv, GivenInv
  <2> QED BY <2>1, <2>2 DEF GivenInv
<1>6. OwnInv'
  <2> SUFFICES ASSUME NEW u \in Threads, given'[u] # 0,
                      NEW k \in DOMAIN contexts'[given'[u]].chain, k > base'[u]
               PROVE  spans'[contexts'[given'[u]].chain[k]].id = contexts'[given'[u]].chain[k]
    BY DEF OwnInv, Chain
  <2>1. CASE u = t
    <3>1. k \in DOMAIN copy /\ k > base'[t]
      BY <2>1, <1>3
    <3> QED BY <3>1
  <2>2. CASE u # t
    <3>1. given'[u] = given[u] /\ base'[u] = base[u] /\ given[u] \in 1..n
      BY <2>2, <1>1, <1>3
    <3>2. contexts'[given'[u]].chain = Chain(given[u])
      BY <3>1, <1>1 DEF Chain
    <3>3. k \in DOMAIN Chain(given[u]) /\ k > base[u]
      BY <3>1, <3>2
    <3>4. spans[Chain(given[u])[k]].id = Chain(given[u])[k]
      BY <3>1, <3>3, <1>1 DEF ExportInv, OwnInv
    <3>5. spans'[Chain(given[u])[k]] = spans[Chain(given[u])[k]]
      BY <3>1, <3>3, <1>1
    <3> QED BY <3>2, <3>4, <3>5
  <2> QED BY <2>1, <2>2
<1>7. OnceInv'
  <2>1. \A k \in DOMAIN tasks' : spans'[tasks'[k].span].id = tasks'[k].span
    BY <1>1 DEF ExportInv, OnceInv
  <2>2. \A j, k \in DOMAIN tasks' : tasks'[j].span = tasks'[k].span => j = k
    BY DEF ExportInv, OnceInv
  <2>3. ASSUME NEW k \in DOMAIN tasks', NEW d \in DOMAIN contexts', NEW p \in DOMAIN Chain(d)',
               Chain(d)'[p] = tasks'[k].span
        PROVE  Leaving(d, p)'
    <3>1. CASE d \in 1..n
      <4>1. Chain(d)' = Chain(d) /\ d \in DOMAIN contexts /\ p \in DOMAIN Chain(d)
        BY <3>1, <1>2
      <4>2. Leaving(d, p)
        BY <4>1, <2>3 DEF ExportInv, OnceInv
      <4> QED BY <4>1, <4>2 DEF Leaving
    <3>2. CASE d = n + 1
      <4>1. copy[p] = tasks[k].span /\ p \in DOMAIN copy
        BY <3>2, <1>2, <2>3
      <4>2. copy[p] > Len(spans) /\ copy[p] \in 1..Len(spans)
        BY <4>1, <1>1
      <4> QED BY <4>2, <1>1
    <3>3. d \in 1..n \/ d = n + 1
      <4>1. d \in 1..(n + 1)
        BY <2>3 
      <4> QED BY <4>1, <1>1
    <3> QED BY <3>1, <3>2, <3>3
  <2> QED BY <2>1, <2>2, <2>3 DEF OnceInv
<1> QED BY <1>5, <1>6, <1>7 DEF ExportInv

\* Attaching gives a thread the context made for it.
LEMMA AttachExport ==
  ASSUME ClientInv, ExportInv, NEW t \in Threads, Attach(t) PROVE ExportInv'
<1>1. /\ given[t] # 0 /\ attached[t] = 0 /\ attached' = [attached EXCEPT ![t] = given[t]]
      /\ UNCHANGED <<contexts, spans, tasks, given, base, closing>>
  BY DEF Attach, AttachTo, client
<1>2. DOMAIN attached = Threads /\ ~closing[t]
  BY <1>1, ExportTypes DEF ClientInv
<1>3. /\ attached'[t] = given[t] /\ \A u \in Threads \ {t} : attached'[u] = attached[u]
      /\ \A c : Chain(c)' = Chain(c)
  BY <1>1, <1>2 DEF Chain
<1>4. GivenInv'
  BY <1>1, <1>3 DEF ExportInv, GivenInv
<1>5. OwnInv'
  BY <1>1, <1>3 DEF ExportInv, OwnInv, Chain
<1>6. \A c, p : Leaving(c, p) => Leaving(c, p)'
  BY <1>1, <1>2, <1>3 DEF Leaving
<1>7. OnceInv'
  BY <1>1, <1>3, <1>6 DEF ExportInv, OnceInv
<1> QED BY <1>4, <1>5, <1>7 DEF ExportInv

\* A thread opens spans only while it closes none, so nothing exported is below the new span.
LEMMA OpenExport ==
  ASSUME ClientInv, ExportInv, NEW t \in Threads, Open(t) PROVE ExportInv'
<1> PICK c : c = attached[t]
  OBVIOUS
<1> PICK m : m = Len(spans)
  OBVIOUS
<1>1. /\ c # 0 /\ ~closing[t] /\ OpenNestedSpan(c, "span", "service")
      /\ UNCHANGED <<attached, tasks, given, base, closing>>
  BY DEF Open, OpenNestedSpan, client
<1>2. c \in 1..Len(contexts) /\ c = given[t] /\ m \in Nat /\ TracingTypeOK
  BY <1>1, ExportTypes DEF ExportInv, GivenInv
<1>3. /\ Len(contexts') = Len(contexts)
      /\ \A d \in 1..Len(contexts) : d # c => contexts'[d] = contexts[d]
      /\ contexts'[c].chain = Append(Chain(c), m + 1)
  BY <1>1, <1>2, OpenEffect
<1>4. /\ \A s \in 1..m : spans'[s] = spans[s]
      /\ spans'[m + 1].id = m + 1
  <2>1. spans' = Append(spans, NewSpan(c, "span"))
    BY <1>1 DEF OpenNestedSpan
  <2>2. NewSpan(c, "span").id = m + 1
    BY DEF NewSpan
  <2>3. spans \in Seq(SpanType(Len(spans), Len(contexts)))
    BY <1>2 DEF TracingTypeOK
  <2> QED BY <2>1, <2>2, <2>3
<1>5. DOMAIN contexts' = 1..Len(contexts)
  <2>1. contexts' = [contexts EXCEPT ![c].chain = Append(@, Len(spans) + 1)]
    BY <1>1 DEF OpenNestedSpan
  <2> QED BY <2>1, ExportTypes
<1>6. /\ \A d \in 1..Len(contexts) : /\ d \in DOMAIN contexts
                                     /\ Chain(d) \in Seq(1..m) /\ Len(Chain(d)) \in Nat
                                     /\ DOMAIN Chain(d) = 1..Len(Chain(d))
      /\ \A k \in DOMAIN tasks : tasks[k].span \in 1..m
      /\ \A u \in Threads : given[u] \in 0..Len(contexts) /\ base[u] \in Nat
  BY ExportTypes
<1>7. ASSUME NEW d \in 1..Len(contexts), NEW p \in DOMAIN Chain(d)'
      PROVE  \/ p \in DOMAIN Chain(d) /\ Chain(d)'[p] = Chain(d)[p] /\ Chain(d)[p] \in 1..m
             \/ d = c /\ Chain(d)'[p] = m + 1
  <2>1. CASE d = c
    <3> PICK s : s = Chain(c)
      OBVIOUS
    <3>1. s \in Seq(1..m) /\ Chain(c)' = Append(s, m + 1)
      BY <1>2, <1>3, <1>6 DEF Chain
    <3> QED BY <2>1, <3>1, <1>7
  <2>2. CASE d # c
    <3>1. Chain(d)' = Chain(d)
      BY <2>2, <1>3 DEF Chain
    <3> QED BY <3>1, <1>6, <1>7
  <2> QED BY <2>1, <2>2
<1>8. GivenInv'
  BY <1>1 DEF ExportInv, GivenInv
<1>9. OwnInv'
  <2> SUFFICES ASSUME NEW u \in Threads, given[u] # 0, NEW k \in DOMAIN Chain(given[u])', k > base[u]
               PROVE  spans'[contexts'[given[u]].chain[k]].id = contexts'[given[u]].chain[k]
    BY <1>1 DEF OwnInv, Chain
  <2> PICK d : d = given[u]
    OBVIOUS
  <2>1. d \in 1..Len(contexts) /\ k \in DOMAIN Chain(d)'
    BY <1>1, <1>6 DEF Chain
  <2>2. \/ k \in DOMAIN Chain(d) /\ Chain(d)'[k] = Chain(d)[k] /\ Chain(d)[k] \in 1..m
        \/ Chain(d)'[k] = m + 1
    BY <2>1, <1>7
  <2>3. k \in DOMAIN Chain(d) => spans[Chain(d)[k]].id = Chain(d)[k]
    BY DEF ExportInv, OwnInv
  <2>4. spans'[Chain(d)'[k]].id = Chain(d)'[k]
    BY <2>2, <2>3, <1>4
  <2> QED BY <2>4 DEF Chain
<1>10. OnceInv'
  <2>1. \A k \in DOMAIN tasks' : spans'[tasks'[k].span].id = tasks'[k].span
    BY <1>1, <1>4, <1>6 DEF ExportInv, OnceInv
  <2>2. \A j, k \in DOMAIN tasks' : tasks'[j].span = tasks'[k].span => j = k
    BY <1>1 DEF ExportInv, OnceInv
  <2>3. ASSUME NEW k \in DOMAIN tasks', NEW d \in DOMAIN contexts', NEW p \in DOMAIN Chain(d)',
               Chain(d)'[p] = tasks'[k].span
        PROVE  Leaving(d, p)'
    <3>1. tasks[k].span \in 1..m /\ d \in 1..Len(contexts)
      BY <2>3, <1>1, <1>5, <1>6
    <3>2. p \in DOMAIN Chain(d) /\ Chain(d)[p] = tasks[k].span
      BY <3>1, <2>3, <1>1, <1>2, <1>7
    <3>3. Leaving(d, p)
      BY <3>1, <3>2, <1>1, <1>6 DEF ExportInv, OnceInv
    <3>4. d # c
      <4>1. ASSUME NEW u \in Threads, closing[u], attached[u] = c PROVE FALSE
        BY <4>1, <1>1, <1>2 DEF ExportInv, GivenInv
      <4> QED BY <3>3, <4>1 DEF Leaving
    <3>5. Chain(d)' = Chain(d)
      BY <3>1, <3>4, <1>3 DEF Chain
    <3> QED BY <3>3, <3>5, <1>1 DEF Leaving
  <2> QED BY <2>1, <2>2, <2>3 DEF OnceInv
<1> QED BY <1>8, <1>9, <1>10 DEF ExportInv

\* The span a thread closes is its own and is at the end of its chain.
LEMMA StartCloseExport ==
  ASSUME ClientInv, ExportInv, NEW t \in Threads, StartClose(t) PROVE ExportInv'
<1> PICK c : c = attached[t]
  OBVIOUS
<1> PICK l : l = Len(Chain(c))
  OBVIOUS
<1> PICK s : s = Chain(c)[l]
  OBVIOUS
<1>1. /\ c # 0 /\ ~closing[t] /\ l > base[t]
      /\ tasks' = Append(tasks, [span |-> Current(c), state |-> "submitted"])
      /\ closing' = [closing EXCEPT ![t] = TRUE]
      /\ UNCHANGED <<contexts, spans, attached, given, base>>
  BY DEF StartClose, ExportCurrent
<1>2. /\ c \in 1..Len(contexts) /\ c \in DOMAIN contexts /\ c = given[t]
      /\ base[t] \in Nat /\ l \in Nat /\ DOMAIN Chain(c) = 1..l
      /\ Chain(c) \in Seq(1..Len(spans)) /\ DOMAIN closing = Threads
  BY <1>1, ExportTypes DEF ExportInv, GivenInv
<1>3. l \in DOMAIN Chain(c) /\ s = Current(c)
  <2>1. l >= 1 /\ l \in 1..l
    BY <1>1, <1>2
  <2>2. Chain(c) # <<>>
    BY <2>1
  <2> QED BY <2>1, <2>2, <1>2 DEF Current
<1>4. spans[s].id = s
  BY <1>1, <1>2, <1>3 DEF ExportInv, OwnInv
<1>5. /\ \A k \in DOMAIN tasks' : \/ k \in DOMAIN tasks /\ tasks'[k].span = tasks[k].span
                                  \/ k = Len(tasks) + 1 /\ tasks'[k].span = s
      /\ Len(tasks) + 1 \notin DOMAIN tasks
  <2> PICK e : e = [span |-> s, state |-> "submitted"]
    OBVIOUS
  <2>1. tasks' = Append(tasks, e) /\ e.span = s
    BY <1>1, <1>3
  <2>2. tasks \in Seq(TaskType(Len(spans))) /\ DOMAIN tasks = 1..Len(tasks) /\ Len(tasks) \in Nat
    BY ExportTypes
  <2>3. /\ \A k \in DOMAIN tasks' : k \in DOMAIN tasks \/ k = Len(tasks) + 1
        /\ \A k \in DOMAIN tasks : tasks'[k] = tasks[k]
        /\ tasks'[Len(tasks) + 1] = e
        /\ Len(tasks) + 1 \notin DOMAIN tasks
    BY ONLY <2>1, <2>2
  <2>4. tasks'[Len(tasks) + 1].span = s
    BY ONLY <2>1, <2>3
  <2>5. \A k \in DOMAIN tasks : tasks'[k].span = tasks[k].span
    BY ONLY <2>3
  <2> QED BY ONLY <2>3, <2>4, <2>5, Zenon
<1>6. \A k \in DOMAIN tasks : tasks[k].span # s
  <2> SUFFICES ASSUME NEW k \in DOMAIN tasks, tasks[k].span = s PROVE FALSE
    OBVIOUS
  <2>1. Leaving(c, l)
    BY <1>2, <1>3 DEF ExportInv, OnceInv
  <2>2. PICK u \in Threads : closing[u] /\ attached[u] = c
    BY <2>1 DEF Leaving
  <2> QED BY <2>2, <1>1, <1>2 DEF ExportInv, GivenInv
<1>7. /\ \A d : Chain(d)' = Chain(d)
      /\ \A d, p : Leaving(d, p) => Leaving(d, p)'
      /\ Leaving(c, l)'
  BY <1>1, <1>2 DEF Leaving, Chain
<1>8. GivenInv'
  BY <1>1 DEF ExportInv, GivenInv
<1>9. OwnInv'
  BY <1>1 DEF ExportInv, OwnInv, Chain
<1>10. OnceInv'
  <2>1. \A k \in DOMAIN tasks' : spans'[tasks'[k].span].id = tasks'[k].span
    BY <1>1, <1>4, <1>5 DEF ExportInv, OnceInv
  <2>2. ASSUME NEW j \in DOMAIN tasks', NEW k \in DOMAIN tasks', tasks'[j].span = tasks'[k].span
        PROVE  j = k
    BY <2>2, <1>5, <1>6 DEF ExportInv, OnceInv
  <2>3. ASSUME NEW k \in DOMAIN tasks', NEW d \in DOMAIN contexts', NEW p \in DOMAIN Chain(d)',
               Chain(d)'[p] = tasks'[k].span
        PROVE  Leaving(d, p)'
    <3>1. d \in DOMAIN contexts /\ p \in DOMAIN Chain(d) /\ Chain(d)[p] = tasks'[k].span
      BY <2>3, <1>1, <1>7
    <3>2. CASE k \in DOMAIN tasks /\ tasks'[k].span = tasks[k].span
      BY <3>1, <3>2, <1>7 DEF ExportInv, OnceInv
    <3>3. CASE tasks'[k].span = s
      <4>1. d = c /\ p = l
        BY <3>1, <3>3, <1>2, <1>3, ExportTypes DEF SpansPrivate
      <4> QED BY <4>1, <1>7
    <3> QED BY <3>2, <3>3, <1>5
  <2> QED BY <2>1, <2>2, <2>3 DEF OnceInv
<1> QED BY <1>8, <1>9, <1>10 DEF ExportInv

\* Moving up takes the exported span from the chain it was the last of.
LEMMA EndCloseExport ==
  ASSUME ClientInv, ExportInv, NEW t \in Threads, EndClose(t) PROVE ExportInv'
<1> PICK c : c = attached[t]
  OBVIOUS
<1>1. /\ closing[t] /\ MoveUp(c) /\ closing' = [closing EXCEPT ![t] = FALSE]
      /\ contexts' = [contexts EXCEPT ![c].chain = SubSeq(@, 1, Len(@) - 1)]
      /\ UNCHANGED <<spans, attached, tasks, given, base>>
  BY DEF EndClose, MoveUp
<1>2. /\ c \in 1..Len(contexts) /\ TracingTypeOK /\ DOMAIN closing = Threads
      /\ \A d \in 1..Len(contexts) : /\ d \in DOMAIN contexts /\ Len(Chain(d)) \in Nat
                                     /\ Chain(d) \in Seq(1..Len(spans))
                                     /\ DOMAIN Chain(d) = 1..Len(Chain(d))
      /\ DOMAIN contexts' = 1..Len(contexts)
  BY <1>1, AttachedTyped, ExportTypes DEF ClientInv
<1>3. \A d \in 1..Len(contexts) : d # c => Chain(d)' = Chain(d)
  BY <1>1, <1>2, MoveUpEffect DEF Chain
<1>4. \A p \in DOMAIN Chain(c)' : /\ p \in DOMAIN Chain(c) /\ p # Len(Chain(c))
                                  /\ Chain(c)'[p] = Chain(c)[p]
  <2> PICK s : s = Chain(c)
    OBVIOUS
  <2>1. s \in Seq(1..Len(spans)) /\ Chain(c)' = SubSeq(s, 1, Len(s) - 1)
    BY <1>1, <1>2, MoveUpEffect DEF Chain
  <2>2. \A p \in DOMAIN SubSeq(s, 1, Len(s) - 1) :
           p \in DOMAIN s /\ p # Len(s) /\ SubSeq(s, 1, Len(s) - 1)[p] = s[p]
    BY ONLY <2>1
  <2> QED BY <2>1, <2>2
<1>5. \A d \in 1..Len(contexts) : \A p \in DOMAIN Chain(d)' :
        p \in DOMAIN Chain(d) /\ Chain(d)'[p] = Chain(d)[p]
  BY <1>3, <1>4
<1>6. GivenInv'
  BY <1>1 DEF ExportInv, GivenInv
<1>7. OwnInv'
  <2> SUFFICES ASSUME NEW u \in Threads, given[u] # 0, NEW k \in DOMAIN Chain(given[u])', k > base[u]
               PROVE  spans[contexts'[given[u]].chain[k]].id = contexts'[given[u]].chain[k]
    BY <1>1 DEF OwnInv, Chain
  <2> PICK d : d = given[u]
    OBVIOUS
  <2>1. d \in 1..Len(contexts) /\ k \in DOMAIN Chain(d)'
    BY <1>1, ExportTypes DEF Chain
  <2>2. k \in DOMAIN Chain(d) /\ Chain(d)'[k] = Chain(d)[k]
    BY <2>1, <1>5
  <2>3. spans[Chain(d)[k]].id = Chain(d)[k]
    BY <2>2 DEF ExportInv, OwnInv
  <2> QED BY <2>2, <2>3 DEF Chain
<1>8. OnceInv'
  <2>1. /\ \A k \in DOMAIN tasks' : spans'[tasks'[k].span].id = tasks'[k].span
        /\ \A j, k \in DOMAIN tasks' : tasks'[j].span = tasks'[k].span => j = k
    BY <1>1 DEF ExportInv, OnceInv
  <2>2. ASSUME NEW k \in DOMAIN tasks', NEW d \in DOMAIN contexts', NEW p \in DOMAIN Chain(d)',
               Chain(d)'[p] = tasks'[k].span
        PROVE  Leaving(d, p)'
    <3>1. d \in 1..Len(contexts) /\ d \in DOMAIN contexts
      BY <2>2, <1>2
    <3>2. p \in DOMAIN Chain(d) /\ Chain(d)[p] = tasks[k].span /\ k \in DOMAIN tasks
      BY <3>1, <2>2, <1>1, <1>5
    <3>3. Leaving(d, p)
      BY <3>1, <3>2 DEF ExportInv, OnceInv
    <3>4. d # c
      BY <3>3, <1>4, <2>2 DEF Leaving
    <3>5. Chain(d)' = Chain(d)
      BY <3>1, <3>4, <1>3
    <3> QED BY <3>3, <3>4, <3>5, <1>1, <1>2 DEF Leaving
  <2> QED BY <2>1, <2>2 DEF OnceInv
<1> QED BY <1>6, <1>7, <1>8 DEF ExportInv

\* Every step preserves the invariant.
LEMMA ExportStep ==
  ASSUME ClientInv, ExportInv, [Next]_vars PROVE ExportInv'
<1>1. ASSUME NEW t \in Threads, GiveNew(t) PROVE ExportInv'
  <2>1. /\ Create /\ given[t] = 0 /\ given' = [given EXCEPT ![t] = Len(contexts) + 1]
        /\ contexts' = Append(contexts, [trace |-> NewContext, chain |-> <<>>])
        /\ UNCHANGED <<spans, attached, tasks, base, closing>>
    BY <1>1 DEF GiveNew, Create, NewContext
  <2>2. /\ Len(contexts') = Len(contexts) + 1
        /\ \A d \in 1..Len(contexts) : contexts'[d] = contexts[d]
        /\ contexts'[Len(contexts) + 1].chain = <<>>
    BY <2>1, ExportTypes, CreateEffect
  <2>3. ClientInv' /\ DOMAIN contexts' = 1..Len(contexts') /\ base'[t] \in Nat
    <3>1. ClientInv'
      BY ClientInvStep
    <3>2. TracingTypeOK' /\ base' \in [Threads -> Nat]
      BY <3>1 DEF ClientInv, LibraryInv
    <3> QED BY <3>1, <3>2 DEF TracingTypeOK
  <2>4. DOMAIN (<<>>) = {}
    OBVIOUS
  <2> QED BY <2>1, <2>2, <2>3, <2>4, GivenPreserves
<1>2. ASSUME NEW t \in Threads, NEW u \in Threads, GiveCopy(t, u) PROVE ExportInv'
  <2> PICK c : c = attached[t]
    OBVIOUS
  <2> PICK copy : copy = [k \in 1..Len(Chain(c)) |-> Len(spans) + k]
    OBVIOUS
  <2>1. /\ c # 0 /\ DeepCopy(c) /\ given[u] = 0
        /\ given' = [given EXCEPT ![u] = Len(contexts) + 1]
        /\ base' = [base EXCEPT ![u] = Len(Chain(c))]
        /\ UNCHANGED <<attached, tasks, closing>>
    BY <1>2 DEF GiveCopy, DeepCopy, NewContext
  <2>2. c \in 1..Len(contexts) /\ Len(Chain(c)) \in Nat /\ Len(spans) \in Nat /\ TracingTypeOK
    BY <2>1, ExportTypes
  <2>3. /\ Len(contexts') = Len(contexts) + 1
        /\ \A d \in 1..Len(contexts) : contexts'[d] = contexts[d]
        /\ contexts'[Len(contexts) + 1].chain = copy
    BY <2>1, <2>2, DeepCopyEffect
  <2>4. base'[u] = Len(Chain(c)) /\ \A w \in Threads \ {u} : base'[w] = base[w]
    BY <2>1, ExportTypes
  <2>5. \A k \in DOMAIN copy : k <= base'[u] /\ copy[k] > Len(spans) /\ k \in Nat /\ copy[k] \in Nat
    BY <2>2, <2>4
  <2>6. ClientInv' /\ DOMAIN contexts' = 1..Len(contexts') /\ base'[u] \in Nat
    <3>1. ClientInv'
      BY ClientInvStep
    <3>2. TracingTypeOK'
      BY <3>1 DEF ClientInv, LibraryInv
    <3> QED BY <3>1, <3>2, <2>2, <2>4 DEF TracingTypeOK
  <2>7. \A s \in 1..Len(spans) : spans'[s] = spans[s]
    BY SpansKept
  <2> QED BY <2>1, <2>3, <2>4, <2>5, <2>6, <2>7, GivenPreserves
<1>3. ASSUME ExporterStep, UNCHANGED client PROVE ExportInv'
  <2>1. /\ UNCHANGED <<contexts, spans, attached, given, base, closing>>
        /\ DOMAIN tasks' = DOMAIN tasks /\ \A k \in DOMAIN tasks : tasks'[k].span = tasks[k].span
    BY <1>3, ExportTypes, ExporterEffect DEF client
  <2>2. GivenInv' /\ OwnInv'
    BY <2>1 DEF ExportInv, GivenInv, OwnInv, Chain
  <2>3. OnceInv'
    BY <2>1 DEF ExportInv, OnceInv, Leaving, Chain
  <2> QED BY <2>2, <2>3 DEF ExportInv
<1>4. ASSUME \/ Tick /\ UNCHANGED client
             \/ \E t \in Threads : Change(t)
             \/ UNCHANGED vars
      PROVE  ExportInv'
  <2>1. UNCHANGED <<contexts, spans, attached, tasks, given, base, closing>>
    BY <1>4 DEF Tick, Change, Annotate, client, vars
  <2> QED BY <2>1 DEF ExportInv, GivenInv, OwnInv, OnceInv, Leaving, Chain
<1> QED BY <1>1, <1>2, <1>3, <1>4, AttachExport, OpenExport, StartCloseExport, EndCloseExport
        DEF Next, ThreadStep

\* No span reaches an exporter twice, although a span and its copies share the id: a thread closes
\* only what it opened itself, and once.
THEOREM ExportedAtMostOnce == Spec => []ExportedOnce
<1>1. Init => ExportInv
  BY ExportInit
<1>2. ClientInv /\ ExportInv /\ [Next]_vars => ExportInv'
  BY ExportStep
<1>3. ExportInv => ExportedOnce
  BY DEF ExportInv, OnceInv, ExportedOnce
<1> QED BY <1>1, <1>2, <1>3, LibraryCorrect, PTL DEF Spec

(* What an exporter's thread reads *)

\* A thread that closes nothing has no exported span at the end of its chain.
LEMMA CurrentNotExported ==
  ASSUME ClientInv, ExportInv, NEW t \in Threads,
         attached[t] # 0, ~closing[t], Current(attached[t]) # 0
  PROVE  /\ Current(attached[t]) \in 1..Len(spans)
         /\ \A k \in DOMAIN tasks : tasks[k].span # Current(attached[t])
<1> PICK c : c = attached[t]
  OBVIOUS
<1>1. /\ c \in DOMAIN contexts /\ Chain(c) \in Seq(1..Len(spans)) /\ Len(Chain(c)) \in Nat
      /\ DOMAIN Chain(c) = 1..Len(Chain(c))
      /\ \A k \in 1..Len(Chain(c)) : Chain(c)[k] \in 1..Len(spans)
  BY ExportTypes
<1>2. Len(Chain(c)) \in DOMAIN Chain(c) /\ Current(c) = Chain(c)[Len(Chain(c))]
  <2>1. Chain(c) # <<>> /\ Current(c) = Chain(c)[Len(Chain(c))]
    BY DEF Current
  <2> QED BY <2>1, <1>1
<1>3. ASSUME NEW k \in DOMAIN tasks, tasks[k].span = Current(c) PROVE FALSE
  <2>1. Leaving(c, Len(Chain(c)))
    BY <1>1, <1>2, <1>3 DEF ExportInv, OnceInv
  <2>2. PICK u \in Threads : closing[u] /\ attached[u] = c
    BY <2>1 DEF Leaving
  <2>3. given[u] = c /\ given[t] = c /\ c # 0
    BY <2>2 DEF ExportInv, GivenInv
  <2> QED BY <2>2, <2>3 DEF ExportInv, GivenInv
<1> QED BY <1>1, <1>2, <1>3

\* No step changes the details of a span that was handed to an exporter.
LEMMA ExportedDetailsKept ==
  ASSUME ClientInv, ExportInv, [Next]_vars
  PROVE  \A k \in DOMAIN tasks : details'[tasks[k].span] = details[tasks[k].span]
<1>1. /\ TracingTypeOK /\ \A k \in DOMAIN tasks : tasks[k].span \in 1..Len(spans)
      /\ details \in Seq(DetailsType) /\ Len(details) = Len(spans)
  BY ExportTypes, DetailsTyped
<1>2. ASSUME NEW t \in Threads, Open(t)
      PROVE  \A k \in DOMAIN tasks : details'[tasks[k].span] = details[tasks[k].span]
  <2>1. details' = Append(details, NewDetails("service"))
    BY <1>2 DEF Open, OpenNestedSpan
  <2>2. NewDetails("service") \in DetailsType
    BY ClientAssumption DEF NewDetails, DetailsType, Notes
  <2>3. \A s \in 1..Len(spans) : details'[s] = details[s]
    BY <1>1, <2>1, <2>2, AppendFacts
  <2> QED BY <1>1, <2>3
<1>3. ASSUME NEW t \in Threads, NEW u \in Threads, GiveCopy(t, u)
      PROVE  \A k \in DOMAIN tasks : details'[tasks[k].span] = details[tasks[k].span]
  <2>1. attached[t] \in 1..Len(contexts) /\ details' = details \o DetailCopies(attached[t])
    BY <1>3, AttachedTyped DEF GiveCopy, DeepCopy
  <2>2. \A s \in 1..Len(spans) : details'[s] = details[s]
    BY <1>1, <2>1, DetailsCopied, DetailsAppended
  <2> QED BY <1>1, <2>2
<1>4. ASSUME NEW t \in Threads, NEW note \in Notes,
             attached[t] # 0, ~closing[t], Current(attached[t]) # 0,
             details' = [details EXCEPT ![Current(attached[t])].notes = @ \cup {note}]
      PROVE  \A k \in DOMAIN tasks : details'[tasks[k].span] = details[tasks[k].span]
  <2>1. /\ Current(attached[t]) \in 1..Len(spans)
        /\ \A k \in DOMAIN tasks : tasks[k].span # Current(attached[t])
    BY <1>4, CurrentNotExported
  <2>2. \A s \in 1..Len(spans) : s # Current(attached[t]) => details'[s] = details[s]
    BY <1>1, <1>4, <2>1, NotesAdded
  <2> QED BY <1>1, <2>1, <2>2
<1>5. ASSUME NEW t \in Threads, Change(t)
      PROVE  \A k \in DOMAIN tasks : details'[tasks[k].span] = details[tasks[k].span]
  BY <1>4, <1>5 DEF Change, Annotate, Notes
<1>6. ASSUME NEW t \in Threads, StartClose(t)
      PROVE  \A k \in DOMAIN tasks : details'[tasks[k].span] = details[tasks[k].span]
  <2> PICK c : c = attached[t]
    OBVIOUS
  <2>1. /\ c # 0 /\ ~closing[t] /\ Len(Chain(c)) > base[t]
        /\ details' = [details EXCEPT ![Current(c)].notes = @ \cup {"closing"}]
    BY <1>6 DEF StartClose, ExportCurrent
  <2>2. /\ c \in 1..Len(contexts) /\ base[t] \in Nat /\ Len(Chain(c)) \in Nat
        /\ \A k \in 1..Len(Chain(c)) : Chain(c)[k] \in 1..Len(spans)
    BY <2>1, ExportTypes
  <2>3. Len(Chain(c)) \in 1..Len(Chain(c)) /\ Chain(c) # <<>>
    BY <2>1, <2>2
  <2>4. Current(c) # 0
    BY <2>2, <2>3, ExportTypes DEF Current
  <2> QED BY <1>4, <2>1, <2>4 DEF Notes
<1>7. ASSUME \/ \E t \in Threads : GiveNew(t) \/ Attach(t) \/ EndClose(t)
             \/ ExporterStep \/ Tick \/ UNCHANGED vars
      PROVE  \A k \in DOMAIN tasks : details'[tasks[k].span] = details[tasks[k].span]
  <2>1. UNCHANGED details
    BY <1>7 DEF GiveNew, Create, Attach, AttachTo, EndClose, MoveUp, ExporterStep, Post, DropSpan,
                OpenFile, WriteFile, FileFails, TaskMoves, Tick, vars
  <2> QED BY <2>1
<1> QED BY <1>2, <1>3, <1>5, <1>6, <1>7 DEF Next, ThreadStep

\* The object that an exporter's thread reads is final (SpanExporter.java:47): although threads go on
\* calling setters on spans and closing them, no thread changes a span that has been handed over,
\* because it is in no chain any more, or in one that its closer alone uses and just moves up.
THEOREM ExportersSafe == Spec => ClosedFrozen
<1> DEFINE Frozen == \A k \in DOMAIN tasks :
                       LET s == tasks[k].span IN spans'[s] = spans[s] /\ details'[s] = details[s]
<1>1. ClientInv /\ ExportInv /\ [Next]_vars => [Frozen]_tracing
  <2> SUFFICES ASSUME ClientInv, ExportInv, [Next]_vars PROVE Frozen
    OBVIOUS
  <2>1. \A k \in DOMAIN tasks : tasks[k].span \in 1..Len(spans)
    BY ExportTypes
  <2> QED BY <2>1, SpansKept, ExportedDetailsKept
<1> HIDE DEF Frozen
<1>2. Init => ExportInv
  BY ExportInit
<1>3. ClientInv /\ ExportInv /\ [Next]_vars => ExportInv'
  BY ExportStep
<1>4. Spec => [][Frozen]_tracing
  BY <1>1, <1>2, <1>3, LibraryCorrect, PTL DEF Spec
<1> QED BY <1>4 DEF ClosedFrozen, Frozen
===============================================================================
