----------------------------- MODULE TracingClient ----------------------------
(* Any program instrumented with advices that use trace contexts as documented *)
(* (TraceContext.java:169, Span.java:81): a context is deep-copied before      *)
(* another thread gets it, and a thread does not close the spans above the one *)
(* its context started with.                                                   *)
EXTENDS Tracing

CONSTANTS
  Threads,
  MaxContexts,  \* bound on the number of contexts
  MaxTraces,    \* bound on the number of contexts when one is made that is no copy
  MaxSpans,     \* bound on the number of span objects
  MaxChanged    \* bound on the number of span objects changed between opening and closing

ASSUME ClientAssumption ==
  /\ MaxContexts \in Nat /\ MaxTraces \in Nat /\ MaxSpans \in Nat /\ MaxChanged \in Nat
  /\ "span" \in SpanNames /\ "service" \in Services

VARIABLES
  given,        \* thread -> the context made for it, not yet attached to it or attached
  base,         \* thread -> the number of spans its context started with
  closing       \* thread -> whether it is inside closeCurrentSpan
client == <<given, base, closing>>
vars == <<contexts, spans, details, attached, tasks, posted, files, clock, exited, given, base, closing>>

Init ==
  /\ TracingInit(Threads)
  /\ given = [t \in Threads |-> 0]
  /\ base = [t \in Threads |-> 0]
  /\ closing = [t \in Threads |-> FALSE]

\* Some thread makes a context for thread t.
GiveNew(t) ==
  /\ given[t] = 0 /\ Len(contexts) < MaxTraces
  /\ Create
  /\ given' = [given EXCEPT ![t] = NewContext]
  /\ UNCHANGED <<base, closing>>

\* Thread t passes its trace on to thread u.
GiveCopy(t, u) ==
  LET c == attached[t] IN
  /\ c # 0 /\ ~closing[t] /\ given[u] = 0
  /\ Len(contexts) < MaxContexts /\ Len(spans) + Len(Chain(c)) <= MaxSpans
  /\ DeepCopy(c)
  /\ given' = [given EXCEPT ![u] = NewContext]
  /\ base' = [base EXCEPT ![u] = Len(Chain(c))]
  /\ UNCHANGED closing

Attach(t) ==
  /\ given[t] # 0 /\ attached[t] = 0
  /\ AttachTo(t, given[t])
  /\ UNCHANGED client

Open(t) ==
  /\ attached[t] # 0 /\ ~closing[t] /\ Len(spans) < MaxSpans
  /\ OpenNestedSpan(attached[t], "span", "service")
  /\ UNCHANGED client

\* A setter or add() of a Span, on the thread's current span, which may be a copy.
Change(t) ==
  /\ attached[t] # 0 /\ ~closing[t] /\ Current(attached[t]) # 0
  /\ Cardinality({s \in DOMAIN details : "added" \in details[s].notes}) < MaxChanged
  /\ Annotate(attached[t])
  /\ UNCHANGED client

StartClose(t) ==
  /\ attached[t] # 0 /\ ~closing[t]
  /\ Len(Chain(attached[t])) > base[t]
  /\ ExportCurrent(attached[t])
  /\ closing' = [closing EXCEPT ![t] = TRUE]
  /\ UNCHANGED <<given, base>>

EndClose(t) ==
  /\ closing[t]
  /\ MoveUp(attached[t])
  /\ closing' = [closing EXCEPT ![t] = FALSE]
  /\ UNCHANGED <<given, base>>

ThreadStep(t) ==
  \/ GiveNew(t) \/ Attach(t) \/ Open(t) \/ Change(t) \/ StartClose(t) \/ EndClose(t)
  \/ \E u \in Threads : GiveCopy(t, u)

\* The end of the program would only cut a behaviour short.
Next == \/ \E t \in Threads : ThreadStep(t)
        \/ (ExporterStep \/ Tick) /\ UNCHANGED client
Spec == Init /\ [][Next]_vars

\* Objects exist; a thread's context is the one made for it, and it closes only spans it has.
TypeOK ==
  /\ TracingTypeOK
  /\ DOMAIN attached = Threads
  /\ given \in [Threads -> 0..Len(contexts)]
  /\ base \in [Threads -> Nat]
  /\ closing \in [Threads -> BOOLEAN]
===============================================================================
