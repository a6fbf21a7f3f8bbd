------------------------------- MODULE Tracing --------------------------------
(* Trace contexts, spans and span exporters: the library that instrumented     *)
(* code calls.  Contexts and spans are objects; an object is its index in      *)
(* `contexts' or `spans', 0 is null, and two places that hold the same index   *)
(* share the object.  A thread performs the operations below one at a time.    *)
EXTENDS Integers, Sequences, FiniteSets

CONSTANTS
  Exporter,     \* the exporter in use: "directZipkin", or "disk" for JSONDiskExporter, which
                \* SpanExporter.fromString constructs only when its full class name is given
  ZipkinUp,     \* the Zipkin server accepts every connection
  MaxFailures,  \* bound on the number of span files that do not open or are not written
  SpanNames,    \* the names given to spans
  Services,     \* the service names, the default one included
  MaxTime       \* bound on the clock, in milliseconds

ASSUME TracingAssumption ==
  /\ Exporter \in {"directZipkin", "disk"}
  /\ ZipkinUp \in BOOLEAN
  /\ "Unknown" \in Services
  /\ MaxFailures \in Nat /\ MaxTime \in Nat

VARIABLES
  contexts,     \* TraceContext objects: trace id and chain of open spans
  spans,        \* Span objects: what is fixed when one is constructed
  details,      \* the rest of each Span object: what setters and closing change
  attached,     \* holder (a thread, or an object with ____traceContext) -> context
  tasks,        \* span-saving tasks in the order they were submitted to the executor
  posted,       \* what the Zipkin server has received, with the task that sent it
  files,        \* timestamp -> the tasks whose bytes are in the file of that name
  clock,        \* System.currentTimeMillis()
  exited        \* System.exit has been called
tracing == <<contexts, spans, details, attached, tasks, posted, files, clock, exited>>

TracingInit(holders) ==
  /\ contexts = <<>> /\ spans = <<>> /\ details = <<>> /\ tasks = <<>>
  /\ attached = [h \in holders |-> 0]
  /\ posted = {}
  /\ files = [t \in 0..MaxTime |-> {}]
  /\ clock = 0
  /\ exited = FALSE

(* TraceContext *)

\* A context's chain is its current span and the ancestors of that, the current span last.
NewContext == Len(contexts) + 1       \* the object the next `new TraceContext' returns
Chain(c) == contexts[c].chain
Current(c) == IF Chain(c) = <<>> THEN 0 ELSE Chain(c)[Len(Chain(c))]

\* A type 1 UUID is unique: the trace is named after its first context.
Create ==
  /\ contexts' = Append(contexts, [trace |-> NewContext, chain |-> <<>>])
  /\ UNCHANGED <<spans, details, attached, tasks, posted, files, clock, exited>>

AttachTo(h, c) ==
  /\ attached' = [attached EXCEPT ![h] = c]
  /\ UNCHANGED <<contexts, spans, details, tasks, posted, files, clock, exited>>

\* openNestedSpan(name).setServiceName(service).  Span ids are random; a span is named after the
\* object it was opened as, a copy keeps the id.
NewSpan(c, name) ==
  [id |-> Len(spans) + 1, trace |-> contexts[c].trace, parent |-> Current(c),
   name |-> name, timestamp |-> clock]
NewDetails(service) == [service |-> service, notes |-> {"opening"}]
OpenNestedSpan(c, name, service) ==
  /\ spans' = Append(spans, NewSpan(c, name))
  /\ details' = Append(details, NewDetails(service))
  /\ contexts' = [contexts EXCEPT ![c].chain = Append(@, Len(spans) + 1)]
  /\ UNCHANGED <<attached, tasks, posted, files, clock, exited>>

\* new Span(span): the current span and all its ancestors are copied, each copy linked to the copy
\* of its parent.  The service name is not among the copied fields.
\* Mutant: the copy keeps the reference to the original's parent.
CopyKeepsParent(s, parent) == spans[s]
CopyOfSpan(s, parent) == [spans[s] EXCEPT !.parent = parent]
CopyOfDetails(s) == [details[s] EXCEPT !.service = "Unknown"]
Copies(c) == [k \in 1..Len(Chain(c)) |->
                CopyOfSpan(Chain(c)[k], IF k = 1 THEN 0 ELSE Len(spans) + k - 1)]
DetailCopies(c) == [k \in 1..Len(Chain(c)) |-> CopyOfDetails(Chain(c)[k])]
\* Mutants: the copy has the original's span objects; has a trace of its own; has no spans.
CopyShares(c) ==
  /\ contexts' = Append(contexts, contexts[c])
  /\ UNCHANGED <<spans, details, attached, tasks, posted, files, clock, exited>>
CopyNewTrace(c) ==
  /\ spans' = spans \o Copies(c)
  /\ details' = details \o DetailCopies(c)
  /\ contexts' = Append(contexts, [trace |-> NewContext,
                                  chain |-> [k \in 1..Len(Chain(c)) |-> Len(spans) + k]])
  /\ UNCHANGED <<attached, tasks, posted, files, clock, exited>>
CopyEmpty(c) ==
  /\ contexts' = Append(contexts, [trace |-> contexts[c].trace, chain |-> <<>>])
  /\ UNCHANGED <<spans, details, attached, tasks, posted, files, clock, exited>>
DeepCopy(c) ==
  /\ spans' = spans \o Copies(c)
  /\ details' = details \o DetailCopies(c)
  /\ contexts' = Append(contexts, [trace |-> contexts[c].trace,
                                  chain |-> [k \in 1..Len(Chain(c)) |-> Len(spans) + k]])
  /\ UNCHANGED <<attached, tasks, posted, files, clock, exited>>

\* The setters and add() of Span, called on the current span.
Annotate(c) ==
  /\ details' = [details EXCEPT ![Current(c)].notes = @ \cup {"added"}]
  /\ UNCHANGED <<contexts, spans, attached, tasks, posted, files, clock, exited>>

\* closeCurrentSpan: the stack trace, the end annotation and the duration ("closing") are stored in
\* the span and the span goes to the exporter, then the context moves up.  The executor's thread may
\* run in between.
\* Mutant: the parent is exported, as if the context had moved up before.
ExportParent(c) ==
  /\ tasks' = Append(tasks, [span |-> spans[Current(c)].parent, state |-> "submitted"])
  /\ UNCHANGED <<contexts, spans, details, attached, posted, files, clock, exited>>
ExportCurrent(c) ==
  /\ details' = [details EXCEPT ![Current(c)].notes = @ \cup {"closing"}]
  /\ tasks' = Append(tasks, [span |-> Current(c), state |-> "submitted"])
  /\ UNCHANGED <<contexts, spans, attached, posted, files, clock, exited>>

\* Mutant: the closed span stays current.
StayDown(c) == c \in DOMAIN contexts /\ UNCHANGED tracing
MoveUp(c) ==
  /\ contexts' = [contexts EXCEPT ![c].chain = SubSeq(@, 1, Len(@) - 1)]
  /\ UNCHANGED <<spans, details, attached, tasks, posted, files, clock, exited>>

(* The exporter's cached thread pool: every task has a thread of its own *)

ParentId(s) == IF spans[s].parent = 0 THEN 0 ELSE spans[spans[s].parent].id
ToJSON(s) == [id |-> spans[s].id, parentId |-> ParentId(s), trace |-> spans[s].trace,
              name |-> spans[s].name, service |-> details[s].service,
              notes |-> details[s].notes]

\* Task k, in state `from', moves to state `to'.
TaskMoves(k, from, to) ==
  /\ tasks[k].state = from
  /\ tasks' = [tasks EXCEPT ![k].state = to]
  /\ UNCHANGED <<contexts, spans, details, attached, clock, exited>>

\* DirectZipkinExporterTask: the span is sent, or the connection is refused and the span dropped.
Post(k) ==
  /\ Exporter = "directZipkin"
  /\ TaskMoves(k, "submitted", "done")
  /\ posted' = posted \cup {[task |-> k, json |-> ToJSON(tasks[k].span)]}
  /\ UNCHANGED files
DropSpan(k) ==
  /\ Exporter = "directZipkin" /\ ~ZipkinUp
  /\ TaskMoves(k, "submitted", "dropped")
  /\ UNCHANGED <<posted, files>>

\* JSONDiskExporterTask: the file named after the span's timestamp is created or emptied, then
\* written from its beginning.  The file may not open, and a PrintWriter hides that a write failed.
FileOf(k) == spans[tasks[k].span].timestamp
FileFails(k, from) ==
  /\ Cardinality({j \in DOMAIN tasks : tasks[j].state = "dropped"}) < MaxFailures
  /\ TaskMoves(k, from, "dropped")
  /\ UNCHANGED files
OpenFile(k) ==
  /\ Exporter = "disk"
  /\ \/ /\ TaskMoves(k, "submitted", "open")
        /\ files' = [files EXCEPT ![FileOf(k)] = {}]
     \/ FileFails(k, "submitted")
  /\ UNCHANGED posted
\* Mutant: the writer is never flushed.
WriteUnflushed(k) ==
  /\ TaskMoves(k, "open", "done")
  /\ UNCHANGED <<files, posted>>
WriteFile(k) ==
  /\ \/ /\ TaskMoves(k, "open", "done")
        /\ files' = [files EXCEPT ![FileOf(k)] = @ \cup {k}]
     \/ FileFails(k, "open")
  /\ UNCHANGED posted

ExporterStep == \E k \in DOMAIN tasks : Post(k) \/ DropSpan(k) \/ OpenFile(k) \/ WriteFile(k)

Tick ==
  /\ clock < MaxTime
  /\ clock' = clock + 1
  /\ UNCHANGED <<contexts, spans, details, attached, tasks, posted, files, exited>>

\* System.exit stops every thread where it is, the executor's included.
SystemExit ==
  /\ exited' = TRUE
  /\ UNCHANGED <<contexts, spans, details, attached, tasks, posted, files, clock>>

(* What the library promises to code that uses it as documented *)

ContextType(nspans, ntraces) == [trace : 1..ntraces, chain : Seq(1..nspans)]
SpanType(nspans, ntraces) ==
  [id : 1..nspans, trace : 1..ntraces, parent : 0..nspans, name : SpanNames, timestamp : 0..MaxTime]
Notes == {"opening", "added", "closing"}
DetailsType == [service : Services, notes : SUBSET Notes]
JSONType(nspans, ntraces) ==
  [id : 1..nspans, parentId : 0..nspans, trace : 1..ntraces, name : SpanNames, service : Services,
   notes : SUBSET Notes]
TaskType(nspans) == [span : 1..nspans, state : {"submitted", "open", "done", "dropped"}]

TracingTypeOK ==
  /\ contexts \in Seq(ContextType(Len(spans), Len(contexts)))
  /\ spans \in Seq(SpanType(Len(spans), Len(contexts)))
  /\ details \in Seq(DetailsType) /\ Len(details) = Len(spans)
  /\ attached \in [DOMAIN attached -> 0..Len(contexts)]
  /\ tasks \in Seq(TaskType(Len(spans)))
  /\ posted \subseteq [task : 1..Len(tasks), json : JSONType(Len(spans), Len(contexts))]
  /\ files \in [0..MaxTime -> SUBSET (1..Len(tasks))]
  /\ clock \in 0..MaxTime
  /\ exited \in BOOLEAN

\* A context handed to another thread shares no span object with the context it was copied from
\* (TraceContext.java:169 "to avoid multiple threads accessing the same context"): no span has two
\* places in the chains of all contexts.
SpansPrivate ==
  \A c, d \in DOMAIN contexts : \A j \in DOMAIN Chain(c), k \in DOMAIN Chain(d) :
    Chain(c)[j] = Chain(d)[k] => c = d /\ j = k

\* Moving up from a span leads to the span below it in the same context, in a copy as well: a chain
\* is what the parent references of its spans say, and never leads into another context's spans.
ChainLinked ==
  \A c \in DOMAIN contexts : \A k \in DOMAIN Chain(c) :
    spans[Chain(c)[k]].parent = IF k = 1 THEN 0 ELSE Chain(c)[k - 1]

\* No span is exported twice, although a span and its copies in other contexts share the id.
ExportedOnce ==
  \A j, k \in DOMAIN tasks :
    spans[tasks[j].span].id = spans[tasks[k].span].id => j = k

\* A span is exported before the span it is nested in, whichever thread holds the parent and
\* whichever holds the copy: the parent lasts as long as what it started.
ChildrenFirst ==
  \A j, k \in DOMAIN tasks :
    ParentId(tasks[k].span) = spans[tasks[j].span].id => k < j

\* A span is nested in a span of its own trace, across deep copies and threads.
OneTrace ==
  \A s \in DOMAIN spans :
    spans[s].parent # 0 => spans[spans[s].parent].trace = spans[s].trace

\* JSONDiskExporter.java:10 "exports the Span data in a JSON format into the provided directory": a
\* span whose file opened and was written, and which was the only one opened in its millisecond, is
\* in its file, and nothing else is: neither the writer of another timestamp's file nor one that
\* failed takes it away (two spans of one millisecond share a file, and the second writer empties it).
SpanOnDiskIfAlone ==
  Exporter = "disk" =>
    \A k \in DOMAIN tasks :
      /\ tasks[k].state = "done"
      /\ \A j \in DOMAIN tasks : j # k => FileOf(j) # FileOf(k)
      => files[FileOf(k)] = {k}

\* Spans are written asynchronously (SpanExporter.java:47) from the object itself, without a lock or
\* a copy, while setters and closing change spans: nobody changes a span that has been handed over.
ClosedFrozen ==
  [][\A k \in DOMAIN tasks :
       LET s == tasks[k].span IN spans'[s] = spans[s] /\ details'[s] = details[s]]_tracing
===============================================================================
