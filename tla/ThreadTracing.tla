---------------------------- MODULE ThreadTracing -----------------------------
(* The SingleJVMThread example: Main starts the starter tasks and waits for    *)
(* them; each starter task starts a dependant task and waits for it.  The      *)
(* advices open a span where start() is called, on the calling thread, and     *)
(* close it where run() returns, on the started one.                           *)
EXTENDS Tracing

CONSTANT TaskNames

ASSUME ThreadAssumption ==
  {"Starter Span", "Nested Span"} \subseteq SpanNames /\ "thread" \in Services

Main == [kind |-> "main", name |-> ""]
Starter(n) == [kind |-> "starter", name |-> n]
Dependant(n) == [kind |-> "dependant", name |-> n]
Starters == {Starter(n) : n \in TaskNames}
Threads == {Main} \cup Starters \cup {Dependant(n) : n \in TaskNames}

VARIABLES
  pc,           \* thread -> where it is
  callee,       \* thread -> the thread it is starting (Main: none at first)
  tc            \* thread -> the context in the advice's local variable
program == <<pc, callee, tc>>
vars == <<contexts, spans, details, attached, tasks, posted, files, clock, exited, pc, callee, tc>>

Init ==
  /\ TracingInit(Threads)
  /\ pc = [t \in Threads |-> IF t = Main THEN "call" ELSE "new"]
  /\ callee = [t \in Threads |-> t]
  /\ tc = [t \in Threads |-> 0]

Moves(t, from, to) == pc[t] = from /\ pc' = [pc EXCEPT ![t] = to]
Keeps(c, t) == tc' = [tc EXCEPT ![t] = c]
\* join() returns when the thread is not alive, one that was never started included.
Alive(t) == pc[t] \notin {"new", "done", "thrown"}

\* StarterTaskAdvice.start: every starter task gets a trace of its own.  Main starts them in an
\* order that is fixed.
StarterStartEnter(n) ==
  /\ pc[Starter(n)] = "new" /\ n = CHOOSE m \in TaskNames : pc[Starter(m)] = "new"
  /\ Moves(Main, "call", "attach")
  /\ callee' = [callee EXCEPT ![Main] = Starter(n)]
  /\ Create
  /\ Keeps(NewContext, Main)

\* DependantTaskAdvice.start: getFromCurrentThread() throws if the thread has no context.
\* Mutant: the dependant task gets the context itself.
DependantStartShares(n) ==
  LET t == Starter(n)
      c == attached[t] IN
  /\ Moves(t, "call", IF c = 0 THEN "thrown" ELSE "attach")
  /\ callee' = [callee EXCEPT ![t] = Dependant(n)]
  /\ Keeps(c, t)
  /\ UNCHANGED tracing
DependantStartEnter(n) ==
  LET t == Starter(n)
      c == attached[t] IN
  /\ Moves(t, "call", IF c = 0 THEN "thrown" ELSE "attach")
  /\ callee' = [callee EXCEPT ![t] = Dependant(n)]
  /\ IF c = 0 THEN UNCHANGED <<tracing, tc>>
              ELSE DeepCopy(c) /\ Keeps(NewContext, t)

\* Mutant: attachOnCurrentThread in place of attachOnTread(thizz).
AttachOnCurrentThread(t) ==
  /\ Moves(t, "attach", "open")
  /\ AttachTo(t, tc[t])
  /\ UNCHANGED <<callee, tc>>
AttachOnThread(t) ==
  /\ Moves(t, "attach", "open")
  /\ AttachTo(callee[t], tc[t])
  /\ UNCHANGED <<callee, tc>>

SpanName(t) == IF t = Main THEN "Starter Span" ELSE "Nested Span"
OpenSpan(t) ==
  /\ Moves(t, "open", "start")
  /\ OpenNestedSpan(tc[t], SpanName(t), "thread")
  /\ UNCHANGED <<callee, tc>>

\* super.start(): the new thread begins its run().  Main goes on with the next starter task.
ThreadStart(t) ==
  LET u == callee[t] IN
  /\ pc[t] = "start"
  /\ pc' = [pc EXCEPT
       ![u] = IF u \in Starters THEN "call" ELSE "close",
       ![t] = IF t = Main /\ \E n \in TaskNames : Starter(n) # u /\ pc[Starter(n)] = "new"
              THEN "call" ELSE "join"]
  /\ UNCHANGED <<tracing, callee, tc>>

\* StarterTask.run waits for its dependant task.
\* Mutants: the starter task does not wait; it waits for itself.
JoinNobody(n) ==
  /\ Moves(Starter(n), "join", "close")
  /\ UNCHANGED <<tracing, callee, tc>>
JoinSelf(n) ==
  /\ ~Alive(Starter(n))
  /\ Moves(Starter(n), "join", "close")
  /\ UNCHANGED <<tracing, callee, tc>>
JoinDependant(n) ==
  /\ ~Alive(Dependant(n))
  /\ Moves(Starter(n), "join", "close")
  /\ UNCHANGED <<tracing, callee, tc>>

\* The advices at the end of run(): the thread's own context, its current span.
RunExit(t) ==
  LET c == attached[t]
      null == IF c = 0 THEN TRUE ELSE Current(c) = 0 IN
  /\ Moves(t, "close", IF null THEN "thrown" ELSE "pop")
  /\ IF null THEN UNCHANGED <<tracing, tc>>
             ELSE ExportCurrent(c) /\ Keeps(c, t)
  /\ UNCHANGED callee

ContextMovesUp(t) ==
  /\ Moves(t, "pop", "done")
  /\ MoveUp(tc[t])
  /\ UNCHANGED <<callee, tc>>

\* Main prints "Finished" when it has joined every starter task, and calls System.exit(0).
\* Mutant: Main waits for one of the starter tasks only.
MainJoinsOne ==
  /\ \E n \in TaskNames : ~Alive(Starter(n))
  /\ Moves(Main, "join", "done")
  /\ SystemExit
  /\ UNCHANGED <<callee, tc>>
MainExit ==
  /\ \A n \in TaskNames : ~Alive(Starter(n))
  /\ Moves(Main, "join", "done")
  /\ SystemExit
  /\ UNCHANGED <<callee, tc>>

ThreadStep(t) ==
  \/ AttachOnThread(t) \/ OpenSpan(t) \/ ThreadStart(t) \/ RunExit(t) \/ ContextMovesUp(t)
NamedStep(n) == StarterStartEnter(n) \/ DependantStartEnter(n) \/ JoinDependant(n)
ProgramStep == (\E t \in Threads : ThreadStep(t)) \/ (\E n \in TaskNames : NamedStep(n)) \/ MainExit

LibraryStep == (ExporterStep \/ Tick) /\ UNCHANGED program

Next == \/ ~exited /\ (ProgramStep \/ LibraryStep)
        \/ exited /\ UNCHANGED vars
Spec == Init /\ [][Next]_vars

\* Threads of a JVM are scheduled, and every sleep and join in this program ends; the exporter's
\* threads may still be anywhere when System.exit comes.
FairSpec == Spec /\ WF_vars(~exited /\ ProgramStep)

Labels == {"new", "call", "attach", "open", "start", "join", "close", "pop", "done", "thrown"}

\* Objects exist, and threads are at points of the program.
TypeOK ==
  /\ TracingTypeOK
  /\ DOMAIN attached = Threads
  /\ pc \in [Threads -> Labels]
  /\ callee \in [Threads -> Threads]
  /\ tc \in [Threads -> 0..Len(contexts)]

\* No advice ever fails: the context is attached before the thread that asks for it runs, and is
\* not empty when a span is closed.  An exception would end the monitored method.
NothingThrown == \A t \in Threads : pc[t] # "thrown"

\* Two threads never have the same context (TraceContext.java:169).
ContextPrivate ==
  \A t, u \in Threads : t # u /\ attached[t] # 0 => attached[t] # attached[u]

\* A dependant task belongs to the trace of the starter task that started it (DependantTask.java:5
\* "should have same trace id when instrumented as the StarterTask"), and to no other.
SameTrace ==
  \A m, n \in TaskNames :
    LET d == attached[Dependant(m)]
        s == attached[Starter(n)] IN
    d # 0 /\ s # 0 => (contexts[d].trace = contexts[s].trace <=> m = n)

\* When the program says it has finished every span that was opened has been closed and handed to
\* the exporter.  What the exporter's threads have not saved by then is lost: nobody waits for them.
AllClosed ==
  exited => \A s \in DOMAIN spans : \E k \in DOMAIN tasks :
              spans[tasks[k].span].id = spans[s].id

\* The program ends: the waits of Main and of the starter tasks are well founded.
Finishes == <>exited
===============================================================================
