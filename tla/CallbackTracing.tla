---------------------------- MODULE CallbackTracing ---------------------------
(* The SingleJVMCallback example: Main creates callbacks, submits one task per *)
(* callback to an executor and exits after a timeout; a worker thread runs the *)
(* task, which calls its callback.  Contexts are attached to the objects: the  *)
(* callback has the original, the task a deep copy made when it is submitted.  *)
EXTENDS Tracing

CONSTANT CallbackNames

ASSUME CallbackAssumption ==
  /\ {"Main Callback Span", "Task submission span", "Thread execution span"} \subseteq SpanNames
  /\ "callback" \in Services

Callback(n) == [kind |-> "callback", name |-> n]
Task(n) == [kind |-> "task", name |-> n]
Holders == {Callback(n) : n \in CallbackNames} \cup {Task(n) : n \in CallbackNames}

VARIABLES
  main,         \* where Main is
  subject,      \* the callback or task Main is working on
  tc,           \* the context in the local variable of the advice Main is in
  worker        \* name -> where the thread that runs the task is
program == <<main, subject, tc, worker>>
vars == <<contexts, spans, details, attached, tasks, posted, files, clock, exited,
          main, subject, tc, worker>>

Init ==
  /\ TracingInit(Holders)
  /\ main = "create" /\ subject \in CallbackNames /\ tc = 0
  /\ worker = [n \in CallbackNames |-> "none"]

MainMoves(from, to) == main = from /\ main' = to
WorkerMoves(n, from, to) ==
  /\ worker[n] = from
  /\ worker' = [worker EXCEPT ![n] = to]
  /\ UNCHANGED <<main, subject, tc>>

\* CallbackCreatorAdvice.exit, for one callback after the other.
CreateCallback(n) ==
  /\ attached[Callback(n)] = 0
  /\ MainMoves("create", "attach")
  /\ subject' = n
  /\ Create /\ tc' = NewContext
  /\ UNCHANGED worker

AttachCallback ==
  /\ MainMoves("attach", "open")
  /\ AttachTo(Callback(subject), tc)
  /\ UNCHANGED <<subject, tc, worker>>

OpenCallback ==
  /\ main = "open"
  /\ main' = IF \A n \in CallbackNames : attached[Callback(n)] # 0 THEN "submit" ELSE "create"
  /\ OpenNestedSpan(tc, "Main Callback Span", "callback")
  /\ UNCHANGED <<subject, tc, worker>>

\* ExecutorAdvice.submitTask: the task gets a copy of the callback's context, made before the
\* callback's context goes on to the submission span.
SubmitTask(n) ==
  /\ attached[Task(n)] = 0
  /\ MainMoves("submit", "attachCopy")
  /\ subject' = n
  /\ tc' = attached[Callback(n)]
  /\ DeepCopy(attached[Callback(n)])
  /\ UNCHANGED worker

\* Mutant: deepCopy() is called and its result ignored.
AttachOriginal ==
  /\ MainMoves("attachCopy", "openSubmission")
  /\ AttachTo(Task(subject), tc)
  /\ UNCHANGED <<subject, tc, worker>>
AttachCopy ==
  /\ MainMoves("attachCopy", "openSubmission")
  /\ AttachTo(Task(subject), Len(contexts))
  /\ UNCHANGED <<subject, tc, worker>>

OpenSubmission ==
  /\ MainMoves("openSubmission", "enqueue")
  /\ OpenNestedSpan(tc, "Task submission span", "callback")
  /\ UNCHANGED <<subject, tc, worker>>

\* executorService.submit: a cached pool starts the task at once, on a thread of its own.
Enqueue ==
  /\ main = "enqueue"
  /\ main' = IF \A n \in CallbackNames : attached[Task(n)] # 0 THEN "stop" ELSE "submit"
  /\ worker' = [worker EXCEPT ![subject] = "enter"]
  /\ UNCHANGED <<tracing, subject, tc>>

\* awaitTermination without a shutdown runs into its timeout; then System.exit(0).
StopAndExit ==
  /\ MainMoves("stop", "exited")
  /\ SystemExit
  /\ UNCHANGED <<subject, tc, worker>>

\* TaskAdvice.run.enter.
EnterRun(n) ==
  /\ WorkerMoves(n, "enter", "call")
  /\ OpenNestedSpan(attached[Task(n)], "Thread execution span", "callback")

\* closeCurrentSpan in two steps.  The executor's Future would swallow the exception of a null.
ClosesIn(n, h, at, half, next) ==
  LET c == attached[h] IN
  \/ /\ WorkerMoves(n, at, IF Current(c) = 0 THEN "thrown" ELSE half)
     /\ IF Current(c) = 0 THEN UNCHANGED tracing ELSE ExportCurrent(c)
  \/ WorkerMoves(n, half, next) /\ MoveUp(c)

\* CallbackAdvice.call.exit closes the submission span; TaskAdvice.run.exit closes the task's own
\* span and then the copy of the span it was copied with.
CallbackExit(n) == ClosesIn(n, Callback(n), "call", "called", "exit")
\* Mutant: the second call is missing.
RunExitOnce(n) == ClosesIn(n, Task(n), "exit", "closed", "done")
RunExit(n) == \/ ClosesIn(n, Task(n), "exit", "closed", "exitParent")
              \/ ClosesIn(n, Task(n), "exitParent", "closedParent", "done")

MainStep ==
  \/ \E n \in CallbackNames : CreateCallback(n) \/ SubmitTask(n)
  \/ AttachCallback \/ OpenCallback \/ AttachCopy \/ OpenSubmission \/ Enqueue \/ StopAndExit
WorkerStep(n) == EnterRun(n) \/ CallbackExit(n) \/ RunExit(n)

LibraryStep == (ExporterStep \/ Tick) /\ UNCHANGED program

Next == \/ ~exited /\ (MainStep \/ (\E n \in CallbackNames : WorkerStep(n)) \/ LibraryStep)
        \/ exited /\ UNCHANGED vars
Spec == Init /\ [][Next]_vars

\* No advice closes a span of an empty context.
NothingThrown == \A n \in CallbackNames : worker[n] # "thrown"

\* The name of the span that a worker is between exporting and leaving.
Closing == [called |-> "Task submission span", closed |-> "Thread execution span",
            closedParent |-> "Main Callback Span"]

\* Each advice closes the span it is about, although it names none and takes what is on top of a
\* context that Main and the other advices have opened spans in.
ClosesItsOwn ==
  \A n \in CallbackNames :
    worker[n] \in DOMAIN Closing =>
      LET h == IF worker[n] = "called" THEN Callback(n) ELSE Task(n)
      IN  spans[Current(attached[h])].name = Closing[worker[n]]

\* A task that has run leaves nothing open: every span of its trace has been exported, the callback
\* span through its copy in the task.
AllClosed ==
  \A n \in CallbackNames : worker[n] = "done" =>
    \A s \in DOMAIN spans :
      spans[s].trace = contexts[attached[Callback(n)]].trace =>
        \E k \in DOMAIN tasks : spans[tasks[k].span].id = spans[s].id
===============================================================================
