------------------------ MODULE CallbackTracing_proofs ------------------------
(* The callback example with any number of callbacks: no advice fails, each    *)
(* closes the span it is about, and a task that has run leaves nothing open.   *)
EXTENDS CallbackTracing, Tracing_proofs

(* What is where *)

\* Main is between making the copy for task n and giving it to a worker.
Submitting(n) == main \in {"attachCopy", "openSubmission", "enqueue"} /\ subject = n

\* The contexts meant for callback n and for task n: attached, or in Main's hands.
CtxOfCallback(n) == IF main = "attach" /\ subject = n THEN tc ELSE attached[Callback(n)]
CtxOfTask(n) == IF main = "attachCopy" /\ subject = n THEN Len(contexts) ELSE attached[Task(n)]

MainLabels ==
  {"create", "attach", "open", "submit", "attachCopy", "openSubmission", "enqueue", "stop", "exited"}
WorkerLabels ==
  {"none", "enter", "call", "called", "exit", "closed", "exitParent", "closedParent", "done"}

ProgramTypes ==
  /\ DOMAIN attached = Holders
  /\ main \in MainLabels
  /\ subject \in CallbackNames
  /\ tc \in 0..Len(contexts)
  /\ worker \in [CallbackNames -> WorkerLabels]

\* Main makes all callbacks before it submits a task, and a worker has a task that was submitted.
MainInv ==
  /\ main \in {"attach", "open"} => tc # 0
  /\ main = "attach" => attached[Callback(subject)] = 0
  /\ main = "open" => attached[Callback(subject)] = tc
  /\ main \in {"create", "attach", "open"} => \A n \in CallbackNames : attached[Task(n)] = 0
  /\ main \notin {"create", "attach", "open"} => \A n \in CallbackNames : attached[Callback(n)] # 0
  /\ main \in {"openSubmission", "enqueue"} => attached[Task(subject)] # 0
  /\ main \in {"attachCopy", "openSubmission", "enqueue"} => tc = attached[Callback(subject)]
  /\ \A n \in CallbackNames : worker[n] # "none" => attached[Task(n)] # 0 /\ ~Submitting(n)

\* A context is meant for one callback or one task.
OwnersInv ==
  \A m, n \in CallbackNames :
    /\ CtxOfCallback(m) # 0 /\ CtxOfCallback(m) = CtxOfCallback(n) => m = n
    /\ CtxOfTask(m) # 0 /\ CtxOfTask(m) = CtxOfTask(n) => m = n
    /\ CtxOfCallback(m) # 0 => CtxOfCallback(m) # CtxOfTask(n)

\* The names of the three kinds of spans.
CallbackSpan == "Main Callback Span"
SubmissionSpan == "Task submission span"
ExecutionSpan == "Thread execution span"

\* The number of spans on the chains of a callback and of a task.
CallbackDepth(n) ==
  IF main \in {"attach", "open"} /\ subject = n THEN 0
  ELSE IF (main = "enqueue" /\ subject = n) \/ worker[n] \in {"enter", "call", "called"} THEN 2
  ELSE 1
TaskDepth(n) ==
  IF worker[n] \in {"call", "called", "exit", "closed"} THEN 2
  ELSE IF worker[n] = "done" THEN 0
  ELSE 1

\* The chain of a callback has its span and, while the task waits or calls back, the submission
\* span; a task's the copy of the callback's span and, while it runs, its own.
CallbackChain(n, c) ==
  /\ contexts[c].trace = c
  /\ Len(Chain(c)) = CallbackDepth(n)
  /\ CallbackDepth(n) # 0 => spans[Chain(c)[1]].name = CallbackSpan
  /\ CallbackDepth(n) = 2 => spans[Chain(c)[2]].name = SubmissionSpan
TaskChain(n, d, c) ==
  /\ c # 0
  /\ contexts[d].trace = c
  /\ Len(Chain(d)) = TaskDepth(n)
  /\ TaskDepth(n) # 0 => /\ spans[Chain(d)[1]].name = CallbackSpan
                         /\ spans[Chain(d)[1]].id = spans[Chain(c)[1]].id
  /\ TaskDepth(n) = 2 => spans[Chain(d)[2]].name = ExecutionSpan
ChainsOf(n) ==
  /\ CtxOfCallback(n) # 0 => CallbackChain(n, CtxOfCallback(n))
  /\ CtxOfTask(n) # 0 => TaskChain(n, CtxOfTask(n), CtxOfCallback(n))
ChainsInv == \A n \in CallbackNames : ChainsOf(n)

\* A span of a callback's trace was exported, itself or a copy, or the worker will come to it.
Exported(i) == \E k \in DOMAIN tasks : spans[tasks[k].span].id = i
Pending(n, i) ==
  \/ /\ worker[n] \notin {"closedParent", "done"} /\ CallbackDepth(n) # 0
     /\ i = spans[Chain(CtxOfCallback(n))[1]].id
  \/ /\ worker[n] \in {"none", "enter", "call"} /\ CallbackDepth(n) = 2
     /\ i = spans[Chain(CtxOfCallback(n))[2]].id
  \/ /\ worker[n] \in {"call", "called", "exit"}
     /\ i = spans[Chain(CtxOfTask(n))[2]].id
CoveredOf(n) ==
  CtxOfCallback(n) # 0 =>
    \A s \in DOMAIN spans : spans[s].trace = CtxOfCallback(n) =>
      Exported(spans[s].id) \/ Pending(n, spans[s].id)
CoveredInv == \A n \in CallbackNames : CoveredOf(n)

CallbackInv ==
  /\ LibraryInv /\ ProgramTypes
  /\ MainInv /\ OwnersInv /\ ChainsInv /\ CoveredInv

(* Helpers *)

\* Callbacks and tasks are different holders.
LEMMA HolderFacts ==
  /\ \A n \in CallbackNames : Callback(n) \in Holders /\ Task(n) \in Holders
  /\ \A m, n \in CallbackNames : /\ Callback(m) # Task(n)
                                 /\ Callback(m) = Callback(n) => m = n
                                 /\ Task(m) = Task(n) => m = n
<1>1. /\ \A n : Callback(n).kind = "callback" /\ Task(n).kind = "task"
      /\ \A n : Callback(n).name = n /\ Task(n).name = n
  BY DEF Callback, Task
<1>2. \A n \in CallbackNames : Callback(n) \in Holders /\ Task(n) \in Holders
  BY DEF Holders
<1>3. \A m, n \in CallbackNames : Callback(m) # Task(n)
  <2>1. "callback" # "task"
    OBVIOUS
  <2> QED BY <1>1, <2>1
<1> QED BY <1>1, <1>2, <1>3

\* The types these proofs need.
LEMMA ExampleTyped ==
  ASSUME CallbackInv
  PROVE  /\ TracingTypeOK /\ Len(contexts) \in Nat /\ Len(spans) \in Nat
         /\ DOMAIN contexts = 1..Len(contexts) /\ DOMAIN spans = 1..Len(spans)
         /\ attached \in [Holders -> 0..Len(contexts)]
         /\ worker \in [CallbackNames -> WorkerLabels]
         /\ main \in MainLabels /\ subject \in CallbackNames /\ tc \in 0..Len(contexts)
         /\ \A n \in CallbackNames : /\ attached[Callback(n)] \in 0..Len(contexts)
                                     /\ attached[Task(n)] \in 0..Len(contexts)
                                     /\ CtxOfCallback(n) \in 0..Len(contexts)
                                     /\ CtxOfTask(n) \in 0..Len(contexts)
<1>1. TracingTypeOK /\ ProgramTypes
  BY DEF CallbackInv, LibraryInv
<1>2. /\ Len(contexts) \in Nat /\ Len(spans) \in Nat
      /\ DOMAIN contexts = 1..Len(contexts) /\ DOMAIN spans = 1..Len(spans)
  BY <1>1, ContextsTyped, SpansTyped
<1>3. attached \in [Holders -> 0..Len(contexts)]
  BY <1>1 DEF TracingTypeOK, ProgramTypes
<1>4. \A n \in CallbackNames : /\ attached[Callback(n)] \in 0..Len(contexts)
                               /\ attached[Task(n)] \in 0..Len(contexts)
  BY <1>3, HolderFacts
<1>5. Len(contexts) \in 0..Len(contexts)
  BY <1>2
<1>6. \A n \in CallbackNames : /\ CtxOfCallback(n) \in 0..Len(contexts)
                               /\ CtxOfTask(n) \in 0..Len(contexts)
  BY <1>1, <1>4, <1>5 DEF CtxOfCallback, CtxOfTask, ProgramTypes
<1> QED BY <1>1, <1>2, <1>3, <1>4, <1>6 DEF ProgramTypes

\* The spans on the chains of a callback and of its task.
LEMMA ChainFacts ==
  ASSUME CallbackInv, NEW n \in CallbackNames
  PROVE  /\ CallbackDepth(n) \in {0, 1, 2} /\ TaskDepth(n) \in {0, 1, 2}
         /\ CtxOfCallback(n) # 0 =>
              LET c == CtxOfCallback(n) IN
              /\ c \in 1..Len(contexts) /\ contexts[c].trace = c
              /\ Chain(c) \in Seq(1..Len(spans)) /\ Len(Chain(c)) = CallbackDepth(n)
              /\ \A k \in 1..CallbackDepth(n) : Chain(c)[k] \in 1..Len(spans)
              /\ CallbackDepth(n) # 0 => Current(c) = Chain(c)[CallbackDepth(n)] /\ Current(c) # 0
         /\ CtxOfTask(n) # 0 =>
              LET d == CtxOfTask(n) IN
              /\ CtxOfCallback(n) # 0 /\ CallbackDepth(n) # 0
              /\ d \in 1..Len(contexts) /\ contexts[d].trace = CtxOfCallback(n)
              /\ Chain(d) \in Seq(1..Len(spans)) /\ Len(Chain(d)) = TaskDepth(n)
              /\ \A k \in 1..TaskDepth(n) : Chain(d)[k] \in 1..Len(spans)
              /\ TaskDepth(n) # 0 => Current(d) = Chain(d)[TaskDepth(n)] /\ Current(d) # 0
<1>1. CallbackDepth(n) \in {0, 1, 2} /\ TaskDepth(n) \in {0, 1, 2}
  BY DEF CallbackDepth, TaskDepth
<1>2. ASSUME NEW c \in 1..Len(contexts), NEW m \in {0, 1, 2}, Len(Chain(c)) = m
      PROVE  /\ Chain(c) \in Seq(1..Len(spans))
             /\ \A k \in 1..m : Chain(c)[k] \in 1..Len(spans)
             /\ m # 0 => Current(c) = Chain(c)[m] /\ Current(c) # 0
  <2>1. /\ Chain(c) \in Seq(1..Len(spans)) /\ Len(spans) \in Nat
        /\ \A k \in 1..Len(Chain(c)) : Chain(c)[k] \in 1..Len(spans)
    BY ExampleTyped, ContextsTyped
  <2>2. m # 0 => Chain(c) # <<>> /\ m \in 1..Len(Chain(c))
    BY <1>2, <2>1
  <2> QED BY <1>2, <2>1, <2>2 DEF Current
<1>3. ChainsOf(n) /\ CtxOfCallback(n) \in 0..Len(contexts) /\ CtxOfTask(n) \in 0..Len(contexts)
  BY ExampleTyped DEF CallbackInv, ChainsInv
<1>4. ASSUME NEW c, c = CtxOfCallback(n), c # 0
      PROVE  /\ c \in 1..Len(contexts) /\ contexts[c].trace = c
             /\ Len(Chain(c)) = CallbackDepth(n)
  <2>1. c \in 1..Len(contexts)
    BY <1>3, <1>4, ExampleTyped
  <2>2. CallbackChain(n, c)
    BY <1>3, <1>4 DEF ChainsOf
  <2> QED BY <2>1, <2>2 DEF CallbackChain
<1>5. ASSUME NEW d, d = CtxOfTask(n), d # 0
      PROVE  /\ CtxOfCallback(n) # 0
             /\ d \in 1..Len(contexts) /\ contexts[d].trace = CtxOfCallback(n)
             /\ Len(Chain(d)) = TaskDepth(n)
  <2>1. d \in 1..Len(contexts)
    BY <1>3, <1>5, ExampleTyped
  <2>2. TaskChain(n, d, CtxOfCallback(n))
    BY <1>3, <1>5 DEF ChainsOf
  <2> QED BY <2>1, <2>2 DEF TaskChain
<1>6. CtxOfTask(n) # 0 => CallbackDepth(n) # 0
  BY DEF CallbackInv, MainInv, CtxOfTask, CallbackDepth
<1> QED BY <1>1, <1>2, <1>4, <1>5, <1>6

\* The names of the spans on the chains of a callback and of its task.
LEMMA ChainNames ==
  ASSUME CallbackInv, NEW n \in CallbackNames, NEW c, c = CtxOfCallback(n), c # 0
  PROVE  /\ CallbackDepth(n) \in {1, 2} => spans[Chain(c)[1]].name = CallbackSpan
         /\ CallbackDepth(n) = 2 => spans[Chain(c)[2]].name = SubmissionSpan
         /\ CtxOfTask(n) # 0 =>
              LET d == CtxOfTask(n) IN
              /\ TaskDepth(n) \in {1, 2} => /\ spans[Chain(d)[1]].name = CallbackSpan
                                            /\ spans[Chain(d)[1]].id = spans[Chain(c)[1]].id
              /\ TaskDepth(n) = 2 => spans[Chain(d)[2]].name = ExecutionSpan
<1>1. /\ CallbackDepth(n) \in {1, 2} => CallbackDepth(n) # 0
      /\ TaskDepth(n) \in {1, 2} => TaskDepth(n) # 0
  OBVIOUS
<1>2. ChainsOf(n)
  BY DEF CallbackInv, ChainsInv
<1>3. CallbackChain(n, c)
  BY <1>2 DEF ChainsOf
<1>4. /\ CallbackDepth(n) \in {1, 2} => spans[Chain(c)[1]].name = CallbackSpan
      /\ CallbackDepth(n) = 2 => spans[Chain(c)[2]].name = SubmissionSpan
  BY <1>1, <1>3 DEF CallbackChain
<1>5. ASSUME NEW d, d = CtxOfTask(n), d # 0
      PROVE  /\ TaskDepth(n) \in {1, 2} => /\ spans[Chain(d)[1]].name = CallbackSpan
                                           /\ spans[Chain(d)[1]].id = spans[Chain(c)[1]].id
             /\ TaskDepth(n) = 2 => spans[Chain(d)[2]].name = ExecutionSpan
  <2>1. TaskChain(n, d, c)
    BY <1>2, <1>5 DEF ChainsOf
  <2> QED BY <1>1, <2>1 DEF TaskChain
<1> QED BY <1>4, <1>5

\* What an unchanged chain says is still true.
LEMMA ChainsKept ==
  ASSUME CallbackInv, NEW n \in CallbackNames,
         CtxOfCallback(n)' = CtxOfCallback(n), CtxOfTask(n)' = CtxOfTask(n),
         CallbackDepth(n)' = CallbackDepth(n), TaskDepth(n)' = TaskDepth(n),
         CtxOfCallback(n) # 0 => contexts'[CtxOfCallback(n)] = contexts[CtxOfCallback(n)],
         CtxOfTask(n) # 0 => contexts'[CtxOfTask(n)] = contexts[CtxOfTask(n)],
         \A s \in 1..Len(spans) : spans'[s] = spans[s]
  PROVE  ChainsOf(n)'
<1> PICK c : c = CtxOfCallback(n)
  OBVIOUS
<1> PICK d : d = CtxOfTask(n)
  OBVIOUS
<1>1. c # 0 => CallbackChain(n, c)'
  <2> SUFFICES ASSUME c # 0 PROVE CallbackChain(n, c)'
    OBVIOUS
  <2>1. CallbackChain(n, c) /\ Chain(c)' = Chain(c)
    BY DEF CallbackInv, ChainsInv, ChainsOf, Chain
  <2>2. /\ CallbackDepth(n) # 0 => Chain(c)[1] \in 1..Len(spans)
        /\ CallbackDepth(n) = 2 => Chain(c)[2] \in 1..Len(spans)
    BY ChainFacts
  <2> QED BY <2>1, <2>2 DEF CallbackChain
<1>2. d # 0 => TaskChain(n, d, c)'
  <2> SUFFICES ASSUME d # 0 PROVE TaskChain(n, d, c)'
    OBVIOUS
  <2>1. TaskChain(n, d, c) /\ Chain(d)' = Chain(d) /\ c # 0
    BY DEF CallbackInv, ChainsInv, ChainsOf, TaskChain, Chain
  <2>2. Chain(c)' = Chain(c)
    BY <2>1 DEF Chain
  <2>3. /\ TaskDepth(n) # 0 => Chain(d)[1] \in 1..Len(spans) /\ Chain(c)[1] \in 1..Len(spans)
        /\ TaskDepth(n) = 2 => Chain(d)[2] \in 1..Len(spans)
    <3>1. /\ CallbackDepth(n) \in {1, 2} /\ TaskDepth(n) \in {0, 1, 2}
          /\ \A k \in 1..CallbackDepth(n) : Chain(c)[k] \in 1..Len(spans)
          /\ \A k \in 1..TaskDepth(n) : Chain(d)[k] \in 1..Len(spans)
      BY <2>1, ChainFacts
    <3> QED BY <3>1
  <2> QED BY <2>1, <2>2, <2>3 DEF TaskChain
<1> QED BY <1>1, <1>2 DEF ChainsOf

\* A worker that has begun has a context, and so has its callback.
LEMMA WorkerContexts ==
  ASSUME CallbackInv, NEW n \in CallbackNames, worker[n] # "none"
  PROVE  /\ CtxOfTask(n) = attached[Task(n)] /\ CtxOfTask(n) # 0
         /\ CtxOfCallback(n) = attached[Callback(n)] /\ CtxOfCallback(n) # 0
         /\ main \notin {"create", "attach", "open"} /\ ~Submitting(n)
<1>1. attached[Task(n)] # 0 /\ ~Submitting(n) /\ main \notin {"create", "attach", "open"}
  BY DEF CallbackInv, MainInv
<1>2. attached[Callback(n)] # 0
  BY <1>1 DEF CallbackInv, MainInv
<1> QED BY <1>1, <1>2 DEF CtxOfTask, CtxOfCallback, Submitting

\* What was exported stays exported.
LEMMA ExportedKept ==
  ASSUME TracingTypeOK, \A s \in 1..Len(spans) : spans'[s] = spans[s],
         DOMAIN tasks \subseteq DOMAIN tasks', \A k \in DOMAIN tasks : tasks'[k].span = tasks[k].span
  PROVE  \A i : Exported(i) => Exported(i)'
<1> SUFFICES ASSUME NEW i, NEW k \in DOMAIN tasks, spans[tasks[k].span].id = i PROVE Exported(i)'
  BY DEF Exported
<1>1. tasks[k].span \in 1..Len(spans)
  <2>1. tasks[k] \in TaskType(Len(spans))
    BY DEF TracingTypeOK
  <2> QED BY <2>1 DEF TaskType
<1> QED BY <1>1 DEF Exported

\* What a worker will come to, it still will.
LEMMA PendingKept ==
  ASSUME CallbackInv, NEW n \in CallbackNames, CtxOfCallback(n) # 0,
         CtxOfCallback(n)' = CtxOfCallback(n), CtxOfTask(n)' = CtxOfTask(n),
         CallbackDepth(n)' = CallbackDepth(n), worker'[n] = worker[n],
         contexts'[CtxOfCallback(n)] = contexts[CtxOfCallback(n)],
         CtxOfTask(n) # 0 => contexts'[CtxOfTask(n)] = contexts[CtxOfTask(n)],
         \A s \in 1..Len(spans) : spans'[s] = spans[s],
         NEW i, Pending(n, i)
  PROVE  Pending(n, i)'
<1> PICK c : c = CtxOfCallback(n)
  OBVIOUS
<1> PICK d : d = CtxOfTask(n)
  OBVIOUS
<1>1. CtxOfCallback(n)' = c /\ CtxOfTask(n)' = d /\ Chain(c)' = Chain(c)
  BY DEF Chain
<1>2. CallbackDepth(n) \in {0, 1, 2} /\ \A k \in 1..CallbackDepth(n) : Chain(c)[k] \in 1..Len(spans)
  BY ChainFacts
<1>3. CASE /\ worker[n] \notin {"closedParent", "done"} /\ CallbackDepth(n) # 0
           /\ i = spans[Chain(c)[1]].id
  <2>1. Chain(c)[1] \in 1..Len(spans)
    BY <1>2, <1>3
  <2>2. spans'[Chain(c)'[1]].id = i
    BY <1>1, <1>3, <2>1
  <2>3. spans'[Chain(CtxOfCallback(n))'[1]].id = i
    BY <1>1, <2>2 DEF Chain
  <2> QED BY <1>3, <2>3 DEF Pending
<1>4. CASE /\ worker[n] \in {"none", "enter", "call"} /\ CallbackDepth(n) = 2
           /\ i = spans[Chain(c)[2]].id
  <2>1. Chain(c)[2] \in 1..Len(spans)
    BY <1>2, <1>4
  <2>2. spans'[Chain(c)'[2]].id = i
    BY <1>1, <1>4, <2>1
  <2>3. spans'[Chain(CtxOfCallback(n))'[2]].id = i
    BY <1>1, <2>2 DEF Chain
  <2> QED BY <1>4, <2>3 DEF Pending
<1>5. CASE worker[n] \in {"call", "called", "exit"} /\ i = spans[Chain(d)[2]].id
  <2>1. d # 0 /\ TaskDepth(n) = 2
    BY <1>5, WorkerContexts DEF TaskDepth
  <2>2. Chain(d)[2] \in 1..Len(spans) /\ Chain(d)' = Chain(d)
    BY <2>1, ChainFacts DEF Chain
  <2>3. spans'[Chain(d)'[2]].id = i
    BY <1>5, <2>2
  <2>4. spans'[Chain(CtxOfTask(n))'[2]].id = i
    BY <1>1, <2>3 DEF Chain
  <2> QED BY <1>5, <2>4 DEF Pending
<1> QED BY <1>3, <1>4, <1>5 DEF Pending

\* The spans of a trace are covered if those that were still are and new ones are.
LEMMA CoveredKept ==
  ASSUME CallbackInv, NEW n \in CallbackNames, CtxOfCallback(n)' = CtxOfCallback(n),
         \A s \in 1..Len(spans) : spans'[s] = spans[s],
         \A i : Exported(i) => Exported(i)',
         CtxOfCallback(n) # 0 => \A i : Pending(n, i) => Exported(i)' \/ Pending(n, i)',
         \A s \in DOMAIN spans' :
           \/ s \in 1..Len(spans)
           \/ spans'[s].trace # CtxOfCallback(n)
           \/ \E i : spans'[s].id = i /\ (Exported(i)' \/ Pending(n, i)')
  PROVE  CoveredOf(n)'
<1> SUFFICES ASSUME CtxOfCallback(n) # 0, NEW s \in DOMAIN spans', spans'[s].trace = CtxOfCallback(n)
             PROVE  Exported(spans[s].id)' \/ Pending(n, spans[s].id)'
  BY DEF CoveredOf
<1>1. \E i : spans'[s].id = i /\ (Exported(i)' \/ Pending(n, i)')
  <2> SUFFICES ASSUME s \in 1..Len(spans)
               PROVE  \E i : spans'[s].id = i /\ (Exported(i)' \/ Pending(n, i)')
    OBVIOUS
  <2>1. spans'[s] = spans[s]
    OBVIOUS
  <2>2. Exported(spans[s].id) \/ Pending(n, spans[s].id)
    BY <2>1, ExampleTyped DEF CallbackInv, CoveredInv, CoveredOf
  <2> QED BY <2>1, <2>2
<1>2. PICK i : spans'[s].id = i /\ (Exported(i)' \/ Pending(n, i)')
  BY <1>1
<1> QED BY <1>2 DEF Exported, Pending

\* A step about one callback leaves what is said of another true.
LEMMA OthersKept ==
  ASSUME CallbackInv, NEW n \in CallbackNames,
         CtxOfCallback(n)' = CtxOfCallback(n), CtxOfTask(n)' = CtxOfTask(n),
         CallbackDepth(n)' = CallbackDepth(n), worker'[n] = worker[n],
         CtxOfCallback(n) # 0 => contexts'[CtxOfCallback(n)] = contexts[CtxOfCallback(n)],
         CtxOfTask(n) # 0 => contexts'[CtxOfTask(n)] = contexts[CtxOfTask(n)],
         \A s \in 1..Len(spans) : spans'[s] = spans[s],
         DOMAIN tasks \subseteq DOMAIN tasks', \A k \in DOMAIN tasks : tasks'[k].span = tasks[k].span,
         \A s \in DOMAIN spans' : s \in 1..Len(spans) \/ spans'[s].trace # CtxOfCallback(n)
  PROVE  ChainsOf(n)' /\ CoveredOf(n)'
<1>1. TaskDepth(n)' = TaskDepth(n)
  BY DEF TaskDepth
<1>2. ChainsOf(n)'
  BY <1>1, ChainsKept
<1>3. \A i : Exported(i) => Exported(i)'
  BY ExportedKept, ExampleTyped
<1>4. CtxOfCallback(n) # 0 => \A i : Pending(n, i) => Pending(n, i)'
  BY PendingKept
<1> QED BY <1>2, <1>3, <1>4, CoveredKept

(* Workers *)

\* A worker's own move changes nothing of what is said of others.
LEMMA WorkerFrame ==
  ASSUME CallbackInv, NEW n \in CallbackNames, NEW from \in WorkerLabels \ {"none"},
         NEW to \in WorkerLabels \ {"none"}, WorkerMoves(n, from, to), attached' = attached,
         Len(contexts') = Len(contexts)
  PROVE  /\ ProgramTypes' /\ MainInv' /\ OwnersInv'
         /\ main' = main /\ subject' = subject /\ worker'[n] = to
         /\ \A m \in CallbackNames :
              CtxOfCallback(m)' = CtxOfCallback(m) /\ CtxOfTask(m)' = CtxOfTask(m)
         /\ \A m \in CallbackNames : m # n =>
              worker'[m] = worker[m] /\ CallbackDepth(m)' = CallbackDepth(m)
<1>1. /\ worker[n] = from /\ worker' = [worker EXCEPT ![n] = to] /\ UNCHANGED <<main, subject, tc>>
  BY DEF WorkerMoves
<1>2. /\ worker'[n] = to /\ \A m \in CallbackNames : m # n => worker'[m] = worker[m]
      /\ worker' \in [CallbackNames -> WorkerLabels]
  BY <1>1, ExampleTyped
<1>3. ProgramTypes'
  BY <1>1, <1>2 DEF CallbackInv, ProgramTypes
<1>4. /\ \A m \in CallbackNames : CtxOfCallback(m)' = CtxOfCallback(m) /\ CtxOfTask(m)' = CtxOfTask(m)
      /\ \A m \in CallbackNames : Submitting(m)' <=> Submitting(m)
  BY <1>1 DEF CtxOfCallback, CtxOfTask, Submitting
<1>5. MainInv'
  <2>1. \A m \in CallbackNames : worker'[m] # "none" => worker[m] # "none"
    BY <1>1, <1>2
  <2>2. \A m \in CallbackNames : worker'[m] # "none" => attached[Task(m)] # 0 /\ ~Submitting(m)'
    BY <1>4, <2>1 DEF CallbackInv, MainInv
  <2> QED BY <1>1, <2>2 DEF CallbackInv, MainInv
<1>6. OwnersInv'
  BY <1>4 DEF CallbackInv, OwnersInv
<1>7. \A m \in CallbackNames : m # n => CallbackDepth(m)' = CallbackDepth(m)
  BY <1>1, <1>2 DEF CallbackDepth
<1> QED BY <1>1, <1>2, <1>3, <1>4, <1>5, <1>6, <1>7

\* The first half of closeCurrentSpan: the span is exported, itself or in place of what it copies.
LEMMA ExportHalf ==
  ASSUME CallbackInv, NEW n \in CallbackNames, NEW from, NEW to, NEW c,
         \/ c = CtxOfCallback(n) /\ from = "call" /\ to = "called"
         \/ c = CtxOfTask(n) /\ from = "exit" /\ to = "closed"
         \/ c = CtxOfTask(n) /\ from = "exitParent" /\ to = "closedParent",
         WorkerMoves(n, from, to), ExportCurrent(c)
  PROVE  CallbackInv'
<1>1. /\ from \in WorkerLabels \ {"none"} /\ to \in WorkerLabels \ {"none"} /\ worker[n] = from
      /\ UNCHANGED <<contexts, spans, attached>>
      /\ tasks' = Append(tasks, [span |-> Current(c), state |-> "submitted"])
  BY DEF WorkerMoves, ExportCurrent, WorkerLabels
<1>2. /\ ProgramTypes' /\ MainInv' /\ OwnersInv'
      /\ main' = main /\ subject' = subject /\ worker'[n] = to
      /\ \A m \in CallbackNames : CtxOfCallback(m)' = CtxOfCallback(m) /\ CtxOfTask(m)' = CtxOfTask(m)
      /\ \A m \in CallbackNames : m # n =>
           worker'[m] = worker[m] /\ CallbackDepth(m)' = CallbackDepth(m)
  BY <1>1, WorkerFrame
<1>3. /\ CtxOfTask(n) # 0 /\ CtxOfCallback(n) # 0
      /\ main \notin {"create", "attach", "open"} /\ ~Submitting(n)
  BY <1>1, WorkerContexts
<1>4. CallbackDepth(n)' = CallbackDepth(n) /\ TaskDepth(n)' = TaskDepth(n)
  <2>1. ~(main \in {"attach", "open"} /\ subject = n) /\ ~(main = "enqueue" /\ subject = n)
    BY <1>3 DEF Submitting
  <2> QED BY <1>1, <1>2, <2>1 DEF CallbackDepth, TaskDepth
<1>5. /\ c \in 1..Len(contexts) /\ Current(c) # 0 /\ Current(c) \in 1..Len(spans)
      /\ from = "call" => Current(c) = Chain(c)[2]
      /\ from = "exit" => Current(c) = Chain(c)[2]
      /\ from = "exitParent" => Current(c) = Chain(c)[1]
  <2>1. CASE from = "call"
    <3>1. CallbackDepth(n) = 2 /\ c = CtxOfCallback(n)
      BY <1>1, <1>3, <2>1 DEF CallbackDepth
    <3> QED BY <1>3, <2>1, <3>1, ChainFacts
  <2>2. CASE from \in {"exit", "exitParent"}
    <3>1. /\ TaskDepth(n) = IF from = "exit" THEN 2 ELSE 1
          /\ c = CtxOfTask(n)
      BY <1>1, <2>2 DEF TaskDepth
    <3> QED BY <1>3, <2>2, <3>1, ChainFacts
  <2> QED BY <2>1, <2>2
<1>6. /\ DOMAIN tasks \subseteq DOMAIN tasks'
      /\ \A k \in DOMAIN tasks : tasks'[k].span = tasks[k].span
      /\ Exported(spans[Current(c)].id)'
  <2> PICK x \in 1..Len(spans) : x = Current(c)
    BY <1>5
  <2> PICK e : e = [span |-> x, state |-> "submitted"]
    OBVIOUS
  <2>1. e \in TaskType(Len(spans)) /\ tasks \in Seq(TaskType(Len(spans))) /\ e.span = x
    BY ExampleTyped DEF TaskType, TracingTypeOK
  <2>2. tasks' = Append(tasks, e)
    BY <1>1
  <2>3. /\ DOMAIN tasks = 1..Len(tasks) /\ DOMAIN tasks' = 1..(Len(tasks) + 1) /\ Len(tasks) \in Nat
        /\ \A k \in 1..Len(tasks) : tasks'[k] = tasks[k]
        /\ tasks'[Len(tasks) + 1] = e
    BY <2>1, <2>2, AppendFacts
  <2>4. Len(tasks) + 1 \in DOMAIN tasks'
    BY <2>3
  <2> PICK i : i = spans[x].id
    OBVIOUS
  <2>5. Exported(i)'
    BY <1>1, <2>1, <2>3, <2>4 DEF Exported
  <2>6. spans'[Current(c)'].id = i
    BY <1>1 DEF Current, Chain
  <2> QED BY <2>3, <2>5, <2>6 DEF Exported
<1>7. \A m \in CallbackNames : m # n => ChainsOf(m)' /\ CoveredOf(m)'
  <2>1. \A s \in DOMAIN spans' : s \in 1..Len(spans)
    BY <1>1, ExampleTyped
  <2> QED BY <1>1, <1>2, <1>6, <2>1, OthersKept
<1>8. ChainsOf(n)'
  BY <1>1, <1>2, <1>4, ChainsKept
<1>9. CoveredOf(n)'
  <2>1. \A i : Exported(i) => Exported(i)'
    BY <1>1, <1>6, ExportedKept, ExampleTyped
  <2>2. ASSUME NEW i, Pending(n, i) PROVE Exported(i)' \/ Pending(n, i)'
    <3> PICK cb : cb = CtxOfCallback(n)
      OBVIOUS
    <3> PICK tk : tk = CtxOfTask(n)
      OBVIOUS
    <3>1. /\ CtxOfCallback(n)' = cb /\ CtxOfTask(n)' = tk
          /\ \A d : Chain(d)' = Chain(d)
          /\ CallbackDepth(n)' = CallbackDepth(n) /\ worker'[n] = to /\ spans' = spans
      BY <1>1, <1>2, <1>4 DEF Chain
    <3>2. CASE /\ worker[n] \notin {"closedParent", "done"} /\ CallbackDepth(n) # 0
               /\ i = spans[Chain(cb)[1]].id
      <4>1. CASE from = "exitParent"
        <5>1. c = tk /\ Current(c) = Chain(tk)[1] /\ TaskDepth(n) = 1
          BY <1>1, <1>5, <4>1 DEF TaskDepth
        <5>2. spans[Chain(tk)[1]].id = spans[Chain(cb)[1]].id
          BY <1>3, <5>1, ChainNames
        <5>3. i = spans[Current(c)].id
          BY <3>2, <5>1, <5>2
        <5>4. spans'[Current(c)'].id = i
          BY <1>1, <5>3 DEF Current, Chain
        <5> QED BY <1>6, <5>4 DEF Exported
      <4>2. CASE from # "exitParent"
        <5>1. to \notin {"closedParent", "done"}
          BY <4>2
        <5>2. i = spans'[Chain(CtxOfCallback(n))'[1]].id
          BY <3>1, <3>2 DEF Chain
        <5> QED BY <3>1, <3>2, <5>1, <5>2 DEF Pending
      <4> QED BY <4>1, <4>2
    <3>3. CASE /\ worker[n] \in {"none", "enter", "call"} /\ CallbackDepth(n) = 2
               /\ i = spans[Chain(cb)[2]].id
      <4>1. c = cb /\ Current(c) = Chain(cb)[2]
        BY <1>1, <1>5, <3>3
      <4>2. spans'[Current(c)'].id = i
        BY <1>1, <3>3, <4>1 DEF Current, Chain
      <4> QED BY <1>6, <4>2 DEF Exported
    <3>4. CASE worker[n] \in {"call", "called", "exit"} /\ i = spans[Chain(tk)[2]].id
      <4>1. CASE from = "exit"
        <5>1. c = tk /\ Current(c) = Chain(tk)[2]
          BY <1>1, <1>5, <4>1
        <5>2. spans'[Current(c)'].id = i
          BY <1>1, <3>4, <5>1 DEF Current, Chain
        <5> QED BY <1>6, <5>2 DEF Exported
      <4>2. CASE from # "exit"
        <5>1. to \in {"call", "called", "exit"}
          BY <1>1, <3>4, <4>2
        <5>2. i = spans'[Chain(CtxOfTask(n))'[2]].id
          BY <3>1, <3>4 DEF Chain
        <5> QED BY <3>1, <5>1, <5>2 DEF Pending
      <4> QED BY <4>1, <4>2
    <3> QED BY <2>2, <3>2, <3>3, <3>4 DEF Pending
  <2>3. \A s \in DOMAIN spans' : s \in 1..Len(spans)
    BY <1>1, ExampleTyped
  <2> QED BY <1>1, <1>2, <2>1, <2>2, <2>3, CoveredKept
<1>10. LibraryInv'
  BY <1>5, ExportPreserves DEF CallbackInv
<1> QED BY <1>2, <1>7, <1>8, <1>9, <1>10 DEF CallbackInv, ChainsInv, CoveredInv

\* The second half: the context moves up from the span that was exported.
LEMMA MoveUpHalf ==
  ASSUME CallbackInv, NEW n \in CallbackNames, NEW from, NEW to, NEW c,
         \/ c = CtxOfCallback(n) /\ from = "called" /\ to = "exit"
         \/ c = CtxOfTask(n) /\ from = "closed" /\ to = "exitParent"
         \/ c = CtxOfTask(n) /\ from = "closedParent" /\ to = "done",
         WorkerMoves(n, from, to), MoveUp(c)
  PROVE  CallbackInv'
<1> PICK cb : cb = CtxOfCallback(n)
  OBVIOUS
<1> PICK tk : tk = CtxOfTask(n)
  OBVIOUS
<1>1. /\ from \in WorkerLabels \ {"none"} /\ to \in WorkerLabels \ {"none"} /\ worker[n] = from
      /\ UNCHANGED <<spans, tasks, attached>>
  BY DEF WorkerMoves, MoveUp, WorkerLabels
<1>2. /\ CtxOfTask(n) # 0 /\ CtxOfCallback(n) # 0
      /\ main \notin {"create", "attach", "open"} /\ ~Submitting(n)
  BY <1>1, WorkerContexts
<1>3. cb \in 1..Len(contexts) /\ tk \in 1..Len(contexts) /\ c \in 1..Len(contexts) /\ cb # tk
  <2>1. cb \in 1..Len(contexts) /\ tk \in 1..Len(contexts)
    BY <1>2, ChainFacts
  <2>2. cb # tk
    BY <1>2 DEF CallbackInv, OwnersInv
  <2> QED BY <2>1, <2>2
<1>4. /\ Len(contexts') = Len(contexts)
      /\ \A d \in 1..Len(contexts) : d # c => contexts'[d] = contexts[d]
      /\ \A d \in 1..Len(contexts) : contexts'[d].trace = contexts[d].trace
      /\ contexts'[c].chain = SubSeq(Chain(c), 1, Len(Chain(c)) - 1)
  BY <1>3, ExampleTyped, MoveUpEffect
<1>5. /\ ProgramTypes' /\ MainInv' /\ OwnersInv'
      /\ main' = main /\ subject' = subject /\ worker'[n] = to
      /\ \A m \in CallbackNames : CtxOfCallback(m)' = CtxOfCallback(m) /\ CtxOfTask(m)' = CtxOfTask(m)
      /\ \A m \in CallbackNames : m # n =>
           worker'[m] = worker[m] /\ CallbackDepth(m)' = CallbackDepth(m)
  BY <1>1, <1>4, WorkerFrame
<1>6. /\ Chain(cb) \in Seq(1..Len(spans)) /\ Len(Chain(cb)) = CallbackDepth(n)
      /\ \A k \in 1..CallbackDepth(n) : Chain(cb)[k] \in 1..Len(spans)
      /\ Chain(tk) \in Seq(1..Len(spans)) /\ Len(Chain(tk)) = TaskDepth(n)
      /\ \A k \in 1..TaskDepth(n) : Chain(tk)[k] \in 1..Len(spans)
      /\ CallbackChain(n, cb) /\ TaskChain(n, tk, cb)
  BY <1>2, ChainFacts DEF CallbackInv, ChainsInv, ChainsOf
<1>7. /\ CallbackDepth(n) = (IF from = "called" THEN 2 ELSE 1) /\ CallbackDepth(n)' = 1
      /\ TaskDepth(n) = (IF from = "closedParent" THEN 1 ELSE 2)
      /\ TaskDepth(n)' = (IF from = "called" THEN 2 ELSE IF from = "closed" THEN 1 ELSE 0)
  <2>1. ~(main \in {"attach", "open"} /\ subject = n) /\ ~(main = "enqueue" /\ subject = n)
    BY <1>2 DEF Submitting
  <2> QED BY <1>1, <1>5, <2>1 DEF CallbackDepth, TaskDepth
<1>8. \A d \in 1..Len(contexts) :
        Chain(d)' = IF d = c THEN SubSeq(Chain(c), 1, Len(Chain(c)) - 1) ELSE Chain(d)
  BY <1>4 DEF Chain
<1> PICK old : old = Chain(c)
  OBVIOUS
<1> PICK new : new = SubSeq(old, 1, Len(old) - 1)
  OBVIOUS
<1>9. /\ c = (IF from = "called" THEN cb ELSE tk)
       /\ Len(old) = (IF from = "closedParent" THEN 1 ELSE 2)
       /\ old \in Seq(1..Len(spans))
  BY <1>1, <1>6, <1>7
<1>10. /\ Len(new) = (IF from = "closedParent" THEN 0 ELSE 1)
       /\ from # "closedParent" => new[1] = old[1]
  BY <1>9
<1>11. Chain(cb)' = (IF from = "called" THEN new ELSE Chain(cb))
       /\ Chain(tk)' = (IF from = "called" THEN Chain(tk) ELSE new)
  BY <1>3, <1>8, <1>9
<1>12. /\ Len(Chain(cb)') = 1 /\ Chain(cb)'[1] = Chain(cb)[1]
       /\ Len(Chain(tk)') = TaskDepth(n)'
       /\ from # "closedParent" => Chain(tk)'[1] = Chain(tk)[1]
       /\ from = "called" => Chain(tk)'[2] = Chain(tk)[2]
  <2>1. Len(Chain(cb)') = 1 /\ Len(Chain(tk)') = TaskDepth(n)'
    BY <1>1, <1>6, <1>7, <1>10, <1>11
  <2>2. Chain(cb)'[1] = Chain(cb)[1]
    BY <1>9, <1>10, <1>11
  <2>3. from # "closedParent" => Chain(tk)'[1] = Chain(tk)[1]
    BY <1>9, <1>10, <1>11
  <2>4. from = "called" => Chain(tk)'[2] = Chain(tk)[2]
    BY <1>11
  <2> QED BY <2>1, <2>2, <2>3, <2>4
<1>13. ASSUME NEW m \in CallbackNames, m # n PROVE ChainsOf(m)' /\ CoveredOf(m)'
  <2>1. /\ CtxOfCallback(m) # 0 => CtxOfCallback(m) # cb /\ CtxOfCallback(m) # tk
        /\ CtxOfTask(m) # 0 => CtxOfTask(m) # cb /\ CtxOfTask(m) # tk
    BY <1>2, <1>13 DEF CallbackInv, OwnersInv
  <2>2. /\ CtxOfCallback(m) # 0 => contexts'[CtxOfCallback(m)] = contexts[CtxOfCallback(m)]
        /\ CtxOfTask(m) # 0 => contexts'[CtxOfTask(m)] = contexts[CtxOfTask(m)]
    BY <1>4, <2>1, ChainFacts
  <2>3. \A s \in DOMAIN spans' : s \in 1..Len(spans)
    BY <1>1, ExampleTyped
  <2> QED BY <1>1, <1>5, <1>13, <2>2, <2>3, OthersKept
<1>14. ChainsOf(n)'
  <2>1. /\ spans[Chain(cb)[1]].name = CallbackSpan
        /\ spans[Chain(tk)[1]].name = CallbackSpan
        /\ spans[Chain(tk)[1]].id = spans[Chain(cb)[1]].id
        /\ TaskDepth(n) = 2 => spans[Chain(tk)[2]].name = ExecutionSpan
    BY <1>2, <1>7, ChainNames
  <2>2. contexts'[cb].trace = cb /\ contexts'[tk].trace = cb /\ cb # 0
    BY <1>2, <1>3, <1>4, ChainFacts
  <2>3. CallbackChain(n, cb)'
    <3>1. CallbackDepth(n)' # 2 /\ Len(Chain(cb)') = CallbackDepth(n)'
      BY <1>7, <1>12
    <3>2. spans'[Chain(cb)'[1]].name = CallbackSpan
      BY <1>1, <1>12, <2>1
    <3> QED BY <2>2, <3>1, <3>2 DEF CallbackChain
  <2>4. TaskChain(n, tk, cb)'
    <3>1. /\ TaskDepth(n)' # 0 => from # "closedParent"
          /\ TaskDepth(n)' = 2 => from = "called" /\ TaskDepth(n) = 2
      BY <1>1, <1>7
    <3>2. from # "closedParent" => /\ spans'[Chain(tk)'[1]].name = CallbackSpan
                                   /\ spans'[Chain(tk)'[1]].id = spans'[Chain(cb)'[1]].id
      BY <1>1, <1>12, <2>1
    <3>3. from = "called" => spans'[Chain(tk)'[2]].name = ExecutionSpan
      <4>1. from = "called" => TaskDepth(n) = 2
        BY <1>7
      <4> QED BY <1>1, <1>12, <2>1, <4>1
    <3> QED BY <1>12, <2>2, <3>1, <3>2, <3>3 DEF TaskChain
  <2>5. CtxOfCallback(n)' = cb /\ CtxOfTask(n)' = tk
    BY <1>5
  <2> QED BY <2>3, <2>4, <2>5 DEF ChainsOf, CallbackChain, TaskChain, Chain
<1>15. CoveredOf(n)'
  <2>1. \A i : Exported(i) => Exported(i)'
    BY <1>1, ExportedKept, ExampleTyped
  <2>2. ASSUME NEW i, Pending(n, i) PROVE Pending(n, i)'
    <3>1. CtxOfCallback(n)' = cb /\ CtxOfTask(n)' = tk
      BY <1>5
    <3>2. CASE worker[n] \notin {"closedParent", "done"} /\ i = spans[Chain(cb)[1]].id
      <4>1. to \notin {"closedParent", "done"} /\ i = spans'[Chain(cb)'[1]].id
        BY <1>1, <1>12, <3>2
      <4>2. i = spans'[Chain(CtxOfCallback(n))'[1]].id
        BY <3>1, <4>1 DEF Chain
      <4> QED BY <1>5, <1>7, <4>1, <4>2 DEF Pending
    <3>3. CASE worker[n] \in {"call", "called", "exit"} /\ i = spans[Chain(tk)[2]].id
      <4>1. from = "called"
        BY <1>1, <3>3
      <4>2. i = spans'[Chain(tk)'[2]].id
        BY <1>1, <1>12, <3>3, <4>1
      <4>3. i = spans'[Chain(CtxOfTask(n))'[2]].id
        BY <3>1, <4>2 DEF Chain
      <4> QED BY <1>5, <4>1, <4>3 DEF Pending
    <3>4. worker[n] \notin {"none", "enter", "call"}
      BY <1>1
    <3> QED BY <2>2, <3>2, <3>3, <3>4 DEF Pending
  <2>3. \A s \in DOMAIN spans' : s \in 1..Len(spans)
    BY <1>1, ExampleTyped
  <2> QED BY <1>1, <1>5, <2>1, <2>2, <2>3, CoveredKept
<1>16. LibraryInv'
  BY <1>3, MoveUpPreserves DEF CallbackInv
<1> QED BY <1>5, <1>13, <1>14, <1>15, <1>16 DEF CallbackInv, ChainsInv, CoveredInv

\* What opening a span in a context does to the contexts and the spans.
LEMMA OpenedChain ==
  ASSUME CallbackInv, NEW c \in 1..Len(contexts), NEW name \in SpanNames,
         OpenNestedSpan(c, name, "callback")
  PROVE  /\ LibraryInv' /\ UNCHANGED <<attached, tasks>>
         /\ Len(contexts') = Len(contexts)
         /\ \A d \in 1..Len(contexts) : d # c => contexts'[d] = contexts[d]
         /\ contexts'[c].trace = contexts[c].trace
         /\ Len(contexts'[c].chain) = Len(Chain(c)) + 1
         /\ \A k \in 1..Len(Chain(c)) : contexts'[c].chain[k] = Chain(c)[k]
         /\ contexts'[c].chain[Len(Chain(c)) + 1] = Len(spans) + 1
         /\ Len(spans) \in Nat /\ DOMAIN spans' = 1..(Len(spans) + 1)
         /\ \A s \in DOMAIN spans' : s \in 1..Len(spans) \/ s = Len(spans) + 1
         /\ \A s \in 1..Len(spans) : spans'[s] = spans[s]
         /\ spans'[Len(spans) + 1].id = Len(spans) + 1
         /\ spans'[Len(spans) + 1].name = name
         /\ spans'[Len(spans) + 1].trace = contexts[c].trace
<1>1. TracingTypeOK /\ LibraryInv /\ "callback" \in Services
  BY ExampleTyped, CallbackAssumption DEF CallbackInv
<1>2. LibraryInv'
  BY <1>1, OpenPreserves
<1>3. UNCHANGED <<attached, tasks>>
  BY DEF OpenNestedSpan
<1>4. /\ Len(contexts') = Len(contexts)
      /\ \A d \in 1..Len(contexts) : d # c => contexts'[d] = contexts[d]
      /\ contexts'[c].trace = contexts[c].trace
      /\ contexts'[c].chain = Append(Chain(c), Len(spans) + 1)
  BY <1>1, OpenEffect
<1>5. /\ Len(spans) \in Nat /\ DOMAIN spans' = 1..(Len(spans) + 1)
      /\ \A s \in 1..Len(spans) : spans'[s] = spans[s]
      /\ spans'[Len(spans) + 1] = NewSpan(c, name)
  BY <1>1, OpenedSpan, SpansTyped
<1>6. /\ NewSpan(c, name).id = Len(spans) + 1
      /\ NewSpan(c, name).name = name
      /\ NewSpan(c, name).trace = contexts[c].trace
  BY DEF NewSpan
<1>7. /\ Len(contexts'[c].chain) = Len(Chain(c)) + 1
      /\ \A k \in 1..Len(Chain(c)) : contexts'[c].chain[k] = Chain(c)[k]
      /\ contexts'[c].chain[Len(Chain(c)) + 1] = Len(spans) + 1
  <2> PICK old : old = Chain(c)
    OBVIOUS
  <2> PICK v : v = Len(spans) + 1
    OBVIOUS
  <2>1. old \in Seq(Nat) /\ v \in Nat
    <3>1. old \in Seq(1..Len(spans)) /\ 1..Len(spans) \subseteq Nat
      BY <1>1, <1>5, ContextsTyped
    <3> QED BY <1>5, <3>1, SeqMonotone
  <2>2. /\ Len(Append(old, v)) = Len(old) + 1
        /\ \A k \in 1..Len(old) : Append(old, v)[k] = old[k]
        /\ Append(old, v)[Len(old) + 1] = v
    BY <2>1, AppendFacts
  <2>3. contexts'[c].chain = Append(old, v)
    BY <1>4
  <2> QED BY <2>2, <2>3
<1>8. \A s \in DOMAIN spans' : s \in 1..Len(spans) \/ s = Len(spans) + 1
  BY <1>5
<1> QED BY <1>2, <1>3, <1>4, <1>5, <1>6, <1>7, <1>8

\* No context, and so no trace, of one callback or its task is one of another's.
LEMMA TraceOfOne ==
  ASSUME CallbackInv, NEW m \in CallbackNames, NEW n \in CallbackNames, m # n
  PROVE  /\ CtxOfCallback(n) # 0 => CtxOfCallback(n) # CtxOfCallback(m)
         /\ CtxOfCallback(m) # 0 => /\ CtxOfCallback(m) # CtxOfCallback(n)
                                    /\ CtxOfCallback(m) # CtxOfTask(n)
         /\ CtxOfTask(m) # 0 => /\ CtxOfTask(m) # CtxOfTask(n)
                                /\ CtxOfTask(m) # CtxOfCallback(n)
<1>1. CtxOfTask(m) # 0 => CtxOfTask(m) # CtxOfCallback(n)
  BY DEF CallbackInv, OwnersInv
<1>2. /\ CtxOfCallback(n) # 0 => CtxOfCallback(n) # CtxOfCallback(m)
      /\ CtxOfCallback(m) # 0 => CtxOfCallback(m) # CtxOfCallback(n)
      /\ CtxOfCallback(m) # 0 => CtxOfCallback(m) # CtxOfTask(n)
      /\ CtxOfTask(m) # 0 => CtxOfTask(m) # CtxOfTask(n)
  BY DEF CallbackInv, OwnersInv
<1> QED BY <1>1, <1>2

\* A task's thread opens its span above the copy of the callback's.
LEMMA EnterRunStep ==
  ASSUME CallbackInv, NEW n \in CallbackNames, EnterRun(n)
  PROVE  CallbackInv'
<1> PICK cb : cb = CtxOfCallback(n)
  OBVIOUS
<1> PICK tk : tk = CtxOfTask(n)
  OBVIOUS
<1> PICK v : v = Len(spans) + 1
  OBVIOUS
<1>1. WorkerMoves(n, "enter", "call") /\ worker[n] = "enter"
  BY DEF EnterRun, WorkerMoves
<1>2. /\ tk = attached[Task(n)] /\ tk # 0 /\ cb # 0
      /\ main \notin {"create", "attach", "open"} /\ ~Submitting(n)
  BY <1>1, WorkerContexts
<1>3. /\ cb \in 1..Len(contexts) /\ tk \in 1..Len(contexts) /\ cb # tk
      /\ contexts[tk].trace = cb /\ contexts[cb].trace = cb
      /\ Len(Chain(tk)) = TaskDepth(n) /\ Len(Chain(cb)) = CallbackDepth(n)
      /\ \A k \in 1..CallbackDepth(n) : Chain(cb)[k] \in 1..Len(spans)
      /\ \A k \in 1..TaskDepth(n) : Chain(tk)[k] \in 1..Len(spans)
  <2>1. cb # tk
    BY <1>2 DEF CallbackInv, OwnersInv
  <2> QED BY <1>2, <2>1, ChainFacts
<1>4. /\ LibraryInv' /\ UNCHANGED <<attached, tasks>>
      /\ Len(contexts') = Len(contexts)
      /\ \A d \in 1..Len(contexts) : d # tk => contexts'[d] = contexts[d]
      /\ contexts'[tk].trace = cb
      /\ Len(contexts'[tk].chain) = Len(Chain(tk)) + 1
      /\ \A k \in 1..Len(Chain(tk)) : contexts'[tk].chain[k] = Chain(tk)[k]
      /\ contexts'[tk].chain[Len(Chain(tk)) + 1] = v
      /\ \A s \in DOMAIN spans' : s \in 1..Len(spans) \/ s = v
      /\ \A s \in 1..Len(spans) : spans'[s] = spans[s]
      /\ spans'[v].id = v /\ spans'[v].name = ExecutionSpan /\ spans'[v].trace = cb
  <2>1. OpenNestedSpan(tk, ExecutionSpan, "callback")
    BY <1>2 DEF EnterRun, ExecutionSpan
  <2>2. ExecutionSpan \in SpanNames
    BY CallbackAssumption DEF ExecutionSpan
  <2> QED BY <1>3, <2>1, <2>2, OpenedChain
<1>5. /\ ProgramTypes' /\ MainInv' /\ OwnersInv'
      /\ main' = main /\ subject' = subject /\ worker'[n] = "call"
      /\ \A m \in CallbackNames : CtxOfCallback(m)' = CtxOfCallback(m) /\ CtxOfTask(m)' = CtxOfTask(m)
      /\ \A m \in CallbackNames : m # n =>
           worker'[m] = worker[m] /\ CallbackDepth(m)' = CallbackDepth(m)
  <2>1. "enter" \in WorkerLabels \ {"none"} /\ "call" \in WorkerLabels \ {"none"}
    BY DEF WorkerLabels
  <2> QED BY <1>1, <1>4, <2>1, WorkerFrame
<1>6. CallbackDepth(n) = 2 /\ CallbackDepth(n)' = 2 /\ TaskDepth(n) = 1 /\ TaskDepth(n)' = 2
  <2>1. ~(main \in {"attach", "open"} /\ subject = n)
    BY <1>2
  <2> QED BY <1>1, <1>5, <2>1 DEF CallbackDepth, TaskDepth
<1>7. /\ Chain(cb)' = Chain(cb)
      /\ Len(Chain(tk)') = 2 /\ Chain(tk)'[1] = Chain(tk)[1] /\ Chain(tk)'[2] = v
      /\ Chain(cb)[1] \in 1..Len(spans) /\ Chain(cb)[2] \in 1..Len(spans)
      /\ Chain(tk)[1] \in 1..Len(spans)
  <2>1. Len(Chain(tk)) = 1
    BY <1>3, <1>6
  <2>2. /\ Len(contexts'[tk].chain) = 2 /\ contexts'[tk].chain[1] = Chain(tk)[1]
        /\ contexts'[tk].chain[2] = v
    <3>1. 1 \in 1..Len(Chain(tk)) /\ Len(Chain(tk)) + 1 = 2
      BY <2>1
    <3> QED BY <1>4, <3>1
  <2>3. Chain(cb)' = Chain(cb) /\ Chain(tk)' = contexts'[tk].chain
    BY <1>3, <1>4 DEF Chain
  <2>4. /\ Chain(cb)[1] \in 1..Len(spans) /\ Chain(cb)[2] \in 1..Len(spans)
        /\ Chain(tk)[1] \in 1..Len(spans)
    BY <1>3, <1>6
  <2> QED BY <2>2, <2>3, <2>4
<1>8. CtxOfCallback(n)' = cb /\ CtxOfTask(n)' = tk
  BY <1>5
<1>9. ASSUME NEW m \in CallbackNames, m # n PROVE ChainsOf(m)' /\ CoveredOf(m)'
  <2>1. /\ CtxOfCallback(m) # 0 => CtxOfCallback(m) # tk
        /\ CtxOfTask(m) # 0 => CtxOfTask(m) # tk
        /\ CtxOfCallback(m) # cb
    BY <1>2, <1>9, TraceOfOne
  <2>2. /\ CtxOfCallback(m) # 0 => contexts'[CtxOfCallback(m)] = contexts[CtxOfCallback(m)]
        /\ CtxOfTask(m) # 0 => contexts'[CtxOfTask(m)] = contexts[CtxOfTask(m)]
    BY <1>4, <2>1, ChainFacts
  <2>3. \A s \in DOMAIN spans' : s \in 1..Len(spans) \/ spans'[s].trace # CtxOfCallback(m)
    BY <1>4, <2>1
  <2> QED BY <1>4, <1>5, <1>9, <2>2, <2>3, OthersKept
<1>10. ChainsOf(n)'
  <2>1. /\ spans[Chain(cb)[1]].name = CallbackSpan
        /\ spans[Chain(cb)[2]].name = SubmissionSpan
        /\ spans[Chain(tk)[1]].name = CallbackSpan
        /\ spans[Chain(tk)[1]].id = spans[Chain(cb)[1]].id
    BY <1>2, <1>6, ChainNames
  <2>2. CallbackChain(n, cb)'
    <3>1. contexts'[cb].trace = cb /\ Len(Chain(cb)') = CallbackDepth(n)'
      BY <1>3, <1>4, <1>6, <1>7
    <3>2. /\ spans'[Chain(cb)'[1]].name = CallbackSpan
          /\ spans'[Chain(cb)'[2]].name = SubmissionSpan
      BY <1>4, <1>7, <2>1
    <3> QED BY <3>1, <3>2 DEF CallbackChain
  <2>3. TaskChain(n, tk, cb)'
    <3>1. cb # 0 /\ contexts'[tk].trace = cb /\ Len(Chain(tk)') = TaskDepth(n)'
      BY <1>2, <1>4, <1>6, <1>7
    <3>2. /\ spans'[Chain(tk)'[1]].name = CallbackSpan
          /\ spans'[Chain(tk)'[1]].id = spans'[Chain(cb)'[1]].id
          /\ spans'[Chain(tk)'[2]].name = ExecutionSpan
      BY <1>4, <1>7, <2>1
    <3> QED BY <3>1, <3>2 DEF TaskChain
  <2> QED BY <1>8, <2>2, <2>3 DEF ChainsOf, CallbackChain, TaskChain, Chain
<1>11. CoveredOf(n)'
  <2>1. \A i : Exported(i) => Exported(i)'
    BY <1>4, ExportedKept, ExampleTyped
  <2>2. ASSUME NEW i, Pending(n, i) PROVE Pending(n, i)'
    <3>1. CASE i = spans[Chain(cb)[1]].id
      <4>1. i = spans'[Chain(CtxOfCallback(n))'[1]].id
        <5>1. i = spans'[Chain(cb)'[1]].id
          BY <1>4, <1>7, <3>1
        <5> QED BY <1>8, <5>1 DEF Chain
      <4>2. CallbackDepth(n)' # 0
        BY <1>6
      <4> QED BY <1>5, <4>1, <4>2 DEF Pending
    <3>2. CASE i = spans[Chain(cb)[2]].id
      <4>1. i = spans'[Chain(CtxOfCallback(n))'[2]].id
        <5>1. i = spans'[Chain(cb)'[2]].id
          BY <1>4, <1>7, <3>2
        <5> QED BY <1>8, <5>1 DEF Chain
      <4> QED BY <1>5, <1>6, <4>1 DEF Pending
    <3> QED BY <1>1, <2>2, <3>1, <3>2 DEF Pending
  <2>3. Pending(n, v)'
    <3>1. v = spans'[Chain(tk)'[2]].id
      BY <1>4, <1>7
    <3>2. v = spans'[Chain(CtxOfTask(n))'[2]].id
      BY <1>8, <3>1 DEF Chain
    <3> QED BY <1>5, <3>2 DEF Pending
  <2>4. \A s \in DOMAIN spans' : \/ s \in 1..Len(spans)
                                 \/ \E i : spans'[s].id = i /\ (Exported(i)' \/ Pending(n, i)')
    BY <1>4, <2>3
  <2> QED BY <1>4, <1>5, <2>1, <2>2, <2>4, CoveredKept
<1> QED BY <1>4, <1>5, <1>9, <1>10, <1>11 DEF CallbackInv, ChainsInv, CoveredInv

\* No advice of a worker finds its context empty.
LEMMA SomethingOpen ==
  ASSUME CallbackInv, NEW n \in CallbackNames
  PROVE  /\ worker[n] = "call" => Current(attached[Callback(n)]) # 0
         /\ worker[n] \in {"exit", "exitParent"} => Current(attached[Task(n)]) # 0
<1>1. CASE worker[n] = "call"
  <2>1. /\ CtxOfCallback(n) = attached[Callback(n)] /\ CtxOfCallback(n) # 0
        /\ ~(main \in {"attach", "open"} /\ subject = n)
    BY <1>1, WorkerContexts
  <2>2. CallbackDepth(n) = 2
    BY <1>1, <2>1 DEF CallbackDepth
  <2>3. CallbackDepth(n) # 0
    BY <2>2
  <2> QED BY <1>1, <2>1, <2>3, ChainFacts
<1>2. CASE worker[n] \in {"exit", "exitParent"}
  <2>1. CtxOfTask(n) = attached[Task(n)] /\ CtxOfTask(n) # 0
    BY <1>2, WorkerContexts
  <2>2. TaskDepth(n) # 0
    BY <1>2 DEF TaskDepth
  <2> QED BY <1>2, <2>1, <2>2, ChainFacts
<1> QED BY <1>1, <1>2

\* A step of a worker.
LEMMA WorkerPreserves ==
  ASSUME CallbackInv, NEW n \in CallbackNames, WorkerStep(n)
  PROVE  CallbackInv'
<1>1. CASE EnterRun(n)
  BY <1>1, EnterRunStep
<1>2. ASSUME NEW h, NEW at, NEW half, NEW next, NEW c, c = attached[h],
             ClosesIn(n, h, at, half, next),
             worker[n] = at => Current(c) # 0
      PROVE  \/ WorkerMoves(n, at, half) /\ ExportCurrent(c)
             \/ WorkerMoves(n, half, next) /\ MoveUp(c)
  <2>1. CASE /\ WorkerMoves(n, at, IF Current(c) = 0 THEN "thrown" ELSE half)
             /\ IF Current(c) = 0 THEN UNCHANGED tracing ELSE ExportCurrent(c)
    <3>1. worker[n] = at
      BY <2>1 DEF WorkerMoves
    <3> QED BY <1>2, <2>1, <3>1
  <2>2. CASE WorkerMoves(n, half, next) /\ MoveUp(c)
    BY <2>2
  <2> QED BY <1>2, <2>1, <2>2 DEF ClosesIn
<1>3. ASSUME NEW at, NEW half, WorkerMoves(n, at, half) PROVE worker[n] = at
  BY <1>3 DEF WorkerMoves
<1>4. CASE CallbackExit(n)
  <2> PICK c : c = attached[Callback(n)]
    OBVIOUS
  <2>1. ClosesIn(n, Callback(n), "call", "called", "exit")
    BY <1>4 DEF CallbackExit
  <2>2. \/ WorkerMoves(n, "call", "called") /\ ExportCurrent(c)
        \/ WorkerMoves(n, "called", "exit") /\ MoveUp(c)
    BY <1>2, <2>1, SomethingOpen
  <2>3. c = CtxOfCallback(n)
    BY <1>3, <2>2, WorkerContexts
  <2> QED BY <2>2, <2>3, ExportHalf, MoveUpHalf
<1>5. CASE RunExit(n)
  <2> PICK c : c = attached[Task(n)]
    OBVIOUS
  <2>1. \/ ClosesIn(n, Task(n), "exit", "closed", "exitParent")
        \/ ClosesIn(n, Task(n), "exitParent", "closedParent", "done")
    BY <1>5 DEF RunExit
  <2>2. \/ WorkerMoves(n, "exit", "closed") /\ ExportCurrent(c)
        \/ WorkerMoves(n, "closed", "exitParent") /\ MoveUp(c)
        \/ WorkerMoves(n, "exitParent", "closedParent") /\ ExportCurrent(c)
        \/ WorkerMoves(n, "closedParent", "done") /\ MoveUp(c)
    BY <1>2, <2>1, SomethingOpen
  <2>3. c = CtxOfTask(n)
    BY <1>3, <2>2, WorkerContexts
  <2> QED BY <2>2, <2>3, ExportHalf, MoveUpHalf
<1> QED BY <1>1, <1>4, <1>5 DEF WorkerStep

(* Main *)

\* A step that moves no callback and no task to another context, and changes no context, says
\* nothing new.
LEMMA SameObjects ==
  ASSUME CallbackInv, UNCHANGED <<contexts, spans, worker>>,
         DOMAIN tasks \subseteq DOMAIN tasks', \A k \in DOMAIN tasks : tasks'[k].span = tasks[k].span,
         \A n \in CallbackNames : /\ CtxOfCallback(n)' = CtxOfCallback(n)
                                  /\ CtxOfTask(n)' = CtxOfTask(n)
                                  /\ CallbackDepth(n)' = CallbackDepth(n)
  PROVE  OwnersInv' /\ ChainsInv' /\ CoveredInv'
<1>1. OwnersInv'
  BY DEF CallbackInv, OwnersInv
<1>2. \A s \in DOMAIN spans' : s \in 1..Len(spans)
  BY ExampleTyped
<1>3. \A n \in CallbackNames : ChainsOf(n)' /\ CoveredOf(n)'
  BY <1>2, OthersKept
<1> QED BY <1>1, <1>3 DEF ChainsInv, CoveredInv

\* While Main makes the callbacks no task has run; while it submits a task that one has not.
LEMMA NotYetRunning ==
  ASSUME CallbackInv, NEW n \in CallbackNames
  PROVE  /\ main \in {"create", "attach", "open"} => worker[n] = "none" /\ CtxOfTask(n) = 0
         /\ Submitting(n) => worker[n] = "none"
         /\ attached[Task(n)] = 0 => worker[n] = "none"
<1>1. worker[n] # "none" => attached[Task(n)] # 0 /\ ~Submitting(n)
  BY DEF CallbackInv, MainInv
<1>2. main \in {"create", "attach", "open"} => attached[Task(n)] = 0
  BY DEF CallbackInv, MainInv
<1> QED BY <1>1, <1>2 DEF CtxOfTask

\* Main has made a callback: a context without spans, and a trace of its own.
LEMMA CreateCallbackStep ==
  ASSUME CallbackInv, NEW n \in CallbackNames, CreateCallback(n)
  PROVE  CallbackInv'
<1> PICK new : new = Len(contexts) + 1
  OBVIOUS
<1>1. /\ main = "create" /\ main' = "attach" /\ subject' = n /\ tc' = new /\ worker' = worker
      /\ attached[Callback(n)] = 0 /\ UNCHANGED <<spans, attached, tasks>> /\ Create
  BY DEF CreateCallback, MainMoves, Create, NewContext
<1>2. /\ Len(contexts') = new
      /\ \A d \in 1..Len(contexts) : contexts'[d] = contexts[d]
      /\ contexts'[new].trace = new /\ contexts'[new].chain = <<>>
      /\ Len(contexts) \in Nat
  BY <1>1, ExampleTyped, CreateEffect
<1>3. LibraryInv'
  BY <1>1, CreatePreserves DEF CallbackInv
<1>4. ProgramTypes'
  <2>1. tc' \in 0..Len(contexts')
    BY <1>1, <1>2
  <2>2. main' \in MainLabels
    BY <1>1 DEF MainLabels
  <2> QED BY <1>1, <2>1, <2>2 DEF CallbackInv, ProgramTypes
<1>5. \A m \in CallbackNames : worker[m] = "none" /\ attached[Task(m)] = 0 /\ CtxOfTask(m) = 0
  BY <1>1, NotYetRunning DEF CtxOfTask
<1>6. MainInv'
  <2>1. tc' # 0
    BY <1>1, <1>2
  <2> QED BY <1>1, <1>5, <2>1 DEF MainInv
<1>7. /\ CtxOfCallback(n)' = new /\ \A m \in CallbackNames : CtxOfTask(m)' = 0
      /\ \A m \in CallbackNames : m # n => CtxOfCallback(m)' = CtxOfCallback(m)
  BY <1>1, <1>5 DEF CtxOfCallback, CtxOfTask
<1>8. \A m \in CallbackNames : CtxOfCallback(m) # new
  BY <1>2, ExampleTyped
<1>9. OwnersInv'
  <2>1. \A m, k \in CallbackNames :
          CtxOfCallback(m) # 0 /\ CtxOfCallback(m) = CtxOfCallback(k) => m = k
    BY DEF CallbackInv, OwnersInv
  <2>2. \A m, k \in CallbackNames :
          CtxOfCallback(m)' # 0 /\ CtxOfCallback(m)' = CtxOfCallback(k)' => m = k
    BY <1>7, <1>8, <2>1
  <2> QED BY <1>7, <2>2 DEF OwnersInv
<1>10. ASSUME NEW m \in CallbackNames, m # n PROVE ChainsOf(m)' /\ CoveredOf(m)'
  <2>1. CallbackDepth(m)' = CallbackDepth(m) /\ CtxOfTask(m)' = CtxOfTask(m)
    BY <1>1, <1>5, <1>7, <1>10 DEF CallbackDepth
  <2>2. CtxOfCallback(m) # 0 => contexts'[CtxOfCallback(m)] = contexts[CtxOfCallback(m)]
    BY <1>2, ChainFacts
  <2>3. \A s \in DOMAIN spans' : s \in 1..Len(spans)
    BY <1>1, ExampleTyped
  <2> QED BY <1>1, <1>5, <1>7, <1>10, <2>1, <2>2, <2>3, OthersKept
<1>11. ChainsOf(n)'
  <2>1. CallbackDepth(n)' = 0
    BY <1>1 DEF CallbackDepth
  <2>2. contexts'[new].trace = new /\ Len(Chain(new)') = 0
    BY <1>2 DEF Chain
  <2>3. CallbackChain(n, new)'
    BY <2>1, <2>2 DEF CallbackChain
  <2> QED BY <1>7, <2>3 DEF ChainsOf, CallbackChain, Chain
<1>12. CoveredOf(n)'
  <2>1. \A s \in DOMAIN spans' : spans'[s].trace # new
    <3> SUFFICES ASSUME NEW s \in DOMAIN spans' PROVE spans'[s].trace # new
      OBVIOUS
    <3>1. spans[s].trace \in 1..Len(contexts)
      BY <1>1, ExampleTyped, SpansTyped
    <3> QED BY <1>1, <1>2, <3>1
  <2> QED BY <1>7, <2>1 DEF CoveredOf
<1>13. ChainsInv' /\ CoveredInv'
  BY <1>10, <1>11, <1>12 DEF ChainsInv, CoveredInv
<1> QED BY <1>3, <1>4, <1>6, <1>9, <1>13 DEF CallbackInv

\* The context Main made goes to the callback.
LEMMA AttachCallbackStep ==
  ASSUME CallbackInv, AttachCallback
  PROVE  CallbackInv'
<1>1. /\ main = "attach" /\ main' = "open" /\ AttachTo(Callback(subject), tc)
      /\ UNCHANGED <<subject, tc, worker, contexts, spans, tasks>>
      /\ attached' = [attached EXCEPT ![Callback(subject)] = tc]
  BY DEF AttachCallback, MainMoves, AttachTo
<1>2. /\ subject \in CallbackNames /\ tc \in 0..Len(contexts)
      /\ attached \in [Holders -> 0..Len(contexts)]
  BY ExampleTyped
<1>3. /\ attached'[Callback(subject)] = tc
      /\ \A n \in CallbackNames : n # subject => attached'[Callback(n)] = attached[Callback(n)]
      /\ \A n \in CallbackNames : attached'[Task(n)] = attached[Task(n)]
      /\ DOMAIN attached' = Holders
  BY <1>1, <1>2, HolderFacts
<1>4. LibraryInv'
  BY <1>1, <1>2, AttachPreserves DEF CallbackInv
<1>5. ProgramTypes'
  <2>1. main' \in MainLabels
    BY <1>1 DEF MainLabels
  <2> QED BY <1>1, <1>3, <2>1 DEF CallbackInv, ProgramTypes
<1>6. /\ tc # 0
      /\ \A n \in CallbackNames : worker[n] = "none" /\ attached[Task(n)] = 0
  BY <1>1, NotYetRunning DEF CallbackInv, MainInv
<1>7. MainInv'
  BY <1>1, <1>3, <1>6 DEF MainInv
<1>8. \A n \in CallbackNames : /\ CtxOfCallback(n)' = CtxOfCallback(n)
                               /\ CtxOfTask(n)' = CtxOfTask(n)
                               /\ CallbackDepth(n)' = CallbackDepth(n)
  BY <1>1, <1>3 DEF CtxOfCallback, CtxOfTask, CallbackDepth
<1>9. OwnersInv' /\ ChainsInv' /\ CoveredInv'
  BY <1>1, <1>8, SameObjects
<1> QED BY <1>4, <1>5, <1>7, <1>9 DEF CallbackInv

\* Main opens a span in the context of a callback whose task has not run: the callback's own, or

\* the submission span above it.
LEMMA OpenInCallback ==
  ASSUME CallbackInv, NEW n \in CallbackNames, NEW name \in SpanNames,
         worker' = worker, worker[n] = "none",
         NEW c, c = CtxOfCallback(n), c # 0, OpenNestedSpan(c, name, "callback"),
         NEW l \in {0, 1}, CallbackDepth(n) = l, CallbackDepth(n)' = l + 1,
         l = 0 => name = CallbackSpan, l = 1 => name = SubmissionSpan,
         \A m \in CallbackNames :
           /\ CtxOfCallback(m)' = CtxOfCallback(m) /\ CtxOfTask(m)' = CtxOfTask(m)
           /\ m # n => CallbackDepth(m)' = CallbackDepth(m)
  PROVE  LibraryInv' /\ OwnersInv' /\ ChainsInv' /\ CoveredInv'
<1> PICK cb : cb = CtxOfCallback(n)
  OBVIOUS
<1> PICK tk : tk = CtxOfTask(n)
  OBVIOUS
<1> PICK v : v = Len(spans) + 1
  OBVIOUS
<1>1. /\ cb \in 1..Len(contexts) /\ cb # tk /\ contexts[cb].trace = cb /\ cb # 0
      /\ Len(Chain(cb)) = l /\ \A k \in 1..l : Chain(cb)[k] \in 1..Len(spans)
  <2>1. cb # tk
    BY DEF CallbackInv, OwnersInv
  <2> QED BY <2>1, ChainFacts
<1>2. /\ LibraryInv' /\ UNCHANGED <<attached, tasks>>
      /\ Len(contexts') = Len(contexts)
      /\ \A d \in 1..Len(contexts) : d # cb => contexts'[d] = contexts[d]
      /\ contexts'[cb].trace = cb
      /\ Len(contexts'[cb].chain) = l + 1
      /\ \A k \in 1..l : contexts'[cb].chain[k] = Chain(cb)[k]
      /\ contexts'[cb].chain[l + 1] = v
      /\ \A s \in DOMAIN spans' : s \in 1..Len(spans) \/ s = v
      /\ \A s \in 1..Len(spans) : spans'[s] = spans[s]
      /\ spans'[v].id = v /\ spans'[v].name = name /\ spans'[v].trace = cb
  BY <1>1, OpenedChain
<1>3. CtxOfCallback(n)' = cb /\ CtxOfTask(n)' = tk
  OBVIOUS
<1>4. /\ Chain(cb)' = contexts'[cb].chain /\ Len(Chain(cb)') = CallbackDepth(n)'
      /\ l = 0 => Chain(cb)'[1] = v
      /\ l = 1 => Chain(cb)'[1] = Chain(cb)[1] /\ Chain(cb)'[2] = v /\ Chain(cb)[1] \in 1..Len(spans)
  <2>1. Chain(cb)' = contexts'[cb].chain
    BY DEF Chain
  <2>2. Len(contexts'[cb].chain) = CallbackDepth(n)'
    BY <1>2
  <2>3. l = 0 => contexts'[cb].chain[1] = v
    BY <1>2
  <2>4. ASSUME l = 1
        PROVE  /\ contexts'[cb].chain[1] = Chain(cb)[1] /\ contexts'[cb].chain[2] = v
               /\ Chain(cb)[1] \in 1..Len(spans)
    <3>1. 1 \in 1..l /\ l + 1 = 2
      BY <2>4
    <3> QED BY <1>1, <1>2, <3>1
  <2> QED BY <2>1, <2>2, <2>3, <2>4
<1>5. OwnersInv'
  BY DEF CallbackInv, OwnersInv
<1>6. ASSUME NEW m \in CallbackNames, m # n PROVE ChainsOf(m)' /\ CoveredOf(m)'
  <2>1. /\ CtxOfCallback(m) # cb
        /\ CtxOfTask(m) # 0 => CtxOfTask(m) # cb
    BY <1>1, <1>6, TraceOfOne
  <2>2. /\ CtxOfCallback(m) # 0 => contexts'[CtxOfCallback(m)] = contexts[CtxOfCallback(m)]
        /\ CtxOfTask(m) # 0 => contexts'[CtxOfTask(m)] = contexts[CtxOfTask(m)]
    BY <1>2, <2>1, ChainFacts
  <2>3. \A s \in DOMAIN spans' : s \in 1..Len(spans) \/ spans'[s].trace # CtxOfCallback(m)
    BY <1>2, <2>1
  <2> QED BY <1>2, <1>6, <2>2, <2>3, OthersKept
<1>7. ChainsOf(n)'
  <2>1. CallbackChain(n, cb)'
    <3>1. CASE l = 0
      <4>1. CallbackDepth(n)' = 1 /\ name = CallbackSpan
        BY <3>1
      <4>2. spans'[Chain(cb)'[1]].name = CallbackSpan
        BY <1>2, <1>4, <3>1, <4>1
      <4>3. CallbackDepth(n)' # 2
        BY <4>1
      <4> QED BY <1>2, <1>4, <4>2, <4>3 DEF CallbackChain
    <3>2. CASE l = 1
      <4>1. CallbackDepth(n)' = 2 /\ name = SubmissionSpan
        BY <3>2
      <4>2. spans[Chain(cb)[1]].name = CallbackSpan
        BY <1>1, <3>2, ChainNames
      <4>3. /\ spans'[Chain(cb)'[1]].name = CallbackSpan
            /\ spans'[Chain(cb)'[2]].name = SubmissionSpan
        BY <1>2, <1>4, <3>2, <4>1, <4>2
      <4> QED BY <1>2, <1>4, <4>3 DEF CallbackChain
    <3> QED BY <3>1, <3>2
  <2>2. tk # 0 => TaskChain(n, tk, cb)'
    <3> SUFFICES ASSUME tk # 0 PROVE TaskChain(n, tk, cb)'
      OBVIOUS
    <3>1. /\ TaskDepth(n) = 1 /\ TaskDepth(n)' = 1
      BY DEF TaskDepth
    <3>2. /\ tk \in 1..Len(contexts) /\ contexts[tk].trace = cb /\ l # 0
          /\ Len(Chain(tk)) = TaskDepth(n)
          /\ \A k \in 1..TaskDepth(n) : Chain(tk)[k] \in 1..Len(spans)
      BY ChainFacts
    <3>3. /\ spans[Chain(tk)[1]].name = CallbackSpan
          /\ spans[Chain(tk)[1]].id = spans[Chain(cb)[1]].id
      BY <1>1, <3>1, ChainNames
    <3>4. Chain(tk)' = Chain(tk) /\ contexts'[tk].trace = cb
      BY <1>1, <1>2, <3>2 DEF Chain
    <3>5. l = 1 /\ Chain(tk)[1] \in 1..Len(spans)
      BY <3>1, <3>2
    <3>6. /\ spans'[Chain(tk)'[1]].name = CallbackSpan
          /\ spans'[Chain(tk)'[1]].id = spans'[Chain(cb)'[1]].id
      BY <1>2, <1>4, <3>3, <3>4, <3>5
    <3>7. TaskDepth(n)' # 2 /\ Len(Chain(tk)') = TaskDepth(n)'
      BY <3>1, <3>2, <3>4
    <3> QED BY <1>1, <3>4, <3>6, <3>7 DEF TaskChain
  <2> QED BY <1>3, <2>1, <2>2 DEF ChainsOf, CallbackChain, TaskChain, Chain
<1>8. CoveredOf(n)'
  <2>1. \A i : Exported(i) => Exported(i)'
    BY <1>2, ExportedKept, ExampleTyped
  <2>2. ASSUME NEW i, Pending(n, i) PROVE Pending(n, i)'
    <3>1. l # 0 /\ i = spans[Chain(cb)[1]].id
      BY <2>2 DEF Pending
    <3>2. l = 1
      BY <3>1
    <3>3. i = spans'[Chain(cb)'[1]].id
      BY <1>2, <1>4, <3>1, <3>2
    <3>4. i = spans'[Chain(CtxOfCallback(n))'[1]].id
      BY <1>3, <3>3 DEF Chain
    <3>5. CallbackDepth(n)' # 0
      BY <3>2
    <3> QED BY <3>4, <3>5 DEF Pending
  <2>3. Pending(n, v)'
    <3>1. CASE l = 0
      <4>1. CallbackDepth(n)' # 0
        BY <3>1
      <4>2. v = spans'[Chain(CtxOfCallback(n))'[1]].id
        BY <1>2, <1>3, <1>4, <3>1 DEF Chain
      <4> QED BY <4>1, <4>2 DEF Pending
    <3>2. CASE l = 1
      <4>1. CallbackDepth(n)' = 2
        BY <3>2
      <4>2. v = spans'[Chain(CtxOfCallback(n))'[2]].id
        BY <1>2, <1>3, <1>4, <3>2 DEF Chain
      <4> QED BY <4>1, <4>2 DEF Pending
    <3> QED BY <3>1, <3>2
  <2>4. \A s \in DOMAIN spans' : \/ s \in 1..Len(spans)
                                 \/ \E i : spans'[s].id = i /\ (Exported(i)' \/ Pending(n, i)')
    BY <1>2, <2>3
  <2> QED BY <1>2, <1>3, <2>1, <2>2, <2>4, CoveredKept
<1> QED BY <1>2, <1>5, <1>6, <1>7, <1>8 DEF ChainsInv, CoveredInv

\* A callback's span is opened once its context is attached.
LEMMA OpenCallbackStep ==
  ASSUME CallbackInv, OpenCallback
  PROVE  CallbackInv'
<1> PICK n \in CallbackNames : n = subject
  BY ExampleTyped
<1> PICK c : c = tc
  OBVIOUS
<1>1. /\ main = "open" /\ UNCHANGED <<subject, tc, worker, attached, tasks>>
      /\ main' = IF \A k \in CallbackNames : attached[Callback(k)] # 0 THEN "submit" ELSE "create"
      /\ OpenNestedSpan(c, CallbackSpan, "callback")
  BY DEF OpenCallback, OpenNestedSpan, CallbackSpan
<1>2. /\ c # 0 /\ attached[Callback(n)] = c
      /\ \A m \in CallbackNames : worker[m] = "none" /\ attached[Task(m)] = 0
  BY <1>1, NotYetRunning DEF CallbackInv, MainInv
<1>3. CtxOfCallback(n) = c
  BY <1>1, <1>2 DEF CtxOfCallback
<1>4. \A m \in CallbackNames : CtxOfCallback(m)' = CtxOfCallback(m) /\ CtxOfTask(m)' = CtxOfTask(m)
  BY <1>1, <1>2 DEF CtxOfCallback, CtxOfTask
<1>5. /\ CallbackDepth(n) = 0 /\ CallbackDepth(n)' = 1
      /\ \A m \in CallbackNames : m # n => CallbackDepth(m)' = CallbackDepth(m)
  BY <1>1, <1>2 DEF CallbackDepth
<1>6. LibraryInv' /\ OwnersInv' /\ ChainsInv' /\ CoveredInv'
  <2>1. CallbackSpan \in SpanNames
    BY CallbackAssumption DEF CallbackSpan
  <2> PICK l \in {0, 1} : l = 0
    OBVIOUS
  <2>2. CallbackDepth(n) = l /\ CallbackDepth(n)' = l + 1 /\ l # 1
    BY <1>5
  <2> QED BY <1>1, <1>2, <1>3, <1>4, <1>5, <2>1, <2>2, OpenInCallback
<1>7. ProgramTypes'
  <2>1. main' \in MainLabels
    BY <1>1 DEF MainLabels
  <2>2. Len(contexts') = Len(contexts)
    <3>1. c \in 1..Len(contexts)
      BY <1>2, <1>3, ExampleTyped
    <3> QED BY <1>1, <3>1, ExampleTyped, OpenEffect
  <2> QED BY <1>1, <2>1, <2>2 DEF CallbackInv, ProgramTypes
<1>8. MainInv'
  BY <1>1, <1>2 DEF MainInv
<1> QED BY <1>6, <1>7, <1>8 DEF CallbackInv

\* The submission span is opened in the callback's context, above the span the task has a copy of.
LEMMA OpenSubmissionStep ==
  ASSUME CallbackInv, OpenSubmission
  PROVE  CallbackInv'
<1> PICK n \in CallbackNames : n = subject
  BY ExampleTyped
<1> PICK c : c = tc
  OBVIOUS
<1>1. /\ main = "openSubmission" /\ main' = "enqueue"
      /\ UNCHANGED <<subject, tc, worker, attached, tasks>>
      /\ OpenNestedSpan(c, SubmissionSpan, "callback")
  BY DEF OpenSubmission, MainMoves, OpenNestedSpan, SubmissionSpan
<1>2. /\ c = attached[Callback(n)] /\ c # 0 /\ worker[n] = "none"
      /\ \A m \in CallbackNames : Submitting(m)' <=> Submitting(m)
  <2>1. Submitting(n) /\ \A m \in CallbackNames : Submitting(m)' <=> Submitting(m)
    BY <1>1 DEF Submitting
  <2> QED BY <1>1, <2>1, NotYetRunning DEF CallbackInv, MainInv
<1>3. CtxOfCallback(n) = c
  BY <1>1, <1>2 DEF CtxOfCallback
<1>4. \A m \in CallbackNames : CtxOfCallback(m)' = CtxOfCallback(m) /\ CtxOfTask(m)' = CtxOfTask(m)
  BY <1>1 DEF CtxOfCallback, CtxOfTask
<1>5. /\ CallbackDepth(n) = 1 /\ CallbackDepth(n)' = 2
      /\ \A m \in CallbackNames : m # n => CallbackDepth(m)' = CallbackDepth(m)
  BY <1>1, <1>2 DEF CallbackDepth
<1>6. LibraryInv' /\ OwnersInv' /\ ChainsInv' /\ CoveredInv'
  <2>1. SubmissionSpan \in SpanNames
    BY CallbackAssumption DEF SubmissionSpan
  <2> PICK l \in {0, 1} : l = 1
    OBVIOUS
  <2>2. CallbackDepth(n) = l /\ CallbackDepth(n)' = l + 1 /\ l # 0
    BY <1>5
  <2> QED BY <1>1, <1>2, <1>3, <1>4, <1>5, <2>1, <2>2, OpenInCallback
<1>7. ProgramTypes'
  <2>1. main' \in MainLabels
    BY <1>1 DEF MainLabels
  <2>2. Len(contexts') = Len(contexts)
    <3>1. c \in 1..Len(contexts)
      BY <1>2, <1>3, ExampleTyped
    <3> QED BY <1>1, <3>1, ExampleTyped, OpenEffect
  <2> QED BY <1>1, <2>1, <2>2 DEF CallbackInv, ProgramTypes
<1>8. MainInv'
  BY <1>1, <1>2 DEF CallbackInv, MainInv
<1> QED BY <1>6, <1>7, <1>8 DEF CallbackInv

\* The copy goes to the task it was made for.
LEMMA AttachCopyStep ==
  ASSUME CallbackInv, AttachCopy
  PROVE  CallbackInv'
<1> PICK new : new = Len(contexts)
  OBVIOUS
<1>1. /\ main = "attachCopy" /\ main' = "openSubmission" /\ AttachTo(Task(subject), new)
      /\ UNCHANGED <<subject, tc, worker, contexts, spans, tasks>>
      /\ attached' = [attached EXCEPT ![Task(subject)] = new]
  BY DEF AttachCopy, MainMoves, AttachTo
<1>2. /\ subject \in CallbackNames /\ new \in 0..Len(contexts) /\ tc \in 0..Len(contexts)
      /\ attached \in [Holders -> 0..Len(contexts)]
  BY ExampleTyped
<1>3. /\ attached'[Task(subject)] = new
      /\ \A n \in CallbackNames : n # subject => attached'[Task(n)] = attached[Task(n)]
      /\ \A n \in CallbackNames : attached'[Callback(n)] = attached[Callback(n)]
      /\ DOMAIN attached' = Holders
  BY <1>1, <1>2, HolderFacts
<1>4. LibraryInv'
  BY <1>1, <1>2, AttachPreserves DEF CallbackInv
<1>5. ProgramTypes'
  <2>1. main' \in MainLabels
    BY <1>1 DEF MainLabels
  <2> QED BY <1>1, <1>3, <2>1 DEF CallbackInv, ProgramTypes
<1>6. new # 0
  <2>1. attached[Callback(subject)] # 0
    BY <1>1, <1>2 DEF CallbackInv, MainInv
  <2> QED BY <1>2, <2>1, ExampleTyped
<1>7. MainInv'
  <2>1. \A n \in CallbackNames : Submitting(n)' <=> Submitting(n)
    BY <1>1 DEF Submitting
  <2> QED BY <1>1, <1>2, <1>3, <1>6, <2>1 DEF CallbackInv, MainInv
<1>8. \A n \in CallbackNames : /\ CtxOfCallback(n)' = CtxOfCallback(n)
                               /\ CtxOfTask(n)' = CtxOfTask(n)
                               /\ CallbackDepth(n)' = CallbackDepth(n)
  BY <1>1, <1>3 DEF CtxOfCallback, CtxOfTask, CallbackDepth
<1>9. OwnersInv' /\ ChainsInv' /\ CoveredInv'
  BY <1>1, <1>8, SameObjects
<1> QED BY <1>4, <1>5, <1>7, <1>9 DEF CallbackInv

\* A task gets a copy of its callback's context, with a copy of the callback's span.
LEMMA SubmitTaskStep ==
  ASSUME CallbackInv, NEW n \in CallbackNames, SubmitTask(n)
  PROVE  CallbackInv'
<1> PICK cb : cb = attached[Callback(n)]
  OBVIOUS
<1> PICK new : new = Len(contexts) + 1
  OBVIOUS
<1> PICK v : v = Len(spans) + 1
  OBVIOUS
<1>1. /\ main = "submit" /\ main' = "attachCopy" /\ subject' = n /\ tc' = cb /\ DeepCopy(cb)
      /\ attached[Task(n)] = 0 /\ UNCHANGED <<worker, attached, tasks>>
  BY DEF SubmitTask, MainMoves, DeepCopy
<1>2. /\ \A m \in CallbackNames : attached[Callback(m)] # 0
      /\ worker[n] = "none"
      /\ \A m \in CallbackNames : /\ CtxOfCallback(m) = attached[Callback(m)]
                                  /\ CtxOfTask(m) = attached[Task(m)]
  BY <1>1, NotYetRunning DEF CallbackInv, MainInv, CtxOfCallback, CtxOfTask
<1>3. /\ CallbackDepth(n) = 1 /\ CallbackDepth(n)' = 1 /\ TaskDepth(n)' = 1
      /\ \A m \in CallbackNames : CallbackDepth(m)' = CallbackDepth(m)
  BY <1>1, <1>2 DEF CallbackDepth, TaskDepth
<1>4. /\ cb \in 1..Len(contexts) /\ contexts[cb].trace = cb /\ cb # 0
      /\ Len(Chain(cb)) = 1 /\ Chain(cb)[1] \in 1..Len(spans)
      /\ Len(contexts) \in Nat /\ Len(spans) \in Nat
  <2>1. 1 \in 1..CallbackDepth(n)
    BY <1>3
  <2> QED BY <1>2, <1>3, <2>1, ChainFacts, ExampleTyped
<1>5. spans[Chain(cb)[1]].name = CallbackSpan /\ spans[Chain(cb)[1]].trace = cb
  <2>1. spans[Chain(cb)[1]].name = CallbackSpan
    BY <1>2, <1>3, ChainNames
  <2>2. cb \in DOMAIN contexts /\ 1 \in DOMAIN Chain(cb)
    BY <1>4, ExampleTyped, ContextsTyped
  <2>3. ChainsInTrace
    BY DEF CallbackInv, LibraryInv
  <2>4. spans[Chain(cb)[1]].trace = contexts[cb].trace
    BY <2>2, <2>3 DEF ChainsInTrace
  <2> QED BY <1>4, <2>1, <2>4
<1>6. /\ Len(contexts') = new /\ \A d \in 1..Len(contexts) : contexts'[d] = contexts[d]
      /\ contexts'[new].trace = cb
      /\ Len(contexts'[new].chain) = 1 /\ contexts'[new].chain[1] = v
  <2>1. /\ Len(contexts') = new /\ \A d \in 1..Len(contexts) : contexts'[d] = contexts[d]
        /\ contexts'[new].trace = contexts[cb].trace
        /\ contexts'[new].chain = [k \in 1..Len(Chain(cb)) |-> Len(spans) + k]
    BY <1>1, <1>4, ExampleTyped, DeepCopyEffect
  <2>2. contexts'[new].chain = [k \in 1..1 |-> Len(spans) + k]
    BY <1>4, <2>1
  <2> QED BY <1>4, <2>1, <2>2
<1>7. /\ Len(spans') = v /\ DOMAIN spans' = 1..v
      /\ \A s \in 1..Len(spans) : spans'[s] = spans[s]
      /\ spans'[v].id = spans[Chain(cb)[1]].id /\ spans'[v].name = CallbackSpan
      /\ spans'[v].trace = cb
  <2>1. 1 \in 1..Len(Chain(cb))
    BY <1>4
  <2> QED BY <1>1, <1>4, <1>5, <2>1, ExampleTyped, CopiedSpans
<1>8. \A s \in DOMAIN spans' : s \in 1..Len(spans) \/ s = v
  BY <1>4, <1>7
<1>9. LibraryInv'
  BY <1>1, <1>4, DeepCopyPreserves DEF CallbackInv
<1>10. ProgramTypes'
  <2>1. main' \in MainLabels
    BY <1>1 DEF MainLabels
  <2>2. tc' \in 0..Len(contexts')
    BY <1>1, <1>4, <1>6
  <2> QED BY <1>1, <2>1, <2>2 DEF CallbackInv, ProgramTypes
<1>11. MainInv'
  <2>1. \A m \in CallbackNames : worker[m] # "none" => attached[Task(m)] # 0 /\ m # n
    BY <1>1, <1>2 DEF CallbackInv, MainInv
  <2>2. \A m \in CallbackNames : Submitting(m)' => m = n
    BY <1>1 DEF Submitting
  <2> QED BY <1>1, <1>2, <2>1, <2>2 DEF MainInv
<1>12. /\ \A m \in CallbackNames : CtxOfCallback(m)' = CtxOfCallback(m)
       /\ \A m \in CallbackNames : m # n => CtxOfTask(m)' = CtxOfTask(m)
       /\ CtxOfTask(n)' = new /\ CtxOfTask(n) = 0 /\ CtxOfCallback(n) = cb
  BY <1>1, <1>2, <1>6 DEF CtxOfCallback, CtxOfTask
<1>13. \A m \in CallbackNames : CtxOfCallback(m) # new /\ CtxOfTask(m) # new
  BY <1>4, ExampleTyped
<1>14. OwnersInv'
  <2>1. \A m, k \in CallbackNames :
          CtxOfCallback(m) # 0 /\ CtxOfCallback(m) = CtxOfCallback(k) => m = k
    BY DEF CallbackInv, OwnersInv
  <2>2. \A m, k \in CallbackNames : CtxOfTask(m) # 0 /\ CtxOfTask(m) = CtxOfTask(k) => m = k
    BY DEF CallbackInv, OwnersInv
  <2>3. \A m, k \in CallbackNames : CtxOfCallback(m) # 0 => CtxOfCallback(m) # CtxOfTask(k)
    BY DEF CallbackInv, OwnersInv
  <2>4. \A m, k \in CallbackNames : CtxOfTask(m)' # 0 /\ CtxOfTask(m)' = CtxOfTask(k)' => m = k
    BY <1>12, <1>13, <2>2
  <2>5. \A m, k \in CallbackNames : CtxOfCallback(m)' # 0 => CtxOfCallback(m)' # CtxOfTask(k)'
    BY <1>12, <1>13, <2>3
  <2>6. \A m, k \in CallbackNames :
          CtxOfCallback(m)' # 0 /\ CtxOfCallback(m)' = CtxOfCallback(k)' => m = k
    BY <1>12, <2>1
  <2> QED BY <2>4, <2>5, <2>6 DEF OwnersInv
<1>15. ASSUME NEW m \in CallbackNames, m # n PROVE ChainsOf(m)' /\ CoveredOf(m)'
  <2>1. CtxOfCallback(m) # cb
    BY <1>4, <1>12, <1>15, TraceOfOne
  <2>2. /\ CtxOfCallback(m) # 0 => contexts'[CtxOfCallback(m)] = contexts[CtxOfCallback(m)]
        /\ CtxOfTask(m) # 0 => contexts'[CtxOfTask(m)] = contexts[CtxOfTask(m)]
    BY <1>6, ChainFacts
  <2>3. \A s \in DOMAIN spans' : s \in 1..Len(spans) \/ spans'[s].trace # CtxOfCallback(m)
    BY <1>7, <1>8, <2>1
  <2> QED BY <1>1, <1>3, <1>7, <1>12, <1>15, <2>2, <2>3, OthersKept
<1>16. Chain(cb)' = Chain(cb) /\ Chain(new)' = contexts'[new].chain
  BY <1>4, <1>6 DEF Chain
<1>17. ChainsOf(n)'
  <2>1. CallbackChain(n, cb)'
    <3>1. spans'[Chain(cb)'[1]].name = CallbackSpan
      BY <1>4, <1>5, <1>7, <1>16
    <3>2. contexts'[cb].trace = cb /\ Len(Chain(cb)') = CallbackDepth(n)' /\ CallbackDepth(n)' # 2
      BY <1>3, <1>4, <1>6, <1>16
    <3> QED BY <3>1, <3>2 DEF CallbackChain
  <2>2. TaskChain(n, new, cb)'
    <3>1. /\ spans'[Chain(new)'[1]].name = CallbackSpan
          /\ spans'[Chain(new)'[1]].id = spans'[Chain(cb)'[1]].id
      BY <1>4, <1>6, <1>7, <1>16
    <3>2. contexts'[new].trace = cb /\ Len(Chain(new)') = TaskDepth(n)' /\ TaskDepth(n)' # 2
      BY <1>3, <1>6, <1>16
    <3> QED BY <1>4, <3>1, <3>2 DEF TaskChain
  <2>3. CtxOfCallback(n)' = cb /\ CtxOfTask(n)' = new
    BY <1>12
  <2> QED BY <2>1, <2>2, <2>3 DEF ChainsOf, CallbackChain, TaskChain, Chain
<1>18. CoveredOf(n)'
  <2>1. \A i : Exported(i) => Exported(i)'
    BY <1>1, <1>7, ExportedKept, ExampleTyped
  <2> PICK id : id = spans[Chain(cb)[1]].id
    OBVIOUS
  <2>2. Pending(n, id)'
    <3>1. spans'[Chain(cb)'[1]].id = id /\ CtxOfCallback(n)' = cb
      BY <1>4, <1>7, <1>12, <1>16
    <3>2. spans'[Chain(CtxOfCallback(n))'[1]].id = id
      BY <3>1 DEF Chain
    <3>3. CallbackDepth(n)' # 0 /\ worker'[n] = "none"
      BY <1>1, <1>2, <1>3
    <3> QED BY <3>2, <3>3 DEF Pending
  <2>3. ASSUME NEW i, Pending(n, i) PROVE Pending(n, i)'
    <3>1. CallbackDepth(n) # 2 /\ Chain(CtxOfCallback(n)) = Chain(cb)
      BY <1>3, <1>12
    <3>2. i = id
      BY <1>2, <2>3, <3>1 DEF Pending
    <3> QED BY <2>2, <3>2
  <2>4. \A s \in DOMAIN spans' : \/ s \in 1..Len(spans)
                                 \/ \E i : spans'[s].id = i /\ (Exported(i)' \/ Pending(n, i)')
    <3>1. spans'[v].id = id
      BY <1>7
    <3> QED BY <1>8, <2>2, <3>1
  <2> QED BY <1>7, <1>12, <2>1, <2>3, <2>4, CoveredKept
<1>19. ChainsInv' /\ CoveredInv'
  BY <1>15, <1>17, <1>18 DEF ChainsInv, CoveredInv
<1> QED BY <1>9, <1>10, <1>11, <1>14, <1>19 DEF CallbackInv

\* The executor starts the task.
LEMMA EnqueueStep ==
  ASSUME CallbackInv, Enqueue
  PROVE  CallbackInv'
<1> PICK n \in CallbackNames : n = subject
  BY ExampleTyped
<1>1. /\ main = "enqueue" /\ main' \in {"stop", "submit"}
      /\ worker' = [worker EXCEPT ![n] = "enter"]
      /\ UNCHANGED <<subject, tc, contexts, spans, attached, tasks>> /\ UNCHANGED tracing
  BY DEF Enqueue, tracing
<1>2. /\ worker[n] = "none" /\ worker'[n] = "enter" /\ worker' \in [CallbackNames -> WorkerLabels]
      /\ \A m \in CallbackNames : m # n => worker'[m] = worker[m]
  <2>1. worker[n] = "none"
    BY <1>1, NotYetRunning DEF Submitting
  <2>2. worker \in [CallbackNames -> WorkerLabels] /\ "enter" \in WorkerLabels
    BY ExampleTyped DEF WorkerLabels
  <2> QED BY <1>1, <2>1, <2>2
<1>3. LibraryInv'
  BY <1>1, StutterPreserves DEF CallbackInv
<1>4. ProgramTypes'
  <2>1. main' \in MainLabels
    BY <1>1 DEF MainLabels
  <2> QED BY <1>1, <1>2, <2>1 DEF CallbackInv, ProgramTypes
<1>5. MainInv'
  <2>1. /\ \A m \in CallbackNames : attached[Callback(m)] # 0
        /\ attached[Task(n)] # 0
        /\ \A m \in CallbackNames : worker[m] # "none" => attached[Task(m)] # 0
    BY <1>1 DEF CallbackInv, MainInv
  <2>2. \A m \in CallbackNames : ~Submitting(m)'
    BY <1>1 DEF Submitting
  <2> QED BY <1>1, <1>2, <2>1, <2>2 DEF MainInv
<1>6. \A m \in CallbackNames : CtxOfCallback(m)' = CtxOfCallback(m) /\ CtxOfTask(m)' = CtxOfTask(m)
  BY <1>1 DEF CtxOfCallback, CtxOfTask
<1>7. /\ \A m \in CallbackNames : CallbackDepth(m)' = CallbackDepth(m)
      /\ TaskDepth(n)' = TaskDepth(n)
  <2>1. CallbackDepth(n)' = 2 /\ CallbackDepth(n) = 2
    BY <1>1, <1>2 DEF CallbackDepth
  <2>2. TaskDepth(n)' = 1 /\ TaskDepth(n) = 1
    BY <1>2 DEF TaskDepth
  <2>3. \A m \in CallbackNames : m # n => CallbackDepth(m)' = CallbackDepth(m)
    BY <1>1, <1>2 DEF CallbackDepth
  <2> QED BY <2>1, <2>2, <2>3
<1>8. OwnersInv'
  BY <1>6 DEF CallbackInv, OwnersInv
<1>9. \A s \in DOMAIN spans' : s \in 1..Len(spans)
  BY <1>1, ExampleTyped
<1>10. \A m \in CallbackNames : m # n => ChainsOf(m)' /\ CoveredOf(m)'
  BY <1>1, <1>2, <1>6, <1>7, <1>9, OthersKept
<1>11. ChainsOf(n)'
  BY <1>1, <1>6, <1>7, ChainsKept
<1>12. CoveredOf(n)'
  <2>1. \A i : Exported(i) => Exported(i)'
    BY <1>1, ExportedKept, ExampleTyped
  <2>2. ASSUME NEW i, Pending(n, i) PROVE Pending(n, i)'
    <3> PICK cb : cb = CtxOfCallback(n)
      OBVIOUS
    <3>1. CtxOfCallback(n)' = cb /\ Chain(cb)' = Chain(cb) /\ CallbackDepth(n)' = CallbackDepth(n)
      BY <1>1, <1>6, <1>7 DEF Chain
    <3>2. CASE CallbackDepth(n) # 0 /\ i = spans[Chain(cb)[1]].id
      <4>1. i = spans'[Chain(CtxOfCallback(n))'[1]].id
        BY <1>1, <3>1, <3>2 DEF Chain
      <4> QED BY <1>2, <3>1, <3>2, <4>1 DEF Pending
    <3>3. CASE CallbackDepth(n) = 2 /\ i = spans[Chain(cb)[2]].id
      <4>1. i = spans'[Chain(CtxOfCallback(n))'[2]].id
        BY <1>1, <3>1, <3>3 DEF Chain
      <4> QED BY <1>2, <3>1, <3>3, <4>1 DEF Pending
    <3> QED BY <1>2, <2>2, <3>2, <3>3 DEF Pending
  <2> QED BY <1>1, <1>6, <1>9, <2>1, <2>2, CoveredKept
<1> QED BY <1>3, <1>4, <1>5, <1>8, <1>10, <1>11, <1>12 DEF CallbackInv, ChainsInv, CoveredInv

\* A step of Main.
LEMMA MainPreserves ==
  ASSUME CallbackInv, MainStep
  PROVE  CallbackInv'
<1>1. CASE StopAndExit
  <2>1. /\ main = "stop" /\ main' = "exited" /\ SystemExit
        /\ UNCHANGED <<subject, tc, worker, contexts, spans, attached, tasks>>
    BY <1>1 DEF StopAndExit, MainMoves, SystemExit
  <2>2. LibraryInv'
    BY <2>1, ExitPreserves DEF CallbackInv
  <2>3. ProgramTypes'
    BY <2>1 DEF CallbackInv, ProgramTypes, MainLabels
  <2>4. MainInv'
    <3>1. \A n \in CallbackNames : Submitting(n)' <=> Submitting(n)
      BY <2>1 DEF Submitting
    <3> QED BY <2>1, <3>1 DEF CallbackInv, MainInv
  <2>5. \A n \in CallbackNames : /\ CtxOfCallback(n)' = CtxOfCallback(n)
                                 /\ CtxOfTask(n)' = CtxOfTask(n)
                                 /\ CallbackDepth(n)' = CallbackDepth(n)
    BY <2>1 DEF CtxOfCallback, CtxOfTask, CallbackDepth
  <2>6. OwnersInv' /\ ChainsInv' /\ CoveredInv'
    BY <2>1, <2>5, SameObjects
  <2> QED BY <2>2, <2>3, <2>4, <2>6 DEF CallbackInv
<1> QED BY <1>1, CreateCallbackStep, AttachCallbackStep, OpenCallbackStep, SubmitTaskStep,
        AttachCopyStep, OpenSubmissionStep, EnqueueStep DEF MainStep

\* A step that touches neither the program nor its contexts and spans.
LEMMA ProgramUntouched ==
  ASSUME CallbackInv, LibraryInv', UNCHANGED <<program, contexts, spans, attached>>,
         DOMAIN tasks' = DOMAIN tasks, \A k \in DOMAIN tasks : tasks'[k].span = tasks[k].span
  PROVE  CallbackInv'
<1>1. UNCHANGED <<main, subject, tc, worker, contexts, spans, attached>>
  BY DEF program
<1>2. ProgramTypes'
  BY <1>1 DEF CallbackInv, ProgramTypes
<1>3. MainInv'
  <2>1. \A n \in CallbackNames : Submitting(n)' <=> Submitting(n)
    BY <1>1 DEF Submitting
  <2> QED BY <1>1, <2>1 DEF CallbackInv, MainInv
<1>4. \A n \in CallbackNames : /\ CtxOfCallback(n)' = CtxOfCallback(n)
                               /\ CtxOfTask(n)' = CtxOfTask(n)
                               /\ CallbackDepth(n)' = CallbackDepth(n)
  BY <1>1 DEF CtxOfCallback, CtxOfTask, CallbackDepth
<1>5. OwnersInv' /\ ChainsInv' /\ CoveredInv'
  BY <1>1, <1>4, SameObjects
<1> QED BY <1>2, <1>3, <1>5 DEF CallbackInv

(* The theorems *)

\* The invariant holds in the initial states.
LEMMA InitCallback == Init => CallbackInv
<1> SUFFICES ASSUME Init PROVE CallbackInv
  OBVIOUS
<1>1. /\ TracingInit(Holders) /\ main = "create" /\ subject \in CallbackNames /\ tc = 0
      /\ worker = [n \in CallbackNames |-> "none"]
  BY DEF Init
<1>2. /\ contexts = <<>> /\ spans = <<>> /\ attached = [h \in Holders |-> 0]
  BY <1>1 DEF TracingInit
<1>3. LibraryInv
  BY <1>1, InitialLibrary
<1>4. \A n \in CallbackNames : /\ attached[Callback(n)] = 0 /\ attached[Task(n)] = 0
                               /\ worker[n] = "none"
  BY <1>1, <1>2, HolderFacts
<1>5. ProgramTypes
  <2>1. "create" \in MainLabels /\ "none" \in WorkerLabels /\ Len(contexts) = 0
    BY <1>2 DEF MainLabels, WorkerLabels
  <2> QED BY <1>1, <1>2, <2>1 DEF ProgramTypes
<1>6. MainInv
  BY <1>1, <1>4 DEF MainInv
<1>7. \A n \in CallbackNames : CtxOfCallback(n) = 0 /\ CtxOfTask(n) = 0
  BY <1>1, <1>4 DEF CtxOfCallback, CtxOfTask
<1>8. OwnersInv
  BY <1>7 DEF OwnersInv
<1>9. ChainsInv
  BY <1>7 DEF ChainsInv, ChainsOf
<1>10. CoveredInv
  BY <1>7 DEF CoveredInv, CoveredOf
<1> QED BY <1>3, <1>5, <1>6, <1>8, <1>9, <1>10 DEF CallbackInv

\* Every step preserves it.
LEMMA NextCallback == CallbackInv /\ [Next]_vars => CallbackInv'
<1> SUFFICES ASSUME CallbackInv, [Next]_vars PROVE CallbackInv'
  OBVIOUS
<1>1. CASE MainStep
  BY <1>1, MainPreserves
<1>2. CASE \E n \in CallbackNames : WorkerStep(n)
  BY <1>2, WorkerPreserves
<1>3. CASE LibraryStep
  <2>1. CASE ExporterStep /\ UNCHANGED program
    BY <2>1, ExampleTyped, ExporterEffect, ExporterPreserves, ProgramUntouched DEF CallbackInv
  <2>2. CASE Tick /\ UNCHANGED program
    <3>1. UNCHANGED <<contexts, spans, attached, tasks>>
      BY <2>2 DEF Tick
    <3> QED BY <2>2, <3>1, TickPreserves, ProgramUntouched DEF CallbackInv
  <2> QED BY <1>3, <2>1, <2>2 DEF LibraryStep
<1>4. CASE UNCHANGED vars
  <2>1. UNCHANGED tracing /\ UNCHANGED <<program, contexts, spans, attached, tasks>>
    BY <1>4 DEF vars, tracing, program
  <2>2. LibraryInv'
    BY <2>1, StutterPreserves DEF CallbackInv
  <2> QED BY <2>1, <2>2, ProgramUntouched
<1> QED BY <1>1, <1>2, <1>3, <1>4 DEF Next

\* Where every context is and what is open in it, in every reachable state.
THEOREM CallbackInvariant == Spec => []CallbackInv
<1> QED BY InitCallback, NextCallback, PTL DEF Spec

\* NothingThrown: no advice of a worker closes a span of an empty context.
THEOREM NoAdviceThrows == Spec => []NothingThrown
<1>1. CallbackInv => NothingThrown
  <2>1. "thrown" \notin WorkerLabels
    BY DEF WorkerLabels
  <2> QED BY <2>1 DEF CallbackInv, ProgramTypes, NothingThrown
<1> QED BY <1>1, CallbackInvariant, PTL

\* ClosesItsOwn: what the advice of a callback or a task takes from the top of its context is the
\* span the advice is about.
THEOREM AdvicesCloseTheirOwn == Spec => []ClosesItsOwn
<1>1. CallbackInv => ClosesItsOwn
  <2> SUFFICES ASSUME CallbackInv, NEW n \in CallbackNames, worker[n] \in DOMAIN Closing
               PROVE  LET h == IF worker[n] = "called" THEN Callback(n) ELSE Task(n)
                      IN  spans[Current(attached[h])].name = Closing[worker[n]]
    BY DEF ClosesItsOwn
  <2>1. /\ DOMAIN Closing = {"called", "closed", "closedParent"}
        /\ Closing["called"] = SubmissionSpan /\ Closing["closed"] = ExecutionSpan
        /\ Closing["closedParent"] = CallbackSpan
    BY DEF Closing, SubmissionSpan, ExecutionSpan, CallbackSpan
  <2>2. worker[n] \in {"called", "closed", "closedParent"}
    BY <2>1
  <2>3. /\ CtxOfTask(n) = attached[Task(n)] /\ CtxOfTask(n) # 0
        /\ CtxOfCallback(n) = attached[Callback(n)] /\ CtxOfCallback(n) # 0
        /\ main \notin {"create", "attach", "open"} /\ ~Submitting(n)
    BY <2>2, WorkerContexts
  <2>4. CASE worker[n] = "called"
    <3>1. CallbackDepth(n) = 2 /\ CallbackDepth(n) # 0
      BY <2>3, <2>4 DEF CallbackDepth
    <3>2. /\ Current(CtxOfCallback(n)) = Chain(CtxOfCallback(n))[2]
          /\ spans[Chain(CtxOfCallback(n))[2]].name = SubmissionSpan
      BY <2>3, <3>1, ChainFacts, ChainNames
    <3> QED BY <2>1, <2>3, <2>4, <3>2
  <2>5. CASE worker[n] = "closed"
    <3>1. TaskDepth(n) = 2 /\ TaskDepth(n) # 0
      BY <2>5 DEF TaskDepth
    <3>2. /\ Current(CtxOfTask(n)) = Chain(CtxOfTask(n))[2]
          /\ spans[Chain(CtxOfTask(n))[2]].name = ExecutionSpan
      BY <2>3, <3>1, ChainFacts, ChainNames
    <3> QED BY <2>1, <2>3, <2>5, <3>2
  <2>6. CASE worker[n] = "closedParent"
    <3>1. TaskDepth(n) = 1 /\ TaskDepth(n) # 0 /\ TaskDepth(n) \in {1, 2}
      BY <2>6 DEF TaskDepth
    <3>2. /\ Current(CtxOfTask(n)) = Chain(CtxOfTask(n))[1]
          /\ spans[Chain(CtxOfTask(n))[1]].name = CallbackSpan
      BY <2>3, <3>1, ChainFacts, ChainNames
    <3> QED BY <2>1, <2>3, <2>6, <3>2
  <2> QED BY <2>2, <2>4, <2>5, <2>6
<1> QED BY <1>1, CallbackInvariant, PTL

\* AllClosed: a task that has run leaves nothing open: every span of its trace was exported, the
\* callback's through its copy.
THEOREM TracesAreExported == Spec => []AllClosed
<1>1. CallbackInv => AllClosed
  <2> SUFFICES ASSUME CallbackInv, NEW n \in CallbackNames, worker[n] = "done",
                      NEW s \in DOMAIN spans,
                      spans[s].trace = contexts[attached[Callback(n)]].trace
               PROVE  \E k \in DOMAIN tasks : spans[tasks[k].span].id = spans[s].id
    BY DEF AllClosed
  <2>1. CtxOfCallback(n) = attached[Callback(n)] /\ CtxOfCallback(n) # 0
    BY WorkerContexts
  <2>2. spans[s].trace = CtxOfCallback(n)
    BY <2>1, ChainFacts
  <2>3. ~Pending(n, spans[s].id)
    BY DEF Pending
  <2>4. Exported(spans[s].id)
    BY <2>1, <2>2, <2>3 DEF CallbackInv, CoveredInv, CoveredOf
  <2> QED BY <2>4 DEF Exported
<1> QED BY <1>1, CallbackInvariant, PTL
===============================================================================
