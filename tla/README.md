# Distrace, specified and checked

Distrace instruments a running Java application so that its calls can be traced across nodes. A
native agent inside the monitored JVM catches every class the JVM loads, asks a second JVM, the
Instrumentor, whether the class is to be transformed, and hands the answer back to the class
loader. The transformed code opens and closes spans, which are exported to Zipkin or to disk.

This directory specifies that program in TLA+, checks the specification with TLC on small
instances and proves what can be proved for all instances with TLAPS. Paths below are relative to
`src/`; `cpp/` stands for `agent/src/main/cpp/`, `java/` for
`instrumenter/src/main/java/cz/cuni/mff/d3s/distrace/`.

## 1. The system's parts

| Part | Where | State | Operations | Modelled |
|---|---|---|---|---|
| Agent start | `cpp/Agent.cpp`, `cpp/utils/AgentUtils.cpp` | `globalData`, the JVMTI set-up | `Agent_OnLoad`, `Agent_OnAttach`, `initAgent`, launching and connecting | `AgentStart` |
| Arguments | `cpp/AgentArgs.cpp`, `cpp/utils/Utils.cpp` | the map of arguments | parse two sources, check, default, make directories | `AgentStart` |
| Logging | `cpp/utils/Logging.cpp`, `agent/include/spdlog/` | the registry, two sinks, the time of the last error report | register, log, report an error | `Logging`, `AgentStart` |
| Agent callbacks | `cpp/AgentCallbacks.cpp` | `vmStarted`, the raw monitor | `cbClassFileLoadHook`, `cbClassPrepare`, `callbackVMInit`, `callbackVMDeath` | `NativeAgent` |
| Protocol client | `cpp/InstrumentorAPI.cpp` | `mtx`, `instrumentorClassesCache`, `ignoredClasses`, `interceptors`, `loadedInterceptorsPerCl`, `initializers` | the class check, registering bytecode, the walk over references, instrumenting, initializers, helper classes, stopping | `NativeAgent` |
| Class file parser | `cpp/bytecode/`, `cpp/utils/ByteReader.cpp` | the reader's position, the constant pool, the references found | `parseJustName`, `parse` | `ClassFile`; its result is the constant `Refs` of `Wire` |
| Instrumentor server | `java/instrumentation/InstrumentorServer.java`, `InstrumentorClassLoader.java` | `byteCodeCache`, the class loader's `cache` | one loop, five request types | `InstrumentorServer` |
| Byte Buddy listener | `java/instrumentation/BaseAgentBuilder.java` | `sendInterceptors` | `onTransformation`, `onIgnored`, `onError`, initializers | `InstrumentorServer` |
| Connection | nanomsg PAIR sockets, `java/utils/SocketWrapper.java` | two queues | send, receive | `Wire` (external) |
| Trace contexts, spans | `java/tracing/` | the context of a thread or object, its chain of open spans | open, close, copy, attach | `Tracing` |
| Exporters | `java/storage/` | the executor's queue, the files | export | `Tracing` |
| Advices of the examples | `examples/*/agent/` | a context on a thread, a task, a callback | enter and exit of instrumented methods | `ThreadTracing`, `CallbackTracing`; not the H2O example |
| JSON, service look-up, reflection helpers, native method tables | `java/json/`, `java/utils/`, `cpp/NativeMethodsHelper.cpp` | none that matters | formatting, configuration | no |

How they interact: a start of the agent turns options into arguments, loggers, JVMTI events and a
connection, and only then may the JVM raise callbacks. The agent and the server exchange messages
over that connection. Neither side tags a message; each reads by position, so both must walk through
an exchange in the same order. Inside the agent any number of application threads may load a class
at the same time, with two locks between them: the JVMTI raw monitor around the whole hook, and
`mtx` around parts of an exchange. Class preparation, on whichever thread uses a class first, takes
neither and reads a table that the hook writes. The server has one thread. The tables of the two
sides overlap (the agent's cache of what the server has, both sides' record of interceptors sent)
and must agree. Once instrumented, the application's own threads call the tracing library: they open
and close spans in contexts attached to threads and objects, copy contexts for other threads, and
leave closed spans to the exporter's threads. All callbacks log, from whatever thread they run on.

What is hard here: threads that use one socket, messages that are read by position, an answer
that is streamed and can break off in the middle, tables that are updated before the message they
speak of has arrived, a lock that is not recursive with a callback raised inside it, a server
that outlives the agent whose state it remembers and whose exchange may have been cut. In the start:
eighteen things of the environment that may fail, error messages that need loggers that need the
arguments that are wrong, and a second start over the first. In the parser: positions counted by
hand, constants that take two numbers, unsigned counts read as signed ones. In the library: contexts
without any lock, kept apart only by copying; spans that are closed by position, not by name; spans
that another thread reads while the one that closed them goes on; files that fail without a word; a
thread pool that nobody waits for. `PROJECT.json` lists each
hazard at its line.

## 2. The modules

| Module | Models | Extends |
|---|---|---|
| `Wire` | messages, the two queues, sending and receiving, what a receiver makes of a message | |
| `InstrumentorServer` | the server's loop and the listener | `Wire` |
| `NativeAgent` | the callbacks and the protocol client, one program counter per thread | `Wire` |
| `AgentServer` | the two over one connection; all properties | both |
| `ClassLoading` | what the two together promise the JVM: the abstract specification | |
| `Logging` | spdlog as the agent uses it | |
| `AgentStart` | the options parser, the loggers' registration, `initAgent`, attachments | `Logging` |
| `ClassFile` | the class file parser over small classes, and what it ought to find | |
| `Tracing` | contexts, spans, exporters, and what they promise | |
| `TracingClient` | any program that uses contexts as documented | `Tracing` |
| `ThreadTracing` | the SingleJVMThread example and its advices | `Tracing` |
| `CallbackTracing` | the SingleJVMCallback example and its advices | `Tracing` |
| `MC...` | TLC instances: sets of classes, options, threads | the module of that name |
| `AgentServer_proofs`, `AgentStart_proofs` (of `Logging` as well), `ClassFile_proofs`, `TracingClient_proofs`, `ThreadTracing_proofs`, `CallbackTracing_proofs` | theorems | the module of that name, `TLAPS` |
| `Protocol_proofs` | theorems about the two sides of the connection together, and the refinement of `ClassLoading` | `AgentServer_proofs` |
| `Tracing_proofs` | lemmas about every operation of the library | `Tracing`, `TLAPS` |

**Wire.** A message is a record of its kind and the name it is about. Lengths and bytecode are
messages of their own because the code sends them so. nanomsg delivers in order, once, and a sender
does not wait; the code sets no timeouts. A step may send several messages at once where the code
sends them without receiving in between: the receiver still takes them one by one, and no other
process can send on the same side of a PAIR connection except the agent's own threads, whose sends
are separate steps.

**InstrumentorServer.** `position` is where the single server thread is, `subject` the class whose
request it handles, `unsent` what remains of the set it streams. `registered` are the keys of
`InstrumentorClassLoader.cache`; the class loader keeps the first bytes it got, and bytes are a
function of the name here, so the keys are enough. `byteCodeCache` keeps the `null` of a class that
was not transformed apart from a missing entry, because the code does. Byte Buddy is external:
`Verdict`, `AuxiliariesOf` and `InterceptorsOf` are constants, and a class can be transformed when
the server can load it and everything it refers to. `onError` sends nothing and `transform` returns
null. The catch of an `IOException` of the socket in `start`, which sleeps for a second and receives
again, is a stutter of `ReceiveRequest` and has no action. The catch of `IllegalClassFormatException` in `instrument` is left out: Byte Buddy reports
every failure through `onError`. The cases the listener ends in are actions: `AnswerNull`,
`AnswerMatch` ... `EndInitializers`, and `FailInitializer` for the exception in the middle of the
stream. A type byte no case handles ends the thread: `"failed"`.

**NativeAgent.** `pc[t]` is the place in the code a thread has reached: before the monitor
(`enter`), at one of the receives (each has a name), between two exchanges, or in `cbClassPrepare`.
`VM` is one more actor, running `callbackVMInit` and `callbackVMDeath`. `class`, `loader`, `dep`,
`todo` are the arguments and locals of the callback, gone when it returns (`Leave`): `todo` holds the
references `loadDependencies` has still to look at, which is the recursion's stack as a set, in any
order; `getAllRefs` gives no order either. The five tables keep the names of the C++ members. Bytes
on disk (`saveClassOnDisk`, the temporary directory) are left out. A reply that breaks an `assert`,
or that `shouldInstrument` throws as a `runtime_error` out of the callback, sets `aborted`: the JVM
is gone. Calling JNI with a NULL class is undefined, so `TriggerLoading` either aborts or goes on.

*Preparation.* `cbClassPrepare` looks a class up in the map of initializers while another thread's
hook may insert into it (`ReceiveInitializerBytes`, for the first initializer of a class). Two
unsynchronised accesses of a `std::map` are a data race: `prepared` marks a search that an insertion
fell into, and such a search finds the entry, misses it, or kills the JVM. Preparation comes after
loading, once per class and loader; `onLoad` of what is found is part of the step.

*The end of a run.* `VMDeath` is the orderly end, `aborted` the JVM that died of its agent, `Kill` a
JVM killed from outside with its threads anywhere. In the last three a remote server goes on, and
`Restart` connects a new JVM to it: every table of the agent is new, every table of the server is
not. What was under way to the server is lost with the old connection; of what was under way to the
agent any suffix is delivered to the new one, since the server does not notice the change of peer
and its sends wait for one. `cut` records that an earlier run ended in the middle of an exchange.

**AgentServer** joins the two; their steps interleave, and the properties relate both sides.

**ClassLoading** knows nothing of messages: a load is requested, skipped or served, one at a time,
and answered by the verdict on its own class. `AgentServer` maps the owner of the monitor, before
its outcome is settled, to the load being served.

**Logging.** The agent's loggers are made with `make_shared<spdlog::logger>`, so `set_async_mode`,
which only concerns loggers the registry creates, has no effect, and a record is written by the
thread that makes it. It goes to stdout and then to the file, each under a mutex of its own. stdout's
`fwrite` is not looked at; a short `fwrite` to the file throws `spdlog_ex`, which `logger::log` catches
and hands to the default error handler. That one reads `_last_err_time`, prints, and sets it to the
time it read before: three steps without a lock. `Spill` is the C library's buffer going to disk.

**AgentStart.** `pc` is the place in `Agent_OnLoad` or `Agent_OnAttach`, `i` the counter of the loop
it is in. Options are sequences of pairs, already split at their separators; values stand for the
class they belong to ("bad" fails the check of its argument). `AgentArgs::parseArgs` is followed
early return by early return. `vm = "dead"` is an exception out of an entry point. What may fail in
the environment is the constant `MayFail`: options that are not there (NULL, of which `Agent.cpp:41`
and `70` make a string), the current directory, the JVMTI calls, directories, the log file, the
shell, `fork`, and the connection. `nnxx`, whose sources the repository does not have, is taken to
report a failed connection through the endpoint it returns, which is what `InstrumentorAPI.cpp:293`
tests. `Logs` is the application's threads logging once the agent runs.

**ClassFile.** A class file is a sequence of cells, one per item of the format and one for the bytes
of a string, made by `Encode` from what a compiler may write. The parser is followed item by item,
`parseJustName` first and then `parse` on the same bytes, as the hook does. Counts and indexes are
read as the code reads them, into a signed short: the constant `Half` is where that turns negative. A
slot of the pool that was not filled in is `Garbage`: using it is what `new Constant*[]` makes undefined.

**Tracing.** Contexts and spans are objects, and sharing is what the properties are about, so an
object is its index in `contexts` or `spans`; the same index in two places is the same object. A
context's chain is its current span and that span's ancestors; that the chain is what the spans'
`parent` references say is an invariant (`ChainLinked`), not a definition. `attached` is both the
map of `TraceContextManager` and the hidden field of an instrumented object. `closeCurrentSpan` is
two steps, exporting and moving up, since the exporter's threads run in between. A span-saving task
is submitted, possibly has its file open, and is done or dropped.

A span object has two halves. `spans` holds what the constructor fixes; `details` holds what setters,
`add` and closing go on changing: the service name and `notes`, which stands for annotations, stack
traces and duration by the moments at which they are stored ("opening", "added", "closing"). Opening
writes the first, `Annotate` is any setter or `add` on the current span, `ExportCurrent` stores the
end annotation, the stack trace and the duration in the object before the hand-over. A task reads the
object itself and the id of its parent, when it runs. The disk exporter's file may not open
(`FileNotFoundException` is printed), and what goes wrong in writing and closing is swallowed by the
`PrintWriter`: `FileFails` ends the task either way, for at most `MaxFailures` tasks. A name or an
address set on a span is in `notes` as well; flags are left out. Timestamps are milliseconds of
`clock`. Random span ids are distinct; a copy keeps its id.

`Exporter = "disk"` is the exporter `SpanExporter.fromString` constructs from
`cz.cuni.mff.d3s.distrace.storage.JSONDiskExporter(path)`, a form that the agent's argument check lets
through and the reflection branch accepts. The documented short form `disk(path)` never gets there
(see below).

**TracingClient** is the most general program the documentation allows: any thread may get a context
or a copy of another thread's, open spans, call setters on its current span, copied or not
(`Change`), and close those it opened, never the ones its context came with (`Span.java:81`). It cannot pass a context on without copying (`TraceContext.java:169`).

**ThreadTracing** and **CallbackTracing** are two programs with their advices, statement by statement
where statements of two threads may interleave. In the second the task does close the span its
context came with: it is not a `TracingClient`, and its properties are checked on their own.
`openNestedSpan(...).setServiceName(...)` is one step, no other thread having the new span; the
three statements of `ExecutorAdvice` are three steps, the task starting only after them. Exceptions
end a thread in `"thrown"`. `Main` starts the starter tasks in a fixed order, as the program does.

Assumptions about the environment:

- *Quiet JVM* (`Overlap = FALSE`): no application class is loaded while `VMInit` or `VMDeath` runs.
  Nothing in the code ensures it; the run `death_race` and the theorem `ExclusiveUse` show what
  depends on it.
- A class is loaded once, and then prepared once, per loader, as the JVM guarantees.
- A nested hook, raised while a hook of the same thread runs, concerns an ignored class or a JVM
  class. For the interceptor defined inside `mtx` that is checked (`NoSelfLock`), for classes that
  `getResourceAsStream` happens to load it is assumed: which ones they are depends on the
  application's class loader.
- `loadedInterceptorsPerCl` is keyed by the loader's identity hash code in the code, by the loader
  here; two loaders with one hash code would share an entry.
- Initializers are found by class name: a class of that name from an ignored loader would get them
  too. No instance has one.

## 3. What TLC checks

| Run | Instance | Shows |
|---|---|---|
| `core` | 2 threads, 3 classes with a cycle of references, an ordinary and an ignored loader, 2 helpers, a shared interceptor and an auxiliary type; 2 of the classes are prepared | all safety properties of one run |
| `live` | one loader, one class on the server's own class path, fairness | every hook returns, the protocol implements `ClassLoading` |
| `faults` | 2 loaders, a failing transformation, an interceptor without bytecode, a dependency without bytes; a remote server and two runs of the application, the first one ended, aborted or killed anywhere | hooks starve and the JVM dies for the named reasons only |
| `start` | every command line of none, one or both of the arguments of a local start and up to two further pairs, every configuration file of two lines, everything that may fail, two attachments, fairness | the parser does what the repository says of the options, with two exceptions it names; a running JVM has what its callbacks need; exceptions leave for the named reasons only, every entry point ends |
| `logging` | 2 threads, 2 loggers, 2 records each, a file that may refuse any of them | the sinks agree, no loss without a report |
| `class_file` | more than 500 classes: constants of one and two numbers in all places, members of all shapes, and both sides of each limit | the references are those of the signatures; no read outside the file |
| `library` | 3 threads, 1 trace and 3 contexts, 4 span objects, 2 of them changed by setters, the Zipkin exporter | contexts share nothing, no span is exported twice, and none is changed once it was handed over |
| `threads` | starter tasks A and B with their dependants, the disk exporter, 2 milliseconds, one file that may fail, fairness | every context in place, private, of the right trace; every span closed and handed over, children first; the program ends; spans alone in their millisecond are in their file once that was written |
| `callbacks` | callbacks A and B with their tasks; the Zipkin server may be down | each advice closes its own span, and every span of a callback's trace is handed over |
| `repeat_load` | one class, two loaders | violation: the second load hangs |
| `death_race` | classes loaded while the application ends | violation: two actors in the middle of an exchange |
| `silent_error` | wrong options, nothing else fails | violation: the message about them is not logged |

The safety properties of `core`, in the order they depend on each other:

- `SocketExclusive`: at most one actor is in the middle of an exchange.
- `RepliesAligned`: what lies at the head of the connection is always a message the waiting actor
  understands at its place in the code, and nothing is on its way when nobody waits.
- `NeverStarved`: nobody waits for a message nobody is going to send.
- `DependenciesFirst`: when the server reads an INSTRUMENT request it has the class and all it
  refers to. `CacheSound`: the agent's cache claims nothing that is neither there nor on its way.
- `OwnBytecode`, `ReadyToRun`: a class gets its own answer, and instrumented code reaches the JVM
  only with its interceptors defined in its loader, its initializers stored and its auxiliary
  classes known; when it is prepared its initializers run, unless another hook inserted into their
  map during the search.
- `NoSelfLock`, `InterceptorsAgree`: no thread waits for `mtx` inside `mtx`, and both sides agree
  which interceptors the agent has.

`StarvationExplained` and `AbortExplained` (`faults`) turn the failures the code does have into
properties: they name every situation in which a hook may wait for ever or the JVM may die, and TLC
confirms that there is no other. `StarvationExplained` is about a run whose predecessor was not cut
off in the middle of an exchange; after a cut the server may take requests for the rest of the old
one, and nothing is promised but what `AbortExplained` says. `DeathExplained` does the same for the
start.

`ParseFaithful` compares the parser with what the repository says of the options, whatever the order
in which the parser looks at them: an argument once per source, the command line before the file, a
main class and a JAR in a local start (`Acceptable`, `Expected`). The parser deviates in two ways,
and the property names them, so that it shows there is no third: an argument in both sources is
refused (`InBoth`), and a local start without the JAR is taken (`AcceptableButJar`). `Ready` is what the callbacks rely on. `SinksAgree` and `LossReported` are about
threads that overtake each other between the sinks, and about the unlocked time of the last report.
`RefsComplete` compares the parser's result with the declared types of the class, `NamesAgree` the
names of the two parses, `StaysInside` the position with the length of the file, which the code never
does, and `ThrownIfExceeds` says exactly when the parser throws.

The properties of the tracing runs: `SpansPrivate`, `ChainLinked` and `ClosedFrozen` say
that copying keeps threads apart although nothing is locked; `ExportedOnce` and `ChildrenFirst` what
the server may rely on; `ContextPrivate`, `SameTrace`, `NothingThrown`, `AllClosed` and
`ClosesItsOwn` that the advices of the examples put contexts where other advices, on other threads,
expect them; `SpanOnDiskIfAlone` and `Finishes` are about the disk exporter and the joins.
`ClosedFrozen` is the reverse of `SpansPrivate` and of the closing discipline: the pool's thread reads
the object, and whoever could still reach it (a context that shares it, a second close) would change
it meanwhile. `AllClosed` ends at the hand-over: it says that a task for each span was submitted, not
that the visualization has it, since `System.exit` may end the pool before. `SpanOnDiskIfAlone` is
about the files that did open and were written; what it excludes is that another task, failing or not,
takes a span's file away.

Why the bounds are enough. In the agent, two threads give every race the two locks and the unlocked
map allow; a third would be another waiter. Three classes give a cycle, a shared reference, a class
that is its own dependency's dependency, and all verdicts; two interceptors of which one is shared
give "already sent" and "not yet sent" in the same stream; two helpers give a loop that runs more
than once. Two loaders give a class asked for twice, and two runs a server that remembers.
`Preparable` bounds which classes are prepared: `core` has one with initializers and one without,
`faults` one; `live` and the violations have none, since a raced search may end the JVM and no hook
returns after that. The queues are not bounded: they are short because each side waits for the other.
In the start, two pairs beyond those of a local start give every pair of arguments that conflict,
repeat or mask one another, and two lines of a file the same for the second source; `MaxNumTries` and
`OpenTries`, 100 and 5 in the code, are 1 and 2. `MaxRecords` 2 and `Quiet` 2 give a loss within and
after the limit of another one. `Half`, 2^15 in the code, is 16: the limit is met from both sides by
every count that has one. In the library, three threads and contexts allow a copy of a copy
beside the original, all of one trace, since contexts of different traces have nothing to share;
setters on two span objects allow a change to a copy beside one to the original; four span objects allow a chain of two and its copy, or a copy that opens a
span of its own; a third level repeats the second. Both examples start two of everything, as their
`Main` does. Two milliseconds are enough for two spans to share one and for a third to be alone.
Constants that are bounds: `MaxRuns`, `Preparable`, `MaxAttach`, `MaxRecords`, `MaxContexts`,
`MaxTraces`, `MaxSpans`, `MaxChanged`, `MaxFailures`, `MaxTime`, and the size of the sets. Deadlock checking is off where a system may stop: an
application that has loaded its classes and ended, a start that was refused, a class that is parsed.

Fairness, in `live`: weak fairness of each thread inside the agent, of the VM callbacks and of
the server's thread. A JVM schedules its threads, and `std::mutex` and the raw monitor have no
queue, but weak fairness is enough here because each class is loaded once, so a thread can be
overtaken only finitely often. Nothing forces a class to be loaded or the application to end. In
`start`, weak fairness of the one thread that runs an entry point, none of whose steps waits for
another; the loops of retries are what could keep it from returning. In `threads`, weak fairness of
the program's threads together: every one of its steps is a statement that returns, a sleep that ends
or a join whose thread has ended, and each is taken at most once, so the fairness of one thread at a
time would say no more. The exporter's threads need none for the program to end, which is the point.

### What the violations are

1. `InstrumentorServer.java:212`: a class found in `byteCodeCache` is answered by its length and
   bytes alone, or by nothing. `shouldInstrument` first reads auxiliary types, initializers and a
   verdict. The second load of a class, by another loader, hangs with `mtx` and the monitor held.
2. `AgentCallbacks.cpp:52,60`: the VM callbacks use the socket without either lock, against
   the comments at `InstrumentorAPI.cpp:167` and `InstrumentorAPI.h:94`.
3. `AgentArgs.cpp:38`: a refused argument leaves the parser before the defaults are filled in, and
   `register_loggers` needs `log_dir` and `log_level`: unless both were given, `getArgValue` throws
   out of `Agent_OnLoad` and the message is never logged.

### What else the models show of the code

Facts a reader of the properties will want to know; each is in the model, none is a run of its own.

- `AgentArgs.cpp:140` tests the main class a second time where it reports the server's JAR, which is
  mandatory in a local start (`README.md:56`); without the JAR such a start is taken (`JarNamed` in
  `ParseFaithful`) and ends in an exception in `InstrumentorAPI::init` (`DeathExplained`).
- `AgentArgs.cpp:188-189` says the command line has the precedence over the file; an argument given in
  both is an error, not overridden (`InBoth` in `ParseFaithful`).
- Without options (NULL) or, when `log_dir` is not given, without a current directory
  (`AgentArgs.cpp:155`), an exception leaves the entry point (`DeathExplained`).
- `SpanExporter.java:35-38` offers `disk(args)`, and `AgentArgs.cpp:98-103` refuses every other form of
  `disk`; `fromString` (`SpanExporter.java:64`) compares the whole string with `"disk"`, goes on to look
  for a class `disk`, and throws in `Span`'s static initializer. Only the full class name selects the
  disk exporter. (Read, not modelled.)
- An attachment to a JVM whose agent has registered its loggers throws `spdlog_ex`, after
  `initGlobalData` has reset the arguments and `jvmti` under the running callbacks (`DeathExplained`).
- The log file is opened with truncation by every registration.
- A server that was launched is left behind when the connection to it fails.
- A dependency whose bytes are not found makes `JavaUtils.cpp:30` look up a class that does not exist
  and use its NULL (`AbortExplained`).
- Fields and returned values of array type are not followed as references; arguments are
  (`RefsComplete` spells it out). Tags of Java 9 and later, and counts of 2^15 and more, throw inside
  the hook (`ThrownIfExceeds`). Names outside ASCII are narrowed byte by byte.
- `SpanExporter.java:52`: closed spans wait in a pool that is never shut down; `System.exit` drops
  them, although `Main.java:22` has just told the user to look at the visualizations. A child may be
  shown without its parent. `JSONDiskExporter.java:41`: a second span of the same millisecond overwrites the first one's
  file, which is why `SpanOnDiskIfAlone` speaks of spans that are alone. `Span.java:77`: the copy
  constructor leaves out the service name.
- `MRTaskAdvices`: `reduce2.exit` and `map.exit` lack the `instanceof SumMRTask` test of their enter
  advices; any other instrumented subclass of `MRTask` would meet a null there. (Read, not modelled.)

## 4. What is proved

`AgentServer_proofs` holds for every set of threads, loaders, classes and names, every relation of
references and every assignment of verdicts; it uses the three assumptions `NamesAssumption`,
`ServerAssumption`, `AgentAssumption` and nothing else.

- `TypeCorrect`, `TypesHold`: `Spec => []TypeOK`. The types alone are not inductive. Streaming an
  initializer reads `InterceptorsOf[subject]`, so `subject` must be a class while the server
  streams (`StreamInv`); an outcome is stored under the hook's class and loader, so a thread inside
  the agent must have both (`HookInv`); the helper counter is decremented, so it must not be zero
  inside the loop (`VMInv`), whatever number `atoi` made of the count.
- `MonitorRespected`: a thread past `EnterHook` owns the monitor (`MonitorInv`), and in a quiet JVM
  no callback runs while `VMInit` or `VMDeath` waits for the server (`QuietInv`). Preparation is the
  one callback that does not need the monitor.
- `ExclusiveUse`: `ASSUME ~Overlap PROVE Spec => []SocketExclusive`. Note what the proof does not
  use: `mtx`. The raw monitor alone gives exclusive use of the socket; `mtx` adds nothing to it, and
  without the assumption the theorem is false (`death_race`).
- `InterceptorsDefinable`: `Spec => []NoSelfLock`, from the invariant that every interceptor the
  agent has is an ignored class and that the one about to be defined is among them. It holds
  without the quiet JVM.

All four cover kills and restarts: `Kill` changes nothing they speak of, and after `Restart` what is
left of the old connection is still a queue of messages (`SuffixType`).

Each step lemma has one step per action.

`Protocol_proofs` has the rest of the properties of `AgentServer`. They speak of the end of things,
and none of them is near to being inductive. What makes them true is a relation between where an
actor is in the agent's code, where the server is in its own, and what is in the two queues between
them (`ProtocolInv`). While nobody is in an exchange nothing is on its way to the agent, and to the
server at most the rest of a `REGISTER_BYTECODE` request, which has no final acknowledgement
(`Quiet`, `Lag`). While somebody is, it depends on his place: a request and then its acknowledgement
(`AwaitAck`, `Acked`), the question about a class and its answer (`CheckPhase`), the helper classes,
counted down on both sides (`HelpersPhase`), or the answer to `INSTRUMENT` (`AnswerPhase`). That answer
is a stream of any length which both sides walk through at their own pace, and its messages do not
say what they are for. The invariant therefore asks for a *labelling*: for every message in transit
the place in the agent's code that will receive it and the class it will be about, such that each
follows from the one before (`Follows`, `Walk`), the first is where the agent is and the last is where
the server's position will lead it. The rest of the invariant says what a labelled stream contains:
only what the verdict on the hook's class asks for (`Content`), nothing twice (`Distinct`), auxiliary
types before initializers (`Ordered`), bytecode exactly for the interceptors that the agent does not
have (`Known`), and, together with what the server has still to send and the agent has already
stored, all of it (`Supplied`). A step of the server makes the labelling longer, a step of the agent
takes its first label away.

`RunInv` puts beside that what the tables mean: a load is pending until its one hook settles it
(`LoadInv`); what the agent's cache claims the server has or is about to have, and the references of
what is cached are cached too or still to be visited by some hook (`CachingInv`); instrumented
classes are ready (`ReadyInv`); and where a thread is that brought the JVM down (`AbortInv`).

All of these theorems assume the quiet JVM: without it the two sides do get out of step
(`death_race`). `RunInv` holds all through a first run (`FirstRunHolds`, which covers kills, and
restarts in that it claims nothing after them), and always if there is no second run under the same
server (`SingleRun`: a local Instrumentor, which ends with its application, or a bound of one run;
`SingleRunHolds`). A second run does break `RunInv`: the server's tables and a cut exchange outlive
the agent (`faults`). What follows:

| Theorem | States | Besides the quiet JVM it assumes |
|---|---|---|
| `AbortsExplained` | `AbortExplained` | nothing: any number of runs, kills and restarts |
| `CacheIsSound`, `ReturnsOwnBytecode`, `InstrumentedIsReady`, `InterceptorsKnown`, `StarvationIsExplained` | `CacheSound`, `OwnBytecode`, `ReadyToRun`, `InterceptorsAgree`, `StarvationExplained` | `SingleRun` |
| `DependenciesArriveFirst` | `DependenciesFirst` | `SingleRun`, and that the bytes of every class are found |
| `RepliesAreAligned` | `RepliesAligned` | `SingleRun`, and one loader whose classes are instrumented (`OneLoader`) |
| `NobodyStarves` | `NeverStarved` | these two, and transformations that do not fail (`AllAnswered`) |
| `RefinesClassLoading` | the safety part of `ImplementsClassLoading` | `SingleRun`, and that the application's classes do not have the names of the library's (`OwnNames`) |

Each of these conditions marks a place where the code makes no promise, and TLC shows what happens
there: a second loader is answered from `byteCodeCache`, which the agent cannot read (`repeat_load`);
a failing transformation and a dependency without bytes leave hooks waiting (`faults`). The instance of
`core` meets them all. Note what needs no such condition: whatever goes wrong in a single run,
no hook returns the bytecode of another class, no class is handed over before it is ready, the cache
is sound and nobody mistakes a message for the verdict.

`RefinesClassLoading` proves that `Init` implies `Abstract!Init` and every step is a step of
`ClassLoading` or a stutter: beginning a load is a `Request`, entering the hook a `Serve` or a `Skip`,
the verdict "no" and the new bytecode an `Answer`, `VMInit` the `Start`. That an answer is the one the
verdict asks for comes from the labelling. `ServedInv` is what it needs besides: who owns the monitor
is in the hook (`OwnerInv`), the JVM starts once (`BootInv`), a "no" on its way is about a class that
is to stay as it is (`VerdictInv`), and no class of the application is ever put among the ignored
ones, since the names there came from the server (`NamesInv`). The two steps of the refinement's
fairness, and `HookReturns`, are liveness: TLC checks them in `live`.

`AgentStart_proofs` is about every set of options, files, loggers and failing calls, under
`StartAssumption` and `LoggingAssumption`. The properties speak of the end of a start, so the
invariant must say what each place of it has made sure of: which arguments the checks leave
(`ArgsInv`: past the defaults every argument with a default is set, an address only after it was
made; past the check of the mandatory ones a local start has a main class), when the loggers exist
and at which level, which JVMTI steps are done, and what is launched and connected; and what a
running JVM keeps while an attachment goes through the same code again. `StartCorrect` is that
invariant; `StartTypes`, `CallbacksReady` and `DeathsNamed` are its consequences. `CallbacksReady` is
about a JVM that nobody attaches the agent to again; what an attachment does is in `DeathsNamed`. `OptionsParsed`
proves `ParseFaithful` for options and files of any length. The parser reads piece by piece, so the
invariant of its two loops (`ReadInv`) is about a prefix: there is nothing to refuse in it
(`NothingWrong`), and of every name `args` holds what the prefix chose, or nothing (`TakenFrom`). A
piece that is refused makes the whole wrong, whatever follows it (`PieceRefused`), which is why the
parser may stop there. After the loops `ReadInv` follows the choices through the checks, the defaults
and the directories to what `ParseFaithful` expects. `EntryEnds` is liveness.

The second part of `AgentStart_proofs` is about any number of threads, loggers and records, as long as the log file is only
opened again as `AgentStart` does it: it proves both properties of every behaviour of `AgentStart`.
`LossReported` holds although the rate limit is a race: a thread's old time can only bring
`_last_err_time` back, which makes reports more frequent, and a report stands for every value it ever
had (`LossInv`). `SinksAgree` needs that a thread between the sinks has printed the very record it is
about to write, and nothing later (`AgreeInv`).

`Tracing_proofs` takes `TracingAssumption` and shows, operation by operation, that the library keeps
`LibraryInv`: the types, `SpansPrivate`, `ChainLinked`, `OneTrace`, and `ChainsInTrace`, by which the
spans of a chain are of the context's trace. The last is what makes `OneTrace` inductive: a new span
gets the context's trace and its current span as parent. `ChainLinked` is what makes `SpansPrivate`
useful: moving up stays in the context. A second group of lemmas (`CreateEffect`, `OpenEffect`,
`DeepCopyEffect`, `MoveUpEffect`) says what an operation leaves alone.

`TracingClient_proofs` adds what the client must keep: what a thread is given exists, and a thread
that is closing has a context (`ClientInv`). `LibraryCorrect` is `Spec => []` of both, for any set of threads and
any bounds; `ObjectsExist`, `NoSharing`, `ClosingGoesUp`, `TracesSeparate` are its parts.

`ExportedAtMostOnce` (`ExportedOnce`) needs a second invariant. Ids are shared by a span and its
copies, so what must be known is which spans are no copies: those a thread has opened in its context
since it was given to it (`OwnInv`), and a thread closes no others. What was exported was such a span
and has left its chain, but for the moment between the two halves of `closeCurrentSpan` (`OnceInv`);
since no span is in two chains nobody can export it again. `GivenInv` says that contexts are not
shared, which the library itself does not enforce.

`ExportersSafe` (`ClosedFrozen`) follows from the same invariant. Setters and closing write to the
current span of a thread that is not closing one (`CurrentNotExported`), copying and opening only add
objects (`SpansKept`, `ExportedDetailsKept`), and an exported span is nobody's current span but for the
thread that is just moving up from it.

`ThreadTracing_proofs` is about the thread example with any number of starter tasks. The properties
speak of attached contexts, but a context exists before it is attached, in the local variable of the
thread that is starting another one. `CtxOf(t)` is therefore the context meant for `t`, wherever it
is; it is set once and never changes. `ThreadInv` says that no context is meant for two threads and
that traces agree exactly for a starter task and its dependant (`OwnersInv`), that what is attached
is what was meant (`AttachedInv`), what a starting thread holds (`StartingInv`), that a running
thread's context is not empty until it has closed its span (`RunningInv`), and that a dependant
starts only after its starter (`PointsInv`): without the last, a new starter task could already have
a dependant of another trace. `AdvicesSucceed`, `ContextsPrivate`, `TracesFollowTasks` and
`ProgramTyped` are consequences.

`SpansCloseInOrder` adds the end of the program (`OrderInv`). `JoinInv` says what a join has waited
for. `ChainsInv` says what is on each worker's chain: its own span while it is open and, for a
dependant task, below it a copy of its starter's span, which is still the starter's current span
until the dependant is done. So the parent id of a dependant's span is the id of a span that is on
its starter's chain and, by `ExportedInv` (the counterpart of `OnceInv`), not exported:
`ChildrenExportedFirst`. Conversely every span that was not exported is, or is a copy of, the current
span of a worker that has not closed it (`CoveredInv`); when `Main` exits there is no such worker:
`EverySpanClosed`. `FilesHoldTheirSpan` is about the disk exporter alone: a task that was written is
in its file unless another task has the same file (`DiskInv`), and no task, whether it succeeds or
fails, ever touches another's.

`CallbackTracing_proofs` is about the callback example with any number of callbacks. Here contexts are
attached to objects and Main opens spans in contexts whose workers are already counting on what is on
top. `CtxOfCallback(n)` and `CtxOfTask(n)` are the contexts meant for callback `n` and its task, in
Main's hands or attached, and never the same (`OwnersInv`). `ChainsInv` says how many spans are on
either chain at each place of Main and of the worker (`CallbackDepth`, `TaskDepth`), which ones, and
that the task's lowest span is a copy of the callback's. The copy is made before the submission span
is opened and the task starts after (`MainInv`), and that is what makes it right: the copy never has
the submission span, and the worker always finds it in the callback. `NoAdviceThrows` and
`AdvicesCloseTheirOwn` follow. `CoveredInv` says of every span of a callback's trace that it, or its
copy, was exported or is one the worker has still to come to (`Pending`); nothing is left of the
latter when the task is done: `TracesAreExported`. The callback span itself stays in the callback's
chain; it is its copy that is exported.

`ClassFile_proofs` is about every class of the shape a compiler writes, with any number of constants,
interfaces, members and attributes, and any width of a short. It rests on `ClassFileAssumption`
(`Half` is a positive number) and on `LegalAssumption`: every class given to the parser is `Legal`,
which asks of it what the class file format does (at most one superclass, counts and lengths that
fit into two bytes, no final interface, and the string of every class it names among its constants). TLC evaluates both in `class_file`. That a class
file is its parts put end to end makes everything about it an induction. The library's induction
theorems cannot be used here, so `Steps` is proved first: a set of numbers that has 0 and with each
number the next has them all. From it follow the sequences `FlattenSeq` goes through (`PartsUpTo`),
where each part starts (`Starts`) and that it is found there (`FlattenAt`); the layout of a file
(`Layout`) and what is at each constant, member and attribute (`ConstantSeen`, `MemberSeen`,
`AttributeSeen`) follow from those.

`ClassInv` says for each step of the parser where it is, how many items its loops have left and
which references it has collected. While the constants are read, the slots before the current one
hold what their constants say and the others are garbage (`Filled`). Once all are read, the name of
the class, of the interfaces and of the signatures can be looked up (`AllFilled`; `ClassLookup`), so
`UseGarbage` is never taken: no legal class makes the parser use a slot it did not fill in. It throws
only where an item exceeds a short or the parser's table of constants (`Exceeds`). There is one lemma
for each action. `ParserFollowsLayout` is the invariant; `ReferencesComplete`, `NamesAgreed`,
`StaysInsideFile` and `ThrownOnlyIfExceeds` are its consequences, the four properties `class_file`
checks.

Every invariant and every safety property that a passing run checks is therefore stated by a
theorem. What no theorem states, and TLC alone checks, is liveness: `HookReturns`, `EntryEnds`,
`Finishes`, and the fairness of `ImplementsClassLoading`. The provers cannot reason about fairness and
`ENABLED`.

## 5. What is not modelled, and why

- *Nested hooks for application classes.* `getResourceAsStream` runs Java code inside the hook. Which
  classes that loads depends on the application's class loader, which the repository does not have.
- *An initializer that cannot be serialized* (`BaseAgentBuilder.java:117`). The initializers are
  Byte Buddy's and hold an `Interceptor`, which is `Serializable`.
- *The H2O example's advices* (MRTask, RPC), and contexts serialized to other JVMs: their calls are
  scheduled by H2O's fork/join pools and RPC layer, and a model would be of H2O and not of this code.
  `StorageUtils`, `ReflectionUtils` and `StackTraceUtils` are used by these advices only.
- *Native methods*: a constant table, copied into JVMs by `RegisterNatives`.
- *The Attacher program*: one call of the JDK's attach API.
- *JSON printing, flags and endpoints of spans, the exporter's configuration string, service look-up, the configuration of Byte
  Buddy, build scripts*: formatting and configuration, without state that steps could disturb.
- *Of spdlog*: formatting, asynchronous loggers and the other sinks, which the agent never creates.
  The vendored headers (`spdlog`, `fmt`, `sole`) are two thirds of the implementation's lines and are
  modelled as far as the agent runs them; that is why most of the implementation's lines have no
  definition here.
- *Of the agent's start*: its own lines in the log, the flush at the end of the process, exhausted memory.
- *Of `shouldInstrument`*: files and directories of `saveClassOnDisk` and `stop`.

What could be added: a theorem about later runs of a remote server that were not cut.

## 6. Running it

`tlc -config Core.cfg MCAgentServer` and likewise for the other configurations;
`tlapm AgentServer_proofs.tla` and so on for the proofs. `PROJECT.json` maps every definition to the lines it
models, lists the runs, and for every property a change to the model that breaks it.
