----------------------------- MODULE NativeAgent ------------------------------
(* The native agent inside the monitored JVM: the JVMTI callbacks of           *)
(* AgentCallbacks.cpp and the client side of the protocol, InstrumentorAPI.cpp.*)
(* Any application thread may be in the class file load hook; one more actor,  *)
(* VM, runs the VMInit and VMDeath callbacks.  A hook raised while another one *)
(* of the same thread is running belongs to ignored classes only: bootstrap    *)
(* classes, and the interceptors that loadInterceptor defines.                 *)
EXTENDS Wire

CONSTANTS Threads,        \* application threads that load classes
          VM,             \* the thread that runs callbackVMInit and callbackVMDeath
          Loaders,        \* class loaders
          IgnoredLoaders, \* those named in InstrumentorAPI::ignoredLoaders
          Findable,       \* classes whose bytes getResourceAsStream finds
          ByteLength,     \* what atoi makes of the length of some bytecode
          LocalMode,      \* isRunningInLocalMode(): the agent started the server
          Overlap,        \* may classes be loaded while VMInit or VMDeath is running?
          Preparable,     \* bound: the classes that are prepared, the others are only loaded
          MaxRuns         \* bound: how often the monitored application is started

ASSUME AgentAssumption ==
  /\ VM \notin Threads /\ None \notin Threads /\ None \notin Loaders
  /\ IgnoredLoaders \subseteq Loaders
  /\ Findable \subseteq Classes
  /\ ByteLength \in Nat /\ MaxRuns \in Nat
  /\ LocalMode \in BOOLEAN /\ Overlap \in BOOLEAN /\ Preparable \subseteq Classes

Actors == Threads \cup {VM}

VARIABLES pc,           \* where each actor is in the agent's code
          class,        \* the class the thread's hook is called for
          loader,       \* and its loader
          dep,          \* the class being checked and sent: that class or a dependency
          todo,         \* references loadDependencies has still to look at
          got,          \* name last received by the actor
          monitor,      \* owner of the raw monitor "agent data", or None
          mtx,          \* owner of InstrumentorAPI::mtx, or None
          vmStarted, helpersLeft,
          classesCache, \* instrumentorClassesCache
          ignoredClasses,
          interceptors, \* keys of the map of interceptors
          loadedInterceptorsPerCl,
          initializers, \* initializers stored per class
          loads,        \* per class and loader: how far loading it is and what code it got
          prepared,     \* per class and loader: how far preparing it is, and whether its
                        \* initializers ran
          aborted,      \* the JVM died of a failed assertion, an exception or a bad JNI call
          killed,       \* or was killed from outside
          cut,          \* an earlier run ended in the middle of an exchange
          runs
frame  == <<class, loader, dep, todo>>
life   == <<aborted, killed, cut, runs>>
locks  == <<monitor, mtx>>
tables == <<classesCache, ignoredClasses, interceptors, loadedInterceptorsPerCl, initializers>>
jvm    == <<vmStarted, helpersLeft, loads, prepared, life>>
agent  == <<pc, frame, got, locks, tables, jvm>>

Outcomes == {"unloaded", "pending", "original", "instrumented", "foreign"}
\* "raced": another hook inserted into the map of initializers while it was searched; it stays if
\* the search missed what was there.
Preparations == {"no", "searching", "raced", "initialized", "plain"}

\* Control points that wait for a message, and those of them inside mtx.
HookReceives == {"checkAck", "checkReply", "registerAck", "instrumentAck", "aux", "auxName",
  "auxLength", "auxBytes", "init", "interceptorName", "interceptorLength", "interceptorBytes",
  "initializerName", "initializerLength", "initializerBytes", "verdict", "newLength", "newBytes"}
VMReceives   == {"helpersAck", "helpersCount", "helperName", "helperLength", "helperBytes",
  "stopAck"}
HookPoints   == HookReceives \cup {"idle", "enter", "check", "send", "deps", "define",
  "selfLocked", "exit", "prepare"}
VMPoints     == VMReceives \cup {"boot", "running", "dead"}

PcTypeOK ==
  /\ pc \in [Actors -> HookPoints \cup VMPoints]
  /\ pc[VM] \in VMPoints /\ \A t \in Threads : pc[t] \in HookPoints
FrameTypeOK ==
  /\ class \in [Threads -> Classes \cup {None}]
  /\ loader \in [Threads -> Loaders \cup {None}]
  /\ dep \in [Threads -> Classes \cup {None}]
  /\ todo \in [Threads -> SUBSET Classes]
  /\ got \in [Actors -> Names \cup {None}]
LockTypeOK == monitor \in Threads \cup {None} /\ mtx \in Threads \cup {None}
TableTypeOK ==
  /\ classesCache \subseteq Classes
  /\ ignoredClasses \subseteq Names \cup {None}
  /\ interceptors \subseteq Names \cup {None}
  /\ loadedInterceptorsPerCl \in [Loaders -> SUBSET (Names \cup {None})]
  /\ initializers \in [Classes -> SUBSET (Names \cup {None})]
JvmTypeOK ==
  /\ vmStarted \in BOOLEAN /\ aborted \in BOOLEAN /\ killed \in BOOLEAN /\ cut \in BOOLEAN
  /\ helpersLeft \in Nat /\ runs \in Nat
  /\ loads \in [Classes \X Loaders -> Outcomes]
  /\ prepared \in [Classes \X Loaders -> Preparations]
AgentTypeOK == PcTypeOK /\ FrameTypeOK /\ LockTypeOK /\ TableTypeOK /\ JvmTypeOK

\* The state of a newly started JVM whose agent has connected (initAgent).
AgentInit ==
  /\ pc = [a \in Actors |-> IF a = VM THEN "boot" ELSE "idle"]
  /\ class = [t \in Threads |-> None] /\ loader = [t \in Threads |-> None]
  /\ dep = [t \in Threads |-> None] /\ todo = [t \in Threads |-> {}]
  /\ got = [a \in Actors |-> None]
  /\ monitor = None /\ mtx = None
  /\ vmStarted = FALSE /\ helpersLeft = 0
  /\ aborted = FALSE /\ killed = FALSE /\ cut = FALSE
  /\ classesCache = {} /\ ignoredClasses = {} /\ interceptors = {}
  /\ loadedInterceptorsPerCl = [l \in Loaders |-> {}]
  /\ initializers = [c \in Classes |-> {}]
  /\ loads = [cl \in Classes \X Loaders |-> "unloaded"]
  /\ prepared = [cl \in Classes \X Loaders |-> "no"]
  /\ toServer = <<>> /\ toAgent = <<>>
  /\ runs = 1

Alive == ~aborted /\ ~killed /\ pc[VM] # "dead"
At(a, p) == Alive /\ pc[a] = p
Goto(a, p) == pc' = [pc EXCEPT ![a] = p]
Lock(t) == mtx = None /\ mtx' = t /\ UNCHANGED monitor
Unlock == mtx' = None /\ UNCHANGED monitor
Abort == aborted' = TRUE /\ UNCHANGED <<vmStarted, helpersLeft, loads, prepared, killed, cut, runs>>
Loads(t, outcome) == loads' = [loads EXCEPT ![<<class[t], loader[t]>>] = outcome]
                     /\ UNCHANGED <<vmStarted, helpersLeft, prepared, life>>

\* A callback returns, and its local variables are gone.
Leave(t) ==
  /\ class' = [class EXCEPT ![t] = None] /\ loader' = [loader EXCEPT ![t] = None]
  /\ dep' = [dep EXCEPT ![t] = None] /\ got' = [got EXCEPT ![t] = None]
  /\ UNCHANGED todo

\* sendRequestAndAssertReply: the request's type byte goes out (AgentSends) and the reply must be
\* the acknowledgement, or assert() kills the JVM; then the request's arguments go out.
Acknowledged(a, p, arguments) ==
  /\ AgentTakes
  /\ IF Reply.kind = "ack_req_msg"
       THEN AgentSends(arguments) /\ Goto(a, p) /\ UNCHANGED jvm
       ELSE Abort /\ UNCHANGED <<pc, toServer>>

(* The class file load hook, cbClassFileLoadHook *)

\* The JVM calls the hook once per class and loader.  A quiet JVM loads no application class while
\* it runs the VMInit and VMDeath callbacks.
BeginLoad(t, c, l) ==
  /\ At(t, "idle") /\ (Overlap \/ pc[VM] \in {"boot", "running"})
  /\ loads[<<c, l>>] = "unloaded"
  /\ loads' = [loads EXCEPT ![<<c, l>>] = "pending"]
  /\ Goto(t, "enter")
  /\ class' = [class EXCEPT ![t] = c]
  /\ loader' = [loader EXCEPT ![t] = l]
  /\ dep' = [dep EXCEPT ![t] = c]
  /\ UNCHANGED <<todo, got, locks, tables, vmStarted, helpersLeft, prepared, life, wire>>

\* shouldContinue
ShouldContinue(c, l) == l \notin IgnoredLoaders /\ c \notin ignoredClasses

\* Mutant: the hook does not wait for the monitor.
EnterUnguarded(t) ==
  /\ At(t, "enter")
  /\ monitor' = t
  /\ IF vmStarted /\ ShouldContinue(class[t], loader[t])
       THEN Goto(t, "check") /\ UNCHANGED jvm
       ELSE Goto(t, "exit") /\ Loads(t, "original")
  /\ UNCHANGED <<frame, got, mtx, tables, wire>>

EnterHook(t) ==
  /\ At(t, "enter") /\ monitor = None
  /\ monitor' = t
  /\ IF vmStarted /\ ShouldContinue(class[t], loader[t])
       THEN Goto(t, "check") /\ UNCHANGED jvm
       ELSE Goto(t, "exit") /\ Loads(t, "original")
  /\ UNCHANGED <<frame, got, mtx, tables, wire>>

\* isClassOnInstrumentor, for the class and for every dependency: the agent's cache first, ...
FoundInCache(t) ==
  /\ At(t, "check") /\ dep[t] \in classesCache
  /\ Goto(t, "deps")
  /\ UNCHANGED <<frame, got, locks, tables, jvm, wire>>

\* ... then the server.
AskHasClass(t) ==
  /\ At(t, "check") /\ dep[t] \notin classesCache
  /\ Lock(t)
  /\ AgentSends(<<Text("CHECK_HAS_CLASS")>>) /\ Goto(t, "checkAck")
  /\ UNCHANGED <<frame, got, tables, jvm, toAgent>>

CheckAck(t) ==
  /\ At(t, "checkAck") /\ Acknowledged(t, "checkReply", <<Name(dep[t])>>)
  /\ UNCHANGED <<frame, got, locks, tables>>

\* Mutants: every class asked about is cached; mtx is released only after "yes".
CacheAnyway(t) ==
  /\ At(t, "checkReply") /\ AgentTakes
  /\ Unlock
  /\ classesCache' = classesCache \cup {dep[t]}
  /\ Goto(t, IF Reply.kind = "yes" THEN "deps" ELSE "send")
  /\ UNCHANGED <<frame, got, ignoredClasses, interceptors, loadedInterceptorsPerCl, initializers,
                 jvm, toServer>>
UnlockOnYes(t) ==
  /\ At(t, "checkReply") /\ AgentTakes
  /\ IF Reply.kind = "yes"
       THEN Unlock /\ classesCache' = classesCache \cup {dep[t]} /\ Goto(t, "deps")
       ELSE UNCHANGED <<locks, classesCache>> /\ Goto(t, "send")
  /\ UNCHANGED <<frame, got, ignoredClasses, interceptors, loadedInterceptorsPerCl, initializers,
                 jvm, toServer>>

CheckReply(t) ==
  /\ At(t, "checkReply") /\ AgentTakes
  /\ Unlock
  /\ IF Reply.kind = "yes" THEN classesCache' = classesCache \cup {dep[t]} /\ Goto(t, "deps")
                           ELSE UNCHANGED classesCache /\ Goto(t, "send")
  /\ UNCHANGED <<frame, got, ignoredClasses, interceptors, loadedInterceptorsPerCl, initializers,
                 jvm, toServer>>

\* sendClassData: the hook has the bytes of its own class, and getResourceAsStream finds those of
\* a dependency (sendReferencedClass).
SendClassData(t) ==
  /\ At(t, "send") /\ (dep[t] = class[t] \/ dep[t] \in Findable)
  /\ Lock(t)
  /\ AgentSends(<<Text("REGISTER_BYTECODE")>>) /\ Goto(t, "registerAck")
  /\ UNCHANGED <<frame, got, tables, jvm, toAgent>>

\* Without bytes, triggerLoadingWithSpecificLoader calls a static method of
\* cz/cuni/mff/d3s/distrace/Utils.  There is no such class, so FindClass gives NULL, and what the
\* calls with the NULL class do is undefined: the JVM dies or the hook goes on without the class.
TriggerLoading(t) ==
  /\ At(t, "send") /\ dep[t] # class[t] /\ dep[t] \notin Findable
  /\ Goto(t, "deps")
  /\ Abort \/ UNCHANGED jvm
  /\ UNCHANGED <<frame, got, locks, tables, wire>>

\* Mutant: the references of a dependency are not followed, only those of the class itself.
RegisterShallow(t) ==
  /\ At(t, "registerAck") /\ Acknowledged(t, "deps", <<Name(dep[t]), Payload(dep[t])[2]>>)
  /\ Unlock
  /\ classesCache' = classesCache \cup {dep[t]}
  /\ todo' = [todo EXCEPT ![t] = IF dep[t] = class[t] THEN Refs[dep[t]] ELSE @]
  /\ UNCHANGED <<class, loader, dep, got, ignoredClasses, interceptors, loadedInterceptorsPerCl,
                 initializers>>

\* Name and bytes go out; the class is cached, and loadDependencies goes on with its references.
\* The recursion is kept as the set of references still to visit.
RegisterAck(t) ==
  /\ At(t, "registerAck") /\ Acknowledged(t, "deps", <<Name(dep[t]), Payload(dep[t])[2]>>)
  /\ Unlock
  /\ classesCache' = classesCache \cup {dep[t]}
  /\ todo' = [todo EXCEPT ![t] = @ \cup Refs[dep[t]]]
  /\ UNCHANGED <<class, loader, dep, got, ignoredClasses, interceptors, loadedInterceptorsPerCl,
                 initializers>>

NextDependency(t) ==
  /\ At(t, "deps")
  /\ \E d \in todo[t] :
       /\ dep' = [dep EXCEPT ![t] = d]
       /\ todo' = [todo EXCEPT ![t] = @ \ {d}]
  /\ Goto(t, "check")
  /\ UNCHANGED <<class, loader, got, locks, tables, jvm, wire>>

(* instrument, shouldInstrument *)

RequestInstrument(t) ==
  /\ At(t, "deps") /\ todo[t] = {}
  /\ Lock(t)
  /\ AgentSends(<<Text("INSTRUMENT")>>) /\ Goto(t, "instrumentAck")
  /\ UNCHANGED <<frame, got, tables, jvm, toAgent>>

\* Mutant: the request names the class sent last.
InstrumentLastSent(t) ==
  /\ At(t, "instrumentAck") /\ Acknowledged(t, "aux", <<Name(dep[t])>>)
  /\ UNCHANGED <<frame, got, locks, tables>>

InstrumentAck(t) ==
  /\ At(t, "instrumentAck") /\ Acknowledged(t, "aux", <<Name(class[t])>>)
  /\ UNCHANGED <<frame, got, locks, tables>>

\* loadAuxiliaryClasses and loadInitializers: anything but the marker ends the loop.
ReceiveAuxMarker(t) ==
  /\ At(t, "aux") /\ AgentTakes
  /\ Goto(t, IF Reply.kind = "auxiliary_types" THEN "auxName" ELSE "init")
  /\ UNCHANGED <<frame, got, locks, tables, jvm, toServer>>

ReceiveInitMarker(t) ==
  /\ At(t, "init") /\ AgentTakes
  /\ Goto(t, IF Reply.kind = "initializers" THEN "interceptorName" ELSE "verdict")
  /\ UNCHANGED <<frame, got, locks, tables, jvm, toServer>>

ReceiveAuxName(t) ==
  /\ At(t, "auxName") /\ AgentTakes
  /\ got' = [got EXCEPT ![t] = Reply.of] /\ Goto(t, "auxLength")
  /\ UNCHANGED <<frame, locks, tables, jvm, toServer>>

\* Lengths, and the initializer's class name, are read and only logged or used as a size.
AfterUnread == [auxLength |-> "auxBytes", interceptorLength |-> "interceptorBytes",
                initializerName |-> "initializerLength", initializerLength |-> "initializerBytes",
                newLength |-> "newBytes"]
ReceiveUnread(t) ==
  /\ Alive /\ pc[t] \in DOMAIN AfterUnread /\ AgentTakes
  /\ Goto(t, AfterUnread[pc[t]])
  /\ UNCHANGED <<frame, got, locks, tables, jvm, toServer>>

ReceiveAuxBytes(t) ==
  /\ At(t, "auxBytes") /\ AgentTakes
  /\ ignoredClasses' = ignoredClasses \cup {got[t]} /\ Goto(t, "aux")
  /\ UNCHANGED <<frame, got, locks, classesCache, interceptors, loadedInterceptorsPerCl,
                 initializers, jvm, toServer>>

\* loadInterceptor: the bytecode follows the name only the first time, as the agent believes.
ReceiveInterceptorName(t) ==
  /\ At(t, "interceptorName") /\ AgentTakes
  /\ got' = [got EXCEPT ![t] = Reply.of]
  /\ Goto(t, IF Reply.of \in interceptors THEN "define" ELSE "interceptorLength")
  /\ UNCHANGED <<frame, locks, tables, jvm, toServer>>

\* Mutant: the interceptor is not made an ignored class.
InterceptorNotIgnored(t) ==
  /\ At(t, "interceptorBytes") /\ AgentTakes
  /\ interceptors' = interceptors \cup {got[t]}
  /\ Goto(t, "define")
  /\ UNCHANGED <<frame, got, locks, classesCache, ignoredClasses, loadedInterceptorsPerCl,
                 initializers, jvm, toServer>>

ReceiveInterceptorBytes(t) ==
  /\ At(t, "interceptorBytes") /\ AgentTakes
  /\ interceptors' = interceptors \cup {got[t]}
  /\ ignoredClasses' = ignoredClasses \cup {got[t]}
  /\ Goto(t, "define")
  /\ UNCHANGED <<frame, got, locks, classesCache, loadedInterceptorsPerCl, initializers, jvm,
                 toServer>>

\* DefineClass raises the hook for the interceptor on this thread, inside mtx.  The hook returns at
\* once for an ignored class; any other class it would ask the server about, and wait for mtx.
DefineInterceptor(t) ==
  /\ At(t, "define")
  /\ LET i == got[t]  l == loader[t] IN
     IF i \in loadedInterceptorsPerCl[l] \/ ~ShouldContinue(i, l)
       THEN /\ loadedInterceptorsPerCl' = [loadedInterceptorsPerCl EXCEPT ![l] = @ \cup {i}]
            /\ Goto(t, "initializerName")
       ELSE UNCHANGED loadedInterceptorsPerCl /\ Goto(t, "selfLocked")
  /\ UNCHANGED <<frame, got, locks, classesCache, ignoredClasses, interceptors, initializers, jvm,
                 wire>>

\* The first initializer of a class is an insertion into a std::map that cbClassPrepare may be
\* searching on another thread.
Inserts(t) == initializers[class[t]] = {}
Race == prepared' = [cl \in Classes \X Loaders |->
                       IF prepared[cl] = "searching" THEN "raced" ELSE prepared[cl]]

ReceiveInitializerBytes(t) ==
  /\ At(t, "initializerBytes") /\ AgentTakes
  /\ initializers' = [initializers EXCEPT ![class[t]] = @ \cup {Reply.of}]
  /\ IF Inserts(t) THEN Race ELSE UNCHANGED prepared
  /\ Goto(t, "init")
  /\ UNCHANGED <<frame, got, locks, classesCache, ignoredClasses, interceptors,
                 loadedInterceptorsPerCl, vmStarted, helpersLeft, loads, life, toServer>>

\* The end of shouldInstrument: a reply that is neither yes nor no is thrown as a runtime_error
\* out of the callback, which ends the process.
ReceiveVerdict(t) ==
  /\ At(t, "verdict") /\ AgentTakes
  /\ \/ Reply.kind = "ack_req_int_yes" /\ Unlock /\ Goto(t, "newLength") /\ UNCHANGED jvm
     \/ Reply.kind = "ack_req_int_no" /\ Unlock /\ Goto(t, "exit") /\ Loads(t, "original")
     \/ Reply.kind \notin {"ack_req_int_yes", "ack_req_int_no"} /\ Abort /\ UNCHANGED <<pc, locks>>
  /\ UNCHANGED <<frame, got, tables, toServer>>

\* The new bytecode is received after mtx was released.
ReceiveNewBytes(t) ==
  /\ At(t, "newBytes") /\ AgentTakes
  /\ Loads(t, IF Reply = Payload(class[t])[2] THEN "instrumented" ELSE "foreign")
  /\ Goto(t, "exit")
  /\ UNCHANGED <<frame, got, locks, tables, toServer>>

ExitHook(t) ==
  /\ At(t, "exit") /\ monitor' = None /\ Goto(t, "idle") /\ Leave(t)
  /\ UNCHANGED <<mtx, tables, jvm, wire>>

HookStep(t) ==
  \/ EnterHook(t)
  \/ FoundInCache(t) \/ AskHasClass(t) \/ CheckAck(t) \/ CheckReply(t)
  \/ SendClassData(t) \/ TriggerLoading(t) \/ RegisterAck(t) \/ NextDependency(t)
  \/ RequestInstrument(t) \/ InstrumentAck(t)
  \/ ReceiveAuxMarker(t) \/ ReceiveAuxName(t) \/ ReceiveAuxBytes(t)
  \/ ReceiveInitMarker(t) \/ ReceiveInterceptorName(t) \/ ReceiveInterceptorBytes(t)
  \/ DefineInterceptor(t) \/ ReceiveInitializerBytes(t)
  \/ ReceiveUnread(t) \/ ReceiveVerdict(t) \/ ReceiveNewBytes(t)
  \/ ExitHook(t)

(* cbClassPrepare takes neither the monitor nor mtx *)

\* Once the hook has returned, a class is linked, once per loader, by whichever thread first uses
\* it; before any of its code runs.
BeginPrepare(t, c, l) ==
  /\ c \in Preparable /\ At(t, "idle") /\ (Overlap \/ pc[VM] \in {"boot", "running"})
  /\ loads[<<c, l>>] \notin {"unloaded", "pending"} /\ prepared[<<c, l>>] = "no"
  /\ \A u \in Threads : pc[u] = "idle" \/ <<class[u], loader[u]>> # <<c, l>>
  /\ prepared' = [prepared EXCEPT ![<<c, l>>] = "searching"]
  /\ Goto(t, "prepare")
  /\ class' = [class EXCEPT ![t] = c]
  /\ loader' = [loader EXCEPT ![t] = l]
  /\ dep' = [dep EXCEPT ![t] = c]
  /\ UNCHANGED <<todo, got, locks, tables, vmStarted, helpersLeft, loads, life, wire>>

Prepared(t, preparation) ==
  /\ prepared' = [prepared EXCEPT ![<<class[t], loader[t]>>] = preparation]
  /\ UNCHANGED <<vmStarted, helpersLeft, loads, life>>

\* Mutant: the map is searched for the name with slashes, and its keys have dots.
SearchInternalName(t) ==
  /\ At(t, "prepare") /\ Prepared(t, "plain") /\ Goto(t, "idle") /\ Leave(t)
  /\ UNCHANGED <<locks, tables, wire>>

\* loadInitializersForClass: what the map has for the class is read into objects, whose onLoad sets
\* the interceptors in the class.  After a race the search finds it, misses it, or kills the JVM.
LoadInitializersForClass(t) ==
  /\ At(t, "prepare")
  /\ \/ /\ Prepared(t, IF initializers[class[t]] = {} THEN "plain" ELSE "initialized")
        /\ Goto(t, "idle") /\ Leave(t)
     \/ prepared[<<class[t], loader[t]>>] = "raced" /\ Goto(t, "idle") /\ Leave(t) /\ UNCHANGED jvm
     \/ prepared[<<class[t], loader[t]>>] = "raced" /\ Abort /\ UNCHANGED <<pc, frame, got>>
  /\ UNCHANGED <<locks, tables, wire>>

(* callbackVMInit and callbackVMDeath: neither takes the monitor or mtx *)

QuietThreads == Overlap \/ \A t \in Threads : pc[t] = "idle"

VMInit ==
  /\ At(VM, "boot") /\ QuietThreads
  /\ vmStarted' = TRUE
  /\ AgentSends(<<Text("HELPER_CLASSES")>>) /\ Goto(VM, "helpersAck")
  /\ UNCHANGED <<frame, got, locks, tables, helpersLeft, loads, prepared, life, toAgent>>

HelpersAck ==
  /\ At(VM, "helpersAck") /\ Acknowledged(VM, "helpersCount", <<>>)
  /\ UNCHANGED <<frame, got, locks, tables>>

\* receiveIntReply: atoi of a text that is not a number is 0.
Atoi(m) == CASE m.kind = "count"  -> Cardinality(Helpers)
             [] m.kind = "length" -> ByteLength
             [] OTHER             -> 0

HelpersCount ==
  /\ At(VM, "helpersCount") /\ AgentTakes
  /\ helpersLeft' = Atoi(Reply)
  /\ Goto(VM, IF helpersLeft' = 0 THEN "running" ELSE "helperName")
  /\ UNCHANGED <<frame, got, locks, tables, vmStarted, loads, prepared, life, toServer>>

HelperName ==
  /\ At(VM, "helperName") /\ AgentTakes
  /\ got' = [got EXCEPT ![VM] = Reply.of] /\ Goto(VM, "helperLength")
  /\ UNCHANGED <<frame, locks, tables, jvm, toServer>>

HelperLength ==
  /\ At(VM, "helperLength") /\ AgentTakes
  /\ Goto(VM, "helperBytes")
  /\ UNCHANGED <<frame, got, locks, tables, jvm, toServer>>

HelperBytes ==
  /\ At(VM, "helperBytes") /\ AgentTakes
  /\ ignoredClasses' = ignoredClasses \cup {got[VM]}
  /\ helpersLeft' = helpersLeft - 1
  /\ Goto(VM, IF helpersLeft' = 0 THEN "running" ELSE "helperName")
  /\ UNCHANGED <<frame, got, locks, classesCache, interceptors, loadedInterceptorsPerCl,
                 initializers, vmStarted, loads, prepared, life, toServer>>

\* In local mode stop() ends the server; a remote server is left running.
VMDeath ==
  /\ At(VM, "running") /\ QuietThreads
  /\ IF LocalMode THEN AgentSends(<<Text("STOP")>>) /\ Goto(VM, "stopAck")
                  ELSE UNCHANGED toServer /\ Goto(VM, "dead")
  /\ UNCHANGED <<frame, got, locks, tables, jvm, toAgent>>

StopAck ==
  /\ At(VM, "stopAck") /\ Acknowledged(VM, "dead", <<>>)
  /\ UNCHANGED <<frame, got, locks, tables>>

VMStep == VMInit \/ HelpersAck \/ HelpersCount \/ HelperName \/ HelperLength \/ HelperBytes
          \/ VMDeath \/ StopAck

\* The actors between the first message of an exchange and its last.
InExchange == {a \in Actors : pc[a] \in HookReceives \cup VMReceives \cup {"define"}}

\* The monitored JVM of a remote server is killed, wherever its threads are.
Kill ==
  /\ ~LocalMode /\ Alive /\ runs < MaxRuns
  /\ killed' = TRUE
  /\ UNCHANGED <<pc, frame, got, locks, tables, vmStarted, helpersLeft, loads, prepared, aborted,
                 cut, runs, wire>>

\* The application is started again and its agent connects to the remote server that kept running.
\* What was sent to the server over the old connection and not received is gone.  The server does
\* not notice: what it sends between the end of the one connection and the next, it sends to the
\* next (send waits for a peer).
Restart ==
  /\ ~LocalMode /\ ~Alive /\ runs < MaxRuns
  /\ pc' = [a \in Actors |-> IF a = VM THEN "boot" ELSE "idle"]
  /\ class' = [t \in Threads |-> None] /\ loader' = [t \in Threads |-> None]
  /\ dep' = [t \in Threads |-> None] /\ todo' = [t \in Threads |-> {}]
  /\ got' = [a \in Actors |-> None]
  /\ monitor' = None /\ mtx' = None
  /\ vmStarted' = FALSE /\ helpersLeft' = 0
  /\ aborted' = FALSE /\ killed' = FALSE
  /\ cut' = (cut \/ InExchange # {} \/ toServer # <<>>)
  /\ classesCache' = {} /\ ignoredClasses' = {} /\ interceptors' = {}
  /\ loadedInterceptorsPerCl' = [l \in Loaders |-> {}]
  /\ initializers' = [c \in Classes |-> {}]
  /\ loads' = [cl \in Classes \X Loaders |-> "unloaded"]
  /\ prepared' = [cl \in Classes \X Loaders |-> "no"]
  /\ toServer' = <<>>
  /\ \E k \in 1..Len(toAgent) + 1 : toAgent' = SubSeq(toAgent, k, Len(toAgent))
  /\ runs' = runs + 1

AgentNext ==
  \/ \E t \in Threads :
       \/ HookStep(t) \/ LoadInitializersForClass(t)
       \/ \E c \in Classes, l \in Loaders : BeginLoad(t, c, l) \/ BeginPrepare(t, c, l)
  \/ VMStep
  \/ Kill \/ Restart
===============================================================================
