--------------------------- MODULE Protocol_proofs ----------------------------
(* What keeps the agent and the server in step, proved for every set of        *)
(* threads, classes, loaders and names.                                        *)
(*                                                                             *)
(* The properties of AgentServer speak of the end of things: a reply that is   *)
(* understood, a class that is ready.  What makes them true is a relation      *)
(* between where an actor is in the agent's code, where the server is in its   *)
(* own, and what is in the two queues between them; and, because the answer to *)
(* INSTRUMENT is a stream, a reading of every message of it by the place in    *)
(* the agent's code that is going to receive it: a labelling.  RunInv is that  *)
(* relation and what it needs.  It holds while the server serves its first     *)
(* run; FirstRun, its form for every behaviour, is inductive.                  *)
EXTENDS AgentServer_proofs

(* Where the server is when nobody waits for it *)

\* Of what was sent, n messages and the rest of a REGISTER_BYTECODE request are not yet received.
Lag(n) ==
  \/ position = "request" /\ Len(toServer) = n
  \/ /\ position = "registerName" /\ Len(toServer) = n + 2
     /\ \E c \in classesCache : toServer[1] = Name(c)
  \/ position = "registerBytes" /\ Len(toServer) = n + 1 /\ subject \in classesCache
\* Nothing is on its way to the agent, and the server is on its way to the top of its loop.
Quiet ==
  /\ toAgent = <<>>
  /\ Lag(0) \/ (position = "stopped" /\ toServer = <<>> /\ pc[VM] = "dead")

(* Acknowledgements and the answer to a check *)

\* The request whose acknowledgement is awaited at a point of the code.
RequestOf == [checkAck |-> "CHECK_HAS_CLASS", registerAck |-> "REGISTER_BYTECODE",
              instrumentAck |-> "INSTRUMENT", stopAck |-> "STOP"]
\* The request is the last message sent and not yet received ...
AwaitAck(k) == toAgent = <<>> /\ Lag(1) /\ toServer[Len(toServer)] = Text(k)
\* ... or it was, and its acknowledgement is on the way.
Acked(k) == toServer = <<>> /\ position = Dispatch(k) /\ toAgent = <<Text("ack_req_msg")>>
\* Thread t has named the class it asks about; "yes" only comes for a class the server has.
CheckPhase(t) ==
  \/ position = "checkName" /\ toServer = <<Name(dep[t])>> /\ toAgent = <<>>
  \/ /\ position = "request" /\ toServer = <<>>
     /\ \/ toAgent = <<Text("no")>>
        \/ toAgent = <<Text("yes")>> /\ dep[t] \in ServerHas

(* Answers of many messages.  Every message in toAgent has a label: the point  *)
(* of the code that is going to receive it, and the name it is about.  One     *)
(* more label says where the reader will be after the last of them.            *)

\* The points of loadAuxiliaryClasses, of loadInitializers, after both, and of loadPrepClasses.
AuxSide  == {"aux", "auxName", "auxLength", "auxBytes"}
InitSide == {"init", "interceptorName", "interceptorLength", "interceptorBytes",
             "initializerName", "initializerLength", "initializerBytes"}
LateSide == {"verdict", "newLength", "newBytes", "finished"}
HelperPoints == {"helpersAck", "helpersCount", "helperName", "helperLength", "helperBytes"}
Label == [at : AuxSide \cup InitSide \cup LateSide \cup HelperPoints, of : Names \cup {None}]
Labellings == Seq(Label)

\* What may be received where, and where that leads.
Script ==
  {<<"aux", "auxiliary_types", "auxName">>, <<"auxName", "name", "auxLength">>,
   <<"auxLength", "length", "auxBytes">>, <<"auxBytes", "bytes", "aux">>,
   <<"aux", "no_more_aux_classes", "init">>,
   <<"init", "initializers", "interceptorName">>,
   <<"interceptorName", "name", "interceptorLength">>,
   <<"interceptorLength", "length", "interceptorBytes">>,
   <<"interceptorBytes", "bytes", "initializerName">>,
   <<"interceptorName", "name", "initializerName">>,
   <<"initializerName", "name", "initializerLength">>,
   <<"initializerLength", "length", "initializerBytes">>,
   <<"initializerBytes", "bytes", "init">>,
   <<"init", "no_more_initializers", "verdict">>,
   <<"verdict", "ack_req_int_no", "finished">>,
   <<"verdict", "ack_req_int_yes", "newLength">>,
   <<"newLength", "length", "newBytes">>, <<"newBytes", "bytes", "finished">>,
   <<"helpersAck", "ack_req_msg", "helpersCount">>, <<"helpersCount", "count", "helperName">>,
   <<"helperName", "name", "helperLength">>, <<"helperLength", "length", "helperBytes">>,
   <<"helperBytes", "bytes", "helperName">>}
\* Message m is received at label p and leads to label q; the messages of one name stay together.
Follows(p, m, q) ==
  /\ <<p.at, m.kind, q.at>> \in Script
  /\ m.kind \in {"name", "length", "bytes"} /\ p.at \notin HelperPoints => m.of = p.of /\ q.of = p.of

\* Where the next message is received: an interceptor is defined between two of them.
PointOf(p) == IF p = "define" THEN "initializerName" ELSE p
\* Where the actor still has the name it last received.
Holding == {"auxLength", "auxBytes", "interceptorLength", "interceptorBytes", "initializerName",
            "initializerLength", "initializerBytes"}
\* r labels the queue q ...
Walk(r, q) ==
  /\ r \in Labellings /\ Len(r) = Len(q) + 1
  /\ \A i \in 1..Len(q) : Follows(r[i], q[i], r[i + 1])
\* ... and r labels what is on its way to actor a, from where it is.
Path(r, a) ==
  /\ Walk(r, toAgent)
  /\ r[1].at = PointOf(pc[a]) /\ (r[1].at \in Holding => r[1].of = got[a])

(* The answer to HELPER_CLASSES *)

\* How many messages loadPrepClasses has still to receive.
Remaining ==
  CASE pc[VM] = "helpersAck"   -> 3 * Cardinality(Helpers) + 2
    [] pc[VM] = "helpersCount" -> 3 * Cardinality(Helpers) + 1
    [] pc[VM] = "helperName"   -> 3 * helpersLeft
    [] pc[VM] = "helperLength" -> 3 * helpersLeft - 1
    [] OTHER                   -> 3 * helpersLeft - 2
\* Those on their way and those still to be sent are exactly as many.
HelpersPhase ==
  \/ pc[VM] = "helpersAck" /\ AwaitAck("HELPER_CLASSES")
  \/ /\ toServer = <<>> /\ unsent \subseteq Helpers
     /\ position = IF unsent = {} THEN "request" ELSE "helpers"
     /\ Len(toAgent) + 3 * Cardinality(unsent) = Remaining
     /\ \E r \in Labellings : Path(r, VM) /\ r[Len(r)].at = "helperName"

(* The answer to INSTRUMENT *)

\* Where a hook reads its answer; where it reads what an initializer consists of; the points that
\* come before the verdict.
AnswerPoints == {"aux", "auxName", "auxLength", "auxBytes", "init", "interceptorName",
  "interceptorLength", "interceptorBytes", "define", "initializerName", "initializerLength",
  "initializerBytes", "verdict", "newLength", "newBytes"}
ChunkPoints == InitSide \ {"init"}
Early == AuxSide \cup InitSide

\* The agent has had c's answer for loader l.
Settled(c, l) == l \notin IgnoredLoaders /\ loads[<<c, l>>] \notin {"unloaded", "pending"}
\* It has had the answer for t's class, for another loader.
AskedElsewhere(t) == \E l \in Loaders \ {loader[t]} : Settled(class[t], l)

\* Auxiliary types come first, initializers next, the verdict and the code last.
Ordered(r) ==
  \A i, j \in 1..Len(r) : i < j =>
    /\ r[j].at \in AuxSide => r[i].at \in AuxSide
    /\ r[j].at \in Early => r[i].at \in Early

\* The labelling ends where the server is in its own code ...
Ended(r, c) ==
  \/ position = "auxiliaries" /\ r[Len(r)].at = "aux" /\ unsent \subseteq AuxiliariesOf[c]
  \/ position = "initializers" /\ r[Len(r)].at = "init" /\ unsent \subseteq InterceptorsOf[c]
  \/ position = "request" /\ r[Len(r)].at = "finished"
\* ... or in the middle of an initializer whose interceptor has no bytecode.
Failed(r, c) == position = "request" /\ r[Len(r)].at = "interceptorLength" /\ Unanswerable(c)

\* The answer is about class c and its interceptors.
Content(r, c) ==
  /\ position \in {"auxiliaries", "initializers"} => subject = c /\ Verdict[c] = "match"
  /\ \A i \in 1..Len(toAgent) :
       /\ r[i].at \in ChunkPoints => r[i].of \in InterceptorsOf[c]
       /\ r[i].at \in {"newLength", "newBytes"} => r[i].of = c /\ Verdict[c] = "match"

\* No interceptor comes twice.
Distinct(r) ==
  /\ \A i, j \in 1..Len(toAgent) :
       i < j /\ r[i].at \in ChunkPoints /\ r[j].at = "interceptorName" => r[i].of # r[j].of
  /\ position = "initializers" =>
       \A i \in 1..Len(toAgent) : r[i].at \in ChunkPoints => r[i].of \notin unsent

\* The bytecode of an interceptor is in the answer exactly when the agent, by the time it reads its
\* name, is going to expect it; what the server has sent and the agent has not is on its way.
Known(r) ==
  /\ \A i \in 1..Len(toAgent) :
       /\ r[i].at = "interceptorName" => (r[i + 1].at = "initializerName" <=> r[i].of \in interceptors)
       /\ r[i].at = "interceptorBytes" => r[i].of \in sendInterceptors
  /\ interceptors \subseteq sendInterceptors
  /\ \A x \in sendInterceptors \ interceptors :
       \E i \in 1..Len(toAgent) : r[i].at = "interceptorBytes" /\ r[i].of = x

\* A message about x is on its way to the point p.
Coming(r, p, x) == \E i \in 1..Len(toAgent) : r[i].at = p /\ r[i].of = x
\* What the class needs at run time is in place, on its way, or still to be sent.
Supplied(r, t) ==
  LET c == class[t] IN
  Verdict[c] = "match" =>
    /\ \A x \in AuxiliariesOf[c] :
         \/ position = "auxiliaries" /\ x \in unsent
         \/ Coming(r, "auxBytes", x) \/ x \in ignoredClasses
    /\ \A x \in InterceptorsOf[c] :
         \/ position = "auxiliaries"
         \/ position = "initializers" /\ x \in unsent
         \/ Coming(r, "initializerBytes", x)
         \/ x \in loadedInterceptorsPerCl[loader[t]] \cap ignoredClasses /\ x \in initializers[c]

\* Both sides know of the same interceptors.
Agree == interceptors = sendInterceptors
\* The server has not yet read which class it is to instrument.
Unhandled(t) ==
  /\ pc[t] = "aux" /\ position = "instrumentName"
  /\ toServer = <<Name(class[t])>> /\ toAgent = <<>> /\ Agree
\* The server has answered with the code alone, or with nothing.
Cut(t) ==
  /\ toServer = <<>> /\ position = "request" /\ Agree
  /\ \/ pc[t] = "aux" /\ toAgent = <<>>
        /\ (Unanswerable(class[t]) \/ RefersToMissing(class[t]) \/ AskedElsewhere(t))
     \/ /\ AskedElsewhere(t)
        /\ \/ pc[t] = "aux" /\ toAgent = Payload(class[t])
           \/ pc[t] = "init" /\ Len(toAgent) = 1 /\ toAgent[1].kind = "bytes"
           \/ pc[t] = "verdict" /\ toAgent = <<>>
\* The server has streamed the answer, or is streaming it.
Answer(r, t) ==
  /\ toServer = <<>> /\ Path(r, t) /\ Ordered(r)
  /\ Content(r, class[t]) /\ Distinct(r) /\ Known(r)
  /\ \/ Ended(r, class[t]) /\ Supplied(r, t)
     \/ Failed(r, class[t])
\* So it is with a hook that waits for its answer.
AnswerPhase(t) == Unhandled(t) \/ Cut(t) \/ \E r \in Labellings : Answer(r, t)

\* So it is with an actor in the middle of an exchange.
Exchange(a) ==
  /\ pc[a] \in DOMAIN RequestOf => AwaitAck(RequestOf[pc[a]]) \/ Acked(RequestOf[pc[a]])
  /\ pc[a] = "checkReply" => CheckPhase(a)
  /\ pc[a] \in AnswerPoints => AnswerPhase(a)
  /\ pc[a] \in HelperPoints => HelpersPhase
\* The two sides are in step.
ProtocolInv ==
  /\ InExchange = {} => Quiet
  /\ \A a \in InExchange : Exchange(a)
  /\ (\A t \in Threads : pc[t] \notin AnswerPoints) => Agree

(* Hooks and loads *)

\* Where a hook is about to send dep, or sends it; where it has a load to serve.
SendPoints == {"check", "checkAck", "checkReply", "send", "registerAck"}
Loading(t) == pc[t] \notin {"idle", "exit", "prepare"}
\* A load is pending until its hook settles it, and only one hook serves it; classes of ignored
\* loaders go no further than the entry; nothing is prepared before it was loaded.
LoadInv ==
  /\ \A t \in Threads :
       /\ Loading(t) => loads[<<class[t], loader[t]>>] = "pending"
       /\ Loading(t) /\ pc[t] # "enter" => loader[t] \notin IgnoredLoaders
       /\ pc[t] = "prepare" => prepared[<<class[t], loader[t]>>] # "no"
       /\ todo[t] # {} => pc[t] \in SendPoints \cup {"deps"}
       /\ pc[t] \in {"initializerName", "initializerLength", "initializerBytes"}
            => got[t] \in loadedInterceptorsPerCl[loader[t]] \cap ignoredClasses
  /\ \A t, u \in Threads :
       Loading(t) /\ Loading(u) /\ class[t] = class[u] /\ loader[t] = loader[u] => t = u
  /\ \A cl \in Classes \X Loaders : loads[cl] \in {"unloaded", "pending"} => prepared[cl] = "no"

(* What the server has *)

\* The classes the server was sent, or has itself.
Has == registered \cup ServerClasspath
\* What the agent caches the server has, or is about to have; the references of what is cached are
\* cached, or some hook has still to send them; what a hook asks to have instrumented was sent.
CachingInv ==
  /\ \A c \in classesCache :
       \/ c \in Has
       \/ position = "registerBytes" /\ subject = c
       \/ position = "registerName" /\ toServer # <<>> /\ toServer[1] = Name(c)
  /\ Cached \subseteq Has /\ ServerHas \subseteq classesCache \cup ServerClasspath
  /\ \A c \in classesCache : \A d \in Refs[c] :
       \/ d \in classesCache \cup ServerClasspath \/ d \notin Findable
       \/ \E t \in Threads : d \in todo[t] \/ (dep[t] = d /\ pc[t] \in SendPoints)
  /\ \A t \in Threads :
       /\ pc[t] \in SendPoints \cup {"enter"} => dep[t] = class[t] \/ class[t] \in classesCache
       /\ pc[t] \in AnswerPoints \cup {"deps", "instrumentAck"} => class[t] \in classesCache
       /\ pc[t] \in {"checkAck", "checkReply"} => dep[t] \notin classesCache
  /\ \A c \in Cached :
       \/ \E l \in Loaders : Settled(c, l)
       \/ \E t \in Threads : pc[t] \in AnswerPoints /\ class[t] = c /\ position # "instrumentName"

\* Instrumented classes are ready, and no class has initializers that are not its own.
ReadyInv ==
  /\ \A c \in Classes : initializers[c] \subseteq InterceptorsOf[c]
  /\ OwnBytecode /\ ReadyToRun

\* Where a thread is that has just brought the JVM down.
AbortInv ==
  aborted => \E t \in Threads :
         \/ pc[t] = "deps" /\ dep[t] \notin Findable
         \/ pc[t] = "prepare" /\ prepared[<<class[t], loader[t]>>] = "raced"

\* All of it, for the first run.
RunInv == LoadInv /\ CachingInv /\ ReadyInv /\ AbortInv /\ ProtocolInv
FirstRun == runs = 1 => RunInv

(* What one step of a hook leaves alone *)

\* The types, by name.
LEMMA Types ==
  ASSUME TypeInv
  PROVE  /\ pc \in [Actors -> HookPoints \cup VMPoints]
         /\ pc[VM] \in VMPoints /\ \A t \in Threads : pc[t] \in HookPoints
         /\ class \in [Threads -> Classes \cup {None}] /\ loader \in [Threads -> Loaders \cup {None}]
         /\ dep \in [Threads -> Classes \cup {None}] /\ todo \in [Threads -> SUBSET Classes]
         /\ got \in [Actors -> Names \cup {None}]
         /\ loads \in [Classes \X Loaders -> Outcomes]
         /\ prepared \in [Classes \X Loaders -> Preparations]
         /\ initializers \in [Classes -> SUBSET (Names \cup {None})]
         /\ loadedInterceptorsPerCl \in [Loaders -> SUBSET (Names \cup {None})]
         /\ byteCodeCache \in [Classes -> {"absent", "null", "code"}]
         /\ toServer \in Seq(Message) /\ toAgent \in Seq(Message)
         /\ classesCache \subseteq Classes /\ unsent \subseteq Names
         /\ VM \notin Threads /\ Threads \subseteq Actors /\ VM \in Actors
BY AgentAssumption DEF TypeInv, TypeOK, AgentTypeOK, PcTypeOK, FrameTypeOK, JvmTypeOK, TableTypeOK,
    ServerTypeOK, Actors

\* A thread past EnterHook is alone in the middle of an exchange, and so are the VM callbacks.
LEMMA Alone ==
  ASSUME TypeInv, MonitorInv, QuietInv, ~Overlap
  PROVE  /\ \A t \in Threads : pc[t] \notin {"idle", "enter", "prepare"} => InExchange \subseteq {t}
         /\ pc[VM] \in VMReceives =>
              InExchange = {VM} /\ \A t \in Threads : pc[t] = "idle"
         /\ \A a \in InExchange : a = VM <=> pc[a] \in VMReceives
<1>0. /\ VM \notin Threads /\ Actors = Threads \cup {VM}
      /\ pc[VM] \in VMPoints /\ \A t \in Threads : pc[t] \in HookPoints
  BY Types DEF Actors
<1>1. \A t \in Threads : t \in InExchange <=> pc[t] \in HookReceives \cup {"define"}
  BY <1>0 DEF InExchange, HookPoints, HookReceives, VMReceives
<1>2. VM \in InExchange <=> pc[VM] \in VMReceives
  BY <1>0 DEF InExchange, VMPoints, HookReceives, VMReceives
<1>3. \A t \in Threads : pc[t] \in HookReceives \cup {"define"} =>
        pc[t] \notin {"idle", "enter", "prepare"} \cup VMReceives
  BY DEF HookReceives, VMReceives
<1>4. InExchange \subseteq Threads \cup {VM} BY <1>0 DEF InExchange
<1>5. pc[VM] \in VMReceives => \A t \in Threads : pc[t] = "idle" BY DEF QuietInv
<1>6. \A t, u \in Threads : pc[t] \notin {"idle", "enter", "prepare"}
                            /\ pc[u] \notin {"idle", "enter", "prepare"} => t = u
  BY DEF MonitorInv
<1> QED BY <1>0, <1>1, <1>2, <1>3, <1>4, <1>5, <1>6

(* One step of a hook *)

\* A step of a hook moves its own thread, inside the callback or out of it, and its own frame.
HookFrame(t) ==
  /\ ~aborted /\ runs' = runs
  /\ \A u \in Actors \ {t} : pc'[u] = pc[u] /\ got'[u] = got[u]
  /\ \A u \in Threads \ {t} : class'[u] = class[u] /\ loader'[u] = loader[u]
                                /\ dep'[u] = dep[u] /\ todo'[u] = todo[u]
  /\ pc[t] \notin {"idle", "prepare"} /\ pc'[t] \in HookPoints \ {"prepare"}
  /\ pc'[t] = "enter" => pc[t] = "enter"
  /\ pc'[t] = "idle" <=> pc[t] = "exit"
  /\ pc[t] # "exit" => class'[t] = class[t] /\ loader'[t] = loader[t]

\* Every step of a hook is of that form.
LEMMA HookFrames ==
  ASSUME TypeInv, DefineInv, NEW t \in Threads, HookStep(t)
  PROVE  HookFrame(t)
<1>0. PcTypeOK /\ FrameTypeOK BY DEF TypeInv, TypeOK, AgentTypeOK
<1>a. Alive
  BY DEF HookStep, At, EnterHook, FoundInCache, AskHasClass, CheckAck, CheckReply, SendClassData,
     TriggerLoading, RegisterAck, NextDependency, RequestInstrument, InstrumentAck,
     ReceiveAuxMarker, ReceiveAuxName, ReceiveAuxBytes, ReceiveInitMarker,
     ReceiveInterceptorName, ReceiveInterceptorBytes, DefineInterceptor, ReceiveInitializerBytes,
     ReceiveUnread, ReceiveVerdict, ReceiveNewBytes, ExitHook
<1>1. \A u \in Actors \ {t} : pc'[u] = pc[u] BY <1>0, HookMoves
<1>2. \A u \in Actors \ {t} : got'[u] = got[u] BY <1>0, HookDefines DEF Defines
<1>3. /\ \A p : Goto(t, p) => pc'[t] = p
      /\ pc[t] \in HookPoints
  BY <1>0 DEF Goto, PcTypeOK, Actors
<1>4. UNCHANGED frame => UNCHANGED <<class, loader, dep, todo>> BY DEF frame
<1>5. \A v \in Classes \cup {None} : dep' = [dep EXCEPT ![t] = v] => \A u \in Threads \ {t} : dep'[u] = dep[u]
  BY <1>0 DEF FrameTypeOK
<1> DEFINE Own == /\ runs' = runs
                  /\ pc[t] \notin {"idle", "prepare"} /\ pc'[t] \in HookPoints \ {"prepare"}
                  /\ pc'[t] = "enter" => pc[t] = "enter"
                  /\ pc'[t] = "idle" <=> pc[t] = "exit"
                  /\ \/ UNCHANGED <<class, loader>> 
                     \/ pc[t] = "exit" /\ Leave(t)
                  /\ \/ UNCHANGED <<dep, todo>> 
                     \/ pc[t] = "exit" /\ Leave(t)
                     \/ UNCHANGED dep /\ todo' = [todo EXCEPT ![t] = @ \cup Refs[dep[t]]]
                     \/ \E d \in todo[t] : dep' = [dep EXCEPT ![t] = d] /\ todo' = [todo EXCEPT ![t] = @ \ {d}]
<1> SUFFICES Own
  BY <1>0, <1>a, <1>1, <1>2 DEF HookFrame, Leave, Alive, FrameTypeOK
<1> USE DEF At, HookPoints, HookReceives
<1>10. CASE EnterHook(t) BY <1>3, <1>4, <1>10 DEF EnterHook, jvm, life, Loads
<1>11. CASE FoundInCache(t) BY <1>3, <1>4, <1>11 DEF FoundInCache, jvm, life
<1>12. CASE AskHasClass(t) BY <1>3, <1>4, <1>12 DEF AskHasClass, jvm, life
<1>13. CASE CheckAck(t) BY <1>3, <1>4, <1>13 DEF CheckAck, Acknowledged, Abort, jvm, life
<1>14. CASE CheckReply(t) BY <1>3, <1>4, <1>14 DEF CheckReply, jvm, life
<1>15. CASE SendClassData(t) BY <1>3, <1>4, <1>15 DEF SendClassData, jvm, life
<1>16. CASE TriggerLoading(t) BY <1>3, <1>4, <1>16 DEF TriggerLoading, Abort, jvm, life
<1>17. CASE RegisterAck(t) BY <1>3, <1>4, <1>17 DEF RegisterAck, Acknowledged, Abort, jvm, life
<1>18. CASE NextDependency(t) BY <1>3, <1>4, <1>18 DEF NextDependency, jvm, life
<1>19. CASE RequestInstrument(t) BY <1>3, <1>4, <1>19 DEF RequestInstrument, jvm, life
<1>20. CASE InstrumentAck(t) BY <1>3, <1>4, <1>20 DEF InstrumentAck, Acknowledged, Abort, jvm, life
<1>21. CASE ReceiveAuxMarker(t) BY <1>3, <1>4, <1>21 DEF ReceiveAuxMarker, jvm, life
<1>22. CASE ReceiveAuxName(t) BY <1>3, <1>4, <1>22 DEF ReceiveAuxName, jvm, life
<1>23. CASE ReceiveAuxBytes(t) BY <1>3, <1>4, <1>23 DEF ReceiveAuxBytes, jvm, life
<1>24. CASE ReceiveInitMarker(t) BY <1>3, <1>4, <1>24 DEF ReceiveInitMarker, jvm, life
<1>25. CASE ReceiveInterceptorName(t) BY <1>3, <1>4, <1>25 DEF ReceiveInterceptorName, jvm, life
<1>26. CASE ReceiveInterceptorBytes(t) BY <1>3, <1>4, <1>26 DEF ReceiveInterceptorBytes, jvm, life
<1>27. CASE DefineInterceptor(t) BY <1>3, <1>4, <1>27 DEF DefineInterceptor, jvm, life
<1>28. CASE ReceiveInitializerBytes(t) BY <1>3, <1>4, <1>28 DEF ReceiveInitializerBytes, life
<1>29. CASE ReceiveUnread(t) BY <1>3, <1>4, <1>29 DEF ReceiveUnread, AfterUnread, jvm, life
<1>30. CASE ReceiveVerdict(t) BY <1>3, <1>4, <1>30 DEF ReceiveVerdict, Loads, Abort, jvm, life
<1>31. CASE ReceiveNewBytes(t) BY <1>3, <1>4, <1>31 DEF ReceiveNewBytes, Loads, life
<1>32. CASE ExitHook(t) BY <1>3, <1>4, <1>32 DEF ExitHook, jvm, life
<1> QED BY HookStep(t), <1>10, <1>11, <1>12, <1>13, <1>14, <1>15, <1>16, <1>17, <1>18, <1>19,
       <1>20, <1>21, <1>22, <1>23, <1>24, <1>25, <1>26, <1>27, <1>28, <1>29, <1>30, <1>31,
       <1>32 DEF HookStep


\* A hook settles its load with its last step inside the callback, and touches no other load; it
\* only grows the tables.  A class whose preparation it disturbs was being searched.
HookEffect(t) ==
  /\ pc[t] # "exit" /\ pc'[t] = "exit" =>
       \E o \in {"original", "instrumented", "foreign"} :
         loads' = [loads EXCEPT ![<<class[t], loader[t]>>] = o]
  /\ pc[t] = "exit" \/ pc'[t] # "exit" => loads' = loads
  /\ \A cl \in Classes \X Loaders :
       prepared'[cl] = prepared[cl] \/ (prepared[cl] = "searching" /\ prepared'[cl] = "raced")
  /\ ignoredClasses \subseteq ignoredClasses' /\ classesCache \subseteq classesCache'
  /\ \A l \in Loaders : loadedInterceptorsPerCl[l] \subseteq loadedInterceptorsPerCl'[l]

\* Every step of a hook is of that form, too.
LEMMA HookEffects ==
  ASSUME TypeInv, NEW t \in Threads, HookStep(t)
  PROVE  HookEffect(t)
<1>0. PcTypeOK /\ TableTypeOK /\ JvmTypeOK BY DEF TypeInv, TypeOK, AgentTypeOK
<1>1. \A p : Goto(t, p) => pc'[t] = p
  BY <1>0 DEF Goto, PcTypeOK, Actors
<1>2. UNCHANGED jvm => UNCHANGED <<loads, prepared>> BY DEF jvm
<1>3. UNCHANGED tables => UNCHANGED <<ignoredClasses, classesCache, loadedInterceptorsPerCl>>
  BY DEF tables
<1>4. ASSUME \/ UNCHANGED loadedInterceptorsPerCl
             \/ \E i : loadedInterceptorsPerCl' =
                       [loadedInterceptorsPerCl EXCEPT ![loader[t]] = @ \cup {i}]
      PROVE  \A l \in Loaders : loadedInterceptorsPerCl[l] \subseteq loadedInterceptorsPerCl'[l]
  BY <1>0, <1>4 DEF TableTypeOK
<1>5. Race => \A cl \in Classes \X Loaders :
        prepared'[cl] = prepared[cl] \/ (prepared[cl] = "searching" /\ prepared'[cl] = "raced")
  BY DEF Race
<1> USE DEF At, HookEffect
<1>10. CASE EnterHook(t) BY <1>1, <1>2, <1>3, <1>10 DEF EnterHook, Loads
<1>11. CASE FoundInCache(t) BY <1>1, <1>2, <1>3, <1>11 DEF FoundInCache
<1>12. CASE AskHasClass(t) BY <1>1, <1>2, <1>3, <1>12 DEF AskHasClass
<1>13. CASE CheckAck(t) BY <1>1, <1>2, <1>3, <1>13 DEF CheckAck, Acknowledged, Abort
<1>14. CASE CheckReply(t) BY <1>1, <1>2, <1>3, <1>14 DEF CheckReply
<1>15. CASE SendClassData(t) BY <1>1, <1>2, <1>3, <1>15 DEF SendClassData
<1>16. CASE TriggerLoading(t) BY <1>1, <1>2, <1>3, <1>16 DEF TriggerLoading, Abort
<1>17. CASE RegisterAck(t) BY <1>1, <1>2, <1>3, <1>17 DEF RegisterAck, Acknowledged, Abort
<1>18. CASE NextDependency(t) BY <1>1, <1>2, <1>3, <1>18 DEF NextDependency
<1>19. CASE RequestInstrument(t) BY <1>1, <1>2, <1>3, <1>19 DEF RequestInstrument
<1>20. CASE InstrumentAck(t) BY <1>1, <1>2, <1>3, <1>20 DEF InstrumentAck, Acknowledged, Abort
<1>21. CASE ReceiveAuxMarker(t) BY <1>1, <1>2, <1>3, <1>21 DEF ReceiveAuxMarker
<1>22. CASE ReceiveAuxName(t) BY <1>1, <1>2, <1>3, <1>22 DEF ReceiveAuxName
<1>23. CASE ReceiveAuxBytes(t) BY <1>1, <1>2, <1>3, <1>23 DEF ReceiveAuxBytes
<1>24. CASE ReceiveInitMarker(t) BY <1>1, <1>2, <1>3, <1>24 DEF ReceiveInitMarker
<1>25. CASE ReceiveInterceptorName(t) BY <1>1, <1>2, <1>3, <1>25 DEF ReceiveInterceptorName
<1>26. CASE ReceiveInterceptorBytes(t) BY <1>1, <1>2, <1>3, <1>26 DEF ReceiveInterceptorBytes
<1>27. CASE DefineInterceptor(t)
  <2>1. \A l \in Loaders : loadedInterceptorsPerCl[l] \subseteq loadedInterceptorsPerCl'[l]
    <3>1. \/ UNCHANGED loadedInterceptorsPerCl
          \/ loadedInterceptorsPerCl' =
               [loadedInterceptorsPerCl EXCEPT ![loader[t]] = @ \cup {got[t]}]
      BY <1>27 DEF DefineInterceptor
    <3> QED BY <3>1, <1>4
  <2>2. pc'[t] \in {"initializerName", "selfLocked"} BY <1>1, <1>27 DEF DefineInterceptor
  <2>3. UNCHANGED <<loads, prepared, ignoredClasses, classesCache>>
    BY <1>2, <1>27 DEF DefineInterceptor
  <2> QED BY <2>1, <2>2, <2>3, <1>27 DEF DefineInterceptor
<1>28. CASE ReceiveInitializerBytes(t)
  BY <1>0, <1>1, <1>2, <1>3, <1>4, <1>5, <1>28 DEF ReceiveInitializerBytes
<1>29. CASE ReceiveUnread(t) BY <1>1, <1>2, <1>3, <1>29 DEF ReceiveUnread, AfterUnread
<1>30. CASE ReceiveVerdict(t) BY <1>1, <1>2, <1>3, <1>30 DEF ReceiveVerdict, Loads, Abort
<1>31. CASE ReceiveNewBytes(t) BY <1>1, <1>2, <1>3, <1>31 DEF ReceiveNewBytes, Loads
<1>32. CASE ExitHook(t) BY <1>1, <1>2, <1>3, <1>32 DEF ExitHook
<1> QED BY HookStep(t), <1>10, <1>11, <1>12, <1>13, <1>14, <1>15, <1>16, <1>17, <1>18, <1>19,
       <1>20, <1>21, <1>22, <1>23, <1>24, <1>25, <1>26, <1>27, <1>28, <1>29, <1>30, <1>31,
       <1>32 DEF HookStep


(* Hooks and loads: LoadInv *)

\* A hook that asks the server serves a loader that is not ignored; references are left to visit
\* only while it sends them; an interceptor whose initializer it receives is in place.
LEMMA HookLoads ==
  ASSUME TypeInv, DefineInv, LoadInv, NEW t \in Threads, HookStep(t)
  PROVE  /\ pc[t] = "enter" /\ pc'[t] # "exit" => loader[t] \notin IgnoredLoaders
         /\ todo'[t] # {} => pc'[t] \in SendPoints \cup {"deps"}
         /\ pc'[t] \in {"initializerName", "initializerLength", "initializerBytes"}
              => got'[t] \in loadedInterceptorsPerCl'[loader[t]] \cap ignoredClasses'
<1>0. PcTypeOK /\ FrameTypeOK /\ TableTypeOK /\ HookInv BY DEF TypeInv, TypeOK, AgentTypeOK
<1>1. \A p : Goto(t, p) => pc'[t] = p
  BY <1>0 DEF Goto, PcTypeOK, Actors
<1>2. UNCHANGED tables => UNCHANGED <<ignoredClasses, loadedInterceptorsPerCl>> BY DEF tables
<1>3. UNCHANGED frame => UNCHANGED todo BY DEF frame
<1>4. todo[t] # {} => pc[t] \in SendPoints \cup {"deps"} BY DEF LoadInv
<1>5. pc[t] \in {"initializerName", "initializerLength", "initializerBytes"}
        => got[t] \in loadedInterceptorsPerCl[loader[t]] \cap ignoredClasses
  BY DEF LoadInv
<1>6. pc[t] \notin {"enter", "exit"} => loader[t] \in Loaders \ IgnoredLoaders
  BY <1>0, HookFrames DEF LoadInv, HookFrame, Loading, HookInv
<1> USE DEF At, SendPoints
<1>10. CASE EnterHook(t) BY <1>1, <1>2, <1>3, <1>4, <1>5, <1>10 DEF EnterHook, ShouldContinue
<1>11. CASE FoundInCache(t) BY <1>1, <1>2, <1>3, <1>4, <1>5, <1>11 DEF FoundInCache
<1>12. CASE AskHasClass(t) BY <1>1, <1>2, <1>3, <1>4, <1>5, <1>12 DEF AskHasClass
<1>13. CASE CheckAck(t) BY <1>1, <1>2, <1>3, <1>4, <1>5, <1>13 DEF CheckAck, Acknowledged
<1>14. CASE CheckReply(t) BY <1>1, <1>2, <1>3, <1>4, <1>5, <1>14 DEF CheckReply
<1>15. CASE SendClassData(t) BY <1>1, <1>2, <1>3, <1>4, <1>5, <1>15 DEF SendClassData
<1>16. CASE TriggerLoading(t) BY <1>1, <1>2, <1>3, <1>4, <1>5, <1>16 DEF TriggerLoading
<1>17. CASE RegisterAck(t) BY <1>1, <1>2, <1>3, <1>4, <1>5, <1>17 DEF RegisterAck, Acknowledged
<1>18. CASE NextDependency(t) BY <1>1, <1>2, <1>3, <1>4, <1>5, <1>18 DEF NextDependency
<1>19. CASE RequestInstrument(t) BY <1>1, <1>2, <1>3, <1>4, <1>5, <1>19 DEF RequestInstrument
<1>20. CASE InstrumentAck(t) BY <1>1, <1>2, <1>3, <1>4, <1>5, <1>20 DEF InstrumentAck, Acknowledged
<1>21. CASE ReceiveAuxMarker(t) BY <1>1, <1>2, <1>3, <1>4, <1>5, <1>21 DEF ReceiveAuxMarker
<1>22. CASE ReceiveAuxName(t) BY <1>1, <1>2, <1>3, <1>4, <1>5, <1>22 DEF ReceiveAuxName
<1>23. CASE ReceiveAuxBytes(t) BY <1>1, <1>2, <1>3, <1>4, <1>5, <1>23 DEF ReceiveAuxBytes
<1>24. CASE ReceiveInitMarker(t) BY <1>1, <1>2, <1>3, <1>4, <1>5, <1>24 DEF ReceiveInitMarker
<1>25. CASE ReceiveInterceptorName(t)
  BY <1>1, <1>2, <1>3, <1>4, <1>5, <1>25 DEF ReceiveInterceptorName
<1>26. CASE ReceiveInterceptorBytes(t)
  BY <1>1, <1>2, <1>3, <1>4, <1>5, <1>26 DEF ReceiveInterceptorBytes
<1>27. CASE DefineInterceptor(t)
  BY <1>1, <1>2, <1>3, <1>4, <1>5, <1>0, <1>6, <1>27 DEF DefineInterceptor, ShouldContinue,
     TableTypeOK, DefineInv
<1>28. CASE ReceiveInitializerBytes(t)
  BY <1>1, <1>2, <1>3, <1>4, <1>5, <1>28 DEF ReceiveInitializerBytes
<1>29. CASE ReceiveUnread(t) BY <1>1, <1>2, <1>3, <1>4, <1>5, <1>29 DEF ReceiveUnread, AfterUnread
<1>30. CASE ReceiveVerdict(t) BY <1>1, <1>2, <1>3, <1>4, <1>5, <1>30 DEF ReceiveVerdict
<1>31. CASE ReceiveNewBytes(t) BY <1>1, <1>2, <1>3, <1>4, <1>5, <1>31 DEF ReceiveNewBytes
<1>32. CASE ExitHook(t) BY <1>1, <1>2, <1>3, <1>4, <1>5, <1>32 DEF ExitHook, Leave
<1> QED BY HookStep(t), <1>10, <1>11, <1>12, <1>13, <1>14, <1>15, <1>16, <1>17, <1>18, <1>19,
       <1>20, <1>21, <1>22, <1>23, <1>24, <1>25, <1>26, <1>27, <1>28, <1>29, <1>30, <1>31,
       <1>32 DEF HookStep

\* A step of a hook keeps LoadInv.
LEMMA HookKeepsLoads ==
  ASSUME TypeInv, DefineInv, LoadInv, NEW t \in Threads, HookStep(t)
  PROVE  LoadInv'
<1>0. HookFrame(t) /\ HookEffect(t) BY HookFrames, HookEffects
<1>t. /\ loads \in [Classes \X Loaders -> Outcomes]
      /\ \A u \in Threads : u \in Actors /\ (pc[u] # "idle" => class[u] \in Classes /\ loader[u] \in Loaders)
  BY Types DEF TypeInv, HookInv
<1>1. \A u \in Threads : Loading(u)' => Loading(u) /\ class'[u] = class[u] /\ loader'[u] = loader[u]
  BY <1>0, <1>t DEF HookFrame, Loading
<1>2. \A u \in Threads, v \in Threads :
        Loading(u)' /\ Loading(v)' /\ class'[u] = class'[v] /\ loader'[u] = loader'[v] => u = v
  BY <1>1 DEF LoadInv
<1>3. ASSUME NEW u \in Threads, Loading(u)' PROVE loads'[<<class'[u], loader'[u]>>] = "pending"
  <2>1. loads[<<class[u], loader[u]>>] = "pending" BY <1>1, <1>3 DEF LoadInv
  <2>2. CASE loads' = loads BY <1>1, <1>3, <2>1, <2>2
  <2>3. CASE loads' # loads
    <3>1. pc[t] # "exit" /\ pc'[t] = "exit" BY <1>0, <2>3 DEF HookEffect
    <3>2. u # t /\ Loading(t) BY <1>0, <1>3, <3>1 DEF Loading, HookFrame
    <3>3. <<class[u], loader[u]>> # <<class[t], loader[t]>>
      BY <1>1, <1>3, <3>2 DEF LoadInv
    <3>4. PICK o \in {"original", "instrumented", "foreign"} :
            loads' = [loads EXCEPT ![<<class[t], loader[t]>>] = o]
      BY <1>0, <3>1 DEF HookEffect
    <3>5. <<class[u], loader[u]>> \in Classes \X Loaders BY <1>t, <1>1, <1>3 DEF Loading
    <3> QED BY <1>1, <1>3, <1>t, <2>1, <3>3, <3>4, <3>5
  <2> QED BY <2>2, <2>3
<1>4. ASSUME NEW u \in Threads, Loading(u)', pc'[u] # "enter" PROVE loader'[u] \notin IgnoredLoaders
  <2>1. CASE u = t
    BY <1>0, <1>1, <1>4, <2>1, HookLoads DEF LoadInv, Loading
  <2>2. CASE u # t BY <1>0, <1>1, <1>4, <1>t, <2>2 DEF LoadInv, HookFrame
  <2> QED BY <2>1, <2>2
<1>5. ASSUME NEW cl \in Classes \X Loaders, loads'[cl] \in {"unloaded", "pending"}
      PROVE  prepared'[cl] = "no"
  <2>1. loads[cl] = loads'[cl]
    BY <1>0, <1>t, <1>5 DEF HookEffect
  <2> QED BY <1>0, <1>5, <2>1 DEF HookEffect, LoadInv
<1>6. ASSUME NEW u \in Threads, pc'[u] = "prepare" PROVE prepared'[<<class'[u], loader'[u]>>] # "no"
  <2>1. u # t /\ pc[u] = "prepare" /\ class'[u] = class[u] /\ loader'[u] = loader[u]
    BY <1>0, <1>6, <1>t DEF HookFrame
  <2>2. <<class[u], loader[u]>> \in Classes \X Loaders BY <1>t, <2>1
  <2> QED BY <1>0, <2>1, <2>2 DEF HookEffect, LoadInv
<1>7. ASSUME NEW u \in Threads, todo'[u] # {} PROVE pc'[u] \in SendPoints \cup {"deps"}
  <2>1. CASE u = t BY <1>7, <2>1, HookLoads
  <2>2. CASE u # t BY <1>0, <1>7, <1>t, <2>2 DEF LoadInv, HookFrame
  <2> QED BY <2>1, <2>2
<1>8. ASSUME NEW u \in Threads, pc'[u] \in {"initializerName", "initializerLength", "initializerBytes"}
      PROVE  got'[u] \in loadedInterceptorsPerCl'[loader'[u]] \cap ignoredClasses'
  <2>1. Loading(u)' BY <1>8 DEF Loading
  <2>2. CASE u = t BY <1>1, <1>8, <2>1, <2>2, HookLoads
  <2>3. CASE u # t
    <3>1. /\ pc'[u] = pc[u] /\ got'[u] = got[u] /\ loader'[u] = loader[u]
          /\ loader[u] \in Loaders
      BY <1>0, <1>1, <1>t, <2>1, <2>3 DEF HookFrame, Loading
    <3>2. got[u] \in loadedInterceptorsPerCl[loader[u]] \cap ignoredClasses
      BY <1>8, <3>1 DEF LoadInv
    <3> QED BY <1>0, <3>1, <3>2 DEF HookEffect
  <2> QED BY <2>2, <2>3
<1> QED BY <1>2, <1>3, <1>4, <1>5, <1>6, <1>7, <1>8 DEF LoadInv

\* A new load is unlike every load that is running.
LEMMA BeginKeepsLoads ==
  ASSUME TypeInv, LoadInv, NEW t \in Threads, NEW c \in Classes, NEW l \in Loaders, BeginLoad(t, c, l)
  PROVE  LoadInv'
<1>t. /\ loads \in [Classes \X Loaders -> Outcomes] /\ pc \in [Actors -> HookPoints \cup VMPoints]
      /\ class \in [Threads -> Classes \cup {None}] /\ loader \in [Threads -> Loaders \cup {None}]
      /\ t \in Actors /\ \A u \in Threads : pc[u] # "idle" => class[u] \in Classes /\ loader[u] \in Loaders
  BY Types DEF TypeInv, HookInv
<1>1. /\ pc[t] = "idle" /\ pc'[t] = "enter" /\ class'[t] = c /\ loader'[t] = l
      /\ \A u \in Threads \ {t} : pc'[u] = pc[u] /\ class'[u] = class[u] /\ loader'[u] = loader[u]
  BY <1>t, Types DEF BeginLoad, Goto, At
<1>2. /\ loads[<<c, l>>] = "unloaded"
      /\ loads'[<<c, l>>] = "pending"
      /\ \A cl \in Classes \X Loaders : cl # <<c, l>> => loads'[cl] = loads[cl]
  BY <1>t DEF BeginLoad
<1>3. UNCHANGED <<todo, got, prepared, loadedInterceptorsPerCl, ignoredClasses>>
  BY DEF BeginLoad, tables
<1>4. \A u \in Threads \ {t} : Loading(u)' => Loading(u) /\ <<class[u], loader[u]>> # <<c, l>>
  BY <1>1, <1>2 DEF LoadInv, Loading
<1>5. ASSUME NEW u \in Threads
      PROVE /\ Loading(u)' => loads'[<<class'[u], loader'[u]>>] = "pending"
            /\ Loading(u)' /\ pc'[u] # "enter" => loader'[u] \notin IgnoredLoaders
            /\ pc'[u] = "prepare" => prepared'[<<class'[u], loader'[u]>>] # "no"
            /\ todo'[u] # {} => pc'[u] \in SendPoints \cup {"deps"}
            /\ pc'[u] \in {"initializerName", "initializerLength", "initializerBytes"}
                 => got'[u] \in loadedInterceptorsPerCl'[loader'[u]] \cap ignoredClasses'
  <2>1. CASE u = t
    BY <1>1, <1>2, <1>3, <2>1 DEF LoadInv, SendPoints
  <2>2. CASE u # t
    <3>1. Loading(u)' => loads'[<<class'[u], loader'[u]>>] = "pending"
      BY <1>t, <1>1, <1>2, <1>4, <2>2 DEF LoadInv, Loading
    <3> QED BY <1>1, <1>3, <1>4, <2>2, <3>1 DEF LoadInv
  <2> QED BY <2>1, <2>2
<1>6. \A u \in Threads, v \in Threads :
        Loading(u)' /\ Loading(v)' /\ class'[u] = class'[v] /\ loader'[u] = loader'[v] => u = v
  BY <1>1, <1>4 DEF LoadInv, Loading
<1>7. \A cl \in Classes \X Loaders : loads'[cl] \in {"unloaded", "pending"} => prepared'[cl] = "no"
  BY <1>2, <1>3 DEF LoadInv
<1> QED BY <1>5, <1>6, <1>7 DEF LoadInv

\* The preparation of a class begins when its load is settled, ...
LEMMA BeginPrepareKeepsLoads ==
  ASSUME TypeInv, LoadInv, NEW t \in Threads, NEW c \in Classes, NEW l \in Loaders,
         BeginPrepare(t, c, l)
  PROVE  LoadInv'
<1>t. /\ prepared \in [Classes \X Loaders -> Preparations] /\ pc \in [Actors -> HookPoints \cup VMPoints]
      /\ class \in [Threads -> Classes \cup {None}] /\ loader \in [Threads -> Loaders \cup {None}]
      /\ t \in Actors /\ \A u \in Threads : pc[u] # "idle" => class[u] \in Classes /\ loader[u] \in Loaders
  BY Types DEF TypeInv, HookInv
<1>1. /\ pc[t] = "idle" /\ pc'[t] = "prepare" /\ class'[t] = c /\ loader'[t] = l
      /\ \A u \in Threads \ {t} : pc'[u] = pc[u] /\ class'[u] = class[u] /\ loader'[u] = loader[u]
  BY <1>t, Types DEF BeginPrepare, Goto, At
<1>2. /\ loads[<<c, l>>] \notin {"unloaded", "pending"}
      /\ prepared'[<<c, l>>] = "searching"
      /\ \A cl \in Classes \X Loaders : cl # <<c, l>> => prepared'[cl] = prepared[cl]
  BY <1>t DEF BeginPrepare
<1>3. UNCHANGED <<todo, got, loads, loadedInterceptorsPerCl, ignoredClasses>>
  BY DEF BeginPrepare, tables
<1>4. \A u \in Threads : Loading(u)' => u # t /\ Loading(u)
  BY <1>1 DEF Loading
<1>5. ASSUME NEW u \in Threads
      PROVE /\ Loading(u)' => loads'[<<class'[u], loader'[u]>>] = "pending"
            /\ Loading(u)' /\ pc'[u] # "enter" => loader'[u] \notin IgnoredLoaders
            /\ pc'[u] = "prepare" => prepared'[<<class'[u], loader'[u]>>] # "no"
            /\ todo'[u] # {} => pc'[u] \in SendPoints \cup {"deps"}
            /\ pc'[u] \in {"initializerName", "initializerLength", "initializerBytes"}
                 => got'[u] \in loadedInterceptorsPerCl'[loader'[u]] \cap ignoredClasses'
  <2>1. CASE u = t
    BY <1>1, <1>2, <1>3, <2>1 DEF LoadInv, SendPoints, Loading
  <2>2. CASE u # t
    <3>1. pc'[u] = "prepare" => prepared'[<<class'[u], loader'[u]>>] # "no"
      BY <1>t, <1>1, <1>2, <2>2 DEF LoadInv
    <3> QED BY <1>1, <1>3, <1>4, <2>2, <3>1 DEF LoadInv
  <2> QED BY <2>1, <2>2
<1>6. \A u \in Threads, v \in Threads :
        Loading(u)' /\ Loading(v)' /\ class'[u] = class'[v] /\ loader'[u] = loader'[v] => u = v
  BY <1>1, <1>4 DEF LoadInv
<1>7. \A cl \in Classes \X Loaders : loads'[cl] \in {"unloaded", "pending"} => prepared'[cl] = "no"
  BY <1>2, <1>3 DEF LoadInv
<1> QED BY <1>5, <1>6, <1>7 DEF LoadInv

\* ... and ends without touching a load.
LEMMA LoadInitializersKeepsLoads ==
  ASSUME TypeInv, LoadInv, NEW t \in Threads, LoadInitializersForClass(t)
  PROVE  LoadInv'
<1>t. /\ prepared \in [Classes \X Loaders -> Preparations] /\ pc \in [Actors -> HookPoints \cup VMPoints]
      /\ class \in [Threads -> Classes \cup {None}] /\ loader \in [Threads -> Loaders \cup {None}]
      /\ got \in [Actors -> Names \cup {None}]
      /\ t \in Actors
      /\ \A u \in Threads : /\ u \in Actors
                            /\ pc[u] # "idle" => class[u] \in Classes /\ loader[u] \in Loaders
  BY Types DEF TypeInv, HookInv
<1>1. /\ pc[t] = "prepare" /\ pc'[t] \in {"idle", "prepare"}
      /\ pc'[t] = "prepare" => UNCHANGED <<class, loader, prepared>>
      /\ \A u \in Threads \ {t} : pc'[u] = pc[u] /\ class'[u] = class[u] /\ loader'[u] = loader[u]
                                  /\ got'[u] = got[u]
  BY <1>t DEF LoadInitializersForClass, Goto, At, Leave, Abort, Prepared, frame
<1>2. UNCHANGED <<todo, loads, loadedInterceptorsPerCl, ignoredClasses>>
  BY DEF LoadInitializersForClass, Prepared, Abort, Leave, tables, frame, jvm
<1>3. <<class[t], loader[t]>> \in Classes \X Loaders BY <1>t, <1>1
<1>4. \A cl \in Classes \X Loaders :
        prepared'[cl] = prepared[cl] \/ (cl = <<class[t], loader[t]>> /\ prepared'[cl] # "no")
  BY <1>t DEF LoadInitializersForClass, Prepared, Abort, jvm
<1>5. loads[<<class[t], loader[t]>>] \notin {"unloaded", "pending"}
  BY <1>1, <1>3 DEF LoadInv
<1>6. \A u \in Threads : Loading(u)' => u # t /\ Loading(u)
  BY <1>1 DEF Loading
<1>7. ASSUME NEW u \in Threads
      PROVE /\ Loading(u)' => loads'[<<class'[u], loader'[u]>>] = "pending"
            /\ Loading(u)' /\ pc'[u] # "enter" => loader'[u] \notin IgnoredLoaders
            /\ pc'[u] = "prepare" => prepared'[<<class'[u], loader'[u]>>] # "no"
            /\ todo'[u] # {} => pc'[u] \in SendPoints \cup {"deps"}
            /\ pc'[u] \in {"initializerName", "initializerLength", "initializerBytes"}
                 => got'[u] \in loadedInterceptorsPerCl'[loader'[u]] \cap ignoredClasses'
  <2>1. CASE u = t
    BY <1>1, <1>2, <1>6, <2>1 DEF LoadInv, SendPoints
  <2>2. CASE u # t
    <3>1. ASSUME pc'[u] = "prepare" PROVE prepared'[<<class'[u], loader'[u]>>] # "no"
      <4>1. pc[u] = "prepare" /\ class'[u] = class[u] /\ loader'[u] = loader[u]
        BY <1>1, <2>2, <3>1
      <4>2. <<class[u], loader[u]>> \in Classes \X Loaders BY <1>t, <4>1
      <4>3. prepared[<<class[u], loader[u]>>] # "no" BY <4>1 DEF LoadInv
      <4> QED BY <1>4, <4>1, <4>2, <4>3
    <3> QED BY <1>1, <1>2, <1>6, <2>2, <3>1 DEF LoadInv
  <2> QED BY <2>1, <2>2
<1>8. \A u \in Threads, v \in Threads :
        Loading(u)' /\ Loading(v)' /\ class'[u] = class'[v] /\ loader'[u] = loader'[v] => u = v
  BY <1>1, <1>6 DEF LoadInv
<1>9. \A cl \in Classes \X Loaders : loads'[cl] \in {"unloaded", "pending"} => prepared'[cl] = "no"
  BY <1>2, <1>4, <1>5 DEF LoadInv
<1> QED BY <1>7, <1>8, <1>9 DEF LoadInv

\* The VM callbacks move no thread.  The tables they touch are theirs.
VMFrame ==
  /\ \A t \in Threads : pc'[t] = pc[t] /\ got'[t] = got[t]
  /\ pc'[VM] \in VMPoints
  /\ UNCHANGED <<class, loader, dep, todo, loads, prepared, runs, classesCache, interceptors,
                 loadedInterceptorsPerCl, initializers>>
  /\ ignoredClasses \subseteq ignoredClasses'

\* Every step of theirs is of that form.
LEMMA VMFrames == TypeInv /\ VMStep => VMFrame
<1> SUFFICES ASSUME TypeInv, VMStep PROVE VMFrame
  OBVIOUS
<1>t. /\ pc \in [Actors -> HookPoints \cup VMPoints] /\ got \in [Actors -> Names \cup {None}]
      /\ VM \notin Threads /\ Threads \subseteq Actors /\ VM \in Actors /\ pc[VM] \in VMPoints
  BY Types
<1>1. UNCHANGED pc \/ \E p \in VMPoints : Goto(VM, p)
  BY DEF VMStep, VMInit, HelpersAck, HelpersCount, HelperName, HelperLength, HelperBytes,
         VMDeath, StopAck, Acknowledged, VMPoints, VMReceives
<1>2. (\A t \in Threads : pc'[t] = pc[t]) /\ pc'[VM] \in VMPoints BY <1>t, <1>1 DEF Goto
<1>3. UNCHANGED got \/ got' = [got EXCEPT ![VM] = Reply.of]
  BY DEF VMStep, VMInit, HelpersAck, HelpersCount, HelperName, HelperLength, HelperBytes,
         VMDeath, StopAck
<1>4. \A t \in Threads : got'[t] = got[t] BY <1>t, <1>3
<1>5. UNCHANGED <<class, loader, dep, todo, loads, prepared, runs, classesCache, interceptors,
                  loadedInterceptorsPerCl, initializers>>
      /\ ignoredClasses \subseteq ignoredClasses'
  BY DEF VMStep, VMInit, HelpersAck, HelpersCount, HelperName, HelperLength, HelperBytes,
         VMDeath, StopAck, tables, frame, jvm, life, Acknowledged, Abort
<1> QED BY <1>2, <1>4, <1>5 DEF VMFrame

\* Nothing else touches the loads.
LEMMA OthersKeepLoads ==
  ASSUME TypeInv, LoadInv, VMStep \/ UNCHANGED agent
  PROVE  LoadInv'
<1>1. VMFrame \/ UNCHANGED agent BY VMFrames
<1>2. CASE VMFrame
  <2> USE <1>2 DEF VMFrame
  <2>1. \A u \in Threads : Loading(u)' <=> Loading(u) BY DEF Loading
  <2> QED BY <2>1 DEF LoadInv
<1>3. CASE UNCHANGED agent
  BY <1>3 DEF LoadInv, Loading, agent, frame, tables, jvm
<1> QED BY <1>1, <1>2, <1>3

(* Labelled queues *)

\* The parts of a concatenation.
LEMMA Joined ==
  ASSUME NEW S, NEW q \in Seq(S), NEW s \in Seq(S)
  PROVE  /\ q \o s \in Seq(S) /\ Len(q \o s) = Len(q) + Len(s)
         /\ \A i \in 1..Len(q) : (q \o s)[i] = q[i]
         /\ \A j \in 1..Len(s) : (q \o s)[Len(q) + j] = s[j]
OBVIOUS

\* The parts of two joined queues of messages.
LEMMA JoinedMessages ==
  \A x, y \in Seq(Message) :
    /\ x \o y \in Seq(Message) /\ Len(x \o y) = Len(x) + Len(y)
    /\ \A i \in 1..Len(x) : (x \o y)[i] = x[i]
    /\ \A j \in 1..Len(y) : (x \o y)[Len(x) + j] = y[j]
BY Joined

\* The same of labels.
LEMMA JoinedLabels ==
  \A x, y \in Seq(Label) :
    /\ x \o y \in Seq(Label) /\ Len(x \o y) = Len(x) + Len(y)
    /\ \A i \in 1..Len(x) : (x \o y)[i] = x[i]
    /\ \A j \in 1..Len(y) : (x \o y)[Len(x) + j] = y[j]
BY Joined

\* What is left of a queue when its head is taken.
LEMMA Taken ==
  ASSUME NEW S, NEW q \in Seq(S), q # <<>>
  PROVE  /\ Tail(q) \in Seq(S) /\ Len(q) \in Nat \ {0} /\ Len(Tail(q)) = Len(q) - 1
         /\ Head(q) = q[1] /\ q[1] \in S
         /\ \A i \in 1..Len(Tail(q)) : Tail(q)[i] = q[i + 1]
OBVIOUS

\* Messages that go on from label p, and the labels they lead to.
Chain(p, s, msgs) ==
  /\ s \in Labellings /\ msgs \in Seq(Message) /\ Len(s) = Len(msgs) /\ Len(msgs) # 0
  /\ Follows(p, msgs[1], s[1])
  /\ \A j \in 1..Len(s) - 1 : Follows(s[j], msgs[j + 1], s[j + 1])

\* The messages sent are labelled from where the ones before them ended.
LEMMA WalkOn ==
  ASSUME NEW r, NEW q \in Seq(Message), Walk(r, q), NEW s, NEW msgs, Chain(r[Len(r)], s, msgs)
  PROVE  /\ Walk(r \o s, q \o msgs)
         /\ Len(q \o msgs) = Len(q) + Len(msgs)
         /\ Len(r) = Len(q) + 1 /\ Len(r \o s) = Len(r) + Len(s)
         /\ \A i \in 1..Len(q) : (q \o msgs)[i] = q[i]
         /\ \A j \in 1..Len(msgs) : (q \o msgs)[Len(q) + j] = msgs[j]
         /\ \A i \in 1..Len(r) : (r \o s)[i] = r[i]
         /\ \A j \in 1..Len(s) : (r \o s)[Len(r) + j] = s[j]
<1>0. /\ s \in Labellings /\ msgs \in Seq(Message) /\ Len(s) = Len(msgs) /\ Len(msgs) # 0
      /\ Follows(r[Len(r)], msgs[1], s[1])
      /\ \A j \in 1..Len(s) - 1 : Follows(s[j], msgs[j + 1], s[j + 1])
  BY DEF Chain
<1>1. r \in Seq(Label) /\ s \in Seq(Label) /\ Len(r) = Len(q) + 1 BY <1>0 DEF Walk, Labellings
<1>2. /\ r \o s \in Seq(Label) /\ Len(r \o s) = Len(r) + Len(s)
      /\ \A i \in 1..Len(r) : (r \o s)[i] = r[i]
      /\ \A j \in 1..Len(s) : (r \o s)[Len(r) + j] = s[j]
  BY ONLY <1>1, JoinedLabels
<1>3. /\ q \o msgs \in Seq(Message) /\ Len(q \o msgs) = Len(q) + Len(msgs)
      /\ \A i \in 1..Len(q) : (q \o msgs)[i] = q[i]
      /\ \A j \in 1..Len(msgs) : (q \o msgs)[Len(q) + j] = msgs[j]
  BY <1>0, Joined
<1>4. Len(q) \in Nat /\ Len(msgs) \in Nat \ {0} BY <1>0
<1>5. ASSUME NEW i \in 1..Len(q \o msgs) PROVE Follows((r \o s)[i], (q \o msgs)[i], (r \o s)[i + 1])
  <2>1. CASE i <= Len(q)
    <3>1. i \in 1..Len(q) /\ i \in 1..Len(r) /\ i + 1 \in 1..Len(r) BY <1>1, <1>3, <1>4, <1>5, <2>1
    <3> QED BY <1>2, <1>3, <3>1 DEF Walk
  <2>2. CASE i = Len(q) + 1
    <3>1. /\ (r \o s)[i] = r[Len(r)] /\ (q \o msgs)[i] = msgs[1] /\ (r \o s)[i + 1] = s[1]
      BY <1>0, <1>1, <1>2, <1>3, <1>4, <2>2
    <3> QED BY <1>0, <3>1
  <2>3. CASE i > Len(q) + 1
    <3> DEFINE j == i - Len(r)
    <3>1. j \in 1..Len(s) - 1 /\ j \in 1..Len(s) /\ j + 1 \in 1..Len(s) /\ j + 1 \in 1..Len(msgs)
      BY <1>0, <1>1, <1>3, <1>4, <1>5, <2>3
    <3>2. i = Len(r) + j /\ i + 1 = Len(r) + (j + 1) /\ i = Len(q) + (j + 1) BY <1>1, <1>4, <1>5
    <3>3. (r \o s)[i] = s[j] /\ (r \o s)[i + 1] = s[j + 1] /\ (q \o msgs)[i] = msgs[j + 1]
      <4> HIDE DEF j
      <4> QED BY <1>2, <1>3, <3>1, <3>2
    <3> QED BY <1>0, <3>1, <3>3
  <2>4. i \in Nat /\ Len(q) \in Nat BY <1>3, <1>4, <1>5
  <2>5. i <= Len(q) \/ i = Len(q) + 1 \/ i > Len(q) + 1 BY <2>4
  <2> QED BY <2>1, <2>2, <2>3, <2>5
<1>6. Walk(r \o s, q \o msgs)
  <2>1. Len(r \o s) = Len(q \o msgs) + 1 BY <1>0, <1>1, <1>2, <1>3, <1>4
  <2> QED BY <1>2, <1>5, <2>1 DEF Walk, Labellings
<1> QED BY <1>0, <1>1, <1>2, <1>3, <1>6

\* What is left of a labelled queue is labelled by what is left of its labelling.
LEMMA WalkBack ==
  ASSUME NEW r, NEW q \in Seq(Message), Walk(r, q), q # <<>>
  PROVE  /\ Walk(Tail(r), Tail(q)) /\ Follows(r[1], q[1], r[2])
         /\ r[1] \in Label /\ r[2] \in Label /\ q[1] \in Message /\ Head(q) = q[1]
         /\ Len(q) \in Nat \ {0} /\ Len(Tail(q)) = Len(q) - 1 /\ Len(Tail(r)) = Len(q)
         /\ \A i \in 1..Len(q) - 1 : Tail(q)[i] = q[i + 1]
         /\ \A i \in 1..Len(q) : Tail(r)[i] = r[i + 1]
<1>1. r \in Seq(Label) /\ Len(r) = Len(q) + 1 BY DEF Walk, Labellings
<1>2. /\ Tail(q) \in Seq(Message) /\ Len(q) \in Nat \ {0} /\ Len(Tail(q)) = Len(q) - 1
      /\ Head(q) = q[1] /\ q[1] \in Message
      /\ \A i \in 1..Len(Tail(q)) : Tail(q)[i] = q[i + 1]
  BY Taken
<1>3. /\ Tail(r) \in Seq(Label) /\ Len(Tail(r)) = Len(r) - 1 /\ r[1] \in Label
      /\ \A i \in 1..Len(Tail(r)) : Tail(r)[i] = r[i + 1]
  <2>1. r # <<>> BY <1>1, <1>2
  <2> QED BY <1>1, <2>1, Taken
<1>4. ASSUME NEW i \in 1..Len(Tail(q)) PROVE Follows(Tail(r)[i], Tail(q)[i], Tail(r)[i + 1])
  <2>1. i + 1 \in 1..Len(q) /\ i \in 1..Len(Tail(r)) /\ i + 1 \in 1..Len(Tail(r))
    BY <1>1, <1>2, <1>3, <1>4
  <2>2. Follows(r[i + 1], q[i + 1], r[(i + 1) + 1]) BY <2>1 DEF Walk
  <2> QED BY <1>2, <1>3, <2>1, <2>2
<1>5. Follows(r[1], q[1], r[2]) BY <1>2 DEF Walk
<1>6. r[2] \in Label BY <1>1, <1>2
<1>7. Walk(Tail(r), Tail(q)) BY <1>1, <1>2, <1>3, <1>4 DEF Walk, Labellings
<1> QED BY <1>1, <1>2, <1>3, <1>5, <1>6, <1>7

(* Receiving an answer *)

\* What is left of a well-formed answer is well-formed: nothing that comes later changes its place.
LEMMA AnswerLeft ==
  ASSUME NEW r, NEW c, toAgent \in Seq(Message), toAgent # <<>>, toAgent' = Tail(toAgent),
         Walk(r, toAgent), Ordered(r), Content(r, c), Distinct(r),
         UNCHANGED <<position, subject, unsent>>
  PROVE  /\ Walk(Tail(r), toAgent)' /\ Ordered(Tail(r)) /\ Content(Tail(r), c)' /\ Distinct(Tail(r))'
         /\ Follows(r[1], Reply, r[2]) /\ Reply = toAgent[1] /\ Reply \in Message
         /\ Tail(r)[1] = r[2] /\ Tail(r)[Len(Tail(r))] = r[Len(r)]
         /\ r[1] \in Label /\ r[2] \in Label /\ 1 \in 1..Len(toAgent)
         /\ \A p, x : Coming(r, p, x) => Coming(Tail(r), p, x)' \/ (r[1].at = p /\ r[1].of = x)
         /\ \A i \in 1..Len(toAgent') : i + 1 \in 1..Len(toAgent)
         /\ \A i \in 1..Len(toAgent') + 1 : Tail(r)[i] = r[i + 1]
<1>1. /\ Walk(Tail(r), Tail(toAgent)) /\ Follows(r[1], toAgent[1], r[2])
      /\ r[1] \in Label /\ r[2] \in Label /\ toAgent[1] \in Message /\ Reply = toAgent[1]
      /\ Len(toAgent) \in Nat \ {0} /\ Len(toAgent') = Len(toAgent) - 1
      /\ Len(Tail(r)) = Len(toAgent)
      /\ \A i \in 1..Len(toAgent) - 1 : toAgent'[i] = toAgent[i + 1]
      /\ \A i \in 1..Len(toAgent) : Tail(r)[i] = r[i + 1]
  BY WalkBack DEF Reply
<1>2. Len(r) = Len(toAgent) + 1 BY DEF Walk
<1>3. \A i \in 1..Len(toAgent') : i + 1 \in 1..Len(toAgent) BY <1>1
<1>4. \A i \in 1..Len(toAgent') + 1 : i \in 1..Len(toAgent) /\ i + 1 \in 1..Len(r) BY <1>1, <1>2
<1>5. Walk(Tail(r), toAgent)' BY <1>1 DEF Walk, Labellings
<1>6. Ordered(Tail(r))
  <2> SUFFICES ASSUME NEW i \in 1..Len(Tail(r)), NEW j \in 1..Len(Tail(r)), i < j
               PROVE  /\ Tail(r)[j].at \in AuxSide => Tail(r)[i].at \in AuxSide
                      /\ Tail(r)[j].at \in Early => Tail(r)[i].at \in Early
    BY DEF Ordered
  <2>1. i + 1 \in 1..Len(r) /\ j + 1 \in 1..Len(r) /\ i + 1 < j + 1 BY <1>1, <1>2
  <2>2. Tail(r)[i] = r[i + 1] /\ Tail(r)[j] = r[j + 1] BY <1>1
  <2> QED BY <2>1, <2>2 DEF Ordered
<1>7. Content(Tail(r), c)' BY <1>1, <1>3, <1>4 DEF Content
<1>8. Distinct(Tail(r))'
  <2>1. ASSUME NEW i \in 1..Len(toAgent'), NEW j \in 1..Len(toAgent'), i < j,
               Tail(r)[i].at \in ChunkPoints, Tail(r)[j].at = "interceptorName"
        PROVE  Tail(r)[i].of # Tail(r)[j].of
    <3>1. i + 1 \in 1..Len(toAgent) /\ j + 1 \in 1..Len(toAgent) /\ i + 1 < j + 1
      BY <1>1, <1>3, <2>1
    <3>2. Tail(r)[i] = r[i + 1] /\ Tail(r)[j] = r[j + 1] BY <1>1
    <3> QED BY <2>1, <3>1, <3>2 DEF Distinct
  <2>2. ASSUME position = "initializers", NEW i \in 1..Len(toAgent'), Tail(r)[i].at \in ChunkPoints
        PROVE  Tail(r)[i].of \notin unsent
    BY <1>1, <1>3, <1>4, <2>2 DEF Distinct
  <2> QED BY <2>1, <2>2 DEF Distinct
<1>9. ASSUME NEW p, NEW x, Coming(r, p, x) PROVE Coming(Tail(r), p, x)' \/ (r[1].at = p /\ r[1].of = x)
  <2> PICK i \in 1..Len(toAgent) : r[i].at = p /\ r[i].of = x BY <1>9 DEF Coming
  <2>1. CASE i # 1
    <3>1. i - 1 \in 1..Len(toAgent') /\ i - 1 \in 1..Len(toAgent) /\ (i - 1) + 1 = i BY <1>1, <2>1
    <3>2. Tail(r)[i - 1] = r[i] BY <1>1, <3>1
    <3> QED BY <3>1, <3>2 DEF Coming
  <2> QED BY <2>1
<1>10. Tail(r)[1] = r[2] /\ Tail(r)[Len(Tail(r))] = r[Len(r)] /\ 1 \in 1..Len(toAgent) BY <1>1, <1>2
<1>11. \A i \in 1..Len(toAgent') + 1 : Tail(r)[i] = r[i + 1] BY <1>1, <1>4
<1> QED BY <1>1, <1>3, <1>5, <1>6, <1>7, <1>8, <1>9, <1>10, <1>11

\* Both sides still agree on what the interceptors received so far are.
LEMMA KnownLeft ==
  ASSUME NEW r, toAgent \in Seq(Message), toAgent # <<>>, toAgent' = Tail(toAgent),
         Walk(r, toAgent), Known(r), Distinct(r), UNCHANGED sendInterceptors,
         \/ r[1].at # "interceptorBytes" /\ UNCHANGED interceptors
         \/ r[1].at = "interceptorBytes" /\ interceptors' = interceptors \cup {r[1].of}
  PROVE  Known(Tail(r))'
<1>1. /\ Len(toAgent) \in Nat \ {0} /\ Len(toAgent') = Len(toAgent) - 1
      /\ \A i \in 1..Len(toAgent) : Tail(r)[i] = r[i + 1]
  BY WalkBack
<1>2. \A i \in 1..Len(toAgent') : /\ i + 1 \in 1..Len(toAgent) /\ 1 < i + 1 /\ 1 \in 1..Len(toAgent)
                                  /\ Tail(r)[i] = r[i + 1] /\ Tail(r)[i + 1] = r[(i + 1) + 1]
  <2> TAKE i \in 1..Len(toAgent')
  <2>1. i \in 1..Len(toAgent) /\ i + 1 \in 1..Len(toAgent) /\ 1 < i + 1 /\ 1 \in 1..Len(toAgent)
    BY <1>1
  <2> QED BY <1>1, <2>1
<1>3. ASSUME NEW i \in 1..Len(toAgent')
      PROVE  /\ Tail(r)[i].at = "interceptorName" =>
                  (Tail(r)[i + 1].at = "initializerName" <=> Tail(r)[i].of \in interceptors')
             /\ Tail(r)[i].at = "interceptorBytes" => Tail(r)[i].of \in sendInterceptors'
  <2>1. /\ r[i + 1].at = "interceptorName" =>
             (r[(i + 1) + 1].at = "initializerName" <=> r[i + 1].of \in interceptors)
        /\ r[i + 1].at = "interceptorBytes" => r[i + 1].of \in sendInterceptors
    BY <1>2 DEF Known
  <2>2. r[1].at = "interceptorBytes" /\ r[i + 1].at = "interceptorName" => r[1].of # r[i + 1].of
    BY <1>2 DEF Distinct, ChunkPoints, InitSide
  <2> QED BY <1>2, <2>1, <2>2
<1>4. interceptors' \subseteq sendInterceptors'
  BY <1>1 DEF Known
<1>5. ASSUME NEW x \in sendInterceptors' \ interceptors'
      PROVE  \E i \in 1..Len(toAgent') : Tail(r)[i].at = "interceptorBytes" /\ Tail(r)[i].of = x
  <2> PICK i \in 1..Len(toAgent) : r[i].at = "interceptorBytes" /\ r[i].of = x
    BY <1>5 DEF Known
  <2>1. i # 1 BY <1>5
  <2>2. i - 1 \in 1..Len(toAgent') /\ i - 1 \in 1..Len(toAgent) /\ (i - 1) + 1 = i BY <1>1, <2>1
  <2>3. Tail(r)[i - 1] = r[i] BY <1>1, <2>2
  <2> QED BY <2>2, <2>3
<1> QED BY <1>3, <1>4, <1>5 DEF Known

\* The answer goes on with what is left of it, when the thread has moved to where the next message
\* is read and has put away what it received.
LEMMA AnswerGoesOn ==
  ASSUME NEW t \in Threads, NEW r, Answer(r, t), toAgent \in Seq(Message),
         toAgent # <<>>, toAgent' = Tail(toAgent), UNCHANGED <<toServer, server>>,
         class'[t] = class[t], loader'[t] = loader[t],
         r[2].at = PointOf(pc'[t]), r[2].at \in Holding => r[2].of = got'[t],
         Known(Tail(r))',
         ignoredClasses \subseteq ignoredClasses',
         loadedInterceptorsPerCl[loader[t]] \subseteq loadedInterceptorsPerCl'[loader[t]],
         initializers[class[t]] \subseteq initializers'[class[t]],
         r[1].at = "auxBytes" => r[1].of \in ignoredClasses',
         r[1].at = "initializerBytes" =>
           /\ r[1].of \in loadedInterceptorsPerCl'[loader[t]] \cap ignoredClasses'
           /\ r[1].of \in initializers'[class[t]]
  PROVE  Answer(Tail(r), t)' /\ Tail(r) \in Labellings
<1> PICK c : c = class[t] OBVIOUS
<1>0. c = class'[t] OBVIOUS
<1>1. /\ toServer = <<>> /\ Path(r, t) /\ Ordered(r) /\ Content(r, c) /\ Distinct(r) /\ Walk(r, toAgent)
      /\ UNCHANGED <<position, subject, unsent>>
  BY DEF Answer, Path, server
<1>2. /\ Walk(Tail(r), toAgent)' /\ Ordered(Tail(r)) /\ Content(Tail(r), c)' /\ Distinct(Tail(r))'
      /\ Tail(r)[1] = r[2] /\ Tail(r)[Len(Tail(r))] = r[Len(r)]
      /\ \A p, x : Coming(r, p, x) => Coming(Tail(r), p, x)' \/ (r[1].at = p /\ r[1].of = x)
  BY <1>1, AnswerLeft
<1>3. Path(Tail(r), t)' BY <1>2 DEF Path
<1>4. Tail(r) \in Labellings BY <1>2 DEF Walk
<1>5. Failed(r, c) => Failed(Tail(r), c)' BY <1>1, <1>2 DEF Failed, Unanswerable
<1>6. Ended(r, c) => Ended(Tail(r), c)' BY <1>1, <1>2 DEF Ended
<1>7. Supplied(r, t) => Supplied(Tail(r), t)'
  <2> SUFFICES ASSUME Supplied(r, t), Verdict[c] = "match"
               PROVE /\ \A x \in AuxiliariesOf[c] :
                          \/ position = "auxiliaries" /\ x \in unsent
                          \/ Coming(Tail(r), "auxBytes", x)' \/ x \in ignoredClasses'
                     /\ \A x \in InterceptorsOf[c] :
                          \/ position = "auxiliaries"
                          \/ position = "initializers" /\ x \in unsent
                          \/ Coming(Tail(r), "initializerBytes", x)'
                          \/ /\ x \in loadedInterceptorsPerCl'[loader[t]] \cap ignoredClasses'
                             /\ x \in initializers'[c]
    BY <1>0, <1>1 DEF Supplied
  <2>1. \A x \in AuxiliariesOf[c] :
          \/ position = "auxiliaries" /\ x \in unsent
          \/ Coming(r, "auxBytes", x) \/ x \in ignoredClasses
    BY DEF Supplied
  <2>2. \A x \in InterceptorsOf[c] :
          \/ position = "auxiliaries"
          \/ position = "initializers" /\ x \in unsent
          \/ Coming(r, "initializerBytes", x)
          \/ x \in loadedInterceptorsPerCl[loader[t]] \cap ignoredClasses /\ x \in initializers[c]
    BY DEF Supplied
  <2> QED BY <1>2, <2>1, <2>2
<1> QED BY <1>0, <1>1, <1>2, <1>3, <1>4, <1>5, <1>6, <1>7 DEF Answer

\* The message after which the hook has its answer is the last one; the server is back at the top
\* of its loop and all that was announced has arrived.
LEMMA AnswerEnds ==
  ASSUME NEW t \in Threads, NEW r, Answer(r, t), toAgent \in Seq(Message), toAgent # <<>>,
         r[2].at = "finished"
  PROVE  /\ Tail(toAgent) = <<>> /\ toServer = <<>> /\ position = "request"
         /\ Supplied(r, t) /\ \A p, x : Coming(r, p, x) => r[1].at = p /\ r[1].of = x
         /\ r[1].at # "interceptorBytes" => Agree
<1>1. /\ Walk(r, toAgent) /\ Known(r) /\ toServer = <<>>
      /\ (Ended(r, class[t]) /\ Supplied(r, t)) \/ Failed(r, class[t])
  BY DEF Answer, Path
<1>2. Len(r) = Len(toAgent) + 1 /\ Len(toAgent) \in Nat \ {0} BY <1>1, WalkBack DEF Walk
<1>3. Len(toAgent) = 1
  <2> SUFFICES ASSUME Len(toAgent) # 1 PROVE FALSE
    OBVIOUS
  <2> DEFINE n == Len(toAgent)
  <2>0. n \in Nat \ {0} /\ n # 1 BY <1>2
  <2>1. 2 \in 1..n
    <3> HIDE DEF n
    <3> QED BY ONLY <2>0
  <2>2. Follows(r[2], toAgent[2], r[2 + 1]) BY <1>1, <2>1 DEF Walk
  <2>3. <<"finished", toAgent[2].kind, r[2 + 1].at>> \in Script BY <2>2 DEF Follows
  <2> QED BY <2>3 DEF Script
<1>4. Tail(toAgent) = <<>>
  <2>1. Tail(toAgent) \in Seq(Message) /\ Len(Tail(toAgent)) = 0 BY <1>3, Taken
  <2> QED BY <2>1, EmptySeq
<1>5. r[Len(r)].at = "finished" BY <1>2, <1>3
<1>6. Ended(r, class[t]) /\ Supplied(r, t) /\ position = "request" BY <1>1, <1>5 DEF Failed, Ended
<1>7. \A i \in 1..Len(toAgent) : i = 1 BY <1>3
<1>8. \A p, x : Coming(r, p, x) => r[1].at = p /\ r[1].of = x BY <1>7 DEF Coming
<1>9. r[1].at # "interceptorBytes" => Agree BY <1>1, <1>7 DEF Known, Agree
<1> QED BY <1>1, <1>4, <1>6, <1>8, <1>9

(* Exchanges of the hooks *)

\* A hook that takes a step is the only actor that may be in the middle of an exchange.
LEMMA HookAlone ==
  ASSUME TypeInv, MonitorInv, QuietInv, DefineInv, ~Overlap, NEW t \in Threads, HookStep(t)
  PROVE  /\ \A u \in Threads \ {t} : pc[u] \in {"idle", "enter", "prepare"} /\ pc'[u] = pc[u]
         /\ InExchange \subseteq {t} /\ InExchange' \subseteq {t}
         /\ t \in InExchange <=> pc[t] \in HookReceives \cup {"define"}
         /\ t \in InExchange' <=> pc'[t] \in HookReceives \cup {"define"}
         /\ pc'[VM] = pc[VM]
<1>0. PcTypeOK BY DEF TypeInv, TypeOK, AgentTypeOK
<1>1. /\ \A u \in Actors \ {t} : pc'[u] = pc[u]
      /\ Enters(t) \/ Exits(t) \/ Remains(t)
  BY <1>0, HookMoves
<1>2. \A u \in Threads \ {t} : pc[u] \in {"idle", "enter", "prepare"}
  BY <1>1, AgentAssumption DEF MonitorInv, Enters, Exits, Remains
<1>3. pc[t] # "idle" BY <1>1 DEF Enters, Exits, Remains
<1>4. pc[VM] \notin VMReceives BY <1>3 DEF QuietInv
<1>5. /\ pc[VM] \in VMPoints /\ VM \notin Threads /\ Actors = Threads \cup {VM}
      /\ pc[t] \in HookPoints
  BY Types DEF Actors
<1>6. pc'[t] \in HookPoints BY HookFrames DEF HookFrame
<1>7. pc[VM] \notin HookReceives \cup VMReceives \cup {"define"}
  BY <1>4, <1>5 DEF VMPoints, HookReceives, VMReceives
<1>8. \A u \in Actors \ {t} : pc[u] \notin HookReceives \cup VMReceives \cup {"define"}
  BY <1>2, <1>5, <1>7 DEF HookReceives, VMReceives
<1>9. InExchange \subseteq {t} /\ InExchange' \subseteq {t} BY <1>1, <1>8 DEF InExchange
<1>10. \A p \in HookPoints : p \notin VMReceives BY DEF HookPoints, HookReceives, VMReceives
<1> QED BY <1>1, <1>2, <1>5, <1>6, <1>9, <1>10 DEF InExchange

\* What ProtocolInv says of a hook that takes a step, and what has to hold after it.
LEMMA HookProtocol ==
  ASSUME TypeInv, MonitorInv, QuietInv, DefineInv, ~Overlap, NEW t \in Threads, HookStep(t)
  PROVE  /\ ProtocolInv =>
              /\ pc[t] \notin HookReceives \cup {"define"} => Quiet
              /\ pc[t] \in HookReceives \cup {"define"} => Exchange(t)
              /\ pc[t] \notin AnswerPoints => Agree
         /\ /\ pc'[t] \notin HookReceives \cup {"define"} => Quiet'
            /\ pc'[t] \in HookReceives \cup {"define"} => Exchange(t)'
            /\ pc'[t] \notin AnswerPoints => Agree'
            => ProtocolInv'
<1>1. /\ \A u \in Threads \ {t} : pc[u] \in {"idle", "enter", "prepare"} /\ pc'[u] = pc[u]
      /\ InExchange \subseteq {t} /\ InExchange' \subseteq {t}
      /\ t \in InExchange <=> pc[t] \in HookReceives \cup {"define"}
      /\ t \in InExchange' <=> pc'[t] \in HookReceives \cup {"define"}
  BY HookAlone
<1>2. \A u \in Threads \ {t} : pc[u] \notin AnswerPoints /\ pc'[u] \notin AnswerPoints
  BY <1>1 DEF AnswerPoints
<1> QED BY <1>1, <1>2 DEF ProtocolInv

\* A request joins what the server has still to read.
LEMMA LagSend ==
  ASSUME Lag(0), toAgent = <<>>, NEW k \in Requests, toServer \in Seq(Message),
         toServer' = toServer \o <<Text(k)>>, UNCHANGED <<toAgent, server>>,
         classesCache \subseteq classesCache'
  PROVE  AwaitAck(k)'
<1>1. <<Text(k)>> \in Seq(Message) /\ Len(<<Text(k)>>) = 1 /\ <<Text(k)>>[1] = Text(k)
  BY TextIsMessage
<1> DEFINE s == <<Text(k)>>
<1>2. s \in Seq(Message) /\ Len(s) = 1 /\ s[1] = Text(k) /\ toServer' = toServer \o s BY <1>1
<1> HIDE DEF s
<1>3. /\ toServer' \in Seq(Message) /\ Len(toServer') = Len(toServer) + 1 /\ Len(toServer) \in Nat
      /\ \A i \in 1..Len(toServer) : toServer'[i] = toServer[i]
      /\ toServer'[Len(toServer) + 1] = Text(k)
  BY <1>2, Joined
<1>4. Lag(1)'
  BY <1>3 DEF Lag, server
<1> QED BY <1>3, <1>4 DEF AwaitAck

\* What nobody touches stays quiet.
LEMMA QuietStays ==
  ASSUME Quiet, UNCHANGED <<wire, server>>, pc'[VM] = pc[VM], classesCache \subseteq classesCache'
  PROVE  Quiet'
BY DEF Quiet, Lag, wire, server

\* Outside an exchange a hook leaves the server alone, or begins an exchange with a request.
LEMMA RequestSteps ==
  ASSUME TypeInv, MonitorInv, QuietInv, DefineInv, ProtocolInv, ~Overlap, UNCHANGED server,
         NEW t \in Threads,
         \/ EnterHook(t) \/ FoundInCache(t) \/ AskHasClass(t) \/ SendClassData(t) \/ TriggerLoading(t)
         \/ NextDependency(t) \/ RequestInstrument(t) \/ ExitHook(t)
  PROVE  ProtocolInv'
<1>0. HookStep(t) BY DEF HookStep
<1>1. HookFrame(t) /\ HookEffect(t) /\ pc'[VM] = pc[VM] BY <1>0, HookFrames, HookEffects, HookAlone
<1>2. /\ \A p : Goto(t, p) => pc'[t] = p
      /\ toServer \in Seq(Message)
  BY Types DEF Goto
<1>3. pc[t] \in {"enter", "check", "send", "deps", "exit"} /\ Alive
  BY DEF EnterHook, FoundInCache, AskHasClass, SendClassData, TriggerLoading, NextDependency,
         RequestInstrument, ExitHook, At
<1>4. Quiet /\ Agree
  BY <1>0, <1>3, HookProtocol DEF HookReceives, AnswerPoints
<1>5. UNCHANGED interceptors
  BY DEF EnterHook, FoundInCache, AskHasClass, SendClassData, TriggerLoading, NextDependency,
         RequestInstrument, ExitHook, tables
<1>6. Agree' BY <1>4, <1>5 DEF Agree, server
<1>7. Lag(0) /\ toAgent = <<>> BY <1>3, <1>4 DEF Quiet, Alive
<1>8. classesCache \subseteq classesCache' BY <1>1 DEF HookEffect
<1>9. ASSUME NEW p \in {"checkAck", "registerAck", "instrumentAck"}, Goto(t, p), UNCHANGED toAgent,
             AgentSends(<<Text(RequestOf[p])>>)
      PROVE  ProtocolInv'
  <2>1. RequestOf[p] \in Requests BY DEF RequestOf, Requests
  <2>2. AwaitAck(RequestOf[p])' BY <1>2, <1>7, <1>8, <1>9, <2>1, LagSend DEF AgentSends
  <2>3. pc'[t] = p BY <1>2, <1>9
  <2>4. /\ p # "checkReply" /\ p \notin AnswerPoints /\ p \notin HelperPoints
        /\ p \in HookReceives
    BY DEF AnswerPoints, HelperPoints, HookReceives
  <2>5. Exchange(t)' BY <2>2, <2>3, <2>4 DEF Exchange
  <2> QED BY <1>0, <1>6, <2>3, <2>4, <2>5, HookProtocol
<1>10. ASSUME UNCHANGED wire, pc'[t] \notin HookReceives \cup {"define"} PROVE ProtocolInv'
  <2>1. Quiet' BY <1>1, <1>4, <1>8, <1>10, QuietStays
  <2> QED BY <1>0, <1>6, <1>10, <2>1, HookProtocol
<1>11. CASE EnterHook(t) BY <1>2, <1>10, <1>11 DEF EnterHook, HookReceives
<1>12. CASE FoundInCache(t) BY <1>2, <1>10, <1>12 DEF FoundInCache, HookReceives
<1>13. CASE TriggerLoading(t) BY <1>2, <1>10, <1>13 DEF TriggerLoading, HookReceives
<1>14. CASE NextDependency(t) BY <1>2, <1>10, <1>14 DEF NextDependency, HookReceives
<1>15. CASE ExitHook(t) BY <1>2, <1>10, <1>15 DEF ExitHook, HookReceives
<1>16. CASE AskHasClass(t) BY <1>9, <1>16 DEF AskHasClass, RequestOf
<1>17. CASE SendClassData(t) BY <1>9, <1>17 DEF SendClassData, RequestOf
<1>18. CASE RequestInstrument(t) BY <1>9, <1>18 DEF RequestInstrument, RequestOf
<1> QED BY <1>11, <1>12, <1>13, <1>14, <1>15, <1>16, <1>17, <1>18

\* An acknowledgement is all that is in the connection when it is received, and never missing.
LEMMA AckStep ==
  ASSUME NEW a, NEW p, NEW args \in Seq(Message), NEW k,
         AwaitAck(k) \/ Acked(k), Acknowledged(a, p, args)
  PROVE  /\ Acked(k) /\ Goto(a, p) /\ UNCHANGED jvm
         /\ toServer' = args /\ toAgent' = <<>>
<1>1. Acked(k) BY DEF AwaitAck, Acknowledged, AgentTakes
<1>2. toAgent = <<Text("ack_req_msg")>> /\ toServer = <<>> BY <1>1 DEF Acked
<1>3. Reply.kind = "ack_req_msg" /\ Tail(toAgent) = <<>> BY <1>2 DEF Reply, Text
<1>4. <<>> \o args = args OBVIOUS
<1> QED BY <1>1, <1>2, <1>3, <1>4 DEF Acknowledged, AgentTakes, AgentSends

\* The three acknowledged requests of a hook and the answer to the check.
LEMMA AckSteps ==
  ASSUME TypeInv, MonitorInv, QuietInv, DefineInv, ProtocolInv, ~Overlap, UNCHANGED server,
         NEW t \in Threads, CheckAck(t) \/ RegisterAck(t) \/ InstrumentAck(t) \/ CheckReply(t)
  PROVE  ProtocolInv' /\ aborted' = aborted
<1>0. HookStep(t) BY DEF HookStep
<1>1. HookFrame(t) /\ HookEffect(t) /\ pc'[VM] = pc[VM] BY <1>0, HookFrames, HookEffects, HookAlone
<1>2. /\ \A p : Goto(t, p) => pc'[t] = p
      /\ toServer \in Seq(Message) /\ toAgent \in Seq(Message)
  BY Types DEF Goto
<1>3. /\ pc[t] \in {"checkAck", "registerAck", "instrumentAck", "checkReply"} /\ Alive
      /\ class[t] \in Classes /\ dep[t] \in Classes
  BY DEF CheckAck, RegisterAck, InstrumentAck, CheckReply, At, TypeInv, HookInv
<1>4. Exchange(t) /\ Agree
  BY <1>0, <1>3, HookProtocol DEF HookReceives, AnswerPoints
<1>5. UNCHANGED interceptors
  BY DEF CheckAck, RegisterAck, InstrumentAck, CheckReply, tables
<1>6. Agree' BY <1>4, <1>5 DEF Agree, server
<1>7. <<Name(dep[t])>> \in Seq(Message) /\ <<Name(class[t])>> \in Seq(Message)
      /\ <<Name(dep[t]), Payload(dep[t])[2]>> \in Seq(Message)
  <2>1. \A n \in Classes : Name(n) \in Message /\ Payload(n)[2] \in Message
    BY BlobIsMessages DEF Names
  <2> QED BY <1>3, <2>1
<1>8. CASE CheckAck(t)
  <2>1. AwaitAck("CHECK_HAS_CLASS") \/ Acked("CHECK_HAS_CLASS")
    BY <1>4, <1>8 DEF Exchange, RequestOf, CheckAck, At
  <2>2. Acknowledged(t, "checkReply", <<Name(dep[t])>>) /\ UNCHANGED dep
    BY <1>8 DEF CheckAck, frame
  <2>3. /\ Acked("CHECK_HAS_CLASS") /\ Goto(t, "checkReply") /\ UNCHANGED jvm
        /\ toServer' = <<Name(dep[t])>> /\ toAgent' = <<>>
    BY <1>7, <2>1, <2>2, AckStep
  <2>4. position = "checkName" BY <2>3 DEF Acked, Dispatch
  <2>5. CheckPhase(t)' BY <2>2, <2>3, <2>4 DEF CheckPhase, server
  <2>6. pc'[t] = "checkReply" BY <1>2, <2>3
  <2>7. Exchange(t)' BY <2>5, <2>6 DEF Exchange, RequestOf, AnswerPoints, HelperPoints
  <2> QED BY <1>0, <1>6, <2>3, <2>6, <2>7, HookProtocol DEF HookReceives, jvm, life
<1>9. CASE RegisterAck(t)
  <2>1. AwaitAck("REGISTER_BYTECODE") \/ Acked("REGISTER_BYTECODE")
    BY <1>4, <1>9 DEF Exchange, RequestOf, RegisterAck, At
  <2>2. Acknowledged(t, "deps", <<Name(dep[t]), Payload(dep[t])[2]>>)
        /\ classesCache' = classesCache \cup {dep[t]}
    BY <1>9 DEF RegisterAck
  <2>3. /\ Acked("REGISTER_BYTECODE") /\ Goto(t, "deps") /\ UNCHANGED jvm
        /\ toServer' = <<Name(dep[t]), Payload(dep[t])[2]>> /\ toAgent' = <<>>
    BY <1>7, <2>1, <2>2, AckStep
  <2>4. position = "registerName" BY <2>3 DEF Acked, Dispatch
  <2>5. Quiet' BY <2>2, <2>3, <2>4 DEF Quiet, Lag, server
  <2>6. pc'[t] = "deps" BY <1>2, <2>3
  <2> QED BY <1>0, <1>6, <2>3, <2>5, <2>6, HookProtocol DEF HookReceives, jvm, life
<1>10. CASE InstrumentAck(t)
  <2>1. AwaitAck("INSTRUMENT") \/ Acked("INSTRUMENT")
    BY <1>4, <1>10 DEF Exchange, RequestOf, InstrumentAck, At
  <2>2. Acknowledged(t, "aux", <<Name(class[t])>>) /\ UNCHANGED class
    BY <1>10 DEF InstrumentAck, frame
  <2>3. /\ Acked("INSTRUMENT") /\ Goto(t, "aux") /\ UNCHANGED jvm
        /\ toServer' = <<Name(class[t])>> /\ toAgent' = <<>>
    BY <1>7, <2>1, <2>2, AckStep
  <2>4. position = "instrumentName" BY <2>3 DEF Acked, Dispatch
  <2>6. pc'[t] = "aux" BY <1>2, <2>3
  <2>5. Unhandled(t)' BY <1>6, <2>2, <2>3, <2>4, <2>6 DEF Unhandled, server
  <2>7. Exchange(t)' BY <2>5, <2>6 DEF Exchange, RequestOf, AnswerPhase, HelperPoints
  <2> QED BY <1>0, <1>6, <2>3, <2>6, <2>7, HookProtocol DEF HookReceives, jvm, life
<1>11. CASE CheckReply(t)
  <2>1. CheckPhase(t) BY <1>4, <1>11 DEF Exchange, CheckReply, At
  <2>2. toAgent # <<>> /\ toAgent' = Tail(toAgent) /\ UNCHANGED toServer
    BY <1>11 DEF CheckReply, AgentTakes
  <2>3. position = "request" /\ toServer = <<>> /\ toAgent' = <<>> BY <2>1, <2>2 DEF CheckPhase
  <2>4. Quiet' BY <2>2, <2>3 DEF Quiet, Lag, server
  <2>5. pc'[t] \in {"deps", "send"} BY <1>2, <1>11 DEF CheckReply
  <2> QED BY <1>0, <1>6, <1>11, <2>4, <2>5, HookProtocol DEF HookReceives, CheckReply, jvm, life
<1> QED BY <1>8, <1>9, <1>10, <1>11

\* The script, point by point.
LEMMA Scripted ==
  ASSUME NEW p, NEW m, NEW q, Follows(p, m, q)
  PROVE  /\ p.at = "aux" => \/ m.kind = "auxiliary_types" /\ q.at = "auxName"
                            \/ m.kind = "no_more_aux_classes" /\ q.at = "init"
         /\ p.at = "auxName" => m.kind = "name" /\ q.at = "auxLength"
         /\ p.at = "auxLength" => m.kind = "length" /\ q.at = "auxBytes"
         /\ p.at = "auxBytes" => m.kind = "bytes" /\ q.at = "aux"
         /\ p.at = "init" => \/ m.kind = "initializers" /\ q.at = "interceptorName"
                             \/ m.kind = "no_more_initializers" /\ q.at = "verdict"
         /\ p.at = "interceptorName" => m.kind = "name" /\ q.at \in {"interceptorLength", "initializerName"}
         /\ p.at = "interceptorLength" => m.kind = "length" /\ q.at = "interceptorBytes"
         /\ p.at = "interceptorBytes" => m.kind = "bytes" /\ q.at = "initializerName"
         /\ p.at = "initializerName" => m.kind = "name" /\ q.at = "initializerLength"
         /\ p.at = "initializerLength" => m.kind = "length" /\ q.at = "initializerBytes"
         /\ p.at = "initializerBytes" => m.kind = "bytes" /\ q.at = "init"
         /\ p.at = "verdict" => \/ m.kind = "ack_req_int_no" /\ q.at = "finished"
                                \/ m.kind = "ack_req_int_yes" /\ q.at = "newLength"
         /\ p.at = "newLength" => m.kind = "length" /\ q.at = "newBytes"
         /\ p.at = "newBytes" => m.kind = "bytes" /\ q.at = "finished"
         /\ p.at = "helpersAck" => m.kind = "ack_req_msg" /\ q.at = "helpersCount"
         /\ p.at = "helpersCount" => m.kind = "count" /\ q.at = "helperName"
         /\ p.at = "helperName" => m.kind = "name" /\ q.at = "helperLength"
         /\ p.at = "helperLength" => m.kind = "length" /\ q.at = "helperBytes"
         /\ p.at = "helperBytes" => m.kind = "bytes" /\ q.at = "helperName"
         /\ p.at \in {"auxName", "auxLength", "auxBytes", "interceptorName", "interceptorLength",
                      "interceptorBytes", "initializerName", "initializerLength", "initializerBytes",
                      "newLength", "newBytes"}
              => m.of = p.of /\ q.of = p.of
BY DEF Follows, Script, HelperPoints

\* A hook that goes on reading its answer keeps ProtocolInv.
LEMMA AnswerContinues ==
  ASSUME TypeInv, MonitorInv, QuietInv, DefineInv, ~Overlap, NEW t \in Threads, HookStep(t),
         pc'[t] \in AnswerPoints, AnswerPhase(t)'
  PROVE  ProtocolInv'
<1>1. /\ pc'[t] \notin DOMAIN RequestOf /\ pc'[t] # "checkReply" /\ pc'[t] \notin HelperPoints
      /\ pc'[t] \in HookReceives \cup {"define"}
  BY DEF RequestOf, AnswerPoints, HelperPoints, HookReceives
<1>2. Exchange(t)' BY <1>1 DEF Exchange
<1> QED BY <1>1, <1>2, HookProtocol

\* A hook that reads its answer, not cut short, reads the message its place in the code is for.
LEMMA AnswerReads ==
  ASSUME TypeInv, MonitorInv, QuietInv, DefineInv, ProtocolInv, ~Overlap, NEW t \in Threads, HookStep(t),
         pc[t] \in AnswerPoints \ {"define"}, AgentTakes, ~Cut(t)
  PROVE  \E r \in Labellings : /\ Answer(r, t) /\ r[1].at = pc[t] /\ (pc[t] \in Holding => r[1].of = got[t])
                               /\ Follows(r[1], Reply, r[2]) /\ Reply \in Message
                               /\ 1 \in 1..Len(toAgent) /\ Reply = toAgent[1]
<1>1. pc[t] \in HookReceives \cup {"define"} BY DEF AnswerPoints, HookReceives
<1>2. Exchange(t) BY <1>1, HookProtocol
<1>3. toAgent # <<>> /\ toAgent' = Tail(toAgent) /\ toAgent \in Seq(Message) BY Types DEF AgentTakes
<1>4. PICK r \in Labellings : Answer(r, t)
  BY <1>2, <1>3 DEF Exchange, AnswerPhase, Unhandled
<1>5. Path(r, t) /\ Walk(r, toAgent) BY <1>4 DEF Answer, Path
<1>6. r[1].at = pc[t] /\ (pc[t] \in Holding => r[1].of = got[t]) BY <1>5 DEF Path, PointOf
<1>7. /\ Follows(r[1], toAgent[1], r[2]) /\ toAgent[1] \in Message /\ Head(toAgent) = toAgent[1]
      /\ Len(toAgent) \in Nat \ {0}
  BY <1>3, <1>5, WalkBack
<1>8. 1 \in 1..Len(toAgent) BY <1>7
<1> QED BY <1>4, <1>6, <1>7, <1>8 DEF Reply

\* A hook that moves to where its next message is read, and puts away what it has received, keeps
\* ProtocolInv.
LEMMA AnswerMoves ==
  ASSUME TypeInv, MonitorInv, QuietInv, DefineInv, LoadInv, ~Overlap, NEW t \in Threads, HookStep(t),
         UNCHANGED <<toServer, server>>, AgentTakes,
         NEW r \in Labellings, Answer(r, t), r[1].at = pc[t], pc[t] \in Holding => r[1].of = got[t],
         pc[t] \in AnswerPoints, pc'[t] \in AnswerPoints,
         r[2].at = PointOf(pc'[t]), r[2].at \in Holding => r[2].of = got'[t],
         \/ pc[t] # "interceptorBytes" /\ UNCHANGED interceptors
         \/ pc[t] = "interceptorBytes" /\ interceptors' = interceptors \cup {got[t]},
         initializers[class[t]] \subseteq initializers'[class[t]],
         pc[t] = "auxBytes" => got[t] \in ignoredClasses',
         pc[t] = "initializerBytes" => got[t] \in initializers'[class[t]]
  PROVE  ProtocolInv'
<1>0. /\ HookFrame(t) /\ HookEffect(t)
      /\ toAgent \in Seq(Message) /\ toAgent # <<>> /\ toAgent' = Tail(toAgent)
  BY HookFrames, HookEffects, Types DEF AgentTakes
<1>1. pc[t] \notin {"exit", "enter"} BY DEF AnswerPoints
<1>2. /\ class'[t] = class[t] /\ loader'[t] = loader[t] /\ loader[t] \in Loaders
      /\ ignoredClasses \subseteq ignoredClasses'
      /\ loadedInterceptorsPerCl[loader[t]] \subseteq loadedInterceptorsPerCl'[loader[t]]
  BY <1>0, <1>1 DEF HookFrame, HookEffect, TypeInv, HookInv
<1>3. Walk(r, toAgent) /\ Known(r) /\ Distinct(r) BY DEF Answer, Path
<1>4. Known(Tail(r))'
  <2>1. UNCHANGED sendInterceptors BY DEF server
  <2>2. \/ r[1].at # "interceptorBytes" /\ UNCHANGED interceptors
        \/ r[1].at = "interceptorBytes" /\ interceptors' = interceptors \cup {r[1].of}
    BY DEF Holding
  <2> QED BY <1>0, <1>3, <2>1, <2>2, KnownLeft
<1>5. r[1].at = "auxBytes" => r[1].of \in ignoredClasses' BY DEF Holding
<1>6. r[1].at = "initializerBytes" =>
        /\ r[1].of \in loadedInterceptorsPerCl'[loader[t]] \cap ignoredClasses'
        /\ r[1].of \in initializers'[class[t]]
  BY <1>2 DEF Holding, LoadInv
<1>7. Answer(Tail(r), t)' /\ Tail(r) \in Labellings
  BY <1>0, <1>2, <1>4, <1>5, <1>6, AnswerGoesOn
<1>8. AnswerPhase(t)' BY <1>7 DEF AnswerPhase, Labellings
<1> QED BY <1>8, AnswerContinues

\* The answer as far as the verdict.
LEMMA AnswerSteps ==
  ASSUME TypeInv, MonitorInv, QuietInv, DefineInv, LoadInv, ProtocolInv, ~Overlap, UNCHANGED server,
         NEW t \in Threads,
         \/ ReceiveAuxMarker(t) \/ ReceiveAuxName(t) \/ ReceiveAuxBytes(t) \/ ReceiveInitMarker(t)
         \/ ReceiveInterceptorName(t) \/ ReceiveInterceptorBytes(t)
         \/ ReceiveInitializerBytes(t) \/ ReceiveUnread(t)
  PROVE  ProtocolInv'
<1>0. HookStep(t) BY DEF HookStep
<1>1. HookFrame(t) /\ HookEffect(t) BY <1>0, HookFrames, HookEffects
<1>2. /\ \A p : Goto(t, p) => pc'[t] = p
      /\ \A n : got' = [got EXCEPT ![t] = n] => got'[t] = n
      /\ toServer \in Seq(Message) /\ toAgent \in Seq(Message) /\ class[t] \in Classes \cup {None}
      /\ initializers \in [Classes -> SUBSET (Names \cup {None})]
  BY Types DEF Goto
<1>3. /\ AgentTakes /\ UNCHANGED toServer
      /\ pc[t] \in AnswerPoints \ {"define"}
  BY DEF ReceiveAuxMarker, ReceiveAuxName, ReceiveAuxBytes, ReceiveInitMarker,
       ReceiveInterceptorName,
         ReceiveInterceptorBytes, ReceiveInitializerBytes, ReceiveUnread, AfterUnread, At, AnswerPoints
<1>4. CASE Cut(t)
  <2>1. toAgent # <<>> /\ toAgent' = Tail(toAgent) BY <1>3 DEF AgentTakes
  <2>2. /\ AskedElsewhere(t) /\ toServer = <<>> /\ position = "request" /\ Agree
        /\ \/ pc[t] = "aux" /\ toAgent = Payload(class[t])
           \/ pc[t] = "init" /\ Len(toAgent) = 1 /\ toAgent[1].kind = "bytes"
    BY <1>4, <2>1 DEF Cut
  <2>3. ReceiveAuxMarker(t) \/ ReceiveInitMarker(t)
    BY <2>2 DEF ReceiveAuxMarker, ReceiveAuxName, ReceiveAuxBytes, ReceiveInitMarker,
         ReceiveInterceptorName, ReceiveInterceptorBytes, ReceiveInitializerBytes, ReceiveUnread,
         AfterUnread, At
  <2>4. /\ AskedElsewhere(t)'
        /\ Agree'
    BY <1>1, <2>2, <2>3 DEF AskedElsewhere, Settled, ReceiveAuxMarker, ReceiveInitMarker, frame,
         jvm,
         tables, Agree, server
  <2>5. Cut(t)' /\ pc'[t] \in AnswerPoints
    <3>1. CASE ReceiveAuxMarker(t)
      <4>1. toAgent = Payload(class[t]) BY <2>2, <3>1 DEF ReceiveAuxMarker, At
      <4>2. /\ Reply = [kind |-> "length", of |-> class[t]]
            /\ toAgent' = <<[kind |-> "bytes", of |-> class[t]]>>
        BY <2>1, <4>1 DEF Payload, Reply
      <4>3. pc'[t] = "init" BY <1>2, <3>1, <4>2 DEF ReceiveAuxMarker
      <4> QED BY <1>3, <2>2, <2>4, <4>2, <4>3 DEF Cut, AnswerPoints, server
    <3>2. CASE ReceiveInitMarker(t)
      <4>1. Len(toAgent) = 1 /\ toAgent[1].kind = "bytes" BY <2>2, <3>2 DEF ReceiveInitMarker, At
      <4>2. Reply.kind = "bytes" /\ Len(Tail(toAgent)) = 0 /\ Tail(toAgent) \in Seq(Message)
        BY <1>2, <2>1, <4>1, Taken DEF Reply
      <4>3. toAgent' = <<>> BY <2>1, <4>2, EmptySeq
      <4>4. pc'[t] = "verdict" BY <1>2, <3>2, <4>2 DEF ReceiveInitMarker
      <4> QED BY <1>3, <2>2, <2>4, <4>3, <4>4 DEF Cut, AnswerPoints, server
    <3> QED BY <2>3, <3>1, <3>2
  <2> QED BY <1>0, <2>5, AnswerContinues DEF AnswerPhase
<1>5. CASE ~Cut(t)
  <2> PICK r \in Labellings :
        /\ Answer(r, t) /\ r[1].at = pc[t] /\ (pc[t] \in Holding => r[1].of = got[t])
        /\ Follows(r[1], Reply, r[2]) /\ Reply \in Message
        /\ 1 \in 1..Len(toAgent) /\ Reply = toAgent[1]
    BY <1>0, <1>3, <1>5, AnswerReads
  <2> DEFINE Next2 ==
        /\ pc'[t] \in AnswerPoints
        /\ r[2].at = PointOf(pc'[t]) /\ (r[2].at \in Holding => r[2].of = got'[t])
        /\ \/ pc[t] # "interceptorBytes" /\ UNCHANGED interceptors
           \/ pc[t] = "interceptorBytes" /\ interceptors' = interceptors \cup {got[t]}
        /\ initializers[class[t]] \subseteq initializers'[class[t]]
        /\ pc[t] = "auxBytes" => got[t] \in ignoredClasses'
        /\ pc[t] = "initializerBytes" => got[t] \in initializers'[class[t]]
  <2>1. Next2 => ProtocolInv' BY <1>0, <1>3, AnswerMoves
  <2> SUFFICES Next2
    BY <2>1
  <2> USE Scripted DEF At, PointOf, Holding, AnswerPoints
  <2>2. CASE ReceiveAuxMarker(t) BY <1>2, <2>2 DEF ReceiveAuxMarker, tables
  <2>3. CASE ReceiveAuxName(t)
    <3>1. Reply.of = r[1].of /\ r[2].of = r[1].of /\ r[2].at = "auxLength"
      BY <2>3 DEF ReceiveAuxName
    <3> QED BY <1>2, <2>3, <3>1 DEF ReceiveAuxName, tables
  <2>4. CASE ReceiveAuxBytes(t) BY <1>2, <2>4 DEF ReceiveAuxBytes
  <2>5. CASE ReceiveInitMarker(t) BY <1>2, <2>5 DEF ReceiveInitMarker, tables
  <2>6. CASE ReceiveInterceptorName(t)
    <3>1. r[2].at = "initializerName" <=> r[1].of \in interceptors
      BY <2>6 DEF Answer, Known, ReceiveInterceptorName
    <3>2. /\ Reply.of = r[1].of /\ r[2].of = r[1].of
          /\ r[2].at \in {"interceptorLength", "initializerName"}
      BY <2>6 DEF ReceiveInterceptorName
    <3>3. pc'[t] = IF r[1].of \in interceptors THEN "define" ELSE "interceptorLength"
      BY <1>2, <2>6, <3>2 DEF ReceiveInterceptorName
    <3>4. got'[t] = r[1].of BY <1>2, <2>6, <3>2 DEF ReceiveInterceptorName
    <3>5. UNCHANGED interceptors /\ UNCHANGED initializers /\ pc[t] = "interceptorName"
      BY <2>6 DEF ReceiveInterceptorName, tables
    <3> QED BY ONLY <3>1, <3>2, <3>3, <3>4, <3>5 DEF PointOf, AnswerPoints
  <2>7. CASE ReceiveInterceptorBytes(t) BY <1>2, <2>7 DEF ReceiveInterceptorBytes
  <2>8. CASE ReceiveInitializerBytes(t)
    <3>1. /\ Reply.of = r[1].of /\ r[2].at = "init" /\ r[1].of = got[t] /\ pc[t] = "initializerBytes"
      BY <2>8 DEF ReceiveInitializerBytes
    <3>2. class[t] \in Classes BY <3>1 DEF TypeInv, HookInv
    <3>3. initializers'[class[t]] = initializers[class[t]] \cup {got[t]}
      BY <1>2, <2>8, <3>1, <3>2 DEF ReceiveInitializerBytes
    <3>4. pc'[t] = "init" /\ UNCHANGED interceptors BY <1>2, <2>8 DEF ReceiveInitializerBytes
    <3> QED BY ONLY <3>1, <3>3, <3>4 DEF PointOf, AnswerPoints, Holding
  <2>9. CASE ReceiveUnread(t) BY <1>2, <2>9 DEF ReceiveUnread, AfterUnread, tables
  <2> QED BY <2>2, <2>3, <2>4, <2>5, <2>6, <2>7, <2>8, <2>9
<1> QED BY <1>4, <1>5

\* An interceptor is defined between two messages.
LEMMA DefineKeepsProtocol ==
  ASSUME TypeInv, MonitorInv, QuietInv, DefineInv, LoadInv, ProtocolInv, ~Overlap, UNCHANGED server,
         NEW t \in Threads, DefineInterceptor(t)
  PROVE  ProtocolInv'
<1>0. HookStep(t) BY DEF HookStep
<1>1. HookFrame(t) /\ HookEffect(t) BY <1>0, HookFrames, HookEffects
<1>2. /\ \A p : Goto(t, p) => pc'[t] = p BY Types DEF Goto
<1>3. pc[t] = "define" /\ got[t] \in ignoredClasses BY DEF DefineInterceptor, At, DefineInv
<1>4. Exchange(t) BY <1>0, <1>3, HookProtocol
<1>5. PICK r \in Labellings : Answer(r, t)
  BY <1>3, <1>4 DEF Exchange, AnswerPhase, Unhandled, Cut, AnswerPoints
<1>6. /\ pc'[t] = "initializerName"
      /\ UNCHANGED <<class, loader, got, ignoredClasses, interceptors, initializers, toServer, toAgent>>
  BY <1>2, <1>3 DEF DefineInterceptor, ShouldContinue, frame, wire
<1>7. loader[t] \in Loaders BY <1>3 DEF TypeInv, HookInv
<1>8. loadedInterceptorsPerCl[loader[t]] \subseteq loadedInterceptorsPerCl'[loader[t]]
  BY <1>1, <1>7 DEF HookEffect
<1>9. Path(r, t)' /\ Ordered(r) /\ toServer' = <<>>
  BY <1>3, <1>5, <1>6 DEF Answer, Path, PointOf
<1>10. Content(r, class[t])' /\ Distinct(r)' /\ Known(r)'
  BY <1>5, <1>6 DEF Answer, Content, Distinct, Known, server
<1>11. (Ended(r, class[t]) => Ended(r, class[t])') /\ (Failed(r, class[t]) => Failed(r, class[t])')
  BY <1>6 DEF Ended, Failed, Unanswerable, server
<1>12. Supplied(r, t) => Supplied(r, t)'
  BY <1>6, <1>8 DEF Supplied, Coming, server
<1>13. Answer(r, t)' BY <1>5, <1>6, <1>9, <1>10, <1>11, <1>12 DEF Answer
<1>14. AnswerPhase(t)' BY <1>13 DEF AnswerPhase, Labellings
<1> QED BY <1>0, <1>6, <1>14, AnswerContinues DEF AnswerPoints

\* With the last message of its answer a hook leaves the server at the top of its loop.
LEMMA AnswerLeaves ==
  ASSUME TypeInv, MonitorInv, QuietInv, DefineInv, ~Overlap, NEW t \in Threads, HookStep(t),
         UNCHANGED <<toServer, server, interceptors>>, AgentTakes,
         NEW r \in Labellings, Answer(r, t), r[1].at \in {"verdict", "newBytes"}, r[2].at = "finished",
         pc'[t] = "exit"
  PROVE  ProtocolInv'
<1>1. toAgent \in Seq(Message) /\ toAgent # <<>> /\ toAgent' = Tail(toAgent) BY Types DEF AgentTakes
<1>2. Tail(toAgent) = <<>> /\ toServer = <<>> /\ position = "request" /\ Agree
  BY <1>1, AnswerEnds
<1>3. Quiet' /\ Agree' BY <1>1, <1>2 DEF Quiet, Lag, Agree, server
<1> QED BY <1>3, HookProtocol DEF HookReceives

\* The verdict is never missing, and the new bytecode ends the answer.
LEMMA VerdictSteps ==
  ASSUME TypeInv, MonitorInv, QuietInv, DefineInv, LoadInv, ProtocolInv, ~Overlap, UNCHANGED server,
         NEW t \in Threads, ReceiveVerdict(t) \/ ReceiveNewBytes(t)
  PROVE  ProtocolInv' /\ aborted' = aborted
<1>0. HookStep(t) BY DEF HookStep
<1>2. \A p : Goto(t, p) => pc'[t] = p BY Types DEF Goto
<1>3. /\ AgentTakes /\ UNCHANGED <<toServer, interceptors, initializers>>
      /\ pc[t] \in {"verdict", "newBytes"} /\ pc[t] \in AnswerPoints \ {"define"}
  BY DEF ReceiveVerdict, ReceiveNewBytes, At, AnswerPoints, tables
<1>4. ~Cut(t) BY <1>3 DEF Cut, AgentTakes
<1>5. PICK r \in Labellings :
        /\ Answer(r, t) /\ r[1].at = pc[t] /\ (pc[t] \in Holding => r[1].of = got[t])
        /\ Follows(r[1], Reply, r[2]) /\ Reply \in Message
        /\ 1 \in 1..Len(toAgent) /\ Reply = toAgent[1]
  BY <1>0, <1>3, <1>4, AnswerReads
<1>6. CASE ReceiveVerdict(t)
  <2>1. pc[t] = "verdict" BY <1>6 DEF ReceiveVerdict, At
  <2>2. \/ Reply.kind = "ack_req_int_no" /\ r[2].at = "finished"
        \/ Reply.kind = "ack_req_int_yes" /\ r[2].at = "newLength"
    BY <1>5, <2>1, Scripted
  <2>3. CASE Reply.kind = "ack_req_int_no"
    <3>1. pc'[t] = "exit" /\ r[2].at = "finished" /\ aborted' = aborted
      BY <1>2, <1>6, <2>2, <2>3 DEF ReceiveVerdict, Loads, life
    <3> QED BY <1>0, <1>3, <1>5, <2>1, <3>1, AnswerLeaves
  <2>4. CASE Reply.kind = "ack_req_int_yes"
    <3>1. pc'[t] = "newLength" /\ r[2].at = "newLength" /\ aborted' = aborted
      BY <1>2, <1>6, <2>2, <2>4 DEF ReceiveVerdict, jvm, life
    <3>2. /\ pc'[t] \in AnswerPoints /\ r[2].at = PointOf(pc'[t]) /\ r[2].at \notin Holding
          /\ pc[t] # "interceptorBytes" /\ pc[t] # "auxBytes" /\ pc[t] # "initializerBytes"
      BY <2>1, <3>1 DEF AnswerPoints, PointOf, Holding
    <3> QED BY <1>0, <1>3, <1>5, <3>1, <3>2, AnswerMoves
  <2> QED BY <2>2, <2>3, <2>4
<1>7. CASE ReceiveNewBytes(t)
  <2>1. pc[t] = "newBytes" /\ pc'[t] = "exit" /\ aborted' = aborted
    BY <1>2, <1>7 DEF ReceiveNewBytes, At, Loads, life
  <2>2. r[2].at = "finished" BY <1>5, <2>1, Scripted
  <2> QED BY <1>0, <1>3, <1>5, <2>1, <2>2, AnswerLeaves
<1> QED BY <1>6, <1>7

\* Every step of a hook keeps ProtocolInv, and kills the JVM only for a dependency without bytes.
LEMMA HookKeepsProtocol ==
  ASSUME TypeInv, MonitorInv, QuietInv, DefineInv, LoadInv, ProtocolInv, ~Overlap, UNCHANGED server,
         NEW t \in Threads, HookStep(t)
  PROVE  ProtocolInv' /\ (aborted' = aborted \/ TriggerLoading(t))
<1>1. CASE \/ EnterHook(t) \/ FoundInCache(t) \/ AskHasClass(t) \/ SendClassData(t) \/ TriggerLoading(t)
           \/ NextDependency(t) \/ RequestInstrument(t) \/ ExitHook(t)
  <2>1. aborted' = aborted \/ TriggerLoading(t)
    BY <1>1 DEF EnterHook, FoundInCache, AskHasClass, SendClassData, NextDependency,
         RequestInstrument, ExitHook, Loads, jvm, life
  <2> QED BY <1>1, <2>1, RequestSteps
<1>2. CASE CheckAck(t) \/ RegisterAck(t) \/ InstrumentAck(t) \/ CheckReply(t) BY <1>2, AckSteps
<1>3. CASE \/ ReceiveAuxMarker(t) \/ ReceiveAuxName(t) \/ ReceiveAuxBytes(t) \/ ReceiveInitMarker(t)
           \/ ReceiveInterceptorName(t) \/ ReceiveInterceptorBytes(t)
           \/ ReceiveInitializerBytes(t) \/ ReceiveUnread(t)
  <2>1. aborted' = aborted
    BY <1>3 DEF ReceiveAuxMarker, ReceiveAuxName, ReceiveAuxBytes, ReceiveInitMarker,
         ReceiveInterceptorName, ReceiveInterceptorBytes, ReceiveInitializerBytes, ReceiveUnread, jvm, life
  <2> QED BY <1>3, <2>1, AnswerSteps
<1>4. CASE DefineInterceptor(t)
  <2>1. aborted' = aborted BY <1>4 DEF DefineInterceptor, jvm, life
  <2> QED BY <1>4, <2>1, DefineKeepsProtocol
<1>5. CASE ReceiveVerdict(t) \/ ReceiveNewBytes(t) BY <1>5, VerdictSteps
<1> QED BY <1>1, <1>2, <1>3, <1>4, <1>5 DEF HookStep

(* Steps of the server *)

\* Where the server is decides what it can do.
LEMMA ServerAt ==
  ASSUME ServerNext
  PROVE  /\ position \notin {"stopped", "failed"}
         /\ position = "request" => ReceiveRequest
         /\ position = "helpers" => SendHelperClass
         /\ position = "registerName" => ReceiveRegisterName
         /\ position = "registerBytes" => ReceiveRegisterBytes
         /\ position = "checkName" => ReceiveCheckName
         /\ position = "instrumentName" => HandleInstrument
         /\ position = "auxiliaries" => SendAuxiliary \/ EndAuxiliaries
         /\ position = "initializers" => SendInitializer \/ FailInitializer \/ EndInitializers
         /\ position \in Receiving => toServer # <<>>
BY DEF ServerNext, ReceiveRequest, SendHelperClass, ReceiveRegisterName, ReceiveRegisterBytes,
       ReceiveCheckName, HandleInstrument, SendAuxiliary, EndAuxiliaries, SendInitializer,
       InitializerStep, FailInitializer, EndInitializers, ServerTakes, Receiving

\* A registration that is under way is finished before the server turns to the next request.
LEMMA LagStep ==
  ASSUME TypeInv, NEW n \in {0, 1}, Lag(n), toAgent = <<>>, ServerNext, UNCHANGED agent
  PROVE  \/ n = 1 /\ ReceiveRequest /\ Len(toServer) = 1
         \/ /\ Lag(n)' /\ toAgent' = <<>> /\ UNCHANGED sendInterceptors
            /\ n = 1 => toServer'[Len(toServer')] = toServer[Len(toServer)]
<1>0. toServer \in Seq(Message) /\ classesCache \subseteq Classes /\ UNCHANGED classesCache
  BY Types DEF agent, tables
<1>1. position \in Receiving BY DEF Lag, Receiving
<1>2. toServer # <<>> BY <1>1, ServerAt
<1>3. /\ Tail(toServer) \in Seq(Message) /\ Len(toServer) \in Nat \ {0}
      /\ Len(Tail(toServer)) = Len(toServer) - 1 /\ Head(toServer) = toServer[1]
      /\ \A i \in 1..Len(Tail(toServer)) : Tail(toServer)[i] = toServer[i + 1]
  BY <1>0, <1>2, Taken
<1>4. CASE position = "request"
  <2>1. ReceiveRequest BY <1>4, ServerAt
  <2>2. Len(toServer) = n BY <1>4 DEF Lag
  <2> QED BY <1>3, <2>1, <2>2
<1>5. CASE position = "registerName"
  <2>1. ReceiveRegisterName BY <1>5, ServerAt
  <2>2. PICK c \in classesCache : toServer[1] = Name(c) BY <1>5 DEF Lag
  <2>3. subject' = c BY <1>0, <1>3, <2>1, <2>2 DEF ReceiveRegisterName, ClassNamed, Name, Request
  <2>4. toServer' = Tail(toServer) /\ UNCHANGED <<toAgent, sendInterceptors>> /\ position' = "registerBytes"
    BY <2>1 DEF ReceiveRegisterName, ServerTakes
  <2>5. Len(toServer) = n + 2 BY <1>5 DEF Lag
  <2>6. Len(toServer') = n + 1 /\ toServer'[n + 1] = toServer[n + 2] BY <1>3, <2>4, <2>5
  <2> QED BY <1>0, <2>3, <2>4, <2>5, <2>6 DEF Lag
<1>6. CASE position = "registerBytes"
  <2>1. ReceiveRegisterBytes BY <1>6, ServerAt
  <2>2. toServer' = Tail(toServer) /\ UNCHANGED <<toAgent, sendInterceptors>> /\ position' = "request"
    BY <2>1 DEF ReceiveRegisterBytes, ServerTakes
  <2>3. Len(toServer) = n + 1 BY <1>6 DEF Lag
  <2>4. Len(toServer') = n /\ (n = 1 => toServer'[n] = toServer[n + 1]) BY <1>3, <2>2, <2>3
  <2> QED BY <2>2, <2>3, <2>4 DEF Lag
<1> QED BY <1>4, <1>5, <1>6 DEF Lag

\* Every actor in the middle of an exchange is in one of its phases.
LEMMA Phases ==
  ASSUME TypeInv, MonitorInv, QuietInv, ~Overlap, ProtocolInv
  PROVE  \/ InExchange = {} /\ Quiet
         \/ \E a \in InExchange :
              /\ InExchange = {a}
              /\ \/ pc[a] \in DOMAIN RequestOf /\ (AwaitAck(RequestOf[pc[a]]) \/ Acked(RequestOf[pc[a]]))
                 \/ pc[a] = "checkReply" /\ a \in Threads /\ CheckPhase(a)
                 \/ pc[a] \in AnswerPoints /\ a \in Threads /\ AnswerPhase(a)
                 \/ pc[a] \in HelperPoints /\ a = VM /\ HelpersPhase
<1>0. pc[VM] \in VMPoints /\ (\A t \in Threads : pc[t] \in HookPoints) /\ Actors = Threads \cup {VM}
  BY Types DEF Actors
<1>1. ASSUME NEW a \in InExchange PROVE InExchange = {a}
  <2>1. CASE a = VM BY <1>1, <2>1, Alone
  <2>2. CASE a # VM
    <3>1. a \in Threads BY <1>0, <1>1, <2>2 DEF InExchange
    <3>2. pc[a] \notin {"idle", "enter", "prepare"} BY <1>1 DEF InExchange, HookReceives, VMReceives
    <3> QED BY <1>1, <3>1, <3>2, Alone
  <2> QED BY <2>1, <2>2
<1>2. ASSUME NEW a \in InExchange
      PROVE \/ pc[a] \in DOMAIN RequestOf
            \/ pc[a] = "checkReply" /\ a \in Threads
            \/ pc[a] \in AnswerPoints /\ a \in Threads
            \/ pc[a] \in HelperPoints /\ a = VM
  <2>1. CASE a = VM
    BY <1>0, <1>2, <2>1 DEF InExchange, VMPoints, VMReceives, HookReceives, RequestOf, HelperPoints
  <2>2. CASE a \in Threads
    BY <1>0, <1>2, <2>2 DEF InExchange, HookPoints, VMReceives, HookReceives, RequestOf,
         AnswerPoints
  <2> QED BY <1>0, <1>2, <2>1, <2>2 DEF InExchange
<1>3. \A a \in InExchange : Exchange(a) BY DEF ProtocolInv
<1>4. InExchange = {} => Quiet BY DEF ProtocolInv
<1> QED BY <1>1, <1>2, <1>3, <1>4 DEF Exchange

\* What has to hold of an exchange after a step of the server.
LEMMA ServerProtocol ==
  ASSUME UNCHANGED agent, NEW a \in InExchange, InExchange = {a}, Exchange(a)',
         Agree' \/ (a \in Threads /\ pc[a] \in AnswerPoints)
  PROVE  ProtocolInv'
<1>1. InExchange' = {a} /\ pc' = pc BY DEF InExchange, agent
<1> QED BY <1>1 DEF ProtocolInv

\* The server reads requests, registers classes and answers the check.
LEMMA ServerAcknowledges ==
  ASSUME TypeInv, MonitorInv, QuietInv, ~Overlap, ProtocolInv, ServerNext, UNCHANGED agent,
         NEW a \in InExchange, InExchange = {a}, Agree,
         \/ pc[a] \in DOMAIN RequestOf /\ (AwaitAck(RequestOf[pc[a]]) \/ Acked(RequestOf[pc[a]]))
         \/ pc[a] = "checkReply" /\ a \in Threads /\ CheckPhase(a)
  PROVE  ProtocolInv'
<1>1. /\ pc' = pc /\ interceptors' = interceptors /\ dep' = dep
      /\ toServer \in Seq(Message) /\ toAgent \in Seq(Message)
  BY Types DEF agent, tables, frame
<1>2. CASE pc[a] \in DOMAIN RequestOf /\ (AwaitAck(RequestOf[pc[a]]) \/ Acked(RequestOf[pc[a]]))
  <2> PICK k : k = RequestOf[pc[a]] OBVIOUS
  <2>1. k \in {"CHECK_HAS_CLASS", "REGISTER_BYTECODE", "INSTRUMENT", "STOP"} BY <1>2 DEF RequestOf
  <2>2. ~Acked(k)
    <3> SUFFICES ASSUME Acked(k) PROVE FALSE
      OBVIOUS
    <3>1. position = Dispatch(k) /\ toServer = <<>> BY DEF Acked
    <3>2. Dispatch(k) \in Receiving \cup {"stopped"} BY <2>1 DEF Dispatch, Receiving
    <3> QED BY <3>1, <3>2, ServerAt
  <2>3. AwaitAck(k) BY <1>2, <2>2
  <2>4. Lag(1) /\ toAgent = <<>> /\ toServer[Len(toServer)] = Text(k) BY <2>3 DEF AwaitAck
  <2>5. ASSUME ReceiveRequest, Len(toServer) = 1
        PROVE  Acked(k)' /\ UNCHANGED sendInterceptors
    <3>1. Request.kind = k /\ toServer # <<>> BY <1>1, <2>4, <2>5 DEF Request, Text
    <3>2. /\ toServer' = Tail(toServer) /\ position' = Dispatch(k) /\ UNCHANGED sendInterceptors
          /\ position' # "helpers" => toAgent' = toAgent \o <<Text("ack_req_msg")>>
      BY <2>5, <3>1 DEF ReceiveRequest, ServerTakes, ServerSends
    <3>3. Dispatch(k) # "helpers" BY <2>1 DEF Dispatch
    <3>4. Len(Tail(toServer)) = 0 /\ Tail(toServer) \in Seq(Message) BY <1>1, <2>5, <3>1, Taken
    <3>5. toServer' = <<>> BY <3>2, <3>4, EmptySeq
    <3>6. \A s : <<>> \o <<s>> = <<s>> OBVIOUS
    <3>7. toAgent' = <<Text("ack_req_msg")>> BY <2>4, <3>2, <3>3, <3>6
    <3>8. Acked(k)' BY <3>2, <3>5, <3>7 DEF Acked
    <3> QED BY <3>2, <3>8
  <2>6. \/ ReceiveRequest /\ Len(toServer) = 1
        \/ /\ Lag(1)' /\ toAgent' = <<>> /\ UNCHANGED sendInterceptors
           /\ toServer'[Len(toServer')] = toServer[Len(toServer)]
    BY <2>4, LagStep
  <2>7. (AwaitAck(k)' \/ Acked(k)') /\ UNCHANGED sendInterceptors
    BY <2>4, <2>5, <2>6 DEF AwaitAck
  <2>8. /\ pc'[a] # "checkReply" /\ pc'[a] \notin AnswerPoints /\ pc'[a] \notin HelperPoints
        /\ RequestOf[pc'[a]] = k
    BY <1>1, <1>2 DEF RequestOf, AnswerPoints, HelperPoints
  <2>9. Exchange(a)' BY <2>7, <2>8 DEF Exchange
  <2> QED BY <1>1, <2>7, <2>9, ServerProtocol DEF Agree
<1>3. CASE pc[a] = "checkReply" /\ a \in Threads /\ CheckPhase(a)
  <2>1. position = "checkName" /\ toServer = <<Name(dep[a])>> /\ toAgent = <<>>
    BY <1>3, ServerAt DEF CheckPhase, Receiving
  <2>2. ReceiveCheckName BY <2>1, ServerAt
  <2>3. dep[a] \in Classes BY <1>3 DEF TypeInv, HookInv
  <2>4. ClassNamed(Request) = dep[a] BY <2>1, <2>3 DEF ClassNamed, Name, Request
  <2>5. \A s : <<>> \o <<s>> = <<s>> OBVIOUS
  <2>6. /\ position' = "request" /\ toServer' = <<>> /\ UNCHANGED sendInterceptors
        /\ toAgent' = <<Text(IF dep[a] \in ServerHas THEN "yes" ELSE "no")>>
        /\ UNCHANGED <<registered, byteCodeCache>>
    BY <2>1, <2>2, <2>4, <2>5 DEF ReceiveCheckName, ServerTakes, ServerSends
  <2>7. CheckPhase(a)' BY <1>1, <2>6 DEF CheckPhase, ServerHas, Cached
  <2>8. Exchange(a)' BY <1>1, <1>3, <2>7 DEF Exchange, RequestOf, AnswerPoints, HelperPoints
  <2> QED BY <1>1, <2>6, <2>8, ServerProtocol DEF Agree
<1> QED BY <1>2, <1>3

(* The helper classes *)

\* The messages of a blob.
LEMMA BlobParts ==
  ASSUME NEW n \in Names \cup {None}
  PROVE  /\ Blob(n) \in Seq(Message) /\ Len(Blob(n)) = 3 /\ Blob(n)[1] = [kind |-> "name", of |-> n]
         /\ Blob(n)[2] = [kind |-> "length", of |-> n] /\ Blob(n)[3] = [kind |-> "bytes", of |-> n]
         /\ Payload(n) \in Seq(Message) /\ Len(Payload(n)) = 2
         /\ Payload(n)[1] = [kind |-> "length", of |-> n]
         /\ Payload(n)[2] = [kind |-> "bytes", of |-> n]
<1>1. Payload(n) = <<[kind |-> "length", of |-> n], [kind |-> "bytes", of |-> n]>> BY DEF Payload
<1>2. Blob(n) \in Seq(Message) /\ Payload(n) \in Seq(Message) /\ Name(n) \in Message
  BY BlobIsMessages
<1>3. /\ Len(Payload(n)) = 2 /\ Payload(n)[1] = [kind |-> "length", of |-> n]
      /\ Payload(n)[2] = [kind |-> "bytes", of |-> n]
  BY <1>1
<1> PICK x : x = <<Name(n)>> OBVIOUS
<1>5. x \in Seq(Message) /\ Len(x) = 1 /\ x[1] = Name(n) BY <1>2
<1> PICK y : y = Payload(n) OBVIOUS
<1>6. Blob(n) = x \o y BY DEF Blob
<1>7. y \in Seq(Message) /\ Len(y) = 2 BY <1>2, <1>3
<1>8. Len(x \o y) = 3 /\ (x \o y)[1] = x[1] /\ (x \o y)[2] = y[1] /\ (x \o y)[3] = y[2]
  <2>1. /\ Len(x \o y) = Len(x) + Len(y)
        /\ \A i \in 1..Len(x) : (x \o y)[i] = x[i]
        /\ \A j \in 1..Len(y) : (x \o y)[Len(x) + j] = y[j]
    BY ONLY <1>5, <1>7, JoinedMessages
  <2> QED BY ONLY <1>5, <1>7, <2>1
<1> QED BY <1>2, <1>3, <1>5, <1>6, <1>8 DEF Name

\* A helper class has a name, a length and bytes, and the callback reads three messages per class.
LEMMA ServerSendsHelpers ==
  ASSUME TypeInv, MonitorInv, QuietInv, ~Overlap, ProtocolInv, ServerNext, UNCHANGED agent,
         NEW a \in InExchange, InExchange = {a}, Agree,
         pc[a] \in HelperPoints, a = VM, HelpersPhase
  PROVE  ProtocolInv'
<1>1. /\ pc' = pc /\ interceptors' = interceptors /\ helpersLeft' = helpersLeft
      /\ toServer \in Seq(Message) /\ toAgent \in Seq(Message)
  BY Types DEF agent, tables, jvm
<1>2. IsFiniteSet(Helpers) /\ Helpers # {} /\ Cardinality(Helpers) \in Nat
  BY ServerAssumption, FS_CardinalityType
<1>3. Remaining' = Remaining BY <1>1 DEF Remaining
<1>4. /\ pc'[a] \notin DOMAIN RequestOf /\ pc'[a] # "checkReply" /\ pc'[a] \notin AnswerPoints
  BY <1>1 DEF RequestOf, AnswerPoints, HelperPoints
<1>5. HelpersPhase' /\ UNCHANGED sendInterceptors => ProtocolInv'
  <2> SUFFICES ASSUME HelpersPhase', UNCHANGED sendInterceptors PROVE ProtocolInv'
    OBVIOUS
  <2>1. Exchange(a)' BY <1>4 DEF Exchange
  <2> QED BY <1>1, <2>1, ServerProtocol DEF Agree
<1>6. CASE pc[VM] = "helpersAck" /\ AwaitAck("HELPER_CLASSES")
  <2>1. Lag(1) /\ toAgent = <<>> /\ toServer[Len(toServer)] = Text("HELPER_CLASSES")
    BY <1>6 DEF AwaitAck
  <2>2. CASE /\ Lag(1)' /\ toAgent' = <<>> /\ UNCHANGED sendInterceptors
             /\ toServer'[Len(toServer')] = toServer[Len(toServer)]
    BY <1>1, <1>5, <1>6, <2>1, <2>2 DEF AwaitAck, HelpersPhase
  <2>3. CASE ReceiveRequest /\ Len(toServer) = 1
    <3>1. Request.kind = "HELPER_CLASSES" /\ toServer # <<>> BY <1>1, <2>1, <2>3 DEF Request, Text
    <3>2. /\ toServer' = Tail(toServer) /\ position' = "helpers" /\ UNCHANGED sendInterceptors
          /\ toAgent' = toAgent \o <<Text("ack_req_msg"), Text("count")>> /\ unsent' = Helpers
      BY <2>3, <3>1 DEF ReceiveRequest, ServerTakes, ServerSends, Dispatch
    <3>3. Len(Tail(toServer)) = 0 /\ Tail(toServer) \in Seq(Message) BY <1>1, <2>3, <3>1, Taken
    <3>4. toServer' = <<>> BY <3>2, <3>3, EmptySeq
    <3>5. \A x, y : <<>> \o <<x, y>> = <<x, y>> OBVIOUS
    <3>6. toAgent' = <<Text("ack_req_msg"), Text("count")>> BY <2>1, <3>2, <3>5
    <3> DEFINE lab(p) == [at |-> p, of |-> None]
               r == <<lab("helpersAck"), lab("helpersCount"), lab("helperName")>>
    <3>7. r \in Seq(Label)
      <4>1. lab("helpersAck") \in Label /\ lab("helpersCount") \in Label /\ lab("helperName") \in Label
        BY DEF Label, HelperPoints
      <4> QED BY <4>1
    <3>8. Len(r) = 3 /\ r[1].at = "helpersAck" /\ r[2].at = "helpersCount" /\ r[3].at = "helperName"
      OBVIOUS
    <3> HIDE DEF r
    <3>9. Len(toAgent') = 2 /\ toAgent'[1].kind = "ack_req_msg" /\ toAgent'[2].kind = "count"
      BY <3>6 DEF Text
    <3>10. Follows(r[1], toAgent'[1], r[2]) /\ Follows(r[2], toAgent'[2], r[3])
      BY <3>8, <3>9 DEF Follows, Script
    <3>11. Walk(r, toAgent)'
      <4>1. \A i \in 1..Len(toAgent') : i = 1 \/ i = 2 BY <3>9
      <4>2. \A i \in 1..Len(toAgent') : Follows(r[i], toAgent'[i], r[i + 1]) BY <3>10, <4>1
      <4> QED BY <3>7, <3>8, <3>9, <4>2 DEF Walk, Labellings
    <3>12. Path(r, VM)' BY <1>1, <1>6, <3>8, <3>11 DEF Path, PointOf, Holding
    <3>13. Remaining' = 3 * Cardinality(Helpers) + 2 BY <1>1, <1>6 DEF Remaining
    <3>14. Len(toAgent') + 3 * Cardinality(unsent') = Remaining' BY <1>2, <3>2, <3>9, <3>13
    <3>15. position' = (IF unsent' = {} THEN "request" ELSE "helpers") BY <1>2, <3>2
    <3>16. r \in Labellings /\ r[Len(r)].at = "helperName" BY <3>7, <3>8 DEF Labellings
    <3>17. HelpersPhase'
      BY <3>2, <3>4, <3>12, <3>14, <3>15, <3>16 DEF HelpersPhase, Labellings
    <3> QED BY <1>5, <3>2, <3>17
  <2> QED BY <2>1, <2>2, <2>3, LagStep
<1>7. CASE /\ toServer = <<>> /\ unsent \subseteq Helpers
           /\ position = IF unsent = {} THEN "request" ELSE "helpers"
           /\ Len(toAgent) + 3 * Cardinality(unsent) = Remaining
           /\ \E r \in Labellings : Path(r, VM) /\ r[Len(r)].at = "helperName"
  <2>1. position = "helpers" BY <1>7, ServerAt DEF Receiving
  <2>2. SendHelperClass BY <2>1, ServerAt
  <2> PICK h \in unsent : /\ toAgent' = toAgent \o Blob(h) /\ unsent' = unsent \ {h}
                          /\ position' = IF unsent' = {} THEN "request" ELSE "helpers"
    BY <2>2 DEF SendHelperClass, ServerSends
  <2>3. UNCHANGED <<toServer, sendInterceptors>> BY <2>2 DEF SendHelperClass
  <2> PICK r \in Labellings : Path(r, VM) /\ r[Len(r)].at = "helperName" BY <1>7
  <2>4. h \in Helpers /\ h \in Names /\ IsFiniteSet(unsent)
    BY <1>2, <1>7, FS_Subset DEF Names
  <2>5. Cardinality(unsent') = Cardinality(unsent) - 1 /\ Cardinality(unsent) \in Nat
    BY <2>4, FS_RemoveElement, FS_CardinalityType
  <2> DEFINE lab(p) == [at |-> p, of |-> h]
             s == <<lab("helperLength"), lab("helperBytes"), lab("helperName")>>
  <2>6. s \in Labellings
    <3>1. lab("helperLength") \in Label /\ lab("helperBytes") \in Label /\ lab("helperName") \in Label
      BY <2>4 DEF Label, HelperPoints
    <3> QED BY <3>1 DEF Labellings
  <2>7. Len(s) = 3 /\ s[1].at = "helperLength" /\ s[2].at = "helperBytes" /\ s[3].at = "helperName"
    OBVIOUS
  <2> HIDE DEF s
  <2> PICK msgs : msgs = Blob(h) OBVIOUS
  <2>8. /\ msgs \in Seq(Message) /\ Len(msgs) = 3 /\ msgs[1].kind = "name" /\ msgs[2].kind = "length"
        /\ msgs[3].kind = "bytes"
    <3>1. /\ Blob(h) \in Seq(Message) /\ Len(Blob(h)) = 3 /\ Blob(h)[1] = [kind |-> "name", of |-> h]
          /\ Blob(h)[2] = [kind |-> "length", of |-> h] /\ Blob(h)[3] = [kind |-> "bytes", of |-> h]
      BY <2>4, BlobParts
    <3> QED BY <3>1
  <2>9. /\ Follows(r[Len(r)], msgs[1], s[1])
        /\ Follows(s[1], msgs[2], s[2]) /\ Follows(s[2], msgs[3], s[3])
    BY <2>7, <2>8 DEF Follows, Script, HelperPoints
  <2>10. \A j \in 1..Len(s) - 1 : Follows(s[j], msgs[j + 1], s[j + 1])
    <3>1. \A j \in 1..Len(s) - 1 : j = 1 \/ j = 2 BY <2>7
    <3> QED BY <2>9, <3>1
  <2>11. Walk(r, toAgent) BY DEF Path
  <2>12. /\ Walk(r \o s, toAgent \o msgs) /\ Len(toAgent \o msgs) = Len(toAgent) + 3
         /\ Len(r \o s) = Len(toAgent) + 4 /\ (r \o s)[1] = r[1]
         /\ (r \o s)[Len(toAgent) + 4] = s[3] /\ Len(toAgent) \in Nat
    <3>1. /\ Walk(r \o s, toAgent \o msgs) /\ Len(toAgent \o msgs) = Len(toAgent) + Len(msgs)
          /\ Len(r) = Len(toAgent) + 1 /\ Len(r \o s) = Len(r) + Len(s)
          /\ \A i \in 1..Len(r) : (r \o s)[i] = r[i]
          /\ \A j \in 1..Len(s) : (r \o s)[Len(r) + j] = s[j]
      <4>1. Chain(r[Len(r)], s, msgs) BY <2>6, <2>7, <2>8, <2>9, <2>10 DEF Chain
      <4>2. /\ toAgent \in Seq(Message) /\ Walk(r, toAgent) BY <1>1, <2>11
      <4> QED BY ONLY <4>1, <4>2, WalkOn
    <3>2. Len(toAgent) \in Nat BY <1>1
    <3>3. 1 \in 1..Len(r) /\ 3 \in 1..Len(s) BY <2>7, <3>1, <3>2
    <3> QED BY <2>7, <2>8, <3>1, <3>2, <3>3
  <2> PICK r2 : r2 = r \o s OBVIOUS
  <2>13. /\ r2 \in Labellings /\ Walk(r2, toAgent)' /\ Len(r2) = Len(toAgent) + 4
         /\ r2[Len(r2)].at = "helperName" /\ r2[1] = r[1]
    BY <2>7, <2>12 DEF Walk
  <2>14. got'[VM] = got[VM] BY DEF agent
  <2>15. Path(r2, VM)' BY <1>1, <2>13, <2>14 DEF Path
  <2>16. Len(toAgent') + 3 * Cardinality(unsent') = Remaining'
    <3>1. Len(toAgent') = Len(toAgent) + 3 /\ Len(toAgent) \in Nat BY <2>12
    <3> DEFINE n == Cardinality(unsent)
               k == Len(toAgent)
    <3>2. n \in Nat /\ k \in Nat /\ Len(toAgent') = k + 3 /\ Cardinality(unsent') = n - 1
          /\ k + 3 * n = Remaining /\ Remaining' = Remaining
      BY <1>3, <1>7, <2>5, <3>1
    <3> HIDE DEF n, k
    <3> QED BY ONLY <3>2
  <2>17. HelpersPhase' BY <1>7, <2>3, <2>13, <2>15, <2>16 DEF HelpersPhase, Labellings
  <2> QED BY <1>5, <2>3, <2>17
<1> QED BY <1>6, <1>7 DEF HelpersPhase

(* The answer to INSTRUMENT, sent piece by piece *)

\* A piece belongs to the part of the answer that is being sent, or to the next part.
Sides(r, s) ==
  \/ r[Len(r)].at \in AuxSide /\ \A k \in 1..Len(s) : s[k].at \in AuxSide
  \/ r[Len(r)].at \in Early /\ \A k \in 1..Len(s) : s[k].at \in InitSide
  \/ \A k \in 1..Len(s) : s[k].at \notin Early

\* A piece sent after the rest keeps the order of the answer.
LEMMA OrderedOn ==
  ASSUME NEW r \in Labellings, NEW s \in Labellings, NEW r2, Ordered(r),
         Len(r) # 0, Len(r2) = Len(r) + Len(s),
         \A i \in 1..Len(r) : r2[i] = r[i],
         \A k \in 1..Len(s) : r2[Len(r) + k] = s[k],
         Sides(r, s)
  PROVE  Ordered(r2)
<1>0. Len(r) \in Nat \ {0} /\ Len(s) \in Nat BY DEF Labellings
<1>1. AuxSide \cap InitSide = {} /\ AuxSide \subseteq Early /\ InitSide \subseteq Early
  BY DEF AuxSide, InitSide, Early
<1>2. \A i \in 1..Len(r2) : i \in 1..Len(r) \/ \E k \in 1..Len(s) : i = Len(r) + k
  <2> TAKE i \in 1..Len(r2)
  <2> PICK k : k = i - Len(r) OBVIOUS
  <2>1. i > Len(r) => k \in 1..Len(s) /\ i = Len(r) + k BY <1>0
  <2>2. i \in 1..Len(r) \/ i > Len(r) BY <1>0
  <2> QED BY <2>1, <2>2
<1>3. \A i \in 1..Len(r) : /\ r[Len(r)].at \in AuxSide => r[i].at \in AuxSide
                           /\ r[Len(r)].at \in Early => r[i].at \in Early
  <2> TAKE i \in 1..Len(r)
  <2>1. Len(r) \in 1..Len(r) /\ (i = Len(r) \/ i < Len(r)) BY <1>0
  <2> QED BY <2>1 DEF Ordered
<1> SUFFICES ASSUME NEW i \in 1..Len(r2), NEW j \in 1..Len(r2), i < j
             PROVE  /\ r2[j].at \in AuxSide => r2[i].at \in AuxSide
                    /\ r2[j].at \in Early => r2[i].at \in Early
  BY DEF Ordered
<1>4. CASE j \in 1..Len(r)
  <2>1. i \in 1..Len(r) BY <1>0, <1>4
  <2> QED BY <1>4, <2>1 DEF Ordered
<1>5. CASE j \notin 1..Len(r)
  <2>1. PICK k \in 1..Len(s) : j = Len(r) + k BY <1>2, <1>5
  <2>2. r2[j] = s[k] BY <2>1
  <2>3. CASE i \in 1..Len(r) BY <1>1, <1>3, <2>2, <2>3 DEF Sides
  <2>4. CASE \E m \in 1..Len(s) : i = Len(r) + m
    <3> PICK m \in 1..Len(s) : i = Len(r) + m BY <2>4
    <3>1. r2[i] = s[m] OBVIOUS
    <3> QED BY <1>1, <2>2, <3>1 DEF Sides
  <2> QED BY <1>2, <2>3, <2>4
<1> QED BY <1>4, <1>5

\* The server sends messages to thread t, and they are labelled from where the others ended.
Sends(t, r, s, msgs, r2) ==
  /\ Path(r, t) /\ toAgent \in Seq(Message) /\ Chain(r[Len(r)], s, msgs)
  /\ toAgent' = toAgent \o msgs /\ UNCHANGED <<pc, got>> /\ r2 = r \o s

\* Where the labels of an answer are found after a piece was sent.
Extended(t, r, s, r2) ==
  /\ r2 \in Labellings /\ Path(r2, t)' /\ r2[Len(r2)] = s[Len(s)]
  /\ r \in Labellings /\ s \in Labellings /\ Len(r) # 0 /\ Len(r2) = Len(r) + Len(s)
  /\ \A i \in 1..Len(r) : r2[i] = r[i]
  /\ \A k \in 1..Len(s) : r2[Len(r) + k] = s[k]
  /\ \A i \in 1..Len(toAgent) : i \in 1..Len(toAgent') /\ r2[i] = r[i] /\ r2[i + 1] = r[i + 1]
  /\ Len(r) \in 1..Len(toAgent') /\ r2[Len(r)] = r[Len(r)]
  /\ \A k \in 1..Len(s) - 1 : /\ Len(r) + k \in 1..Len(toAgent')
                              /\ r2[Len(r) + k] = s[k] /\ r2[(Len(r) + k) + 1] = s[k + 1]
  /\ \A i \in 1..Len(toAgent') :
       \/ i \in 1..Len(toAgent) \/ i = Len(r) \/ \E k \in 1..Len(s) - 1 : i = Len(r) + k
  /\ Len(r) \in Nat /\ Len(s) \in Nat \ {0} /\ Len(r) = Len(toAgent) + 1

\* The labels that were there are still in their places.
LEMMA AnswerOn ==
  ASSUME NEW t, NEW r, NEW s, NEW msgs, NEW r2, Sends(t, r, s, msgs, r2)
  PROVE  Extended(t, r, s, r2)
<1> USE DEF Sends
<1>1. Walk(r, toAgent) /\ r[1].at = PointOf(pc[t]) /\ (r[1].at \in Holding => r[1].of = got[t])
  BY DEF Path
<1>2. /\ Walk(r \o s, toAgent \o msgs)
      /\ Len(toAgent \o msgs) = Len(toAgent) + Len(msgs)
      /\ Len(r) = Len(toAgent) + 1 /\ Len(r \o s) = Len(r) + Len(s)
      /\ \A i \in 1..Len(r) : (r \o s)[i] = r[i]
      /\ \A j \in 1..Len(s) : (r \o s)[Len(r) + j] = s[j]
  <2>1. toAgent \in Seq(Message) /\ Walk(r, toAgent) /\ Chain(r[Len(r)], s, msgs) BY <1>1
  <2> QED BY ONLY <2>1, WalkOn
<1>3. Len(s) = Len(msgs) /\ Len(s) \in Nat \ {0} /\ s \in Labellings BY DEF Chain, Labellings
<1>4. Len(toAgent) \in Nat /\ Len(r) \in Nat \ {0} BY <1>2
<1>5. r \in Labellings /\ r2 \in Labellings /\ Walk(r2, toAgent)' BY <1>1, <1>2 DEF Walk
<1>6. /\ Len(r2) = Len(r) + Len(s) /\ Len(toAgent') = Len(toAgent) + Len(s)
      /\ \A i \in 1..Len(r) : r2[i] = r[i]
      /\ \A j \in 1..Len(s) : r2[Len(r) + j] = s[j]
  BY <1>2, <1>3
<1>7. /\ 1 \in 1..Len(r) /\ Len(s) \in 1..Len(s) /\ Len(r) \in 1..Len(r)
      /\ \A i \in 1..Len(toAgent) : i \in 1..Len(r) /\ i + 1 \in 1..Len(r) /\ i \in 1..Len(toAgent')
      /\ \A k \in 1..Len(s) - 1 :
           /\ k \in 1..Len(s) /\ k + 1 \in 1..Len(s) /\ (Len(r) + k) + 1 = Len(r) + (k + 1)
           /\ Len(r) + k \in 1..Len(toAgent')
      /\ Len(r) \in 1..Len(toAgent')
  BY <1>2, <1>3, <1>4, <1>6
<1>8. Path(r2, t)' BY <1>1, <1>5, <1>6, <1>7 DEF Path
<1>9. ASSUME NEW i \in 1..Len(toAgent')
      PROVE \/ i \in 1..Len(toAgent) \/ i = Len(r) \/ \E k \in 1..Len(s) - 1 : i = Len(r) + k
  <2> PICK k : k = i - Len(r) OBVIOUS
  <2>1. i > Len(r) => k \in 1..Len(s) - 1 /\ i = Len(r) + k
    BY <1>2, <1>3, <1>4, <1>6
  <2>2. i \in 1..Len(toAgent) \/ i = Len(r) \/ i > Len(r) BY <1>2, <1>4
  <2> QED BY <2>1, <2>2
<1>10. r2[Len(r2)] = s[Len(s)] BY <1>6, <1>7
<1>11. \A k \in 1..Len(s) - 1 : r2[Len(r) + k] = s[k] /\ r2[(Len(r) + k) + 1] = s[k + 1]
  BY <1>6, <1>7
<1> QED BY <1>2, <1>3, <1>4, <1>5, <1>6, <1>7, <1>8, <1>9, <1>10, <1>11 DEF Extended

\* What the labels s of a piece about x may be, when the server records what it sends.
Piece(t, s, x) ==
  /\ \A k \in 1..Len(s) - 1 :
       /\ s[k].at \in ChunkPoints =>
            s[k].of = x /\ x \in InterceptorsOf[class[t]] \cap unsent /\ position = "initializers"
       /\ s[k].at \in {"newLength", "newBytes"} => s[k].of = class[t]
       /\ s[k].at = "interceptorName" =>
            k = 1 /\ (s[2].at = "initializerName" <=> x \in sendInterceptors)
       /\ s[k].at = "interceptorBytes" => x \in sendInterceptors'
  /\ sendInterceptors \subseteq sendInterceptors'
  /\ \A y \in sendInterceptors' \ sendInterceptors :
       y = x /\ \E k \in 1..Len(s) - 1 : s[k].at = "interceptorBytes"
  /\ position' = "initializers" =>
       \/ position = "auxiliaries" /\ \A k \in 1..Len(s) - 1 : s[k].at \notin ChunkPoints
       \/ unsent' = unsent \ {x}
  /\ position' \in {"auxiliaries", "initializers"} => subject' = subject

\* The answer stays well-formed with the next piece.
LEMMA AnswerGrows ==
  ASSUME NEW t \in Threads, class[t] \in Classes, UNCHANGED <<agent, toServer>>,
         NEW r, Answer(r, t),
         position \in {"auxiliaries", "initializers"}, NEW s, NEW msgs, NEW r2,
         Sends(t, r, s, msgs, r2), Sides(r, s), NEW x, Piece(t, s, x)
  PROVE  /\ r2 \in Labellings /\ toServer' = <<>> /\ Path(r2, t)' /\ Ordered(r2)
         /\ Content(r2, class[t])' /\ Distinct(r2)' /\ Known(r2)'
         /\ r2[Len(r2)] = s[Len(s)]
         /\ \A p, y : Coming(r, p, y) => Coming(r2, p, y)'
         /\ \A k \in 1..Len(s) - 1 : Coming(r2, s[k].at, s[k].of)'
<1> PICK c : c = class[t] OBVIOUS
<1>0. /\ toServer = <<>> /\ Path(r, t) /\ Ordered(r) /\ Content(r, c) /\ Distinct(r) /\ Known(r)
      /\ Ended(r, c) /\ c \in Classes
  BY DEF Answer, Failed
<1>1. UNCHANGED <<pc, got, class, interceptors>> BY DEF agent, frame, tables
<1>2. /\ r2 \in Labellings /\ Path(r2, t)' /\ r2[Len(r2)] = s[Len(s)]
      /\ r \in Labellings /\ s \in Labellings /\ Len(r) # 0 /\ Len(r2) = Len(r) + Len(s)
      /\ \A i \in 1..Len(r) : r2[i] = r[i]
      /\ \A k \in 1..Len(s) : r2[Len(r) + k] = s[k]
      /\ \A i \in 1..Len(toAgent) : i \in 1..Len(toAgent') /\ r2[i] = r[i] /\ r2[i + 1] = r[i + 1]
      /\ Len(r) \in 1..Len(toAgent') /\ r2[Len(r)] = r[Len(r)]
      /\ \A k \in 1..Len(s) - 1 : /\ Len(r) + k \in 1..Len(toAgent')
                                  /\ r2[Len(r) + k] = s[k] /\ r2[(Len(r) + k) + 1] = s[k + 1]
      /\ \A i \in 1..Len(toAgent') :
           \/ i \in 1..Len(toAgent) \/ i = Len(r) \/ \E k \in 1..Len(s) - 1 : i = Len(r) + k
      /\ Len(r) \in Nat /\ Len(s) \in Nat \ {0} /\ Len(r) = Len(toAgent) + 1
  BY AnswerOn DEF Extended
<1>3. Ordered(r2)
  <2>1. Sides(r, s) /\ Ordered(r) BY <1>0
  <2> QED BY ONLY <1>2, <2>1, OrderedOn
<1>4. /\ position = "auxiliaries" => r[Len(r)].at = "aux"
      /\ position = "initializers" => r[Len(r)].at = "init"
      /\ r[Len(r)].at \notin ChunkPoints /\ r[Len(r)].at \notin {"newLength", "newBytes"}
      /\ subject = c /\ Verdict[c] = "match"
  BY <1>0 DEF Ended, ChunkPoints, InitSide, Content
<1>5. Content(r2, c)'
  <2>1. position' \in {"auxiliaries", "initializers"} => subject' = c /\ Verdict[c] = "match"
    BY <1>4 DEF Piece
  <2>2. ASSUME NEW i \in 1..Len(toAgent')
        PROVE  /\ r2[i].at \in ChunkPoints => r2[i].of \in InterceptorsOf[c]
               /\ r2[i].at \in {"newLength", "newBytes"} => r2[i].of = c /\ Verdict[c] = "match"
    <3>1. CASE i \in 1..Len(toAgent) BY <1>0, <1>2, <3>1 DEF Content
    <3>2. CASE i = Len(r) BY <1>2, <1>4, <3>2
    <3>3. CASE \E k \in 1..Len(s) - 1 : i = Len(r) + k
      <4> PICK k \in 1..Len(s) - 1 : i = Len(r) + k BY <3>3
      <4>1. r2[i] = s[k] BY <1>2
      <4> QED BY <1>4, <4>1 DEF Piece
    <3> QED BY <1>2, <3>1, <3>2, <3>3
  <2> QED BY <2>1, <2>2 DEF Content
<1>6. Distinct(r2)'
  <2>1. ASSUME NEW i \in 1..Len(toAgent'), NEW j \in 1..Len(toAgent'), i < j,
               r2[i].at \in ChunkPoints, r2[j].at = "interceptorName"
        PROVE  r2[i].of # r2[j].of
    <3>0. "interceptorName" \in ChunkPoints BY DEF ChunkPoints, InitSide
    <3>1. CASE j \in 1..Len(toAgent)
      <4>1. i \in 1..Len(toAgent) BY <1>2, <2>1, <3>1
      <4> QED BY <1>0, <1>2, <2>1, <3>1, <4>1 DEF Distinct
    <3>2. CASE j = Len(r) BY <1>2, <1>4, <2>1, <3>0, <3>2
    <3>3. CASE \E k \in 1..Len(s) - 1 : j = Len(r) + k
      <4> PICK k \in 1..Len(s) - 1 : j = Len(r) + k BY <3>3
      <4>1. r2[j] = s[k] BY <1>2
      <4>2. k = 1 /\ s[k].of = x /\ x \in unsent /\ position = "initializers"
        BY <2>1, <3>0, <4>1 DEF Piece
      <4>3. i \in 1..Len(toAgent) \/ i = Len(r) BY <1>2, <2>1, <4>2
      <4>4. i # Len(r) BY <1>2, <1>4, <2>1
      <4>5. r[i].of \notin unsent BY <1>0, <1>2, <2>1, <4>2, <4>3, <4>4 DEF Distinct
      <4> QED BY <1>2, <4>1, <4>2, <4>3, <4>4, <4>5
    <3> QED BY <1>2, <3>1, <3>2, <3>3
  <2>2. ASSUME position' = "initializers", NEW i \in 1..Len(toAgent'), r2[i].at \in ChunkPoints
        PROVE  r2[i].of \notin unsent'
    <3>1. CASE i \in 1..Len(toAgent)
      <4>1. r2[i] = r[i] /\ Len(r) \in 1..Len(r) /\ i \in 1..Len(r) /\ i < Len(r)
        BY <1>2, <3>1
      <4>2. CASE position = "auxiliaries"
        <5>1. r[i].at \in AuxSide BY <1>0, <1>4, <4>1, <4>2 DEF Ordered, AuxSide
        <5> QED BY <2>2, <4>1, <5>1 DEF AuxSide, ChunkPoints, InitSide
      <4>3. CASE position = "initializers"
        <5>1. r[i].of \notin unsent BY <1>0, <2>2, <3>1, <4>1, <4>3 DEF Distinct
        <5>2. unsent' \subseteq unsent BY <2>2, <4>3 DEF Piece
        <5> QED BY <4>1, <5>1, <5>2
      <4> QED BY <4>2, <4>3
    <3>2. CASE i = Len(r) BY <1>2, <1>4, <2>2, <3>2
    <3>3. CASE \E k \in 1..Len(s) - 1 : i = Len(r) + k
      <4> PICK k \in 1..Len(s) - 1 : i = Len(r) + k BY <3>3
      <4>1. r2[i] = s[k] BY <1>2
      <4> QED BY <2>2, <4>1 DEF Piece
    <3> QED BY <1>2, <3>1, <3>2, <3>3
  <2> QED BY <2>1, <2>2 DEF Distinct
<1>7. \A p, y : Coming(r, p, y) => Coming(r2, p, y)' BY <1>2 DEF Coming
<1>8. \A k \in 1..Len(s) - 1 : Coming(r2, s[k].at, s[k].of)' BY <1>2 DEF Coming
<1>9. Known(r2)'
  <2>1. x \in sendInterceptors /\ x \in unsent /\ position = "initializers" => x \in interceptors
    <3> SUFFICES ASSUME x \in sendInterceptors, x \in unsent, position = "initializers",
                        x \notin interceptors
                 PROVE FALSE
      OBVIOUS
    <3>1. PICK i \in 1..Len(toAgent) : r[i].at = "interceptorBytes" /\ r[i].of = x
      BY <1>0 DEF Known
    <3>2. "interceptorBytes" \in ChunkPoints BY DEF ChunkPoints, InitSide
    <3> QED BY <1>0, <3>1, <3>2 DEF Distinct
  <2>2. interceptors \subseteq sendInterceptors BY <1>0 DEF Known
  <2>3. ASSUME NEW i \in 1..Len(toAgent')
        PROVE  /\ r2[i].at = "interceptorName" =>
                    (r2[i + 1].at = "initializerName" <=> r2[i].of \in interceptors)
               /\ r2[i].at = "interceptorBytes" => r2[i].of \in sendInterceptors'
    <3>1. CASE i \in 1..Len(toAgent)
      <4>1. r2[i] = r[i] /\ r2[i + 1] = r[i + 1] BY <1>2, <3>1
      <4>2. sendInterceptors \subseteq sendInterceptors' BY DEF Piece
      <4> QED BY <1>0, <3>1, <4>1, <4>2 DEF Known
    <3>2. CASE i = Len(r)
      BY <1>2, <1>4, <3>2 DEF ChunkPoints, InitSide
    <3>3. CASE \E k \in 1..Len(s) - 1 : i = Len(r) + k
      <4> PICK k \in 1..Len(s) - 1 : i = Len(r) + k BY <3>3
      <4>1. r2[i] = s[k] /\ r2[i + 1] = s[k + 1] BY <1>2
      <4>2. s[k].at \in {"interceptorName", "interceptorBytes"} =>
              s[k].of = x /\ x \in unsent /\ position = "initializers"
        BY DEF Piece, ChunkPoints, InitSide
      <4>3. s[k].at = "interceptorName" => (s[k + 1].at = "initializerName" <=> x \in sendInterceptors)
        BY DEF Piece
      <4>4. s[k].at = "interceptorBytes" => x \in sendInterceptors' BY DEF Piece
      <4> QED BY <2>1, <2>2, <4>1, <4>2, <4>3, <4>4
    <3> QED BY <1>2, <3>1, <3>2, <3>3
  <2>4. ASSUME NEW y \in sendInterceptors' \ interceptors
        PROVE  \E i \in 1..Len(toAgent') : r2[i].at = "interceptorBytes" /\ r2[i].of = y
    <3>1. CASE y \in sendInterceptors
      <4>1. Coming(r, "interceptorBytes", y) BY <1>0, <2>4, <3>1 DEF Known, Coming
      <4>2. Coming(r2, "interceptorBytes", y)' BY <1>7, <4>1
      <4> QED BY <4>2 DEF Coming
    <3>2. CASE y \notin sendInterceptors
      <4>1. PICK k \in 1..Len(s) - 1 : y = x /\ s[k].at = "interceptorBytes"
        BY <2>4, <3>2 DEF Piece
      <4>2. s[k].of = x BY <4>1 DEF Piece, ChunkPoints, InitSide
      <4>3. Coming(r2, "interceptorBytes", y)' BY <1>8, <4>1, <4>2
      <4> QED BY <4>3 DEF Coming
    <3> QED BY <3>1, <3>2
  <2>5. interceptors \subseteq sendInterceptors' BY <2>2 DEF Piece
  <2> QED BY <1>1, <2>3, <2>4, <2>5 DEF Known
<1> QED BY <1>0, <1>1, <1>2, <1>3, <1>5, <1>6, <1>7, <1>8, <1>9

\* The label for receiving at point p what x is about.
Lab(p, x) == [at |-> p, of |-> x]
\* The points of an answer to INSTRUMENT.
Points == AuxSide \cup InitSide \cup LateSide

\* It is a label.
LEMMA Labels ==
  ASSUME NEW p \in Points, NEW x \in Names \cup {None}
  PROVE  Lab(p, x) \in Label /\ Lab(p, x).at = p /\ Lab(p, x).of = x
BY DEF Lab, Points, Label

\* One message follows another when the script says so and the name stays the same.
LEMMA FollowsLab ==
  ASSUME NEW p, NEW m, NEW q, NEW x, <<p.at, m.kind, q>> \in Script,
         m.kind \in {"name", "length", "bytes"} => m.of = x /\ p.of = x
  PROVE  Follows(p, m, Lab(q, x))
BY DEF Follows, Lab

\* An auxiliary class.
LEMMA AuxChain ==
  ASSUME NEW x \in Names, NEW e, e.at = "aux", NEW msgs, msgs = <<Text("auxiliary_types")>> \o Blob(x),
         NEW s, s = <<Lab("auxName", x), Lab("auxLength", x), Lab("auxBytes", x), Lab("aux", x)>>
  PROVE  Chain(e, s, msgs)
<1>1. \A p \in {"auxName", "auxLength", "auxBytes", "aux"} :
        Lab(p, x) \in Label /\ Lab(p, x).at = p /\ Lab(p, x).of = x
  BY Labels DEF Points, AuxSide
<1>2. s \in Seq(Label) /\ Len(s) = 4 BY <1>1
<1>3. /\ s[1] = Lab("auxName", x) /\ s[2] = Lab("auxLength", x)
      /\ s[3] = Lab("auxBytes", x) /\ s[4] = Lab("aux", x)
  OBVIOUS
<1>4. Text("auxiliary_types") \in Message BY TextIsMessage DEF Texts
<1> PICK a : a = <<Text("auxiliary_types")>> OBVIOUS
<1>5. a \in Seq(Message) /\ Len(a) = 1 /\ a[1].kind = "auxiliary_types" BY <1>4 DEF Text
<1> PICK b : b = Blob(x) OBVIOUS
<1>6. /\ b \in Seq(Message) /\ Len(b) = 3 /\ b[1] = [kind |-> "name", of |-> x]
      /\ b[2] = [kind |-> "length", of |-> x] /\ b[3] = [kind |-> "bytes", of |-> x]
  BY BlobParts
<1>7. /\ msgs \in Seq(Message) /\ Len(msgs) = 4 /\ msgs[1] = a[1]
      /\ msgs[2] = b[1] /\ msgs[3] = b[2] /\ msgs[4] = b[3]
  <2>1. /\ a \o b \in Seq(Message) /\ Len(a \o b) = Len(a) + Len(b)
        /\ \A i \in 1..Len(a) : (a \o b)[i] = a[i]
        /\ \A j \in 1..Len(b) : (a \o b)[Len(a) + j] = b[j]
    BY ONLY <1>5, <1>6, JoinedMessages
  <2>2. msgs = a \o b OBVIOUS
  <2> QED BY ONLY <1>5, <1>6, <2>1, <2>2
<1>8. Follows(e, msgs[1], s[1]) BY <1>3, <1>5, <1>7, FollowsLab DEF Script
<1>9. /\ Follows(s[1], msgs[2], s[2]) /\ Follows(s[2], msgs[3], s[3]) /\ Follows(s[3], msgs[4], s[4])
  <2>1. /\ <<"auxName", "name", "auxLength">> \in Script
        /\ <<"auxLength", "length", "auxBytes">> \in Script
        /\ <<"auxBytes", "bytes", "aux">> \in Script
    BY DEF Script
  <2>2. Follows(s[1], msgs[2], Lab("auxLength", x))
    BY ONLY <1>1, <1>3, <1>6, <1>7, <2>1, FollowsLab
  <2>3. Follows(s[2], msgs[3], Lab("auxBytes", x))
    BY ONLY <1>1, <1>3, <1>6, <1>7, <2>1, FollowsLab
  <2>4. Follows(s[3], msgs[4], Lab("aux", x))
    BY ONLY <1>1, <1>3, <1>6, <1>7, <2>1, FollowsLab
  <2> QED BY ONLY <1>3, <2>2, <2>3, <2>4
<1>10. \A j \in 1..Len(s) - 1 : Follows(s[j], msgs[j + 1], s[j + 1])
  <2> TAKE j \in 1..Len(s) - 1
  <2>1. j = 1 \/ j = 2 \/ j = 3 BY <1>2
  <2>2. CASE j = 1 BY ONLY <1>9, <2>2
  <2>3. CASE j = 2 BY ONLY <1>9, <2>3
  <2>4. CASE j = 3 BY ONLY <1>9, <2>4
  <2> QED BY <2>1, <2>2, <2>3, <2>4
<1> QED BY <1>2, <1>7, <1>8, <1>10 DEF Chain, Labellings

\* The marker and the name of an interceptor.
LEMMA NameChain ==
  ASSUME NEW x \in Names, NEW e, e.at = "init", NEW msgs, msgs = <<Text("initializers"), Name(x)>>,
         NEW p \in {"interceptorLength", "initializerName"},
         NEW s, s = <<Lab("interceptorName", x), Lab(p, x)>>
  PROVE  Chain(e, s, msgs)
<1>1. \A q \in {"interceptorName", p} : Lab(q, x) \in Label /\ Lab(q, x).at = q /\ Lab(q, x).of = x
  BY Labels DEF Points, InitSide
<1>2. s \in Seq(Label) /\ Len(s) = 2 BY <1>1
<1>3. Text("initializers") \in Message /\ Name(x) \in Message
  BY TextIsMessage, BlobIsMessages DEF Texts
<1>4. msgs \in Seq(Message) /\ Len(msgs) = 2 /\ msgs[1].kind = "initializers" /\ msgs[2] = Name(x)
  BY <1>3 DEF Text
<1>5. s[1] = Lab("interceptorName", x) /\ s[2] = Lab(p, x) OBVIOUS
<1>6. Follows(e, msgs[1], s[1]) BY <1>4, <1>5, FollowsLab DEF Script
<1>7. Follows(s[1], msgs[2], s[2])
  <2>1. msgs[2].kind = "name" /\ msgs[2].of = x BY <1>4 DEF Name
  <2> QED BY <1>1, <1>5, <2>1, FollowsLab DEF Script
<1>8. \A j \in 1..Len(s) - 1 : j = 1 BY <1>2
<1> QED BY <1>2, <1>4, <1>6, <1>7, <1>8 DEF Chain, Labellings

\* Its bytecode.
LEMMA PayloadChain ==
  ASSUME NEW x \in Names, NEW e, NEW p, NEW q, NEW z \in Points, p \in Points, q \in Points,
         e = Lab(p, x), <<p, "length", q>> \in Script, <<q, "bytes", z>> \in Script,
         NEW msgs, msgs = Payload(x), NEW s, s = <<Lab(q, x), Lab(z, x)>>
  PROVE  Chain(e, s, msgs)
<1>1. \A o \in {p, q, z} : Lab(o, x) \in Label /\ Lab(o, x).at = o /\ Lab(o, x).of = x BY Labels
<1>2. s \in Seq(Label) /\ Len(s) = 2 BY <1>1
<1>3. s[1] = Lab(q, x) /\ s[2] = Lab(z, x) OBVIOUS
<1>4. /\ msgs \in Seq(Message) /\ Len(msgs) = 2 /\ msgs[1] = [kind |-> "length", of |-> x]
      /\ msgs[2] = [kind |-> "bytes", of |-> x]
  BY BlobParts
<1>5. Follows(e, msgs[1], s[1]) BY <1>1, <1>3, <1>4, FollowsLab
<1>6. Follows(s[1], msgs[2], s[2]) BY <1>1, <1>3, <1>4, FollowsLab
<1>7. \A j \in 1..Len(s) - 1 : j = 1 BY <1>2
<1> QED BY <1>2, <1>4, <1>5, <1>6, <1>7 DEF Chain, Labellings

\* The initializer itself.
LEMMA BlobChain ==
  ASSUME NEW x \in Names, NEW e, e = Lab("initializerName", x), NEW msgs, msgs = Blob(x),
         NEW s, s = <<Lab("initializerLength", x), Lab("initializerBytes", x), Lab("init", x)>>
  PROVE  Chain(e, s, msgs)
<1>1. \A p \in {"initializerName", "initializerLength", "initializerBytes", "init"} :
        Lab(p, x) \in Label /\ Lab(p, x).at = p /\ Lab(p, x).of = x
  BY Labels DEF Points, InitSide
<1>2. s \in Seq(Label) /\ Len(s) = 3 BY <1>1
<1>3. s[1] = Lab("initializerLength", x) /\ s[2] = Lab("initializerBytes", x) /\ s[3] = Lab("init", x)
  OBVIOUS
<1>4. /\ msgs \in Seq(Message) /\ Len(msgs) = 3 /\ msgs[1] = [kind |-> "name", of |-> x]
      /\ msgs[2] = [kind |-> "length", of |-> x] /\ msgs[3] = [kind |-> "bytes", of |-> x]
  BY BlobParts
<1>5. /\ Follows(e, msgs[1], s[1]) /\ Follows(s[1], msgs[2], s[2]) /\ Follows(s[2], msgs[3], s[3])
  BY <1>1, <1>3, <1>4, FollowsLab DEF Script
<1>6. \A j \in 1..Len(s) - 1 : Follows(s[j], msgs[j + 1], s[j + 1])
  <2>1. \A j \in 1..Len(s) - 1 : j = 1 \/ j = 2 BY <1>2
  <2> QED BY <1>5, <2>1
<1> QED BY <1>2, <1>4, <1>5, <1>6 DEF Chain, Labellings

\* One piece after another is a piece.
LEMMA ChainOn ==
  ASSUME NEW e, NEW s1, NEW m1, NEW s2, NEW m2, Chain(e, s1, m1), Chain(s1[Len(s1)], s2, m2)
  PROVE  Chain(e, s1 \o s2, m1 \o m2)
<1>0. /\ s1 \in Seq(Label) /\ m1 \in Seq(Message) /\ Len(s1) = Len(m1) /\ Len(s1) \in Nat \ {0}
      /\ s2 \in Seq(Label) /\ m2 \in Seq(Message) /\ Len(s2) = Len(m2) /\ Len(s2) \in Nat \ {0}
  BY DEF Chain, Labellings
<1>1. /\ s1 \o s2 \in Seq(Label) /\ Len(s1 \o s2) = Len(s1) + Len(s2)
      /\ \A i \in 1..Len(s1) : (s1 \o s2)[i] = s1[i]
      /\ \A j \in 1..Len(s2) : (s1 \o s2)[Len(s1) + j] = s2[j]
  BY ONLY <1>0, JoinedLabels
<1>2. /\ m1 \o m2 \in Seq(Message) /\ Len(m1 \o m2) = Len(s1) + Len(s2)
      /\ \A i \in 1..Len(s1) : (m1 \o m2)[i] = m1[i]
      /\ \A j \in 1..Len(s2) : (m1 \o m2)[Len(s1) + j] = m2[j]
  BY ONLY <1>0, JoinedMessages
<1> PICK s : s = s1 \o s2 OBVIOUS
<1> PICK m : m = m1 \o m2 OBVIOUS
<1>3. 1 \in 1..Len(s1) /\ 1 \in 1..Len(s2) /\ Len(s1) \in 1..Len(s1) BY <1>0
<1>4. Follows(e, m[1], s[1]) BY <1>1, <1>2, <1>3 DEF Chain
<1>5. ASSUME NEW j \in 1..Len(s) - 1 PROVE Follows(s[j], m[j + 1], s[j + 1])
  <2>0. j \in Nat /\ j < Len(s1) + Len(s2) /\ 1 <= j BY <1>0, <1>1
  <2>1. CASE j < Len(s1)
    <3>1. j \in 1..Len(s1) - 1 /\ j \in 1..Len(s1) /\ j + 1 \in 1..Len(s1) BY <1>0, <2>0, <2>1
    <3>2. s[j] = s1[j] /\ s[j + 1] = s1[j + 1] /\ m[j + 1] = m1[j + 1] BY <1>1, <1>2, <3>1
    <3> QED BY <3>1, <3>2 DEF Chain
  <2>2. CASE j = Len(s1)
    <3>1. s[j] = s1[Len(s1)] /\ s[j + 1] = s2[1] /\ m[j + 1] = m2[1] BY <1>1, <1>2, <1>3, <2>2
    <3> QED BY <3>1 DEF Chain
  <2>3. CASE j > Len(s1)
    <3> PICK k : k = j - Len(s1) OBVIOUS
    <3>1. /\ k \in 1..Len(s2) - 1 /\ k \in 1..Len(s2) /\ k + 1 \in 1..Len(s2)
          /\ j = Len(s1) + k /\ j + 1 = Len(s1) + (k + 1)
      BY <1>0, <2>0, <2>3
    <3>2. s[j] = s2[k] /\ s[j + 1] = s2[k + 1] /\ m[j + 1] = m2[k + 1]
      BY <1>1, <1>2, <3>1
    <3> QED BY <3>1, <3>2 DEF Chain
  <2> QED BY <1>0, <2>0, <2>1, <2>2, <2>3
<1>6. Len(s) = Len(m) /\ Len(m) # 0 BY <1>0, <1>1, <1>2
<1> QED BY <1>1, <1>2, <1>4, <1>5, <1>6 DEF Chain, Labellings

\* What an interceptor with its bytecode is read as.
CodeLabels(s, x) ==
  /\ Len(s) = 7
  /\ s[1] = Lab("interceptorName", x) /\ s[2] = Lab("interceptorLength", x)
  /\ s[3] = Lab("interceptorBytes", x) /\ s[4] = Lab("initializerName", x)
  /\ s[5] = Lab("initializerLength", x) /\ s[6] = Lab("initializerBytes", x)
  /\ s[7] = Lab("init", x)

\* An interceptor the server sends for the first time, with its initializer.
LEMMA CodeChain ==
  ASSUME NEW x \in Names, NEW e, e.at = "init", NEW msgs,
         msgs = (<<Text("initializers"), Name(x)>> \o Payload(x)) \o Blob(x)
  PROVE  \E s : Chain(e, s, msgs) /\ CodeLabels(s, x)
<1> PICK s1 : s1 = <<Lab("interceptorName", x), Lab("interceptorLength", x)>> OBVIOUS
<1> PICK s2 : s2 = <<Lab("interceptorBytes", x), Lab("initializerName", x)>> OBVIOUS
<1> PICK s3 : s3 = <<Lab("initializerLength", x), Lab("initializerBytes", x), Lab("init", x)>> OBVIOUS
<1> PICK m1 : m1 = <<Text("initializers"), Name(x)>> OBVIOUS
<1> PICK m2 : m2 = Payload(x) OBVIOUS
<1> PICK m3 : m3 = Blob(x) OBVIOUS
<1>1. /\ Len(s1) = 2 /\ s1[1] = Lab("interceptorName", x) /\ s1[2] = Lab("interceptorLength", x)
      /\ Len(s2) = 2 /\ s2[1] = Lab("interceptorBytes", x) /\ s2[2] = Lab("initializerName", x)
      /\ Len(s3) = 3 /\ s3[1] = Lab("initializerLength", x) /\ s3[2] = Lab("initializerBytes", x)
      /\ s3[3] = Lab("init", x)
  OBVIOUS
<1>2. Chain(e, s1, m1) BY NameChain
<1>3. Chain(s1[Len(s1)], s2, m2)
  <2>1. /\ "initializerName" \in Points /\ "interceptorLength" \in Points /\ "interceptorBytes" \in Points
        /\ <<"interceptorLength", "length", "interceptorBytes">> \in Script
        /\ <<"interceptorBytes", "bytes", "initializerName">> \in Script
    BY DEF Points, InitSide, Script
  <2>2. s1[Len(s1)] = Lab("interceptorLength", x) BY <1>1
  <2> QED BY <2>1, <2>2, PayloadChain
<1>4. Chain(s1[Len(s1)], s2, m2) /\ Chain(s2[Len(s2)], s3, m3)
  <2>1. s2[Len(s2)] = Lab("initializerName", x) BY <1>1
  <2> QED BY <1>3, <2>1, BlobChain
<1>5. /\ s1 \in Seq(Label) /\ s2 \in Seq(Label) /\ s3 \in Seq(Label)
  BY <1>2, <1>4 DEF Chain, Labellings
<1> PICK s4 : s4 = s1 \o s2 OBVIOUS
<1>6. /\ s4 \in Seq(Label) /\ Len(s4) = 4 /\ s4[1] = s1[1] /\ s4[2] = s1[2] /\ s4[3] = s2[1] /\ s4[4] = s2[2]
  <2>1. /\ s4 \in Seq(Label) /\ Len(s4) = Len(s1) + Len(s2)
        /\ \A i \in 1..Len(s1) : s4[i] = s1[i]
        /\ \A j \in 1..Len(s2) : s4[Len(s1) + j] = s2[j]
    BY <1>5, JoinedLabels
  <2> QED BY ONLY <1>1, <2>1
<1> PICK s : s = s4 \o s3 OBVIOUS
<1>7. /\ Len(s) = 7 /\ s[1] = s4[1] /\ s[2] = s4[2] /\ s[3] = s4[3] /\ s[4] = s4[4]
      /\ s[5] = s3[1] /\ s[6] = s3[2] /\ s[7] = s3[3]
  <2>1. /\ Len(s) = Len(s4) + Len(s3)
        /\ \A i \in 1..Len(s4) : s[i] = s4[i]
        /\ \A j \in 1..Len(s3) : s[Len(s4) + j] = s3[j]
    BY <1>5, <1>6, JoinedLabels
  <2> QED BY ONLY <1>1, <1>6, <2>1
<1>8. Chain(e, s4, m1 \o m2) BY <1>2, <1>3, ChainOn
<1>9. s4[Len(s4)] = s2[Len(s2)] BY <1>1, <1>6
<1>10. Chain(e, s, msgs)
  <2>1. msgs = (m1 \o m2) \o m3 OBVIOUS
  <2> QED BY <1>4, <1>8, <1>9, <2>1, ChainOn
<1>11. CodeLabels(s, x) BY <1>1, <1>6, <1>7 DEF CodeLabels
<1> QED BY <1>10, <1>11

\* What an interceptor without its bytecode is read as.
KnownLabels(s, x) ==
  /\ Len(s) = 5
  /\ s[1] = Lab("interceptorName", x) /\ s[2] = Lab("initializerName", x)
  /\ s[3] = Lab("initializerLength", x) /\ s[4] = Lab("initializerBytes", x)
  /\ s[5] = Lab("init", x)

\* An interceptor it has sent before, with its initializer.
LEMMA KnownChain ==
  ASSUME NEW x \in Names, NEW e, e.at = "init", NEW msgs,
         msgs = <<Text("initializers"), Name(x)>> \o Blob(x)
  PROVE  \E s : Chain(e, s, msgs) /\ KnownLabels(s, x)
<1> PICK s1 : s1 = <<Lab("interceptorName", x), Lab("initializerName", x)>> OBVIOUS
<1> PICK s3 : s3 = <<Lab("initializerLength", x), Lab("initializerBytes", x), Lab("init", x)>> OBVIOUS
<1> PICK m1 : m1 = <<Text("initializers"), Name(x)>> OBVIOUS
<1> PICK m3 : m3 = Blob(x) OBVIOUS
<1>1. /\ Len(s1) = 2 /\ s1[1] = Lab("interceptorName", x) /\ s1[2] = Lab("initializerName", x)
      /\ Len(s3) = 3 /\ s3[1] = Lab("initializerLength", x) /\ s3[2] = Lab("initializerBytes", x)
      /\ s3[3] = Lab("init", x)
  OBVIOUS
<1>2. Chain(e, s1, m1) BY NameChain
<1>3. Chain(s1[Len(s1)], s3, m3)
  <2>1. s1[Len(s1)] = Lab("initializerName", x) BY <1>1
  <2> QED BY <2>1, BlobChain
<1>4. s1 \in Seq(Label) /\ s3 \in Seq(Label) BY <1>2, <1>3 DEF Chain, Labellings
<1> PICK s : s = s1 \o s3 OBVIOUS
<1>5. /\ Len(s) = 5 /\ s[1] = s1[1] /\ s[2] = s1[2] /\ s[3] = s3[1] /\ s[4] = s3[2] /\ s[5] = s3[3]
  <2>1. /\ Len(s) = Len(s1) + Len(s3)
        /\ \A i \in 1..Len(s1) : s[i] = s1[i]
        /\ \A j \in 1..Len(s3) : s[Len(s1) + j] = s3[j]
    BY <1>4, JoinedLabels
  <2> QED BY ONLY <1>1, <2>1
<1>6. Chain(e, s, msgs) BY <1>2, <1>3, ChainOn
<1>7. KnownLabels(s, x) BY <1>1, <1>5 DEF KnownLabels
<1> QED BY <1>6, <1>7

\* The end of the initializers, the verdict and the new bytecode.
LEMMA EndChain ==
  ASSUME NEW x \in Names, NEW e, e.at = "init", NEW msgs,
         msgs = <<Text("no_more_initializers"), Text("ack_req_int_yes")>> \o Payload(x)
  PROVE  \E s : /\ Chain(e, s, msgs) /\ Len(s) = 4
                /\ s[1] = Lab("verdict", None) /\ s[2] = Lab("newLength", x)
                /\ s[3] = Lab("newBytes", x) /\ s[4] = Lab("finished", x)
<1> PICK s1 : s1 = <<Lab("verdict", None), Lab("newLength", x)>> OBVIOUS
<1> PICK s2 : s2 = <<Lab("newBytes", x), Lab("finished", x)>> OBVIOUS
<1> PICK m1 : m1 = <<Text("no_more_initializers"), Text("ack_req_int_yes")>> OBVIOUS
<1> PICK m2 : m2 = Payload(x) OBVIOUS
<1>1. /\ Len(s1) = 2 /\ s1[1] = Lab("verdict", None) /\ s1[2] = Lab("newLength", x)
      /\ Len(s2) = 2 /\ s2[1] = Lab("newBytes", x) /\ s2[2] = Lab("finished", x)
  OBVIOUS
<1>2. \A p \in {"verdict", "newLength", "newBytes", "finished"} : p \in Points
  BY DEF Points, LateSide
<1>3. s1 \in Seq(Label)
  <2>1. Lab("verdict", None) \in Label /\ Lab("newLength", x) \in Label BY <1>2, Labels
  <2> QED BY <2>1
<1>4. Chain(e, s1, m1)
  <2>1. Text("no_more_initializers") \in Message /\ Text("ack_req_int_yes") \in Message
    BY TextIsMessage DEF Texts
  <2>2. /\ m1 \in Seq(Message) /\ Len(m1) = 2 /\ m1[1].kind = "no_more_initializers"
        /\ m1[2].kind = "ack_req_int_yes"
    BY <2>1 DEF Text
  <2>3. Follows(e, m1[1], s1[1]) BY <1>1, <2>2, FollowsLab DEF Script
  <2>4. Follows(s1[1], m1[2], s1[2])
    <3>1. s1[1].at = "verdict" BY <1>1 DEF Lab
    <3> QED BY <1>1, <2>2, <3>1, FollowsLab DEF Script
  <2>5. \A j \in 1..Len(s1) - 1 : j = 1 BY <1>1
  <2> QED BY <1>1, <1>3, <2>2, <2>3, <2>4, <2>5 DEF Chain, Labellings
<1>5. Chain(s1[Len(s1)], s2, m2)
  <2>1. /\ <<"newLength", "length", "newBytes">> \in Script
        /\ <<"newBytes", "bytes", "finished">> \in Script
    BY DEF Script
  <2>2. s1[Len(s1)] = Lab("newLength", x) BY <1>1
  <2> QED BY <1>2, <2>1, <2>2, PayloadChain
<1>6. s2 \in Seq(Label) BY <1>5 DEF Chain, Labellings
<1> PICK s : s = s1 \o s2 OBVIOUS
<1>7. /\ Len(s) = 4 /\ s[1] = s1[1] /\ s[2] = s1[2] /\ s[3] = s2[1] /\ s[4] = s2[2]
  <2>1. /\ Len(s) = Len(s1) + Len(s2)
        /\ \A i \in 1..Len(s1) : s[i] = s1[i]
        /\ \A j \in 1..Len(s2) : s[Len(s1) + j] = s2[j]
    BY <1>3, <1>6, JoinedLabels
  <2> QED BY ONLY <1>1, <2>1
<1>8. Chain(e, s, msgs) BY <1>4, <1>5, ChainOn
<1> QED BY <1>1, <1>7, <1>8

\* The end of the auxiliary classes.
LEMMA MarkerChain ==
  ASSUME NEW e, e.at = "aux", NEW msgs, msgs = <<Text("no_more_aux_classes")>>,
         NEW s, s = <<Lab("init", None)>>
  PROVE  Chain(e, s, msgs) /\ Len(s) = 1 /\ s[1] = Lab("init", None)
<1>1. "init" \in Points BY DEF Points, InitSide
<1>2. s \in Seq(Label) /\ Len(s) = 1 /\ s[1] = Lab("init", None)
  <2>1. Lab("init", None) \in Label BY <1>1, Labels
  <2> QED BY <2>1
<1>3. msgs \in Seq(Message) /\ Len(msgs) = 1 /\ msgs[1].kind = "no_more_aux_classes"
  <2>1. Text("no_more_aux_classes") \in Message BY TextIsMessage DEF Texts
  <2> QED BY <2>1 DEF Text
<1>4. Follows(e, msgs[1], s[1]) BY <1>2, <1>3, FollowsLab DEF Script
<1>5. \A j \in 1..Len(s) - 1 : FALSE BY <1>2
<1> QED BY <1>2, <1>3, <1>4, <1>5 DEF Chain, Labellings

\* What a piece adds to what is coming, ...
Carries(r, s, r2) ==
  /\ r2[Len(r2)] = s[Len(s)]
  /\ \A p, y : Coming(r, p, y) => Coming(r2, p, y)'
  /\ \A k \in 1..Len(s) - 1 : Coming(r2, s[k].at, s[k].of)'
\* ... and what the hook is owed after it.
Fulfils(c, t, r, s) ==
  \A r2 \in Labellings : Carries(r, s, r2) =>
    (Ended(r2, c)' /\ Supplied(r2, t)') \/ Failed(r2, c)'

\* The server adds a piece to the answer it streams.
Streams(c, t, r, s, msgs, x) ==
  /\ t \in Threads /\ c = class[t] /\ c \in Classes
  /\ UNCHANGED <<agent, toServer>> /\ toAgent \in Seq(Message)
  /\ Answer(r, t) /\ position \in {"auxiliaries", "initializers"}
  /\ Chain(r[Len(r)], s, msgs) /\ toAgent' = toAgent \o msgs
  /\ Sides(r, s) /\ Piece(t, s, x) /\ Fulfils(c, t, r, s)

\* The hook is still reading its answer after the piece.
LEMMA StreamGoesOn ==
  ASSUME NEW c, NEW t, NEW r, NEW s, NEW msgs, NEW x, Streams(c, t, r, s, msgs, x)
  PROVE  AnswerPhase(t)'
<1> PICK r2 : r2 = r \o s OBVIOUS
<1>0. /\ t \in Threads /\ class[t] = c /\ class[t] \in Classes
      /\ UNCHANGED <<agent, toServer>> /\ Answer(r, t)
      /\ position \in {"auxiliaries", "initializers"} /\ Sides(r, s) /\ Piece(t, s, x)
      /\ Fulfils(c, t, r, s)
  BY DEF Streams
<1>1. class'[t] = c /\ UNCHANGED <<pc, got>> BY <1>0 DEF agent, frame
<1>2. Sends(t, r, s, msgs, r2) BY <1>1 DEF Sends, Answer, Streams
<1>3. /\ r2 \in Labellings /\ toServer' = <<>> /\ Path(r2, t)' /\ Ordered(r2)
      /\ Content(r2, class[t])' /\ Distinct(r2)' /\ Known(r2)'
      /\ Carries(r, s, r2)
  <2>1. /\ r2 \in Labellings /\ toServer' = <<>> /\ Path(r2, t)' /\ Ordered(r2)
        /\ Content(r2, class[t])' /\ Distinct(r2)' /\ Known(r2)'
        /\ r2[Len(r2)] = s[Len(s)]
        /\ \A p, y : Coming(r, p, y) => Coming(r2, p, y)'
        /\ \A k \in 1..Len(s) - 1 : Coming(r2, s[k].at, s[k].of)'
    BY ONLY <1>0, <1>2, AnswerGrows
  <2> QED BY <2>1 DEF Carries
<1>4. (Ended(r2, c)' /\ Supplied(r2, t)') \/ Failed(r2, c)'
  BY <1>0, <1>3 DEF Fulfils
<1>5. Answer(r2, t)' BY <1>0, <1>1, <1>3, <1>4 DEF Answer
<1> QED BY <1>3, <1>5 DEF AnswerPhase, Labellings

\* While the server streams the answer for a class, each message it sends goes on with it.
LEMMA StreamSteps ==
  ASSUME TypeInv, UNCHANGED agent, NEW t \in Threads, class[t] \in Classes,
         NEW r, Answer(r, t),
         \/ SendAuxiliary \/ EndAuxiliaries \/ SendInitializer \/ FailInitializer \/ EndInitializers
  PROVE  AnswerPhase(t)'
<1> PICK c : c = class[t] OBVIOUS
<1> PICK e : e = r[Len(r)] OBVIOUS
<1>0. /\ UNCHANGED toServer
      /\ \/ position = "auxiliaries" /\ (SendAuxiliary \/ EndAuxiliaries)
         \/ position = "initializers" /\ (SendInitializer \/ FailInitializer \/ EndInitializers)
  BY DEF SendAuxiliary, EndAuxiliaries, SendInitializer, InitializerStep, FailInitializer,
       EndInitializers
<1>1. position \in {"auxiliaries", "initializers"}
  BY DEF SendAuxiliary, EndAuxiliaries, SendInitializer, InitializerStep, FailInitializer,
       EndInitializers
<1>2. /\ position = "auxiliaries" => e.at = "aux" /\ unsent \subseteq AuxiliariesOf[c]
      /\ position = "initializers" => e.at = "init" /\ unsent \subseteq InterceptorsOf[c]
      /\ subject = c /\ Verdict[c] = "match" /\ Supplied(r, t) /\ c \in Classes
  BY <1>1 DEF Answer, Ended, Failed, Content
<1>6. toAgent \in Seq(Message) BY Types
<1>3. /\ class'[t] = c /\ loader'[t] = loader[t]
      /\ UNCHANGED <<ignoredClasses, loadedInterceptorsPerCl, initializers>>
  BY DEF agent, frame, tables
<1>4. AuxiliariesOf[c] \subseteq Names /\ InterceptorsOf[c] \subseteq Names
  BY <1>2, ServerAssumption DEF Names
<1>5. /\ \A x \in AuxiliariesOf[c] :
           \/ position = "auxiliaries" /\ x \in unsent
           \/ Coming(r, "auxBytes", x) \/ x \in ignoredClasses
      /\ \A x \in InterceptorsOf[c] :
           \/ position = "auxiliaries"
           \/ position = "initializers" /\ x \in unsent
           \/ Coming(r, "initializerBytes", x)
           \/ x \in loadedInterceptorsPerCl[loader[t]] \cap ignoredClasses /\ x \in initializers[c]
  BY <1>2 DEF Supplied
<1> DEFINE Owed(r2) == Ended(r2, c)' /\ Supplied(r2, t)'
<1>a. ASSUME SendAuxiliary PROVE AnswerPhase(t)'
  <2>0. position = "auxiliaries" /\ UNCHANGED <<position, subject, sendInterceptors>>
    BY <1>a DEF SendAuxiliary
  <2> PICK x \in unsent : /\ toAgent' = toAgent \o (<<Text("auxiliary_types")>> \o Blob(x))
                         /\ unsent' = unsent \ {x}
    BY <1>a DEF SendAuxiliary, ServerSends
  <2> PICK msgs : msgs = <<Text("auxiliary_types")>> \o Blob(x) OBVIOUS
  <2> PICK s : s = <<Lab("auxName", x), Lab("auxLength", x), Lab("auxBytes", x), Lab("aux", x)>> OBVIOUS
  <2>1. x \in Names BY <1>2, <1>4, <2>0
  <2>2. Chain(e, s, msgs) BY <1>2, <2>0, <2>1, AuxChain
  <2>3. /\ Len(s) = 4 /\ s[1].at = "auxName" /\ s[2].at = "auxLength" /\ s[3].at = "auxBytes"
        /\ s[3].of = x /\ s[4].at = "aux"
    BY DEF Lab
  <2>4. \A k \in 1..Len(s) : k \in {1, 2, 3, 4} BY <2>3
  <2>5. \A k \in 1..Len(s) - 1 : k \in {1, 2, 3} BY <2>3
  <2>6. \A k \in 1..Len(s) : s[k].at \in AuxSide BY <2>3, <2>4 DEF AuxSide
  <2>7. \A k \in 1..Len(s) - 1 : s[k].at \in AuxSide BY <2>3, <2>5 DEF AuxSide
  <2>8. Sides(r, s) BY <1>2, <2>0, <2>6 DEF Sides, AuxSide
  <2>9. Piece(t, s, x) BY <2>0, <2>7 DEF Piece, AuxSide, ChunkPoints, InitSide
  <2>10. ASSUME NEW r2 \in Labellings, Carries(r, s, r2)
         PROVE  Owed(r2)
    <3>1. r2[Len(r2)].at = "aux" BY <2>3, <2>10 DEF Carries
    <3>2. unsent' \subseteq AuxiliariesOf[c] BY <1>2, <2>0
    <3>3. Ended(r2, c)' BY <2>0, <3>1, <3>2 DEF Ended
    <3>4. Coming(r2, "auxBytes", x)'
      <4>1. 3 \in 1..Len(s) - 1 BY <2>3
      <4> QED BY <2>3, <2>10, <4>1 DEF Carries
    <3>5. \A y \in AuxiliariesOf[c] :
            (position' = "auxiliaries" /\ y \in unsent') \/ Coming(r2, "auxBytes", y)' \/ y \in ignoredClasses'
      BY <1>3, <1>5, <2>0, <2>10, <3>4 DEF Carries
    <3> QED BY <1>3, <2>0, <3>3, <3>5 DEF Supplied
  <2>11. Fulfils(c, t, r, s) BY <2>10 DEF Fulfils
  <2>12. Streams(c, t, r, s, msgs, x) BY <1>0, <1>1, <1>2, <2>2, <2>8, <2>9, <1>6, <2>11 DEF Streams
  <2> QED BY <2>12, StreamGoesOn
<1>b. ASSUME EndAuxiliaries PROVE AnswerPhase(t)'
  <2>0. /\ position = "auxiliaries" /\ position' = "initializers" /\ UNCHANGED <<subject, sendInterceptors>>
        /\ unsent = {} /\ unsent' = InterceptorsOf[c] /\ toAgent' = toAgent \o <<Text("no_more_aux_classes")>>
    BY <1>2, <1>b DEF EndAuxiliaries, ServerSends
  <2> PICK msgs : msgs = <<Text("no_more_aux_classes")>> OBVIOUS
  <2> PICK s : s = <<Lab("init", None)>> OBVIOUS
  <2>2. Chain(e, s, msgs) /\ Len(s) = 1 /\ s[1] = Lab("init", None) BY <1>2, <2>0, MarkerChain
  <2>3. s[1].at = "init" BY <2>2 DEF Lab
  <2>4. \A k \in 1..Len(s) : k = 1 BY <2>2
  <2>5. \A k \in 1..Len(s) - 1 : FALSE BY <2>2
  <2>6. e.at \in Early /\ \A k \in 1..Len(s) : s[k].at \in InitSide
    BY <1>2, <2>0, <2>3, <2>4 DEF InitSide, Early, AuxSide
  <2>8. Sides(r, s) BY <2>6 DEF Sides
  <2>9. Piece(t, s, None) BY <2>0, <2>5 DEF Piece
  <2>10. ASSUME NEW r2 \in Labellings, Carries(r, s, r2)
         PROVE  Owed(r2)
    <3>1. r2[Len(r2)].at = "init" BY <2>2, <2>3, <2>10 DEF Carries
    <3>3. Ended(r2, c)' BY <2>0, <3>1 DEF Ended
    <3>5. \A y \in AuxiliariesOf[c] : Coming(r2, "auxBytes", y)' \/ y \in ignoredClasses'
      BY <1>3, <1>5, <2>0, <2>10 DEF Carries
    <3> QED BY <1>3, <2>0, <3>3, <3>5 DEF Supplied
  <2>11. Fulfils(c, t, r, s) BY <2>10 DEF Fulfils
  <2>12. Streams(c, t, r, s, msgs, None)
    BY <1>0, <1>1, <1>2, <2>0, <2>2, <2>8, <2>9, <1>6, <2>11 DEF Streams
  <2> QED BY <2>12, StreamGoesOn
<1>c. ASSUME SendInitializer PROVE AnswerPhase(t)'
  <2> PICK x \in unsent : InitializerStep(x, x \notin sendInterceptors, {x})
    BY <1>c DEF SendInitializer
  <2>0. /\ position = "initializers" /\ UNCHANGED <<position, subject>>
        /\ sendInterceptors' = sendInterceptors \cup {x} /\ unsent' = unsent \ {x}
        /\ toAgent' = toAgent \o (<<Text("initializers"), Name(x)>>
                        \o (IF x \notin sendInterceptors THEN Payload(x) ELSE <<>>) \o Blob(x))
    BY DEF InitializerStep, ServerSends
  <2>1. x \in Names /\ x \in InterceptorsOf[c] BY <1>2, <1>4, <2>0
  <2>2. \E s, msgs : /\ Chain(e, s, msgs) /\ toAgent' = toAgent \o msgs
                     /\ Sides(r, s) /\ Piece(t, s, x) /\ s[Len(s)].at = "init"
                     /\ \E k \in 1..Len(s) - 1 : s[k].at = "initializerBytes" /\ s[k].of = x
    <3>1. CASE x \notin sendInterceptors
      <4> PICK msgs : msgs = (<<Text("initializers"), Name(x)>> \o Payload(x)) \o Blob(x) OBVIOUS
      <4>1. toAgent' = toAgent \o msgs BY <2>0, <3>1
      <4>2. PICK s : Chain(e, s, msgs) /\ CodeLabels(s, x)
        <5>1. e.at = "init" /\ x \in Names BY <1>2, <2>0, <2>1
        <5>2. msgs = (<<Text("initializers"), Name(x)>> \o Payload(x)) \o Blob(x) OBVIOUS
        <5> QED BY ONLY <5>1, <5>2, CodeChain
      <4> USE DEF CodeLabels
      <4>3. \A k \in 1..Len(s) : k \in {1, 2, 3, 4, 5, 6, 7} BY <4>2
      <4>4. /\ s[1].at = "interceptorName" /\ s[2].at = "interceptorLength"
            /\ s[3].at = "interceptorBytes" /\ s[4].at = "initializerName"
            /\ s[5].at = "initializerLength" /\ s[6].at = "initializerBytes" /\ s[7].at = "init"
            /\ \A k \in 1..Len(s) : s[k].of = x
        BY <4>2, <4>3 DEF Lab
      <4>5. \A k \in 1..Len(s) - 1 : k \in 1..Len(s) BY <4>2
      <4>6. \A k \in 1..Len(s) : s[k].at \in InitSide BY <4>3, <4>4 DEF InitSide
      <4>7. Sides(r, s) BY <1>2, <2>0, <4>6 DEF Sides, Early, InitSide
      <4>8. Piece(t, s, x)
        <5>1. \A k \in 1..Len(s) - 1 :
                /\ s[k].of = x /\ s[k].at \in InitSide /\ (s[k].at = "interceptorName" => k = 1)
                /\ s[k].at \notin {"newLength", "newBytes"}
          BY <4>3, <4>4, <4>5, <4>6 DEF InitSide
        <5>2. 3 \in 1..Len(s) - 1 BY <4>2
        <5>3. \A y \in sendInterceptors' \ sendInterceptors :
                y = x /\ \E k \in 1..Len(s) - 1 : s[k].at = "interceptorBytes"
          BY <2>0, <4>4, <5>2
        <5>4. x \in InterceptorsOf[class[t]] BY <2>1
        <5> QED BY <2>0, <3>1, <4>4, <5>1, <5>3, <5>4 DEF Piece
      <4>9. 6 \in 1..Len(s) - 1 /\ s[Len(s)].at = "init" BY <4>2, <4>4
      <4> QED BY <4>1, <4>2, <4>4, <4>5, <4>7, <4>8, <4>9
    <3>2. CASE x \in sendInterceptors
      <4> PICK msgs : msgs = <<Text("initializers"), Name(x)>> \o Blob(x) OBVIOUS
      <4>1. toAgent' = toAgent \o msgs
        <5>1. \A a, b : <<a, b>> \o <<>> = <<a, b>> OBVIOUS
        <5> QED BY <2>0, <3>2, <5>1
      <4>2. PICK s : Chain(e, s, msgs) /\ KnownLabels(s, x)
        <5>1. e.at = "init" /\ x \in Names BY <1>2, <2>0, <2>1
        <5>2. msgs = <<Text("initializers"), Name(x)>> \o Blob(x) OBVIOUS
        <5> QED BY ONLY <5>1, <5>2, KnownChain
      <4> USE DEF KnownLabels
      <4>3. \A k \in 1..Len(s) : k \in {1, 2, 3, 4, 5} BY <4>2
      <4>4. /\ s[1].at = "interceptorName" /\ s[2].at = "initializerName"
            /\ s[3].at = "initializerLength" /\ s[4].at = "initializerBytes" /\ s[5].at = "init"
            /\ \A k \in 1..Len(s) : s[k].of = x
        BY <4>2, <4>3 DEF Lab
      <4>5. \A k \in 1..Len(s) - 1 : k \in 1..Len(s) BY <4>2
      <4>6. \A k \in 1..Len(s) : s[k].at \in InitSide BY <4>3, <4>4 DEF InitSide
      <4>7. Sides(r, s) BY <1>2, <2>0, <4>6 DEF Sides, Early, InitSide
      <4>8. Piece(t, s, x)
        <5>1. \A k \in 1..Len(s) - 1 :
                /\ s[k].of = x /\ s[k].at \in InitSide /\ (s[k].at = "interceptorName" => k = 1)
                /\ s[k].at \notin {"newLength", "newBytes"}
          BY <4>3, <4>4, <4>5, <4>6 DEF InitSide
        <5>2. sendInterceptors' = sendInterceptors BY <2>0, <3>2
        <5>4. x \in InterceptorsOf[class[t]] BY <2>1
        <5> QED BY <2>0, <3>2, <4>4, <5>1, <5>2, <5>4 DEF Piece
      <4>9. 4 \in 1..Len(s) - 1 /\ s[Len(s)].at = "init" BY <4>2, <4>4
      <4> QED BY <4>1, <4>2, <4>4, <4>5, <4>7, <4>8, <4>9
    <3> QED BY <3>1, <3>2
  <2>3. PICK s, msgs : /\ Chain(e, s, msgs) /\ toAgent' = toAgent \o msgs
                       /\ Sides(r, s) /\ Piece(t, s, x) /\ s[Len(s)].at = "init"
                       /\ \E k \in 1..Len(s) - 1 : s[k].at = "initializerBytes" /\ s[k].of = x
    BY <2>2
  <2>10. ASSUME NEW r2 \in Labellings, Carries(r, s, r2)
         PROVE  Owed(r2)
    <3>1. r2[Len(r2)].at = "init" BY <2>3, <2>10 DEF Carries
    <3>2. unsent' \subseteq InterceptorsOf[c] BY <1>2, <2>0
    <3>3. Ended(r2, c)' BY <2>0, <3>1, <3>2 DEF Ended
    <3>4. Coming(r2, "initializerBytes", x)' BY <2>3, <2>10 DEF Carries
    <3>5. \A y \in AuxiliariesOf[c] : Coming(r2, "auxBytes", y)' \/ y \in ignoredClasses'
      BY <1>3, <1>5, <2>0, <2>10 DEF Carries
    <3>6. \A y \in InterceptorsOf[c] :
            \/ position' = "initializers" /\ y \in unsent'
            \/ Coming(r2, "initializerBytes", y)'
            \/ y \in loadedInterceptorsPerCl'[loader'[t]] \cap ignoredClasses' /\ y \in initializers'[c]
      BY <1>3, <1>5, <2>0, <2>10, <3>4 DEF Carries
    <3> QED BY <1>3, <3>3, <3>5, <3>6 DEF Supplied
  <2>11. Fulfils(c, t, r, s) BY <2>10 DEF Fulfils
  <2>12. Streams(c, t, r, s, msgs, x) BY <1>0, <1>1, <1>2, <2>3, <1>6, <2>11 DEF Streams
  <2> QED BY <2>12, StreamGoesOn
<1>d. ASSUME FailInitializer PROVE AnswerPhase(t)'
  <2> PICK x \in unsent \ (Shipped \cup sendInterceptors) :
         AnswerNull(subject, <<Text("initializers"), Name(x)>>)
    BY <1>d DEF FailInitializer
  <2> PICK msgs : msgs = <<Text("initializers"), Name(x)>> OBVIOUS
  <2>0. /\ position = "initializers" /\ position' = "request" /\ UNCHANGED <<unsent, sendInterceptors>>
        /\ toAgent' = toAgent \o msgs
    BY <1>d DEF FailInitializer, AnswerNull, ServerSends
  <2>1. x \in Names /\ x \in InterceptorsOf[c] /\ x \notin Shipped /\ x \notin sendInterceptors
    BY <1>2, <1>4, <2>0
  <2> PICK s : s = <<Lab("interceptorName", x), Lab("interceptorLength", x)>> OBVIOUS
  <2>2. Chain(e, s, msgs) BY <1>2, <2>0, <2>1, NameChain
  <2>3. /\ Len(s) = 2 /\ s[1].at = "interceptorName" /\ s[1].of = x /\ s[2].at = "interceptorLength"
    BY DEF Lab
  <2>4. \A k \in 1..Len(s) : k \in {1, 2} BY <2>3
  <2>5. \A k \in 1..Len(s) - 1 : k = 1 BY <2>3
  <2>6. \A k \in 1..Len(s) : s[k].at \in InitSide BY <2>3, <2>4 DEF InitSide
  <2>8. Sides(r, s) BY <1>2, <2>0, <2>6 DEF Sides, Early, InitSide
  <2>9. Piece(t, s, x)
    <3>1. x \in InterceptorsOf[class[t]] BY <2>1
    <3> QED BY <2>0, <2>1, <2>3, <2>5, <3>1 DEF Piece
  <2>7. Unanswerable(c) BY <1>2, <2>1 DEF Unanswerable
  <2>10. ASSUME NEW r2 \in Labellings, Carries(r, s, r2) PROVE Failed(r2, c)'
    BY <2>0, <2>3, <2>7, <2>10 DEF Failed, Unanswerable, Carries
  <2>11. Fulfils(c, t, r, s) BY <2>10 DEF Fulfils
  <2>12. Streams(c, t, r, s, msgs, x)
    BY <1>0, <1>1, <1>2, <2>0, <2>2, <2>8, <2>9, <1>6, <2>11 DEF Streams
  <2> QED BY <2>12, StreamGoesOn
<1>e. ASSUME EndInitializers PROVE AnswerPhase(t)'
  <2> PICK msgs : msgs = <<Text("no_more_initializers"), Text("ack_req_int_yes")>> \o Payload(c) OBVIOUS
  <2>0. /\ position = "initializers" /\ position' = "request" /\ UNCHANGED <<subject, sendInterceptors>>
        /\ unsent = {} /\ toAgent' = toAgent \o msgs
    BY <1>2, <1>e DEF EndInitializers, ServerSends
  <2>1. c \in Names BY <1>2 DEF Names
  <2>2. PICK s : /\ Chain(e, s, msgs) /\ Len(s) = 4
                 /\ s[1] = Lab("verdict", None) /\ s[2] = Lab("newLength", c)
                 /\ s[3] = Lab("newBytes", c) /\ s[4] = Lab("finished", c)
    <3>1. e.at = "init" /\ c \in Names BY <1>2, <2>0, <2>1
    <3> QED BY ONLY <3>1, msgs = <<Text("no_more_initializers"),
           Text("ack_req_int_yes")>> \o Payload(c), EndChain
  <2>3. /\ s[1].at = "verdict" /\ s[2].at = "newLength" /\ s[2].of = c /\ s[3].at = "newBytes"
        /\ s[3].of = c /\ s[4].at = "finished"
    BY <2>2 DEF Lab
  <2>4. \A k \in 1..Len(s) : k \in {1, 2, 3, 4} BY <2>2
  <2>5. \A k \in 1..Len(s) - 1 : k \in {1, 2, 3} BY <2>2
  <2>6. \A k \in 1..Len(s) : s[k].at \notin Early
    BY <2>3, <2>4 DEF Early, AuxSide, InitSide
  <2>8. Sides(r, s) BY <2>6 DEF Sides
  <2>9. Piece(t, s, None)
    <3>1. \A k \in 1..Len(s) - 1 : s[k].at \notin ChunkPoints
      BY <2>3, <2>5 DEF ChunkPoints, InitSide
    <3>2. \A k \in 1..Len(s) - 1 :
            /\ s[k].at \in {"newLength", "newBytes"} => s[k].of = class[t]
            /\ s[k].at # "interceptorName" /\ s[k].at # "interceptorBytes"
      BY <2>3, <2>5
    <3> QED BY <2>0, <3>1, <3>2 DEF Piece
  <2>10. ASSUME NEW r2 \in Labellings, Carries(r, s, r2)
         PROVE  Owed(r2)
    <3>1. r2[Len(r2)].at = "finished" BY <2>2, <2>3, <2>10 DEF Carries
    <3>3. Ended(r2, c)' BY <2>0, <3>1 DEF Ended
    <3>5. \A y \in AuxiliariesOf[c] : Coming(r2, "auxBytes", y)' \/ y \in ignoredClasses'
      BY <1>3, <1>5, <2>0, <2>10 DEF Carries
    <3>6. \A y \in InterceptorsOf[c] :
            \/ Coming(r2, "initializerBytes", y)'
            \/ y \in loadedInterceptorsPerCl'[loader'[t]] \cap ignoredClasses' /\ y \in initializers'[c]
      BY <1>3, <1>5, <2>0, <2>10 DEF Carries
    <3> QED BY <1>3, <3>3, <3>5, <3>6 DEF Supplied
  <2>11. Fulfils(c, t, r, s) BY <2>10 DEF Fulfils
  <2>12. Streams(c, t, r, s, msgs, None)
    BY <1>0, <1>1, <1>2, <2>0, <2>2, <2>8, <2>9, <1>6, <2>11 DEF Streams
  <2> QED BY <2>12, StreamGoesOn
<1> QED BY <1>a, <1>b, <1>c, <1>d, <1>e

\* An ignored class is answered with three markers.
LEMMA IgnoredAnswer ==
  ASSUME NEW q, q = <<Text("no_more_aux_classes"), Text("no_more_initializers"), Text("ack_req_int_no")>>
  PROVE  \E r : /\ Walk(r, q) /\ Len(r) = 4 /\ Len(q) = 3
                /\ r[1] = Lab("aux", None) /\ r[2] = Lab("init", None)
                /\ r[3] = Lab("verdict", None) /\ r[4] = Lab("finished", None)
<1> PICK r : r = <<Lab("aux", None), Lab("init", None), Lab("verdict", None), Lab("finished", None)>>
  OBVIOUS
<1>1. {"aux", "init", "verdict", "finished"} \subseteq Points
  BY DEF Points, AuxSide, InitSide, LateSide
<1>2. /\ Lab("aux", None) \in Label /\ Lab("init", None) \in Label
      /\ Lab("verdict", None) \in Label /\ Lab("finished", None) \in Label
  BY <1>1, Labels
<1>3. /\ r \in Seq(Label) /\ Len(r) = 4
      /\ r[1] = Lab("aux", None) /\ r[2] = Lab("init", None)
      /\ r[3] = Lab("verdict", None) /\ r[4] = Lab("finished", None)
  BY <1>2
<1>4. /\ Len(q) = 3 /\ q[1].kind = "no_more_aux_classes" /\ q[2].kind = "no_more_initializers"
      /\ q[3].kind = "ack_req_int_no"
  BY DEF Text
<1>5. Follows(r[1], q[1], r[2]) /\ Follows(r[2], q[2], r[3]) /\ Follows(r[3], q[3], r[4])
  <2>1. r[1].at = "aux" /\ r[2].at = "init" /\ r[3].at = "verdict" /\ r[4].at = "finished"
    BY <1>3 DEF Lab
  <2>2. Follows(r[1], q[1], r[2]) BY <1>4, <2>1 DEF Follows, Script
  <2>3. Follows(r[2], q[2], r[3]) BY <1>4, <2>1 DEF Follows, Script
  <2>4. Follows(r[3], q[3], r[4]) BY <1>4, <2>1 DEF Follows, Script
  <2> QED BY <2>2, <2>3, <2>4
<1>6. \A i \in 1..Len(q) : i = 1 \/ i = 2 \/ i = 3 BY <1>4
<1>7. Len(r) = Len(q) + 1 BY <1>3, <1>4
<1>8. \A i \in 1..Len(q) : Follows(r[i], q[i], r[i + 1])
  <2> TAKE i \in 1..Len(q)
  <2>1. CASE i = 1 BY <1>5, <2>1
  <2>2. CASE i = 2 BY <1>5, <2>2
  <2>3. CASE i = 3 BY <1>5, <2>3
  <2> QED BY <1>6, <2>1, <2>2, <2>3
<1>9. Walk(r, q) BY <1>3, <1>7, <1>8 DEF Walk, Labellings
<1> QED BY <1>3, <1>4, <1>9

\* The server begins to answer: from its cache, with nothing, with three markers, or with a stream.
LEMMA AnswerBegins ==
  ASSUME TypeInv, MonitorInv, LoadInv, CachingInv, HandleInstrument, UNCHANGED agent,
         NEW t \in Threads, class[t] \in Classes, Unhandled(t)
  PROVE  AnswerPhase(t)'
<1> PICK c : c = class[t] OBVIOUS
<1>0. /\ c \in Classes /\ class'[t] = c /\ loader'[t] = loader[t] /\ pc' = pc /\ got' = got
      /\ UNCHANGED <<loads, interceptors, loader, class, classesCache, ignoredClasses,
                     loadedInterceptorsPerCl, initializers>>
  BY DEF agent, frame, tables, jvm
<1>1. pc[t] = "aux" /\ position = "instrumentName" /\ toServer = <<Name(c)>> /\ toAgent = <<>> /\ Agree
  BY DEF Unhandled
<1>2. ClassNamed(Request) = c BY <1>0, <1>1 DEF ClassNamed, Name, Request
<1>3. toServer' = <<>> /\ subject' = c /\ UNCHANGED <<registered, sendInterceptors>>
  BY <1>1, <1>2 DEF HandleInstrument, ServerTakes
<1>4. Agree' BY <1>0, <1>1, <1>3 DEF Agree
<1>5. \A s : <<>> \o s = s \/ s \notin {s2 \in Seq(Message) : TRUE} OBVIOUS
<1>6. Payload(c) \in Seq(Message) BY <1>0, BlobIsMessages DEF Names
<1>7. /\ c \in classesCache
      /\ \A d \in classesCache : d \in Has
      /\ \A d \in Refs[c] : \/ d \in classesCache \cup ServerClasspath \/ d \notin Findable
                            \/ \E u \in Threads : d \in todo[u] \/ (dep[u] = d /\ pc[u] \in SendPoints)
      /\ c \in Cached => \E l \in Loaders : Settled(c, l)
  <2>1. pc[t] \in AnswerPoints BY <1>1 DEF AnswerPoints
  <2> QED BY <1>1, <2>1 DEF CachingInv
<1>8. \A u \in Threads : todo[u] = {} /\ pc[u] \notin SendPoints
  <2> TAKE u \in Threads
  <2>1. pc[t] \notin {"idle", "enter", "prepare"} /\ pc[t] \notin SendPoints \cup {"deps"}
    BY <1>1 DEF SendPoints
  <2>2. pc[u] \in SendPoints \cup {"deps"} => pc[u] \notin {"idle", "enter", "prepare"}
    BY DEF SendPoints
  <2>3. pc[u] \in SendPoints \cup {"deps"} => u = t BY <2>1, <2>2 DEF MonitorInv
  <2>4. pc[u] \notin SendPoints \cup {"deps"} BY <2>1, <2>3
  <2> QED BY <2>4 DEF LoadInv
<1>9. \/ c \in Cached /\ AnswerFromCache(c)
      \/ c \notin Cached /\ ~Transformable(c) /\ AnswerNull(c, <<>>)
      \/ c \notin Cached /\ Transformable(c) /\ Verdict[c] = "ignore"
           /\ AnswerNull(c, <<Text("no_more_aux_classes"), Text("no_more_initializers"),
                              Text("ack_req_int_no")>>)
      \/ c \notin Cached /\ Transformable(c) /\ Verdict[c] = "match" /\ AnswerMatch(c)
  BY <1>2 DEF HandleInstrument
<1>a. CASE c \in Cached /\ AnswerFromCache(c)
  <2>1. position' = "request" /\ toAgent' \in {<<>>, Payload(c)}
    <3>1. <<>> \o Payload(c) = Payload(c) /\ <<>> \o <<>> = <<>> BY <1>6
    <3> QED BY <1>1, <1>a, <3>1 DEF AnswerFromCache, ServerSends
  <2>2. PICK l \in Loaders : Settled(c, l) BY <1>7, <1>a
  <2>3. loads[<<c, loader[t]>>] = "pending" BY <1>1 DEF LoadInv, Loading
  <2>4. l # loader[t] BY <2>2, <2>3 DEF Settled
  <2>5. AskedElsewhere(t)' BY <1>0, <2>2, <2>4 DEF AskedElsewhere, Settled
  <2>6. Cut(t)' BY <1>0, <1>1, <1>3, <1>4, <2>1, <2>5 DEF Cut
  <2> QED BY <2>6 DEF AnswerPhase
<1>b. CASE c \notin Cached /\ ~Transformable(c) /\ AnswerNull(c, <<>>)
  <2>1. position' = "request" /\ toAgent' = <<>>
    <3>1. <<>> \o <<>> = <<>> OBVIOUS
    <3> QED BY <1>1, <1>b, <3>1 DEF AnswerNull, ServerSends
  <2>2. c \in Has BY <1>7
  <2>3. Unanswerable(c) \/ RefersToMissing(c)
    <3>1. CASE Verdict[c] = "error" BY <3>1 DEF Unanswerable
    <3>2. CASE Verdict[c] # "error"
      <4>1. PICK d \in Refs[c] : d \notin Has BY <1>b, <2>2, <3>2 DEF Transformable, Has
      <4>2. d \notin classesCache \cup ServerClasspath BY <1>7, <4>1 DEF Has
      <4>3. d \notin Findable BY <1>7, <1>8, <4>2
      <4> QED BY <4>1, <4>3 DEF RefersToMissing, Has
    <3> QED BY <3>1, <3>2
  <2>4. Unanswerable(c)' \/ RefersToMissing(c)' BY <1>3, <2>3 DEF Unanswerable, RefersToMissing
  <2>5. Cut(t)' BY <1>0, <1>1, <1>3, <1>4, <2>1, <2>4 DEF Cut
  <2> QED BY <2>5 DEF AnswerPhase
<1>c. CASE Verdict[c] = "ignore" /\ AnswerNull(c, <<Text("no_more_aux_classes"),
                                     Text("no_more_initializers"), Text("ack_req_int_no")>>)
  <2> PICK q : q = <<Text("no_more_aux_classes"), Text("no_more_initializers"), Text("ack_req_int_no")>>
    OBVIOUS
  <2>1. position' = "request" /\ toAgent' = q
    <3>1. \A x, y, z : <<>> \o <<x, y, z>> = <<x, y, z>> OBVIOUS
    <3> QED BY <1>1, <1>c, <3>1 DEF AnswerNull, ServerSends
  <2>2. PICK r : /\ Walk(r, q) /\ Len(r) = 4 /\ Len(q) = 3
                 /\ r[1] = Lab("aux", None) /\ r[2] = Lab("init", None)
                 /\ r[3] = Lab("verdict", None) /\ r[4] = Lab("finished", None)
    BY IgnoredAnswer
  <2>3. /\ r[1].at = "aux" /\ r[2].at = "init" /\ r[3].at = "verdict" /\ r[4].at = "finished"
        /\ r[Len(r)].at = "finished"
    BY <2>2 DEF Lab
  <2>4. Walk(r, toAgent)' BY <2>1, <2>2 DEF Walk
  <2>5. Path(r, t)' BY <1>0, <1>1, <2>3, <2>4 DEF Path, PointOf, Holding
  <2>6. (\A i \in 1..Len(r) : i \in {1, 2, 3, 4}) /\ (\A i \in 1..Len(q) : i \in {1, 2, 3}) BY <2>2
  <2>7. Ordered(r)
    <3>1. /\ r[1].at \in AuxSide /\ r[2].at \notin AuxSide /\ r[3].at \notin AuxSide /\ r[4].at \notin AuxSide
          /\ r[1].at \in Early /\ r[2].at \in Early /\ r[3].at \notin Early /\ r[4].at \notin Early
      BY <2>3 DEF AuxSide, Early, InitSide
    <3> QED BY ONLY <2>6, <3>1 DEF Ordered
  <2>8. \A i \in 1..Len(toAgent') : r[i].at \in {"aux", "init", "verdict"} BY <2>1, <2>3, <2>6
  <2>9. \A i \in 1..Len(toAgent') : /\ r[i].at \notin ChunkPoints /\ r[i].at \notin {"newLength", "newBytes"}
                                    /\ r[i].at \notin {"interceptorName", "interceptorBytes"}
    BY <2>8 DEF ChunkPoints, InitSide
  <2>10. Content(r, c)' BY <2>1, <2>9 DEF Content
  <2>11. Distinct(r)' BY <2>1, <2>9 DEF Distinct
  <2>12. Known(r)' BY <1>4, <2>9 DEF Known, Agree
  <2>13. Ended(r, c)' BY <2>1, <2>3 DEF Ended
  <2>14. Supplied(r, t)' BY <1>0, <1>c DEF Supplied
  <2>15. Answer(r, t)' BY <1>0, <1>3, <2>5, <2>7, <2>10, <2>11, <2>12, <2>13, <2>14 DEF Answer
  <2>16. r \in Labellings BY <2>2 DEF Walk
  <2> QED BY <2>15, <2>16 DEF AnswerPhase, Labellings
<1>d. CASE Verdict[c] = "match" /\ AnswerMatch(c)
  <2>1. position' = "auxiliaries" /\ unsent' = AuxiliariesOf[c] /\ toAgent' = <<>>
    BY <1>1, <1>d DEF AnswerMatch
  <2> PICK r : r = <<Lab("aux", None)>> OBVIOUS
  <2>2. /\ r \in Labellings /\ Len(r) = 1 /\ r[1].at = "aux" /\ r[Len(r)].at = "aux"
    <3>1. "aux" \in Points BY DEF Points, AuxSide
    <3>2. Lab("aux", None) \in Label /\ Lab("aux", None).at = "aux" BY <3>1, Labels DEF Lab
    <3> QED BY <3>2 DEF Labellings
  <2>3. Len(toAgent') = 0 /\ \A i \in 1..Len(toAgent') : FALSE BY <2>1
  <2>4. Walk(r, toAgent)' BY <2>2, <2>3 DEF Walk
  <2>5. Path(r, t)' BY <1>0, <1>1, <2>2, <2>4 DEF Path, PointOf, Holding
  <2>6. Ordered(r)
    <3>1. \A i, j \in 1..Len(r) : ~(i < j) BY <2>2
    <3> QED BY <3>1 DEF Ordered
  <2>10. Content(r, c)' BY <1>3, <1>d, <2>1, <2>3 DEF Content
  <2>11. Distinct(r)' BY <2>1, <2>3 DEF Distinct
  <2>12. Known(r)' BY <1>4, <2>3 DEF Known, Agree
  <2>13. Ended(r, c)' BY <2>1, <2>2 DEF Ended
  <2>14. Supplied(r, t)' BY <1>0, <2>1 DEF Supplied
  <2>15. Answer(r, t)' BY <1>0, <1>3, <2>5, <2>6, <2>10, <2>11, <2>12, <2>13, <2>14 DEF Answer
  <2> QED BY <2>2, <2>15 DEF AnswerPhase, Labellings
<1> QED BY <1>9, <1>a, <1>b, <1>c, <1>d

\* The server goes on with an answer, or has none to go on with.
LEMMA ServerAnswers ==
  ASSUME TypeInv, MonitorInv, LoadInv, CachingInv, ServerNext, UNCHANGED agent,
         NEW t \in Threads, pc[t] \in AnswerPoints, AnswerPhase(t)
  PROVE  AnswerPhase(t)'
<1>1. class[t] \in Classes
  <2>1. pc[t] # "idle" BY DEF AnswerPoints
  <2> QED BY <2>1 DEF TypeInv, HookInv
<1>2. ~(position = "request" /\ toServer = <<>>) BY ServerAt DEF Receiving
<1>3. CASE Unhandled(t)
  <2>1. HandleInstrument BY <1>3, ServerAt DEF Unhandled
  <2> QED BY <1>1, <1>3, <2>1, AnswerBegins
<1>4. CASE Cut(t) BY <1>2, <1>4 DEF Cut
<1>5. CASE \E r \in Labellings : Answer(r, t)
  <2> PICK r \in Labellings : Answer(r, t) BY <1>5
  <2>1. position \in {"auxiliaries", "initializers"} BY <1>2 DEF Answer, Ended, Failed
  <2>2. SendAuxiliary \/ EndAuxiliaries \/ SendInitializer \/ FailInitializer \/ EndInitializers
    BY <2>1, ServerAt
  <2> QED BY <1>1, <2>2, StreamSteps
<1> QED BY <1>3, <1>4, <1>5 DEF AnswerPhase

\* No step of the server breaks ProtocolInv.
LEMMA ServerKeepsProtocol ==
  ASSUME TypeInv, MonitorInv, QuietInv, ~Overlap, LoadInv, CachingInv, ProtocolInv, ServerNext,
         UNCHANGED agent
  PROVE  ProtocolInv'
<1>1. pc' = pc /\ interceptors' = interceptors /\ InExchange' = InExchange
      /\ UNCHANGED classesCache
  BY DEF agent, tables, InExchange
<1>2. ASSUME \A t \in Threads : pc[t] \notin AnswerPoints PROVE Agree BY <1>2 DEF ProtocolInv
<1>3. CASE InExchange = {} /\ Quiet
  <2>1. \A t \in Threads : pc[t] \notin AnswerPoints
    <3> TAKE t \in Threads
    <3>1. t \in Actors BY Types
    <3> QED BY <1>3, <3>1 DEF InExchange, AnswerPoints, HookReceives
  <2>2. Agree BY <1>2, <2>1
  <2>3. Lag(0) /\ toAgent = <<>> BY <1>3, ServerAt DEF Quiet
  <2>4. Lag(0)' /\ toAgent' = <<>> /\ UNCHANGED sendInterceptors BY <2>3, LagStep
  <2>5. Quiet' /\ Agree' BY <1>1, <2>2, <2>4 DEF Quiet, Agree
  <2> QED BY <1>1, <1>3, <2>5 DEF ProtocolInv
<1>4. CASE InExchange # {}
  <2>1. PICK a \in InExchange :
              /\ InExchange = {a}
              /\ \/ pc[a] \in DOMAIN RequestOf /\ (AwaitAck(RequestOf[pc[a]]) \/ Acked(RequestOf[pc[a]]))
                 \/ pc[a] = "checkReply" /\ a \in Threads /\ CheckPhase(a)
                 \/ pc[a] \in AnswerPoints /\ a \in Threads /\ AnswerPhase(a)
                 \/ pc[a] \in HelperPoints /\ a = VM /\ HelpersPhase
    BY <1>4, Phases
  <2>2. pc[a] \notin AnswerPoints => Agree
    <3> SUFFICES ASSUME pc[a] \notin AnswerPoints PROVE \A t \in Threads : pc[t] \notin AnswerPoints
      BY <1>2
    <3> TAKE t \in Threads
    <3>1. t \in Actors BY Types
    <3>2. pc[t] \in AnswerPoints => t \in InExchange
      BY <3>1 DEF InExchange, AnswerPoints, HookReceives
    <3> QED BY <2>1, <3>2
  <2>3. CASE pc[a] \in DOMAIN RequestOf /\ (AwaitAck(RequestOf[pc[a]]) \/ Acked(RequestOf[pc[a]]))
    <3>1. pc[a] \notin AnswerPoints BY <2>3 DEF RequestOf, AnswerPoints
    <3> QED BY <2>1, <2>2, <2>3, <3>1, ServerAcknowledges
  <2>4. CASE pc[a] = "checkReply" /\ a \in Threads /\ CheckPhase(a)
    <3>1. pc[a] \notin AnswerPoints BY <2>4 DEF AnswerPoints
    <3> QED BY <2>1, <2>2, <2>4, <3>1, ServerAcknowledges
  <2>5. CASE pc[a] \in AnswerPoints /\ a \in Threads /\ AnswerPhase(a)
    <3>1. AnswerPhase(a)' BY <2>5, ServerAnswers
    <3>2. pc[a] \notin DOMAIN RequestOf /\ pc[a] # "checkReply" /\ pc[a] \notin HelperPoints
      BY <2>5 DEF RequestOf, AnswerPoints, HelperPoints
    <3>3. Exchange(a)' BY <1>1, <3>1, <3>2 DEF Exchange
    <3> QED BY <2>1, <2>5, <3>3, ServerProtocol
  <2>6. CASE pc[a] \in HelperPoints /\ a = VM /\ HelpersPhase
    <3>1. pc[a] \notin AnswerPoints BY <2>6 DEF HelperPoints, AnswerPoints
    <3> QED BY <2>1, <2>2, <2>6, <3>1, ServerSendsHelpers
  <2> QED BY <2>1, <2>3, <2>4, <2>5, <2>6
<1> QED BY <1>3, <1>4 DEF ProtocolInv

(* VMInit and VMDeath *)

\* The callbacks run alone: what ProtocolInv says of them, and what has to hold after a step.
LEMMA VMProtocol ==
  ASSUME TypeInv, MonitorInv, QuietInv, ~Overlap, ProtocolInv, VMStep, UNCHANGED server
  PROVE  /\ pc[VM] \notin VMReceives => Quiet
         /\ pc[VM] \in VMReceives => Exchange(VM)
         /\ pc'[VM] \notin VMReceives /\ Quiet' => ProtocolInv'
         /\ pc'[VM] \in VMReceives /\ Exchange(VM)' => ProtocolInv'
         /\ pc[VM] \in VMReceives \cup {"boot", "running"}
<1>0. /\ pc \in [Actors -> HookPoints \cup VMPoints] /\ Actors = Threads \cup {VM} /\ VM \notin Threads
      /\ pc[VM] \in VMPoints
  BY Types DEF Actors
<1>1. VMFrame BY VMFrames
<1>2. /\ pc[VM] \in VMReceives \cup {"boot", "running"}
      /\ pc[VM] \in {"boot", "running"} => QuietThreads
  BY DEF VMStep, VMInit, HelpersAck, HelpersCount, HelperName, HelperLength, HelperBytes, VMDeath,
         StopAck, At, VMReceives
<1>3. \A t \in Threads : pc[t] = "idle" /\ pc'[t] = "idle"
  BY <1>1, <1>2 DEF QuietThreads, QuietInv, VMFrame
<1>4. /\ pc[VM] \notin HookReceives \cup {"define"}
      /\ pc'[VM] \in VMPoints /\ pc'[VM] \notin HookReceives \cup {"define"}
  BY <1>0, <1>1 DEF VMFrame, VMPoints, VMReceives, HookReceives
<1>5. "idle" \notin HookReceives \cup VMReceives \cup {"define"} \cup AnswerPoints
  BY DEF HookReceives, VMReceives, AnswerPoints
<1>6. /\ InExchange \subseteq {VM} /\ InExchange' \subseteq {VM}
      /\ VM \in InExchange <=> pc[VM] \in VMReceives
      /\ VM \in InExchange' <=> pc'[VM] \in VMReceives
  BY <1>0, <1>3, <1>4, <1>5 DEF InExchange
<1>7. Agree /\ Agree' BY <1>1, <1>3, <1>5 DEF ProtocolInv, Agree, VMFrame, server
<1> QED BY <1>2, <1>6, <1>7 DEF ProtocolInv

\* Where loadPrepClasses reads its next message.
HelperNext == [helpersAck |-> "helpersCount", helpersCount |-> "helperName",
               helperName |-> "helperLength", helperLength |-> "helperBytes",
               helperBytes |-> "helperName"]

\* The callback reads the answer to HELPER_CLASSES message by message.
LEMMA HelpersGoOn ==
  ASSUME TypeInv, UNCHANGED server, pc[VM] \in HelperPoints, HelpersPhase, AgentTakes
  PROVE  /\ pc[VM] = "helpersAck" => Reply.kind = "ack_req_msg"
         /\ pc[VM] = "helpersCount" => Reply.kind = "count"
         /\ pc[VM] = "helperName" => Reply.kind = "name"
         /\ toServer = <<>> /\ unsent \subseteq Helpers
         /\ position = IF unsent = {} THEN "request" ELSE "helpers"
         /\ Len(toAgent) + 3 * Cardinality(unsent) = Remaining
         /\ Len(toAgent) \in Nat \ {0} /\ Len(toAgent') = Len(toAgent) - 1
         /\ pc'[VM] = HelperNext[pc[VM]] /\ toServer' = <<>> /\ Remaining' = Remaining - 1
              => HelpersPhase'
<1>0. toAgent \in Seq(Message) /\ toAgent # <<>> /\ toAgent' = Tail(toAgent)
  BY Types DEF AgentTakes
<1>1. /\ toServer = <<>> /\ unsent \subseteq Helpers
      /\ position = IF unsent = {} THEN "request" ELSE "helpers"
      /\ Len(toAgent) + 3 * Cardinality(unsent) = Remaining
      /\ \E r \in Labellings : Path(r, VM) /\ r[Len(r)].at = "helperName"
  BY <1>0 DEF HelpersPhase, AwaitAck
<1>2. PICK r \in Labellings : Path(r, VM) /\ r[Len(r)].at = "helperName" BY <1>1
<1>3. r[1].at = pc[VM] /\ Walk(r, toAgent) BY <1>2 DEF Path, PointOf, HelperPoints
<1>4. /\ Walk(Tail(r), Tail(toAgent)) /\ Follows(r[1], toAgent[1], r[2])
      /\ Head(toAgent) = toAgent[1]
      /\ Len(toAgent) \in Nat \ {0} /\ Len(Tail(toAgent)) = Len(toAgent) - 1 /\ Len(Tail(r)) = Len(toAgent)
      /\ \A i \in 1..Len(toAgent) : Tail(r)[i] = r[i + 1]
  BY <1>0, <1>3, WalkBack
<1>5. r[2].at = HelperNext[pc[VM]] /\ r[2].at \notin Holding /\ r[2].at # "define"
      /\ HelperNext[pc[VM]] # "define"
  BY <1>3, <1>4, Scripted DEF HelperNext, HelperPoints, Holding
<1>6. /\ pc[VM] = "helpersAck" => Reply.kind = "ack_req_msg"
      /\ pc[VM] = "helpersCount" => Reply.kind = "count"
      /\ pc[VM] = "helperName" => Reply.kind = "name"
  BY <1>3, <1>4, Scripted DEF Reply
<1>7. Tail(r)[1] = r[2] /\ Tail(r)[Len(Tail(r))] = r[Len(r)]
  <2>1. Len(r) = Len(toAgent) + 1 BY <1>3 DEF Walk
  <2>2. 1 \in 1..Len(toAgent) /\ Len(toAgent) \in 1..Len(toAgent) BY <1>4
  <2>3. Tail(r)[1] = r[1 + 1] /\ Tail(r)[Len(toAgent)] = r[Len(toAgent) + 1] BY <1>4, <2>2
  <2> QED BY <1>4, <2>1, <2>3
<1>8. ASSUME pc'[VM] = HelperNext[pc[VM]], toServer' = <<>>, Remaining' = Remaining - 1
      PROVE  HelpersPhase'
  <2>1. Path(Tail(r), VM)'
    <3>1. Walk(Tail(r), toAgent)' BY <1>0, <1>4 DEF Walk, Labellings
    <3> QED BY <1>5, <1>7, <1>8, <3>1 DEF Path, PointOf
  <2>2. Tail(r) \in Labellings BY <1>4 DEF Walk
  <2>3. Tail(r)[Len(Tail(r))].at = "helperName" BY <1>2, <1>7
  <2>4. Len(toAgent') + 3 * Cardinality(unsent') = Remaining'
    <3>1. unsent' = unsent BY DEF server
    <3> DEFINE n == 3 * Cardinality(unsent)
    <3>2. Cardinality(unsent) \in Nat
      <4>1. IsFiniteSet(unsent) BY <1>1, ServerAssumption, FS_Subset
      <4> QED BY <4>1, FS_CardinalityType
    <3>3. n \in Nat /\ Len(toAgent) + n = Remaining BY <1>1, <3>2
    <3> HIDE DEF n
    <3>4. Len(toAgent') + n = Remaining' BY <1>0, <1>4, <1>8, <3>3
    <3> QED BY <3>1, <3>4 DEF n
  <2>5. unsent' \subseteq Helpers /\ position' = IF unsent' = {} THEN "request" ELSE "helpers"
    BY <1>1 DEF server
  <2> QED BY <1>8, <2>1, <2>2, <2>3, <2>4, <2>5 DEF HelpersPhase, Labellings
<1> QED BY <1>0, <1>1, <1>4, <1>6, <1>8

\* The callback asks for the helper classes, counts them and reads them to the last.
LEMMA VMInitKeepsProtocol ==
  ASSUME TypeInv, MonitorInv, QuietInv, ~Overlap, ProtocolInv, UNCHANGED server,
         VMInit \/ HelpersAck \/ HelpersCount \/ HelperName \/ HelperLength \/ HelperBytes
  PROVE  ProtocolInv' /\ aborted' = aborted
<1>0. VMStep BY DEF VMStep
<1>1. /\ \A p : Goto(VM, p) => pc'[VM] = p
      /\ toServer \in Seq(Message) /\ toAgent \in Seq(Message)
  BY Types DEF Goto
<1>2. /\ pc[VM] \notin VMReceives => Quiet
      /\ pc[VM] \in VMReceives => Exchange(VM)
      /\ pc'[VM] \notin VMReceives /\ Quiet' => ProtocolInv'
      /\ pc'[VM] \in VMReceives /\ Exchange(VM)' => ProtocolInv'
  BY <1>0, VMProtocol
<1>3. ASSUME pc'[VM] \in HelperPoints, HelpersPhase' PROVE ProtocolInv'
  <2>1. pc'[VM] \in VMReceives /\ pc'[VM] \notin DOMAIN RequestOf /\ pc'[VM] # "checkReply"
        /\ pc'[VM] \notin AnswerPoints
    BY <1>3 DEF HelperPoints, VMReceives, RequestOf, AnswerPoints
  <2>2. Exchange(VM)' BY <1>3, <2>1 DEF Exchange
  <2> QED BY <1>2, <2>1, <2>2
<1>4. Cardinality(Helpers) \in Nat \ {0}
  <2>1. IsFiniteSet(Helpers) /\ Helpers # {} BY ServerAssumption
  <2> QED BY <2>1, FS_CardinalityType, FS_EmptySet
<1>5. CASE VMInit
  <2>1. pc[VM] = "boot" /\ aborted' = aborted /\ UNCHANGED <<toAgent, classesCache>>
        /\ toServer' = toServer \o <<Text("HELPER_CLASSES")>> /\ pc'[VM] = "helpersAck"
    BY <1>1, <1>5 DEF VMInit, At, life, tables, AgentSends
  <2>2. Lag(0) /\ toAgent = <<>> BY <1>2, <2>1 DEF Quiet, VMReceives
  <2>3. AwaitAck("HELPER_CLASSES")'
    <3>1. "HELPER_CLASSES" \in Requests BY DEF Requests
    <3> QED BY <1>1, <2>1, <2>2, <3>1, LagSend
  <2>4. HelpersPhase' /\ pc'[VM] \in HelperPoints BY <2>1, <2>3 DEF HelpersPhase, HelperPoints
  <2> QED BY <1>3, <2>1, <2>4
<1>6. CASE HelpersAck \/ HelpersCount \/ HelperName \/ HelperLength \/ HelperBytes
  <2>0. AgentTakes /\ pc[VM] \in HelperPoints /\ pc[VM] \in VMReceives
    BY <1>6 DEF HelpersAck, HelpersCount, HelperName, HelperLength, HelperBytes, Acknowledged, At,
                HelperPoints, VMReceives
  <2>1. HelpersPhase BY <1>2, <2>0 DEF Exchange
  <2>2. /\ pc[VM] = "helpersAck" => Reply.kind = "ack_req_msg"
        /\ pc[VM] = "helpersCount" => Reply.kind = "count"
        /\ toServer = <<>> /\ unsent \subseteq Helpers
        /\ position = IF unsent = {} THEN "request" ELSE "helpers"
        /\ Len(toAgent) + 3 * Cardinality(unsent) = Remaining
        /\ Len(toAgent) \in Nat \ {0} /\ Len(toAgent') = Len(toAgent) - 1
        /\ pc'[VM] = HelperNext[pc[VM]] /\ toServer' = <<>> /\ Remaining' = Remaining - 1
             => HelpersPhase'
    BY <2>0, <2>1, HelpersGoOn
  <2>3. ASSUME pc'[VM] = HelperNext[pc[VM]], toServer' = <<>>, Remaining' = Remaining - 1
        PROVE  ProtocolInv'
    <3>1. pc'[VM] \in HelperPoints BY <2>0, <2>3 DEF HelperNext, HelperPoints
    <3> QED BY <1>3, <2>2, <2>3, <3>1
  <2>4. helpersLeft \in Nat BY DEF TypeInv, TypeOK, AgentTypeOK, JvmTypeOK
  <2>5. CASE HelpersAck
    <3>1. pc[VM] = "helpersAck" /\ Acknowledged(VM, "helpersCount", <<>>) BY <2>5 DEF HelpersAck, At
    <3>2. /\ toServer' = toServer \o <<>> /\ pc'[VM] = "helpersCount" /\ UNCHANGED jvm
      BY <1>1, <2>2, <3>1 DEF Acknowledged, AgentSends
    <3>3. toServer' = <<>> BY <2>2, <3>2
    <3>4. Remaining' = Remaining - 1 /\ pc'[VM] = HelperNext[pc[VM]]
      BY <1>4, <3>1, <3>2 DEF Remaining, HelperNext
    <3> QED BY <2>3, <3>2, <3>3, <3>4 DEF jvm, life
  <2>6. CASE HelpersCount
    <3>1. /\ pc[VM] = "helpersCount" /\ helpersLeft' = Atoi(Reply) /\ UNCHANGED <<life, toServer>>
          /\ Goto(VM, IF helpersLeft' = 0 THEN "running" ELSE "helperName")
      BY <2>6 DEF HelpersCount, At
    <3>2. helpersLeft' = Cardinality(Helpers) BY <2>2, <3>1 DEF Atoi
    <3>3. pc'[VM] = "helperName" BY <1>1, <1>4, <3>1, <3>2
    <3>4. Remaining' = Remaining - 1 /\ pc'[VM] = HelperNext[pc[VM]]
      BY <1>4, <3>1, <3>2, <3>3 DEF Remaining, HelperNext
    <3> QED BY <2>2, <2>3, <3>1, <3>4 DEF life
  <2>7. CASE HelperName
    <3>1. pc[VM] = "helperName" /\ pc'[VM] = "helperLength" /\ UNCHANGED <<jvm, toServer>>
      BY <1>1, <2>7 DEF HelperName, At
    <3>2. Remaining' = Remaining - 1 /\ pc'[VM] = HelperNext[pc[VM]]
      BY <2>4, <3>1 DEF Remaining, HelperNext, jvm
    <3> QED BY <2>2, <2>3, <3>1, <3>2 DEF jvm, life
  <2>8. CASE HelperLength
    <3>1. pc[VM] = "helperLength" /\ pc'[VM] = "helperBytes" /\ UNCHANGED <<jvm, toServer>>
      BY <1>1, <2>8 DEF HelperLength, At
    <3>2. Remaining' = Remaining - 1 /\ pc'[VM] = HelperNext[pc[VM]]
      BY <2>4, <3>1 DEF Remaining, HelperNext, jvm
    <3> QED BY <2>2, <2>3, <3>1, <3>2 DEF jvm, life
  <2>9. CASE HelperBytes
    <3>1. /\ pc[VM] = "helperBytes" /\ helpersLeft' = helpersLeft - 1 /\ UNCHANGED <<life, toServer>>
          /\ Goto(VM, IF helpersLeft' = 0 THEN "running" ELSE "helperName")
      BY <2>9 DEF HelperBytes, At
    <3>2. helpersLeft # 0 BY <3>1 DEF TypeInv, VMInv
    <3>3. CASE helpersLeft' = 0
      <4>1. helpersLeft = 1 BY <2>4, <3>1, <3>3
      <4>2. Remaining = 1 BY <3>1, <4>1 DEF Remaining
      <4>3. Cardinality(unsent) \in Nat /\ IsFiniteSet(unsent)
        <5>1. IsFiniteSet(unsent) BY <2>2, ServerAssumption, FS_Subset
        <5> QED BY <5>1, FS_CardinalityType
      <4>4. Len(toAgent) = 1 /\ Cardinality(unsent) = 0
        <5> PICK n : n = Cardinality(unsent) OBVIOUS
        <5> PICK k : k = Len(toAgent) OBVIOUS
        <5>1. n \in Nat /\ k \in Nat \ {0} /\ k + 3 * n = 1 BY <2>2, <4>2, <4>3
        <5>2. k = 1 /\ n = 0 BY ONLY <5>1
        <5> QED BY <5>2
      <4>5. unsent = {} /\ position = "request" BY <2>2, <4>3, <4>4, FS_EmptySet
      <4>6. toAgent' = <<>>
        <5>1. toAgent' = Tail(toAgent) /\ toAgent # <<>> BY <2>0 DEF AgentTakes
        <5>2. Tail(toAgent) \in Seq(Message) /\ Len(Tail(toAgent)) = 0 BY <1>1, <4>4, <5>1, Taken
        <5> QED BY <5>1, <5>2, EmptySeq
      <4>7. Quiet' BY <2>2, <3>1, <4>5, <4>6 DEF Quiet, Lag, server
      <4>8. pc'[VM] \notin VMReceives BY <1>1, <3>1, <3>3 DEF VMReceives
      <4> QED BY <1>2, <3>1, <4>7, <4>8 DEF life
    <3>4. CASE helpersLeft' # 0
      <4>1. pc'[VM] = "helperName" BY <1>1, <3>1, <3>4
      <4>2. Remaining' = Remaining - 1 /\ pc'[VM] = HelperNext[pc[VM]]
        BY <2>4, <3>1, <4>1 DEF Remaining, HelperNext
      <4> QED BY <2>2, <2>3, <3>1, <4>2 DEF life
    <3> QED BY <3>3, <3>4
  <2> QED BY <1>6, <2>5, <2>6, <2>7, <2>8, <2>9
<1> QED BY <1>5, <1>6

\* The end of the application ends a server started for it.
LEMMA VMDeathKeepsProtocol ==
  ASSUME TypeInv, MonitorInv, QuietInv, ~Overlap, ProtocolInv, UNCHANGED server, VMDeath \/ StopAck
  PROVE  ProtocolInv' /\ aborted' = aborted
<1>0. VMStep BY DEF VMStep
<1>1. /\ \A p : Goto(VM, p) => pc'[VM] = p
      /\ toServer \in Seq(Message) /\ toAgent \in Seq(Message)
  BY Types DEF Goto
<1>2. /\ pc[VM] \notin VMReceives => Quiet
      /\ pc[VM] \in VMReceives => Exchange(VM)
      /\ pc'[VM] \notin VMReceives /\ Quiet' => ProtocolInv'
      /\ pc'[VM] \in VMReceives /\ Exchange(VM)' => ProtocolInv'
  BY <1>0, VMProtocol
<1>3. CASE VMDeath
  <2>1. /\ pc[VM] = "running" /\ aborted' = aborted /\ UNCHANGED <<toAgent, classesCache>>
        /\ \/ toServer' = toServer \o <<Text("STOP")>> /\ pc'[VM] = "stopAck"
           \/ toServer' = toServer /\ pc'[VM] = "dead"
    BY <1>1, <1>3 DEF VMDeath, At, jvm, life, tables, AgentSends
  <2>2. Lag(0) /\ toAgent = <<>> BY <1>2, <2>1 DEF Quiet, VMReceives
  <2>3. CASE toServer' = toServer \o <<Text("STOP")>> /\ pc'[VM] = "stopAck"
    <3>1. "STOP" \in Requests BY DEF Requests
    <3>2. AwaitAck("STOP")' BY <1>1, <2>1, <2>2, <2>3, <3>1, LagSend
    <3>3. Exchange(VM)' BY <2>3, <3>2 DEF Exchange, RequestOf, AnswerPoints, HelperPoints
    <3> QED BY <1>2, <2>1, <2>3, <3>3 DEF VMReceives
  <2>4. CASE toServer' = toServer /\ pc'[VM] = "dead"
    <3>1. Quiet' BY <2>1, <2>2, <2>4 DEF Quiet, Lag, server
    <3> QED BY <1>2, <2>1, <2>4, <3>1 DEF VMReceives
  <2> QED BY <2>1, <2>3, <2>4
<1>4. CASE StopAck
  <2>1. pc[VM] = "stopAck" /\ Acknowledged(VM, "dead", <<>>) BY <1>4 DEF StopAck, At
  <2>2. AwaitAck("STOP") \/ Acked("STOP") BY <1>2, <2>1 DEF Exchange, RequestOf, VMReceives
  <2>3. <<>> \in Seq(Message) OBVIOUS
  <2>4. Acked("STOP") /\ Goto(VM, "dead") /\ UNCHANGED jvm /\ toServer' = <<>> /\ toAgent' = <<>>
    BY <2>1, <2>2, <2>3, AckStep
  <2>5. position = "stopped" BY <2>4 DEF Acked, Dispatch
  <2>6. pc'[VM] = "dead" BY <1>1, <2>4
  <2>7. Quiet' BY <2>4, <2>5, <2>6 DEF Quiet, server
  <2> QED BY <1>2, <2>4, <2>6, <2>7 DEF VMReceives, jvm, life
<1> QED BY <1>3, <1>4

\* Neither callback breaks ProtocolInv or kills the JVM.
LEMMA VMKeepsProtocol ==
  ASSUME TypeInv, MonitorInv, QuietInv, ~Overlap, ProtocolInv, UNCHANGED server, VMStep
  PROVE  ProtocolInv' /\ aborted' = aborted
BY VMInitKeepsProtocol, VMDeathKeepsProtocol DEF VMStep

(* Beginning a load, and preparing a class *)

\* A step outside every exchange: it leaves the connection, the tables and everybody else alone,
\* and unsettles no load.
Outside(t) ==
  /\ UNCHANGED <<wire, server, tables, helpersLeft>>
  /\ pc[t] \in {"idle", "prepare"} /\ pc'[t] \in {"idle", "enter", "prepare"}
  /\ \A a \in Actors \ {t} : pc'[a] = pc[a] /\ got'[a] = got[a]
  /\ \A u \in Threads \ {t} : class'[u] = class[u] /\ loader'[u] = loader[u] /\ dep'[u] = dep[u]
  /\ \A c \in Classes, l \in Loaders : Settled(c, l) <=> Settled(c, l)'
  /\ pc'[t] = "enter" => dep'[t] = class'[t]

\* The steps that begin a load or prepare a class are such steps.
LEMMA OutsideSteps ==
  ASSUME TypeInv, UNCHANGED server, NEW t \in Threads,
         \/ LoadInitializersForClass(t)
         \/ \E c \in Classes, l \in Loaders : BeginLoad(t, c, l) \/ BeginPrepare(t, c, l)
  PROVE  Outside(t) /\ todo' = todo /\ runs' = runs
<1>0. /\ pc \in [Actors -> HookPoints \cup VMPoints] /\ got \in [Actors -> Names \cup {None}]
      /\ class \in [Threads -> Classes \cup {None}] /\ loader \in [Threads -> Loaders \cup {None}]
      /\ dep \in [Threads -> Classes \cup {None}] /\ loads \in [Classes \X Loaders -> Outcomes]
      /\ t \in Actors
  BY Types
<1> USE DEF At
<1>1. CASE LoadInitializersForClass(t)
  <2>1. /\ UNCHANGED <<wire, tables, helpersLeft, loads, todo, runs>> /\ pc[t] = "prepare"
        /\ (Goto(t, "idle") /\ Leave(t)) \/ UNCHANGED <<pc, frame, got>>
    BY <1>1 DEF LoadInitializersForClass, Prepared, Abort, jvm, life, Leave, frame
  <2>2. \A c \in Classes, l \in Loaders : Settled(c, l) <=> Settled(c, l)' BY <2>1 DEF Settled
  <2>3. CASE Goto(t, "idle") /\ Leave(t) BY <1>0, <2>1, <2>2, <2>3 DEF Outside, Goto, Leave
  <2>4. CASE UNCHANGED <<pc, frame, got>> BY <2>1, <2>2, <2>4 DEF Outside, frame
  <2> QED BY <2>1, <2>3, <2>4
<1>2. ASSUME NEW c \in Classes, NEW l \in Loaders, BeginLoad(t, c, l)
      PROVE  Outside(t) /\ todo' = todo /\ runs' = runs
  <2>1. /\ UNCHANGED <<wire, tables, helpersLeft, todo, runs, got>> /\ pc[t] = "idle" /\ Goto(t, "enter")
        /\ loads[<<c, l>>] = "unloaded" /\ loads' = [loads EXCEPT ![<<c, l>>] = "pending"]
        /\ class' = [class EXCEPT ![t] = c] /\ loader' = [loader EXCEPT ![t] = l]
        /\ dep' = [dep EXCEPT ![t] = c]
    BY <1>2 DEF BeginLoad, life
  <2>2. ASSUME NEW d \in Classes, NEW m \in Loaders PROVE Settled(d, m) <=> Settled(d, m)'
    <3>1. CASE <<d, m>> = <<c, l>>
      <4>1. loads[<<d, m>>] = "unloaded" /\ loads'[<<d, m>>] = "pending" BY <1>0, <2>1, <3>1
      <4> QED BY <4>1 DEF Settled
    <3>2. CASE <<d, m>> # <<c, l>>
      <4>1. loads'[<<d, m>>] = loads[<<d, m>>] BY <1>0, <2>1, <3>2
      <4> QED BY <4>1 DEF Settled
    <3> QED BY <3>1, <3>2
  <2> QED BY <1>0, <2>1, <2>2 DEF Outside, Goto
<1>3. ASSUME NEW c \in Classes, NEW l \in Loaders, BeginPrepare(t, c, l)
      PROVE  Outside(t) /\ todo' = todo /\ runs' = runs
  <2>1. /\ UNCHANGED <<wire, tables, helpersLeft, todo, runs, got, loads>> /\ pc[t] = "idle"
        /\ Goto(t, "prepare")
        /\ class' = [class EXCEPT ![t] = c] /\ loader' = [loader EXCEPT ![t] = l]
        /\ dep' = [dep EXCEPT ![t] = c]
    BY <1>3 DEF BeginPrepare, life
  <2>2. \A d \in Classes, m \in Loaders : Settled(d, m) <=> Settled(d, m)' BY <2>1 DEF Settled
  <2> QED BY <1>0, <2>1, <2>2 DEF Outside, Goto
<1> QED BY <1>1, <1>2, <1>3

\* Nobody in the middle of an exchange notices them.
LEMMA OutsideKeepsProtocol ==
  ASSUME TypeInv, ProtocolInv, NEW t \in Threads, Outside(t)
  PROVE  ProtocolInv'
<1>0. /\ Threads \subseteq Actors /\ VM \notin Threads /\ VM \in Actors /\ Actors = Threads \cup {VM}
      /\ pc[VM] \in VMPoints /\ \A u \in Threads : pc[u] \in HookPoints
  BY Types DEF Actors
<1>1. /\ UNCHANGED <<toServer, toAgent, position, subject, unsent, registered, byteCodeCache,
                     sendInterceptors, classesCache, ignoredClasses, interceptors,
                     loadedInterceptorsPerCl, initializers, helpersLeft>>
      /\ \A a \in Actors \ {t} : pc'[a] = pc[a] /\ got'[a] = got[a]
      /\ \A u \in Threads \ {t} : class'[u] = class[u] /\ loader'[u] = loader[u] /\ dep'[u] = dep[u]
      /\ \A c \in Classes, l \in Loaders : Settled(c, l) <=> Settled(c, l)'
      /\ pc[t] \in {"idle", "prepare"} /\ pc'[t] \in {"idle", "enter", "prepare"}
  BY DEF Outside, wire, server, tables
<1>2. pc'[VM] = pc[VM] /\ got'[VM] = got[VM] BY <1>0, <1>1
<1>3. InExchange' = InExchange /\ t \notin InExchange
  BY <1>0, <1>1 DEF InExchange, HookReceives, VMReceives
<1>4. \A u \in Threads : pc'[u] \in AnswerPoints <=> pc[u] \in AnswerPoints
  BY <1>0, <1>1 DEF AnswerPoints
<1>5. \A n \in {0, 1} : Lag(n) => Lag(n)' BY <1>1 DEF Lag
<1>6. Quiet => Quiet' BY <1>1, <1>2, <1>5 DEF Quiet
<1>7. ASSUME NEW a \in InExchange PROVE Exchange(a)'
  <2>0. a \in Actors \ {t} /\ Exchange(a) BY <1>3, <1>7 DEF ProtocolInv, InExchange
  <2>1. pc'[a] = pc[a] /\ got'[a] = got[a] BY <1>1, <2>0
  <2>2. ASSUME NEW k, AwaitAck(k) \/ Acked(k) PROVE AwaitAck(k)' \/ Acked(k)'
    BY <1>1, <1>5, <2>2 DEF AwaitAck, Acked
  <2>3. ASSUME pc[a] = "checkReply" PROVE CheckPhase(a)'
    <3>1. a \in Threads BY <1>0, <2>0, <2>3 DEF VMPoints, VMReceives
    <3>2. dep'[a] = dep[a] /\ CheckPhase(a) BY <1>1, <2>0, <2>3, <3>1 DEF Exchange
    <3> QED BY <1>1, <3>2 DEF CheckPhase, ServerHas, Cached
  <2>4. ASSUME pc[a] \in AnswerPoints PROVE AnswerPhase(a)'
    <3>1. a \in Threads BY <1>0, <2>0, <2>4 DEF VMPoints, VMReceives, AnswerPoints
    <3>2. class'[a] = class[a] /\ loader'[a] = loader[a] /\ AnswerPhase(a) /\ class[a] \in Classes
      <4>1. pc[a] # "idle" BY <2>4 DEF AnswerPoints
      <4> QED BY <1>1, <2>0, <2>4, <3>1, <4>1 DEF Exchange, TypeInv, HookInv
    <3>3. Unhandled(a) => Unhandled(a)' BY <1>1, <2>1, <3>2 DEF Unhandled, Agree
    <3>4. AskedElsewhere(a) => AskedElsewhere(a)' BY <1>1, <3>2 DEF AskedElsewhere
    <3>5. Cut(a) => Cut(a)'
      BY <1>1, <2>1, <3>2, <3>4 DEF Cut, Agree, Unanswerable, RefersToMissing
    <3>6. ASSUME NEW r \in Labellings, Answer(r, a) PROVE Answer(r, a)'
      <4> PICK c : c = class[a] OBVIOUS
      <4>0. class'[a] = c BY <3>2
      <4>1. Path(r, a)' BY <1>1, <2>1, <3>6 DEF Answer, Path, Walk
      <4>2. Content(r, c)' /\ Distinct(r)' /\ Known(r)'
        BY <1>1, <3>6 DEF Answer, Content, Distinct, Known
      <4>3. (Ended(r, c) /\ Supplied(r, a)) \/ Failed(r, c) BY <3>6 DEF Answer
      <4>4. Ended(r, c) => Ended(r, c)' BY <1>1 DEF Ended
      <4>5. Failed(r, c) => Failed(r, c)' BY <1>1 DEF Failed, Unanswerable
      <4>6. Supplied(r, a) => Supplied(r, a)' BY <1>1, <3>2 DEF Supplied, Coming
      <4>7. toServer' = <<>> /\ Ordered(r) BY <1>1, <3>6 DEF Answer
      <4> QED BY <4>0, <4>1, <4>2, <4>3, <4>4, <4>5, <4>6, <4>7 DEF Answer
    <3> QED BY <3>2, <3>3, <3>5, <3>6 DEF AnswerPhase, Labellings
  <2>5. HelpersPhase => HelpersPhase'
    <3>1. Remaining' = Remaining BY <1>1, <1>2 DEF Remaining
    <3>2. \A r : Path(r, VM) => Path(r, VM)' BY <1>1, <1>2 DEF Path, Walk
    <3>3. AwaitAck("HELPER_CLASSES") => AwaitAck("HELPER_CLASSES")' BY <1>1, <1>5 DEF AwaitAck
    <3> QED BY <1>1, <1>2, <3>1, <3>2, <3>3 DEF HelpersPhase, Labellings
  <2> QED BY <2>0, <2>1, <2>2, <2>3, <2>4, <2>5 DEF Exchange
<1>8. Agree => Agree' BY <1>1 DEF Agree
<1> QED BY <1>3, <1>4, <1>6, <1>7, <1>8 DEF ProtocolInv

(* What the server has: CachingInv *)

\* What the agent has still to send stays in front of what it sends next.
LEMMA HeadStays ==
  ASSUME NEW q \in Seq(Message), NEW s \in Seq(Message), q # <<>>
  PROVE  q \o s # <<>> /\ (q \o s)[1] = q[1]
<1>1. Len(q) \in Nat \ {0} BY EmptySeq
<1>2. 1 \in 1..Len(q) /\ Len(q \o s) # 0 BY <1>1
<1>3. (q \o s)[1] = q[1] BY <1>2, Joined
<1>4. q \o s # <<>> BY <1>2
<1> QED BY <1>3, <1>4

\* The agent only adds to the connection.
LEMMA AgentAppends ==
  ASSUME TypeInv, VMStep \/ \E t \in Threads : HookStep(t)
  PROVE  toServer # <<>> => toServer' # <<>> /\ toServer'[1] = toServer[1]
<1>0. toServer \in Seq(Message) BY Types
<1>1. ASSUME NEW s \in Seq(Message), AgentSends(s) \/ UNCHANGED toServer
      PROVE  toServer # <<>> => toServer' # <<>> /\ toServer'[1] = toServer[1]
  BY <1>0, <1>1, HeadStays DEF AgentSends
<1>2. \A k \in Requests : <<Text(k)>> \in Seq(Message) BY TextIsMessage
<1>3. {"CHECK_HAS_CLASS", "REGISTER_BYTECODE", "INSTRUMENT", "STOP", "HELPER_CLASSES"} \subseteq Requests
  BY DEF Requests
<1>4. ASSUME NEW a, NEW p, NEW s \in Seq(Message), Acknowledged(a, p, s)
      PROVE  toServer # <<>> => toServer' # <<>> /\ toServer'[1] = toServer[1]
  BY <1>1, <1>4 DEF Acknowledged
<1>5. <<>> \in Seq(Message) OBVIOUS
<1>6. CASE VMStep
  <2>1. CASE VMInit
    <3>1. AgentSends(<<Text("HELPER_CLASSES")>>) BY <2>1 DEF VMInit
    <3> QED BY <1>1, <1>2, <1>3, <3>1
  <2>2. CASE HelpersAck
    <3>1. Acknowledged(VM, "helpersCount", <<>>) BY <2>2 DEF HelpersAck
    <3> QED BY <1>4, <1>5, <3>1
  <2>3. CASE VMDeath
    <3>1. AgentSends(<<Text("STOP")>>) \/ UNCHANGED toServer BY <2>3 DEF VMDeath
    <3> QED BY <1>1, <1>2, <1>3, <3>1
  <2>4. CASE StopAck
    <3>1. Acknowledged(VM, "dead", <<>>) BY <2>4 DEF StopAck
    <3> QED BY <1>4, <1>5, <3>1
  <2>5. CASE HelpersCount \/ HelperName \/ HelperLength \/ HelperBytes
    BY <2>5 DEF HelpersCount, HelperName, HelperLength, HelperBytes
  <2> QED BY <1>6, <2>1, <2>2, <2>3, <2>4, <2>5 DEF VMStep
<1>7. ASSUME NEW t \in Threads, HookStep(t)
      PROVE  toServer # <<>> => toServer' # <<>> /\ toServer'[1] = toServer[1]
  <2>0. pc[t] # "idle" => /\ <<Name(dep[t])>> \in Seq(Message) /\ <<Name(class[t])>> \in Seq(Message)
                          /\ <<Name(dep[t]), Payload(dep[t])[2]>> \in Seq(Message)
    <3>1. \A n \in Classes : Name(n) \in Message /\ Payload(n)[2] \in Message
      BY BlobIsMessages DEF Names
    <3> QED BY <3>1 DEF TypeInv, HookInv
  <2>1. CASE AskHasClass(t) \/ SendClassData(t) \/ RequestInstrument(t)
    <3>1. \E k \in Requests : AgentSends(<<Text(k)>>)
      BY <1>3, <2>1 DEF AskHasClass, SendClassData, RequestInstrument
    <3> QED BY <1>1, <1>2, <3>1
  <2>2. CASE CheckAck(t) \/ RegisterAck(t) \/ InstrumentAck(t)
    <3>1. pc[t] # "idle" BY <2>2 DEF CheckAck, RegisterAck, InstrumentAck, At
    <3>2. \E p, s : s \in Seq(Message) /\ Acknowledged(t, p, s)
      BY <2>0, <2>2, <3>1 DEF CheckAck, RegisterAck, InstrumentAck
    <3> QED BY <1>4, <3>2
  <2>3. CASE \/ EnterHook(t) \/ FoundInCache(t) \/ TriggerLoading(t) \/ NextDependency(t)
             \/ DefineInterceptor(t) \/ ExitHook(t) \/ CheckReply(t) \/ ReceiveAuxMarker(t)
             \/ ReceiveAuxName(t) \/ ReceiveAuxBytes(t) \/ ReceiveInitMarker(t)
             \/ ReceiveInterceptorName(t) \/ ReceiveInterceptorBytes(t)
             \/ ReceiveInitializerBytes(t) \/ ReceiveUnread(t) \/ ReceiveVerdict(t)
             \/ ReceiveNewBytes(t)
    <3>1. toServer' = toServer
      BY <2>3 DEF EnterHook, FoundInCache, TriggerLoading, NextDependency, DefineInterceptor,
           ExitHook, CheckReply, ReceiveAuxMarker, ReceiveAuxName, ReceiveAuxBytes,
           ReceiveInitMarker, ReceiveInterceptorName, ReceiveInterceptorBytes,
           ReceiveInitializerBytes, ReceiveUnread, ReceiveVerdict, ReceiveNewBytes, wire
    <3> QED BY <3>1
  <2> QED BY <1>7, <2>1, <2>2, <2>3 DEF HookStep
<1> QED BY <1>6, <1>7

\* The hook has still to send class d.
Owing(t, d) == d \in todo[t] \/ (dep[t] = d /\ pc[t] \in SendPoints)
\* What CachingInv says of one hook.
Enough(t) ==
  /\ pc[t] \in SendPoints \cup {"enter"} => dep[t] = class[t] \/ class[t] \in classesCache
  /\ pc[t] \in AnswerPoints \cup {"deps", "instrumentAck"} => class[t] \in classesCache
  /\ pc[t] \in {"checkAck", "checkReply"} => dep[t] \notin classesCache
\* What a step of a hook does to the agent's cache and to what is still to be sent.
HookCache(t) ==
  /\ \A c \in classesCache' \ classesCache :
       \/ c \in ServerClasspath
       \/ /\ position = "registerName" /\ toServer' # <<>> /\ toServer'[1] = Name(c)
          /\ Refs[c] \subseteq todo'[t]
  /\ \A d : Owing(t, d) => Owing(t, d)' \/ d \in classesCache' \/ d \notin Findable
  /\ Enough(t)'
  /\ pc[t] \in AnswerPoints => pc'[t] \in AnswerPoints \cup {"exit"}

\* Every step of a hook is of that form.
LEMMA HookCaches ==
  ASSUME TypeInv, MonitorInv, QuietInv, DefineInv, LoadInv, CachingInv, ProtocolInv, ~Overlap,
         NEW t \in Threads, HookStep(t), UNCHANGED server
  PROVE  HookCache(t)
<1>0. /\ todo \in [Threads -> SUBSET Classes] /\ dep \in [Threads -> Classes \cup {None}]
      /\ class'[t] = class[t] \/ pc[t] = "exit"
  BY Types, HookFrames DEF HookFrame
<1>1. \A p : Goto(t, p) => pc'[t] = p BY Types DEF Goto
<1>2. UNCHANGED tables => UNCHANGED <<classesCache, ignoredClasses>> BY DEF tables
<1>3. UNCHANGED frame => UNCHANGED <<class, dep, todo>> BY DEF frame
<1>4. Enough(t) BY DEF CachingInv, Enough
<1>5. dep[t] \in ServerHas => dep[t] \in classesCache \cup ServerClasspath BY DEF CachingInv
<1> USE DEF At, SendPoints, AnswerPoints, Enough, Owing, HookCache
<1>10. CASE EnterHook(t) BY <1>0, <1>1, <1>2, <1>3, <1>4, <1>10 DEF EnterHook
<1>11. CASE FoundInCache(t) BY <1>0, <1>1, <1>2, <1>3, <1>4, <1>11 DEF FoundInCache
<1>12. CASE AskHasClass(t) BY <1>0, <1>1, <1>2, <1>3, <1>4, <1>12 DEF AskHasClass
<1>13. CASE CheckAck(t) BY <1>0, <1>1, <1>2, <1>3, <1>4, <1>13 DEF CheckAck, Acknowledged
<1>14. CASE CheckReply(t)
  <2>1. pc[t] = "checkReply" /\ pc[t] \in HookReceives BY <1>14 DEF CheckReply, HookReceives
  <2>2. CheckPhase(t) BY <2>1, HookProtocol DEF Exchange
  <2>3. Reply.kind = "yes" => dep[t] \in ServerHas
    BY <2>2, <1>14 DEF CheckPhase, CheckReply, AgentTakes, Reply, Text
  <2>4. /\ UNCHANGED <<class, dep, todo>>
        /\ \/ Reply.kind = "yes" /\ classesCache' = classesCache \cup {dep[t]} /\ pc'[t] = "deps"
           \/ UNCHANGED classesCache /\ pc'[t] = "send"
    BY <1>1, <1>3, <1>14 DEF CheckReply
  <2> QED BY <1>4, <1>5, <2>1, <2>3, <2>4
<1>15. CASE SendClassData(t) BY <1>0, <1>1, <1>2, <1>3, <1>4, <1>15 DEF SendClassData
<1>16. CASE TriggerLoading(t) BY <1>0, <1>1, <1>2, <1>3, <1>4, <1>16 DEF TriggerLoading
<1>17. CASE RegisterAck(t)
  <2>1. pc[t] = "registerAck" /\ pc[t] \in HookReceives BY <1>17 DEF RegisterAck, HookReceives
  <2>2. AwaitAck("REGISTER_BYTECODE") \/ Acked("REGISTER_BYTECODE")
    BY <2>1, HookProtocol DEF Exchange, RequestOf
  <2>3. <<Name(dep[t]), Payload(dep[t])[2]>> \in Seq(Message) /\ dep[t] \in Classes
    <3>1. dep[t] \in Classes BY <2>1 DEF TypeInv, HookInv
    <3>2. \A n \in Classes : Name(n) \in Message /\ Payload(n)[2] \in Message
      BY BlobIsMessages DEF Names
    <3> QED BY <3>1, <3>2
  <2>4. /\ Acked("REGISTER_BYTECODE") /\ Goto(t, "deps")
        /\ toServer' = <<Name(dep[t]), Payload(dep[t])[2]>>
    <3>1. Acknowledged(t, "deps", <<Name(dep[t]), Payload(dep[t])[2]>>) BY <1>17 DEF RegisterAck
    <3> QED BY <2>2, <2>3, <3>1, AckStep
  <2>5. position = "registerName" /\ pc'[t] = "deps" /\ toServer' # <<>> /\ toServer'[1] = Name(dep[t])
    BY <1>1, <2>4 DEF Acked, Dispatch
  <2>6. /\ classesCache' = classesCache \cup {dep[t]} /\ UNCHANGED <<class, dep>>
        /\ todo' = [todo EXCEPT ![t] = @ \cup Refs[dep[t]]]
    BY <1>17 DEF RegisterAck
  <2>7. todo'[t] = todo[t] \cup Refs[dep[t]] BY <1>0, <2>6
  <2> QED BY <1>4, <2>1, <2>5, <2>6, <2>7
<1>18. CASE NextDependency(t)
  <2>1. PICK d \in todo[t] : dep' = [dep EXCEPT ![t] = d] /\ todo' = [todo EXCEPT ![t] = @ \ {d}]
    BY <1>18 DEF NextDependency
  <2>2. dep'[t] = d /\ todo'[t] = todo[t] \ {d} BY <1>0, <2>1
  <2>3. pc[t] = "deps" /\ pc'[t] = "check" /\ UNCHANGED <<classesCache, class>>
    BY <1>1, <1>2, <1>18 DEF NextDependency
  <2> QED BY <1>4, <2>2, <2>3
<1>19. CASE RequestInstrument(t) BY <1>0, <1>1, <1>2, <1>3, <1>4, <1>19 DEF RequestInstrument
<1>20. CASE InstrumentAck(t) BY <1>0, <1>1, <1>2, <1>3, <1>4, <1>20 DEF InstrumentAck, Acknowledged
<1>21. CASE ReceiveAuxMarker(t) BY <1>0, <1>1, <1>2, <1>3, <1>4, <1>21 DEF ReceiveAuxMarker
<1>22. CASE ReceiveAuxName(t) BY <1>0, <1>1, <1>2, <1>3, <1>4, <1>22 DEF ReceiveAuxName
<1>23. CASE ReceiveAuxBytes(t) BY <1>0, <1>1, <1>2, <1>3, <1>4, <1>23 DEF ReceiveAuxBytes
<1>24. CASE ReceiveInitMarker(t) BY <1>0, <1>1, <1>2, <1>3, <1>4, <1>24 DEF ReceiveInitMarker
<1>25. CASE ReceiveInterceptorName(t)
  BY <1>0, <1>1, <1>2, <1>3, <1>4, <1>25 DEF ReceiveInterceptorName
<1>26. CASE ReceiveInterceptorBytes(t)
  BY <1>0, <1>1, <1>2, <1>3, <1>4, <1>26 DEF ReceiveInterceptorBytes
<1>27. CASE DefineInterceptor(t)
  <2>1. pc'[t] \in {"initializerName", "selfLocked"} /\ UNCHANGED <<classesCache, class, dep, todo>>
    BY <1>1, <1>3, <1>27 DEF DefineInterceptor
  <2>2. pc'[t] # "selfLocked"
    <3>1. PcTypeOK /\ FrameTypeOK BY DEF TypeInv, TypeOK, AgentTypeOK
    <3> QED BY <3>1, HookDefines DEF Defines
  <2> QED BY <1>4, <2>1, <2>2, <1>27 DEF DefineInterceptor
<1>28. CASE ReceiveInitializerBytes(t)
  BY <1>0, <1>1, <1>2, <1>3, <1>4, <1>28 DEF ReceiveInitializerBytes
<1>29. CASE ReceiveUnread(t) BY <1>0, <1>1, <1>2, <1>3, <1>4, <1>29 DEF ReceiveUnread, AfterUnread
<1>30. CASE ReceiveVerdict(t) BY <1>0, <1>1, <1>2, <1>3, <1>4, <1>30 DEF ReceiveVerdict
<1>31. CASE ReceiveNewBytes(t) BY <1>0, <1>1, <1>2, <1>3, <1>4, <1>31 DEF ReceiveNewBytes
<1>32. CASE ExitHook(t)
  <2>1. pc[t] = "exit" /\ pc'[t] = "idle" /\ UNCHANGED <<classesCache, todo>>
    BY <1>1, <1>2, <1>32 DEF ExitHook, Leave
  <2> QED BY <2>1
<1> QED BY HookStep(t), <1>10, <1>11, <1>12, <1>13, <1>14, <1>15, <1>16, <1>17, <1>18, <1>19,
       <1>20, <1>21, <1>22, <1>23, <1>24, <1>25, <1>26, <1>27, <1>28, <1>29, <1>30, <1>31,
       <1>32 DEF HookStep

\* CachingInv, by thread.
LEMMA CachingByThread ==
  /\ CachingInv =>
       /\ \A c \in classesCache : \A d \in Refs[c] :
            \/ d \in classesCache \cup ServerClasspath \/ d \notin Findable \/ \E t \in Threads : Owing(t, d)
       /\ \A t \in Threads : Enough(t)
  /\ /\ \A c \in classesCache :
          \/ c \in Has
          \/ position = "registerBytes" /\ subject = c
          \/ position = "registerName" /\ toServer # <<>> /\ toServer[1] = Name(c)
     /\ Cached \subseteq Has /\ ServerHas \subseteq classesCache \cup ServerClasspath
     /\ \A c \in classesCache : \A d \in Refs[c] :
          \/ d \in classesCache \cup ServerClasspath \/ d \notin Findable \/ \E t \in Threads : Owing(t, d)
     /\ \A t \in Threads : Enough(t)
     /\ \A c \in Cached :
          \/ \E l \in Loaders : Settled(c, l)
          \/ \E t \in Threads : pc[t] \in AnswerPoints /\ class[t] = c /\ position # "instrumentName"
     => CachingInv
BY DEF CachingInv, Enough, Owing

\* A hook that settles its load leaves it settled, and no load is unsettled.
LEMMA HookSettles ==
  ASSUME TypeInv, DefineInv, LoadInv, NEW t \in Threads, HookStep(t)
  PROVE  /\ \A c \in Classes, l \in Loaders : Settled(c, l) => Settled(c, l)'
         /\ \A c \in Classes, l \in Loaders :
              c = class[t] /\ l = loader[t] /\ pc[t] \in AnswerPoints /\ pc'[t] = "exit" => Settled(c, l)'
<1>0. loads \in [Classes \X Loaders -> Outcomes] BY Types
<1>1. HookFrame(t) /\ HookEffect(t) BY HookFrames, HookEffects
<1>2. pc[t] # "idle" /\ class[t] \in Classes /\ loader[t] \in Loaders
  BY <1>1 DEF HookFrame, TypeInv, HookInv
<1>3. pc[t] # "exit" => loads[<<class[t], loader[t]>>] = "pending"
  BY <1>1 DEF LoadInv, Loading, HookFrame
<1>4. CASE loads' = loads /\ ~(pc[t] # "exit" /\ pc'[t] = "exit")
  <2>1. \A c \in Classes, l \in Loaders : Settled(c, l) => Settled(c, l)' BY <1>4 DEF Settled
  <2>2. ~(pc[t] \in AnswerPoints /\ pc'[t] = "exit") BY <1>4 DEF AnswerPoints
  <2> QED BY <2>1, <2>2
<1>5. CASE pc[t] # "exit" /\ pc'[t] = "exit"
  <2>1. PICK o \in {"original", "instrumented", "foreign"} :
           loads' = [loads EXCEPT ![<<class[t], loader[t]>>] = o]
    BY <1>1, <1>5 DEF HookEffect
  <2>2. ASSUME NEW c \in Classes, NEW l \in Loaders, Settled(c, l) PROVE Settled(c, l)'
    <3>1. <<c, l>> # <<class[t], loader[t]>> BY <1>3, <1>5, <2>2 DEF Settled
    <3>2. loads'[<<c, l>>] = loads[<<c, l>>] BY <1>0, <2>1, <3>1
    <3> QED BY <2>2, <3>2 DEF Settled
  <2>3. ASSUME NEW c \in Classes, NEW l \in Loaders, c = class[t], l = loader[t], pc[t] \in AnswerPoints
        PROVE  Settled(c, l)'
    <3>1. loads'[<<c, l>>] = o BY <1>0, <2>1, <2>3
    <3>2. l \notin IgnoredLoaders BY <2>3 DEF LoadInv, Loading, AnswerPoints
    <3> QED BY <3>1, <3>2 DEF Settled
  <2> QED BY <2>2, <2>3
<1> QED BY <1>1, <1>4, <1>5 DEF HookEffect

\* A hook sends the classes its own refers to before it has it instrumented.
LEMMA HookKeepsCaching ==
  ASSUME TypeInv, MonitorInv, QuietInv, DefineInv, LoadInv, CachingInv, ProtocolInv, ~Overlap,
         NEW t \in Threads, HookStep(t), UNCHANGED server
  PROVE  CachingInv'
<1>0. /\ UNCHANGED <<position, subject, registered, byteCodeCache>> BY DEF server
<1>1. HookFrame(t) /\ HookEffect(t) /\ HookCache(t) BY HookFrames, HookEffects, HookCaches
<1>2. toServer # <<>> => toServer' # <<>> /\ toServer'[1] = toServer[1] BY AgentAppends
<1>3. /\ \A u \in Threads \ {t} : /\ pc'[u] = pc[u] /\ class'[u] = class[u] /\ dep'[u] = dep[u]
                                  /\ todo'[u] = todo[u] /\ pc[u] \in {"idle", "enter", "prepare"}
      /\ classesCache \subseteq classesCache'
  BY <1>1, HookAlone DEF HookFrame, HookEffect
<1>4. /\ \A c \in classesCache : \A d \in Refs[c] :
           d \in classesCache \cup ServerClasspath \/ d \notin Findable \/ \E u \in Threads : Owing(u, d)
      /\ \A u \in Threads : Enough(u)
  BY CachingByThread
<1>5. \A u \in Threads \ {t} : Enough(u)'
  BY <1>3, <1>4 DEF Enough, SendPoints, AnswerPoints
<1>6. \A u \in Threads : Enough(u)' BY <1>1, <1>5 DEF HookCache
<1>7. \A u \in Threads \ {t} : \A d : Owing(u, d) => Owing(u, d)' BY <1>3 DEF Owing
<1>8. ASSUME NEW c \in classesCache', NEW d \in Refs[c]
      PROVE  d \in classesCache' \cup ServerClasspath \/ d \notin Findable \/ \E u \in Threads : Owing(u, d)'
  <2>1. CASE c \in classesCache BY <1>1, <1>3, <1>4, <1>7, <1>8, <2>1 DEF HookCache
  <2>2. CASE c \notin classesCache
    <3>1. CASE c \in ServerClasspath BY <1>8, <3>1, ServerAssumption
    <3>2. CASE Refs[c] \subseteq todo'[t] BY <1>8, <3>2 DEF Owing
    <3> QED BY <1>1, <1>8, <2>2, <3>1, <3>2 DEF HookCache
  <2> QED BY <2>1, <2>2
<1>9. ASSUME NEW c \in classesCache'
      PROVE  \/ c \in Has'
             \/ position' = "registerBytes" /\ subject' = c
             \/ position' = "registerName" /\ toServer' # <<>> /\ toServer'[1] = Name(c)
  <2>1. Has' = Has BY <1>0 DEF Has
  <2>2. CASE c \in classesCache BY <1>0, <1>2, <2>1, <2>2 DEF CachingInv
  <2>3. CASE c \notin classesCache BY <1>0, <1>1, <1>9, <2>1, <2>3 DEF HookCache, Has
  <2> QED BY <2>2, <2>3
<1>10. Cached' \subseteq Has' /\ ServerHas' \subseteq classesCache' \cup ServerClasspath
  <2>1. Cached' = Cached /\ Has' = Has /\ ServerHas' = ServerHas BY <1>0 DEF Cached, Has, ServerHas
  <2> QED BY <1>3, <2>1 DEF CachingInv
<1>11. ASSUME NEW c \in Cached'
       PROVE  \/ \E l \in Loaders : Settled(c, l)'
              \/ \E u \in Threads : pc'[u] \in AnswerPoints /\ class'[u] = c /\ position' # "instrumentName"
  <2>1. c \in Cached /\ c \in Classes BY <1>0, <1>11 DEF Cached
  <2>2. \A l \in Loaders : Settled(c, l) => Settled(c, l)' BY <2>1, HookSettles
  <2>3. CASE \E u \in Threads : pc[u] \in AnswerPoints /\ class[u] = c /\ position # "instrumentName"
    <3> PICK u \in Threads : pc[u] \in AnswerPoints /\ class[u] = c /\ position # "instrumentName"
      BY <2>3
    <3>1. u = t BY <1>3 DEF AnswerPoints
    <3>2. class'[t] = class[t] BY <1>1, <3>1 DEF HookFrame, AnswerPoints
    <3>3. CASE pc'[t] \in AnswerPoints BY <1>0, <3>1, <3>2, <3>3
    <3>4. CASE pc'[t] = "exit"
      <4>1. PICK l \in Loaders : l = loader[t] BY <3>1 DEF TypeInv, HookInv, AnswerPoints
      <4>2. Settled(c, l)' BY <2>1, <3>1, <3>4, <4>1, HookSettles
      <4> QED BY <4>2
    <3> QED BY <1>1, <3>1, <3>3, <3>4 DEF HookCache
  <2> QED BY <2>1, <2>2, <2>3 DEF CachingInv
<1> QED BY <1>6, <1>8, <1>9, <1>10, <1>11, CachingByThread DEF CachingInv, Enough, Owing

\* VMInit, VMDeath, and steps outside every exchange change nothing it is about.
LEMMA OthersKeepCaching ==
  ASSUME TypeInv, CachingInv, UNCHANGED server, VMStep \/ \E t \in Threads : Outside(t) /\ todo' = todo
  PROVE  CachingInv'
<1>0. /\ UNCHANGED <<position, subject, registered, byteCodeCache>> BY DEF server
<1>1. Cached' = Cached /\ Has' = Has /\ ServerHas' = ServerHas BY <1>0 DEF Cached, Has, ServerHas
<1>2. CASE VMStep
  <2>1. toServer # <<>> => toServer' # <<>> /\ toServer'[1] = toServer[1] BY <1>2, AgentAppends
  <2>2. /\ UNCHANGED <<class, loader, dep, todo, loads, classesCache>>
        /\ \A t \in Threads : pc'[t] = pc[t]
    BY <1>2, VMFrames DEF VMFrame
  <2>3. \A c, l : Settled(c, l)' <=> Settled(c, l) BY <2>2 DEF Settled
  <2> QED BY <1>0, <1>1, <2>1, <2>2, <2>3 DEF CachingInv
<1>3. ASSUME NEW t \in Threads, Outside(t), todo' = todo PROVE CachingInv'
  <2>1. /\ UNCHANGED <<toServer, classesCache>>
        /\ \A u \in Threads \ {t} : pc'[u] = pc[u] /\ class'[u] = class[u] /\ dep'[u] = dep[u]
        /\ pc[t] \in {"idle", "prepare"} /\ pc'[t] \in {"idle", "enter", "prepare"}
        /\ pc'[t] = "enter" => dep'[t] = class'[t]
        /\ \A c \in Classes, l \in Loaders : Settled(c, l) <=> Settled(c, l)'
    <3>1. Threads \subseteq Actors BY Types
    <3> QED BY <1>3, <3>1 DEF Outside, wire, tables
  <2>2. /\ pc[t] \notin SendPoints \cup AnswerPoints
        /\ pc'[t] \notin SendPoints \cup AnswerPoints \cup {"deps", "instrumentAck", "checkAck", "checkReply"}
    BY <2>1 DEF SendPoints, AnswerPoints
  <2>3. \A u \in Threads : Enough(u) => Enough(u)' BY <2>1, <2>2 DEF Enough
  <2>4. \A u \in Threads : \A d : Owing(u, d) => Owing(u, d)' BY <1>3, <2>1, <2>2 DEF Owing
  <2>5. /\ \A c \in classesCache' : \A d \in Refs[c] :
            \/ d \in classesCache' \cup ServerClasspath \/ d \notin Findable \/ \E u \in Threads : Owing(u, d)'
        /\ \A u \in Threads : Enough(u)'
    BY <2>1, <2>3, <2>4, CachingByThread
  <2>6. \A c \in Cached' :
          \/ \E l \in Loaders : Settled(c, l)'
          \/ \E u \in Threads : pc'[u] \in AnswerPoints /\ class'[u] = c /\ position' # "instrumentName"
    BY <1>0, <1>1, <2>1, <2>2 DEF CachingInv, Cached
  <2> QED BY <1>0, <1>1, <2>1, <2>5, <2>6 DEF CachingInv, Enough, Owing
<1> QED BY <1>2, <1>3

\* What the place of the server tells about who waits for it.
LEMMA ServerKnows ==
  ASSUME TypeInv, MonitorInv, QuietInv, ~Overlap, ProtocolInv
  PROVE  /\ position = "registerBytes" => subject \in classesCache
         /\ position = "instrumentName" /\ toServer # <<>> => \E t \in Threads : Unhandled(t)
         /\ position \in {"auxiliaries", "initializers"} =>
              \E t \in Threads : /\ pc[t] \in AnswerPoints /\ subject = class[t] /\ Verdict[class[t]] = "match"
         /\ position = "request" /\ toServer # <<>> => \A t \in Threads : pc[t] \notin AnswerPoints
<1>0. \A t \in Threads : pc[t] \in AnswerPoints => t \in InExchange
  <2>1. Threads \subseteq Actors BY Types
  <2> QED BY <2>1 DEF InExchange, AnswerPoints, HookReceives
<1> DEFINE Known4 == /\ position = "registerBytes" => subject \in classesCache
                     /\ position = "instrumentName" /\ toServer # <<>> => \E t \in Threads : Unhandled(t)
                     /\ position \in {"auxiliaries", "initializers"} =>
                          \E t \in Threads : /\ pc[t] \in AnswerPoints /\ subject = class[t]
                                             /\ Verdict[class[t]] = "match"
                     /\ position = "request" /\ toServer # <<>> => \A t \in Threads : pc[t] \notin AnswerPoints
<1>1. CASE InExchange = {} /\ Quiet
  <2>1. \A t \in Threads : pc[t] \notin AnswerPoints BY <1>0, <1>1
  <2> QED BY <1>1, <2>1 DEF Quiet, Lag
<1>2. CASE \E a \in InExchange :
              /\ InExchange = {a}
              /\ \/ pc[a] \in DOMAIN RequestOf /\ (AwaitAck(RequestOf[pc[a]]) \/ Acked(RequestOf[pc[a]]))
                 \/ pc[a] = "checkReply" /\ a \in Threads /\ CheckPhase(a)
                 \/ pc[a] \in AnswerPoints /\ a \in Threads /\ AnswerPhase(a)
                 \/ pc[a] \in HelperPoints /\ a = VM /\ HelpersPhase
  <2> PICK a \in InExchange :
              /\ InExchange = {a}
              /\ \/ pc[a] \in DOMAIN RequestOf /\ (AwaitAck(RequestOf[pc[a]]) \/ Acked(RequestOf[pc[a]]))
                 \/ pc[a] = "checkReply" /\ a \in Threads /\ CheckPhase(a)
                 \/ pc[a] \in AnswerPoints /\ a \in Threads /\ AnswerPhase(a)
                 \/ pc[a] \in HelperPoints /\ a = VM /\ HelpersPhase
    BY <1>2
  <2>0. pc[a] \notin AnswerPoints => \A t \in Threads : pc[t] \notin AnswerPoints BY <1>0
  <2>1. CASE pc[a] \in DOMAIN RequestOf /\ (AwaitAck(RequestOf[pc[a]]) \/ Acked(RequestOf[pc[a]]))
    <3>1. pc[a] \notin AnswerPoints BY <2>1 DEF RequestOf, AnswerPoints
    <3>2. RequestOf[pc[a]] \in {"CHECK_HAS_CLASS", "REGISTER_BYTECODE", "INSTRUMENT", "STOP"}
      BY <2>1 DEF RequestOf
    <3> QED BY <2>0, <2>1, <3>1, <3>2 DEF AwaitAck, Acked, Lag, Dispatch
  <2>2. CASE pc[a] = "checkReply" /\ a \in Threads /\ CheckPhase(a)
    <3>1. pc[a] \notin AnswerPoints BY <2>2 DEF AnswerPoints
    <3> QED BY <2>0, <2>2, <3>1 DEF CheckPhase
  <2>3. CASE pc[a] \in AnswerPoints /\ a \in Threads /\ AnswerPhase(a)
    <3>1. CASE Unhandled(a) BY <2>3, <3>1 DEF Unhandled
    <3>2. CASE Cut(a) BY <3>2 DEF Cut
    <3>3. CASE \E r \in Labellings : Answer(r, a)
      <4> PICK r \in Labellings : Answer(r, a) BY <3>3
      <4> QED BY <2>3 DEF Answer, Ended, Failed, Content
    <3> QED BY <2>3, <3>1, <3>2, <3>3 DEF AnswerPhase
  <2>4. CASE pc[a] \in HelperPoints /\ a = VM /\ HelpersPhase
    <3>1. pc[a] \notin AnswerPoints BY <2>4 DEF AnswerPoints, HelperPoints
    <3> QED BY <2>0, <2>4, <3>1 DEF HelpersPhase, AwaitAck, Lag
  <2> QED BY <2>1, <2>2, <2>3, <2>4
<1> QED BY <1>1, <1>2, Phases

\* The server receives what it was sent before it is asked about it.
LEMMA ServerKeepsCaching ==
  ASSUME TypeInv, MonitorInv, QuietInv, ~Overlap, CachingInv, ProtocolInv, ServerNext, UNCHANGED agent
  PROVE  CachingInv'
<1>0. /\ UNCHANGED <<pc, class, loader, dep, todo, classesCache, loads>>
      /\ toServer \in Seq(Message) /\ classesCache \subseteq Classes
  BY Types DEF agent, frame, tables, jvm
<1>1. /\ position = "registerBytes" => subject \in classesCache
      /\ position = "instrumentName" /\ toServer # <<>> => \E t \in Threads : Unhandled(t)
      /\ position \in {"auxiliaries", "initializers"} =>
           \E t \in Threads : pc[t] \in AnswerPoints /\ subject = class[t]
      /\ position = "request" /\ toServer # <<>> => \A t \in Threads : pc[t] \notin AnswerPoints
  BY ServerKnows
<1>2. Has \subseteq Has'
  BY DEF ServerNext, ReceiveRequest, SendHelperClass, ReceiveRegisterName, ReceiveRegisterBytes,
         ReceiveCheckName, HandleInstrument, SendAuxiliary, EndAuxiliaries, SendInitializer,
         InitializerStep, FailInitializer, EndInitializers, Has
<1>3. \A c, l : Settled(c, l)' <=> Settled(c, l) BY <1>0 DEF Settled
<1>4. toServer # <<>> => Head(toServer) = toServer[1] BY <1>0, Taken
<1>5. ASSUME NEW c \in classesCache
      PROVE  \/ c \in Has'
             \/ position' = "registerBytes" /\ subject' = c
             \/ position' = "registerName" /\ toServer' # <<>> /\ toServer'[1] = Name(c)
  <2>1. CASE c \in Has BY <1>2, <2>1
  <2>2. CASE position = "registerBytes" /\ subject = c
    <3>1. ReceiveRegisterBytes BY <2>2, ServerAt
    <3> QED BY <1>0, <1>5, <2>2, <3>1 DEF ReceiveRegisterBytes, Has
  <2>3. CASE position = "registerName" /\ toServer # <<>> /\ toServer[1] = Name(c)
    <3>1. ReceiveRegisterName BY <2>3, ServerAt
    <3>2. subject' = c BY <1>0, <1>4, <2>3, <3>1 DEF ReceiveRegisterName, ClassNamed, Name, Request
    <3> QED BY <3>1, <3>2 DEF ReceiveRegisterName
  <2> QED BY <2>1, <2>2, <2>3 DEF CachingInv
<1>6. ASSUME NEW c \in Cached', c \notin Cached
      PROVE  /\ c \in Has /\ position' # "instrumentName"
             /\ \E t \in Threads : pc[t] \in AnswerPoints /\ class[t] = c
  <2>1. PICK t \in Threads : /\ pc[t] \in AnswerPoints /\ class[t] = c /\ position' = "request"
                             /\ position \in {"instrumentName", "initializers"}
    <3>1. CASE position = "instrumentName"
      <4>1. HandleInstrument /\ toServer # <<>> BY <3>1, ServerAt DEF Receiving
      <4>2. PICK t \in Threads : Unhandled(t) BY <1>1, <3>1, <4>1
      <4>3. class[t] \in Classes BY <4>2 DEF Unhandled, TypeInv, HookInv
      <4>4. ClassNamed(Request) = class[t] BY <4>2, <4>3 DEF Unhandled, ClassNamed, Name, Request
      <4>5. c = class[t] /\ position' = "request"
        BY <1>6, <4>1, <4>4 DEF HandleInstrument, AnswerFromCache, AnswerNull, AnswerMatch, Cached
      <4> QED BY <3>1, <4>2, <4>5 DEF Unhandled, AnswerPoints
    <3>2. CASE position = "initializers"
      <4>1. SendInitializer \/ FailInitializer \/ EndInitializers BY <3>2, ServerAt
      <4>2. c = subject /\ position' = "request"
        <5>1. byteCodeCache \in [Classes -> {"absent", "null", "code"}] BY Types
        <5> QED BY <1>6, <4>1, <5>1 DEF SendInitializer, InitializerStep, FailInitializer,
               AnswerNull,
                   EndInitializers, Cached
      <4> QED BY <1>1, <3>2, <4>2
    <3>3. CASE position \notin {"instrumentName", "initializers"}
      <4>1. byteCodeCache' = byteCodeCache
        BY <3>3 DEF ServerNext, ReceiveRequest, SendHelperClass, ReceiveRegisterName,
             ReceiveRegisterBytes, ReceiveCheckName, HandleInstrument, SendAuxiliary, EndAuxiliaries,
             SendInitializer, InitializerStep, FailInitializer, EndInitializers
      <4> QED BY <1>6, <4>1 DEF Cached
    <3> QED BY <3>1, <3>2, <3>3
  <2>2. c \in classesCache BY <2>1 DEF CachingInv
  <2>3. c \in Has BY <2>1, <2>2 DEF CachingInv
  <2> QED BY <2>1, <2>3
<1>7. Cached' \subseteq Has' BY <1>2, <1>6 DEF CachingInv
<1>8. registered' \subseteq classesCache \cup ServerClasspath
  <2>1. registered \subseteq classesCache \cup ServerClasspath BY DEF CachingInv, ServerHas
  <2>2. \/ registered' = registered
        \/ ReceiveRegisterBytes /\ registered' = registered \cup ({subject} \cap Classes)
    BY DEF ServerNext, ReceiveRequest, SendHelperClass, ReceiveRegisterName, ReceiveRegisterBytes,
           ReceiveCheckName, HandleInstrument, SendAuxiliary, EndAuxiliaries, SendInitializer,
           InitializerStep, FailInitializer, EndInitializers
  <2> QED BY <1>1, <2>1, <2>2 DEF ReceiveRegisterBytes
<1>9. ServerHas' \subseteq classesCache \cup ServerClasspath BY <1>7, <1>8 DEF ServerHas, Has
<1>10. ASSUME NEW c \in Cached'
       PROVE  \/ \E l \in Loaders : Settled(c, l)'
              \/ \E t \in Threads : pc[t] \in AnswerPoints /\ class[t] = c /\ position' # "instrumentName"
  <2>1. CASE c \notin Cached BY <1>6, <1>10, <2>1
  <2>2. CASE c \in Cached /\ \E l \in Loaders : Settled(c, l) BY <1>3, <2>2
  <2>3. CASE \E t \in Threads : pc[t] \in AnswerPoints /\ class[t] = c /\ position # "instrumentName"
    <3> PICK t \in Threads : pc[t] \in AnswerPoints /\ class[t] = c /\ position # "instrumentName"
      BY <2>3
    <3>1. position # "request" BY <1>1, ServerAt DEF Receiving
    <3>2. position' # "instrumentName"
      BY <3>1 DEF ServerNext, ReceiveRequest, SendHelperClass, ReceiveRegisterName,
             ReceiveRegisterBytes, ReceiveCheckName, HandleInstrument, SendAuxiliary, EndAuxiliaries,
             SendInitializer, InitializerStep, FailInitializer, EndInitializers, AnswerFromCache,
             AnswerNull, AnswerMatch
    <3> QED BY <3>2
  <2> QED BY <2>1, <2>2, <2>3 DEF CachingInv
<1> QED BY <1>0, <1>5, <1>7, <1>9, <1>10 DEF CachingInv

\* What ReadyInv says of one class in one loader.
Ready(c, l) ==
  /\ loads[<<c, l>>] # "foreign"
  /\ loads[<<c, l>>] = "instrumented" =>
       /\ Verdict[c] = "match"
       /\ InterceptorsOf[c] \subseteq loadedInterceptorsPerCl[l] \cap ignoredClasses
       /\ initializers[c] = InterceptorsOf[c]
       /\ AuxiliariesOf[c] \subseteq ignoredClasses
       /\ prepared[<<c, l>>] = "plain" => InterceptorsOf[c] = {}

\* ReadyInv, by class and loader.
LEMMA ReadyByLoad ==
  ReadyInv <=> /\ \A c \in Classes : initializers[c] \subseteq InterceptorsOf[c]
               /\ \A c \in Classes, l \in Loaders : Ready(c, l)
BY DEF ReadyInv, Ready, OwnBytecode, ReadyToRun

\* A class that is ready stays ready while the tables of the agent only grow.
LEMMA ReadyStays ==
  ASSUME NEW c, NEW l, Ready(c, l), loads'[<<c, l>>] = loads[<<c, l>>],
         ignoredClasses \subseteq ignoredClasses',
         loadedInterceptorsPerCl[l] \subseteq loadedInterceptorsPerCl'[l],
         initializers[c] \subseteq initializers'[c], initializers'[c] \subseteq InterceptorsOf[c],
         prepared'[<<c, l>>] = "plain" => prepared[<<c, l>>] = "plain" \/ initializers[c] = {}
  PROVE  Ready(c, l)'
BY DEF Ready

\* An initializer is stored only for the class it was sent for.
LEMMA HookStores ==
  ASSUME TypeInv, MonitorInv, QuietInv, DefineInv, ReadyInv, ProtocolInv, ~Overlap,
         NEW t \in Threads, HookStep(t), NEW c \in Classes
  PROVE  initializers[c] \subseteq initializers'[c] /\ initializers'[c] \subseteq InterceptorsOf[c]
<1>0. /\ initializers \in [Classes -> SUBSET (Names \cup {None})]
      /\ initializers[c] \subseteq InterceptorsOf[c]
  BY Types DEF ReadyInv
<1>1. CASE UNCHANGED initializers BY <1>0, <1>1
<1>2. CASE ReceiveInitializerBytes(t)
  <2>1. pc[t] = "initializerBytes" /\ AgentTakes BY <1>2 DEF ReceiveInitializerBytes, At
  <2>2. pc[t] \in AnswerPoints \ {"define"} /\ ~Cut(t) BY <2>1 DEF AnswerPoints, Cut
  <2>3. PICK r \in Labellings : /\ Answer(r, t) /\ r[1].at = pc[t]
                                /\ Follows(r[1], Reply, r[2]) /\ 1 \in 1..Len(toAgent)
    BY <2>1, <2>2, AnswerReads
  <2>4. Reply.of = r[1].of BY <2>1, <2>3, Scripted
  <2>5. r[1].of \in InterceptorsOf[class[t]]
    BY <2>1, <2>3 DEF Answer, Content, ChunkPoints, InitSide
  <2>6. class[t] \in Classes BY <2>1 DEF TypeInv, HookInv
  <2>7. initializers' = [initializers EXCEPT ![class[t]] = @ \cup {Reply.of}]
    BY <1>2 DEF ReceiveInitializerBytes
  <2>8. initializers'[c] = IF c = class[t] THEN initializers[c] \cup {r[1].of} ELSE initializers[c]
    BY <1>0, <2>4, <2>6, <2>7
  <2> QED BY <1>0, <2>5, <2>8
<1>3. UNCHANGED tables => UNCHANGED initializers BY DEF tables
<1> QED BY <1>1, <1>2, <1>3, HookStep(t)
  DEF HookStep, EnterHook, FoundInCache, AskHasClass, CheckAck, CheckReply, SendClassData,
      TriggerLoading, RegisterAck, NextDependency, RequestInstrument, InstrumentAck,
      ReceiveAuxMarker, ReceiveAuxName, ReceiveAuxBytes, ReceiveInitMarker, ReceiveInterceptorName,
      ReceiveInterceptorBytes, DefineInterceptor, ReceiveUnread, ReceiveVerdict, ReceiveNewBytes,
      ExitHook

\* The class a hook returns is untouched, or instrumented and ready.
LEMMA HookReturnsReady ==
  ASSUME TypeInv, MonitorInv, QuietInv, DefineInv, LoadInv, ReadyInv, ProtocolInv, ~Overlap,
         NEW t \in Threads, HookStep(t), pc[t] # "exit", pc'[t] = "exit",
         NEW c \in Classes, NEW l \in Loaders, c = class[t], l = loader[t]
  PROVE  Ready(c, l)'
<1>0. /\ loads \in [Classes \X Loaders -> Outcomes]
      /\ \A p : Goto(t, p) => pc'[t] = p
      /\ \A o : Loads(t, o) => loads'[<<c, l>>] = o
  BY Types DEF Goto, Loads
<1>1. HookFrame(t) /\ HookEffect(t) BY HookFrames, HookEffects
<1>2. EnterHook(t) \/ ReceiveVerdict(t) \/ ReceiveNewBytes(t)
  BY <1>0, HookStep(t)
  DEF HookStep, FoundInCache, AskHasClass, CheckAck, CheckReply, SendClassData,
      TriggerLoading, RegisterAck, NextDependency, RequestInstrument, InstrumentAck, Acknowledged,
      ReceiveAuxMarker, ReceiveAuxName, ReceiveAuxBytes, ReceiveInitMarker, ReceiveInterceptorName,
      ReceiveInterceptorBytes, DefineInterceptor, ReceiveInitializerBytes, ReceiveUnread, AfterUnread,
      ExitHook
<1>3. CASE EnterHook(t)
  <2>1. loads'[<<c, l>>] = "original" BY <1>0, <1>3 DEF EnterHook
  <2> QED BY <2>1 DEF Ready
<1>4. CASE ReceiveVerdict(t)
  <2>1. loads'[<<c, l>>] = "original" BY <1>0, <1>4 DEF ReceiveVerdict
  <2> QED BY <2>1 DEF Ready
<1>5. CASE ReceiveNewBytes(t)
  <2>1. /\ pc[t] = "newBytes" /\ AgentTakes
        /\ loads'[<<c, l>>] = IF Reply = Payload(c)[2] THEN "instrumented" ELSE "foreign"
        /\ UNCHANGED <<tables, prepared>>
    BY <1>0, <1>5 DEF ReceiveNewBytes, At, Loads
  <2>2. pc[t] \in AnswerPoints \ {"define"} /\ ~Cut(t) BY <2>1 DEF AnswerPoints, Cut
  <2>3. PICK r \in Labellings : /\ Answer(r, t) /\ r[1].at = pc[t] /\ Reply \in Message
                                /\ Follows(r[1], Reply, r[2]) /\ 1 \in 1..Len(toAgent)
    BY <2>1, <2>2, AnswerReads
  <2>4. Reply.of = r[1].of /\ Reply.kind = "bytes" /\ r[2].at = "finished" BY <2>1, <2>3, Scripted
  <2>5. r[1].of = c /\ Verdict[c] = "match" BY <2>1, <2>3 DEF Answer, Content
  <2>6. Reply = [kind |-> "bytes", of |-> c] BY <2>3, <2>4, <2>5 DEF Message
  <2>7. loads'[<<c, l>>] = "instrumented" BY <2>1, <2>6 DEF Payload
  <2>8. toAgent \in Seq(Message) /\ toAgent # <<>> BY <2>1, Types DEF AgentTakes
  <2>9. /\ position = "request" /\ Supplied(r, t)
        /\ \A p, x : Coming(r, p, x) => r[1].at = p /\ r[1].of = x
    BY <2>3, <2>4, <2>8, AnswerEnds
  <2>10. \A x : ~Coming(r, "auxBytes", x) /\ ~Coming(r, "initializerBytes", x) BY <2>1, <2>3, <2>9
  <2>11. /\ \A x \in AuxiliariesOf[c] : x \in ignoredClasses
         /\ \A x \in InterceptorsOf[c] :
              x \in loadedInterceptorsPerCl[l] \cap ignoredClasses /\ x \in initializers[c]
    BY <2>5, <2>9, <2>10 DEF Supplied
  <2>12. initializers[c] = InterceptorsOf[c] BY <2>11 DEF ReadyInv
  <2>13. prepared[<<c, l>>] = "no"
    <3>1. loads[<<c, l>>] = "pending" BY <2>1 DEF LoadInv, Loading
    <3> QED BY <3>1 DEF LoadInv
  <2> QED BY <2>1, <2>5, <2>7, <2>11, <2>12, <2>13 DEF Ready, tables
<1> QED BY <1>2, <1>3, <1>4, <1>5

\* Instrumented code is handed to the JVM only when what it needs is in place, and stays there.
LEMMA HookKeepsReady ==
  ASSUME TypeInv, MonitorInv, QuietInv, DefineInv, LoadInv, ReadyInv, ProtocolInv, ~Overlap,
         NEW t \in Threads, HookStep(t)
  PROVE  ReadyInv'
<1>0. loads \in [Classes \X Loaders -> Outcomes] BY Types
<1>1. HookFrame(t) /\ HookEffect(t) BY HookFrames, HookEffects
<1>2. \A c \in Classes : /\ initializers[c] \subseteq initializers'[c]
                        /\ initializers'[c] \subseteq InterceptorsOf[c]
  BY HookStores
<1>3. ASSUME NEW c \in Classes, NEW l \in Loaders PROVE Ready(c, l)'
  <2>1. Ready(c, l) BY ReadyByLoad
  <2>2. CASE loads'[<<c, l>>] = loads[<<c, l>>]
    <3>1. prepared'[<<c, l>>] = "plain" => prepared[<<c, l>>] = "plain" BY <1>1 DEF HookEffect
    <3>2. /\ ignoredClasses \subseteq ignoredClasses'
          /\ loadedInterceptorsPerCl[l] \subseteq loadedInterceptorsPerCl'[l]
      BY <1>1 DEF HookEffect
    <3> QED BY <1>2, <2>1, <2>2, <3>1, <3>2, ReadyStays
  <2>3. CASE loads'[<<c, l>>] # loads[<<c, l>>]
    <3>1. pc[t] # "exit" /\ pc'[t] = "exit" BY <1>1, <2>3 DEF HookEffect
    <3>2. PICK o : loads' = [loads EXCEPT ![<<class[t], loader[t]>>] = o]
      BY <1>1, <3>1 DEF HookEffect
    <3>3. c = class[t] /\ l = loader[t] BY <1>0, <2>3, <3>2
    <3> QED BY <3>1, <3>3, HookReturnsReady
  <2> QED BY <2>2, <2>3
<1> QED BY <1>2, <1>3, ReadyByLoad DEF ReadyInv, Ready, OwnBytecode, ReadyToRun

\* VMInit, VMDeath and the server take nothing away.
LEMMA OthersKeepReady ==
  ASSUME TypeInv, ReadyInv, VMStep \/ UNCHANGED agent
  PROVE  ReadyInv'
<1>1. /\ UNCHANGED <<loads, prepared, loadedInterceptorsPerCl, initializers>>
      /\ ignoredClasses \subseteq ignoredClasses'
  BY VMFrames DEF VMFrame, agent, tables, jvm
<1> QED BY <1>1 DEF ReadyInv, OwnBytecode, ReadyToRun

\* The search for initializers finds those of an instrumented class, if nothing is inserted meanwhile.
LEMMA OutsideKeepsReady ==
  ASSUME TypeInv, LoadInv, ReadyInv, NEW t \in Threads,
         \/ LoadInitializersForClass(t)
         \/ \E c \in Classes, l \in Loaders : BeginLoad(t, c, l) \/ BeginPrepare(t, c, l)
  PROVE  ReadyInv'
<1>0. loads \in [Classes \X Loaders -> Outcomes] /\ prepared \in [Classes \X Loaders -> Preparations]
  BY Types
<1>1. UNCHANGED <<ignoredClasses, loadedInterceptorsPerCl, initializers>>
  BY DEF LoadInitializersForClass, BeginLoad, BeginPrepare, tables
<1>2. ASSUME NEW c \in Classes, NEW l \in Loaders PROVE Ready(c, l)'
  <2>1. Ready(c, l) /\ initializers[c] \subseteq InterceptorsOf[c] BY ReadyByLoad
  <2>2. CASE LoadInitializersForClass(t)
    <3>1. pc[t] = "prepare" /\ UNCHANGED loads
      BY <2>2 DEF LoadInitializersForClass, At, Prepared, Abort, jvm
    <3>2. class[t] \in Classes /\ loader[t] \in Loaders BY <3>1 DEF TypeInv, HookInv
    <3>3. \/ prepared' = [prepared EXCEPT ![<<class[t], loader[t]>>] =
                            IF initializers[class[t]] = {} THEN "plain" ELSE "initialized"]
          \/ prepared' = prepared
      BY <2>2 DEF LoadInitializersForClass, Prepared, Abort, jvm
    <3>4. prepared'[<<c, l>>] = "plain" => prepared[<<c, l>>] = "plain" \/ initializers[c] = {}
      BY <1>0, <3>2, <3>3
    <3> QED BY <1>1, <2>1, <3>1, <3>4, ReadyStays
  <2>3. ASSUME NEW d \in Classes, NEW k \in Loaders, BeginLoad(t, d, k) PROVE Ready(c, l)'
    <3>1. /\ loads' = [loads EXCEPT ![<<d, k>>] = "pending"] /\ UNCHANGED prepared
      BY <2>3 DEF BeginLoad
    <3>2. CASE c = d /\ l = k
      <4>1. loads'[<<c, l>>] = "pending" BY <1>0, <3>1, <3>2
      <4> QED BY <4>1 DEF Ready
    <3>3. CASE ~(c = d /\ l = k)
      <4>1. loads'[<<c, l>>] = loads[<<c, l>>] BY <1>0, <3>1, <3>3
      <4> QED BY <1>1, <2>1, <3>1, <4>1, ReadyStays
    <3> QED BY <3>2, <3>3
  <2>4. ASSUME NEW d \in Classes, NEW k \in Loaders, BeginPrepare(t, d, k) PROVE Ready(c, l)'
    <3>1. prepared' = [prepared EXCEPT ![<<d, k>>] = "searching"] /\ UNCHANGED loads
      BY <2>4 DEF BeginPrepare
    <3>2. prepared'[<<c, l>>] = "plain" => prepared[<<c, l>>] = "plain" BY <1>0, <3>1
    <3> QED BY <1>1, <2>1, <3>1, <3>2, ReadyStays
  <2> QED BY <2>2, <2>3, <2>4
<1>3. \A c \in Classes : initializers'[c] \subseteq InterceptorsOf[c] BY <1>1 DEF ReadyInv
<1> QED BY <1>2, <1>3, ReadyByLoad DEF ReadyInv, Ready, OwnBytecode, ReadyToRun

\* The JVM is brought down only where AbortInv says, and the dead make no step.
LEMMA AbortStep ==
  ASSUME TypeInv, MonitorInv, QuietInv, DefineInv, ~Overlap, RunInv,
         \/ UNCHANGED agent
         \/ VMStep /\ UNCHANGED server
         \/ \E t \in Threads :
              /\ UNCHANGED server
              /\ \/ HookStep(t) \/ LoadInitializersForClass(t)
                 \/ \E c \in Classes, l \in Loaders : BeginLoad(t, c, l) \/ BeginPrepare(t, c, l)
  PROVE  AbortInv'
<1>0. AbortInv /\ LoadInv /\ ProtocolInv BY DEF RunInv
<1>1. CASE UNCHANGED agent BY <1>0, <1>1 DEF AbortInv, agent, frame, jvm, life
<1>2. CASE VMStep /\ UNCHANGED server
  <2>1. aborted' = aborted BY <1>0, <1>2, VMKeepsProtocol
  <2>2. ~aborted
    BY <1>2 DEF VMStep, VMInit, HelpersAck, HelpersCount, HelperName, HelperLength, HelperBytes,
         VMDeath, StopAck, At, Alive
  <2> QED BY <2>1, <2>2 DEF AbortInv
<1>3. ASSUME NEW t \in Threads, HookStep(t), UNCHANGED server PROVE AbortInv'
  <2>1. ~aborted BY <1>3, HookFrames DEF HookFrame
  <2>2. aborted' = aborted \/ TriggerLoading(t) BY <1>0, <1>3, HookKeepsProtocol
  <2>3. CASE TriggerLoading(t)
    <3>1. pc'[t] = "deps" /\ dep'[t] = dep[t] /\ dep[t] \notin Findable
      BY <2>3, Types DEF TriggerLoading, Goto, frame
    <3> QED BY <3>1 DEF AbortInv
  <2> QED BY <2>1, <2>2, <2>3 DEF AbortInv
<1>4. ASSUME NEW t \in Threads, LoadInitializersForClass(t) PROVE AbortInv'
  <2>1. ~aborted /\ pc[t] = "prepare" BY <1>4 DEF LoadInitializersForClass, At, Alive
  <2>2. \/ aborted' = aborted
        \/ prepared[<<class[t], loader[t]>>] = "raced" /\ UNCHANGED <<pc, class, loader, prepared>>
    BY <1>4 DEF LoadInitializersForClass, Prepared, Abort, jvm, life, frame
  <2> QED BY <2>1, <2>2 DEF AbortInv
<1>5. ASSUME NEW t \in Threads, NEW c \in Classes, NEW l \in Loaders,
             BeginLoad(t, c, l) \/ BeginPrepare(t, c, l)
      PROVE  AbortInv'
  <2>1. ~aborted /\ aborted' = aborted BY <1>5 DEF BeginLoad, BeginPrepare, At, Alive, life
  <2> QED BY <2>1 DEF AbortInv
<1> QED BY <1>1, <1>2, <1>3, <1>4, <1>5

\* A step of the server keeps RunInv ...
LEMMA ServerKeepsRun ==
  ASSUME TypeInv, MonitorInv, QuietInv, DefineInv, ~Overlap, RunInv, ServerNext, UNCHANGED agent
  PROVE  RunInv'
<1>1. LoadInv /\ CachingInv /\ ReadyInv /\ ProtocolInv BY DEF RunInv
<1>2. LoadInv' BY <1>1, OthersKeepLoads
<1>3. CachingInv' BY <1>1, ServerKeepsCaching
<1>4. ReadyInv' BY <1>1, OthersKeepReady
<1>5. AbortInv' BY AbortStep
<1>6. ProtocolInv' BY <1>1, ServerKeepsProtocol
<1> QED BY <1>2, <1>3, <1>4, <1>5, <1>6 DEF RunInv

\* ... so does a step of VMInit or VMDeath ...
LEMMA VMKeepsRun ==
  ASSUME TypeInv, MonitorInv, QuietInv, DefineInv, ~Overlap, RunInv, VMStep, UNCHANGED server
  PROVE  RunInv'
<1>1. LoadInv /\ CachingInv /\ ReadyInv /\ ProtocolInv BY DEF RunInv
<1>2. LoadInv' BY <1>1, OthersKeepLoads
<1>3. CachingInv' BY <1>1, OthersKeepCaching
<1>4. ReadyInv' BY <1>1, OthersKeepReady
<1>5. AbortInv' BY AbortStep
<1>6. ProtocolInv' BY <1>1, VMKeepsProtocol
<1> QED BY <1>2, <1>3, <1>4, <1>5, <1>6 DEF RunInv

\* ... a step of a hook ...
LEMMA HookKeepsRun ==
  ASSUME TypeInv, MonitorInv, QuietInv, DefineInv, ~Overlap, RunInv, NEW t \in Threads, HookStep(t),
         UNCHANGED server
  PROVE  RunInv'
<1>1. LoadInv /\ CachingInv /\ ReadyInv /\ ProtocolInv BY DEF RunInv
<1>2. LoadInv' BY <1>1, HookKeepsLoads
<1>3. CachingInv' BY <1>1, HookKeepsCaching
<1>4. ReadyInv' BY <1>1, HookKeepsReady
<1>5. AbortInv' BY AbortStep
<1>6. ProtocolInv' BY <1>1, HookKeepsProtocol
<1> QED BY <1>2, <1>3, <1>4, <1>5, <1>6 DEF RunInv

\* ... and what the JVM does around the hooks.
LEMMA OutsideKeepsRun ==
  ASSUME TypeInv, MonitorInv, QuietInv, DefineInv, ~Overlap, RunInv, NEW t \in Threads, UNCHANGED server,
         \/ LoadInitializersForClass(t)
         \/ \E c \in Classes, l \in Loaders : BeginLoad(t, c, l) \/ BeginPrepare(t, c, l)
  PROVE  RunInv'
<1>1. LoadInv /\ CachingInv /\ ReadyInv /\ ProtocolInv BY DEF RunInv
<1>2. Outside(t) /\ todo' = todo BY OutsideSteps
<1>3. LoadInv' BY <1>1, BeginKeepsLoads, BeginPrepareKeepsLoads, LoadInitializersKeepsLoads
<1>4. CachingInv' BY <1>1, <1>2, OthersKeepCaching
<1>5. ReadyInv' BY <1>1, OutsideKeepsReady
<1>6. AbortInv' BY AbortStep
<1>7. ProtocolInv' BY <1>1, <1>2, OutsideKeepsProtocol
<1> QED BY <1>3, <1>4, <1>5, <1>6, <1>7 DEF RunInv

\* A first run begins with nothing loaded, nothing cached and nothing under way.
LEMMA RunBegins == Init => runs = 1 /\ RunInv
<1> SUFFICES ASSUME Init PROVE runs = 1 /\ RunInv
  OBVIOUS
<1>0. VM \notin Threads /\ Threads \subseteq Actors /\ VM \in Actors BY AgentAssumption DEF Actors
<1>1. /\ \A t \in Threads : pc[t] = "idle" /\ todo[t] = {}
      /\ pc[VM] = "boot" /\ runs = 1 /\ ~aborted
      /\ classesCache = {} /\ interceptors = {} /\ sendInterceptors = {} /\ registered = {}
      /\ initializers = [c \in Classes |-> {}]
      /\ loads = [cl \in Classes \X Loaders |-> "unloaded"]
      /\ prepared = [cl \in Classes \X Loaders |-> "no"]
      /\ toServer = <<>> /\ toAgent = <<>> /\ position = "request"
      /\ byteCodeCache = [c \in Classes |-> "absent"]
  BY <1>0 DEF Init, AgentInit, ServerInit
<1>2. LoadInv BY <1>1 DEF LoadInv, Loading
<1>3. CachingInv
  <2>1. Cached = {} BY <1>1 DEF Cached
  <2> QED BY <1>1, <2>1 DEF CachingInv, ServerHas, SendPoints, AnswerPoints
<1>4. ReadyInv BY <1>1 DEF ReadyInv, OwnBytecode, ReadyToRun
<1>5. AbortInv BY <1>1 DEF AbortInv
<1>6. ProtocolInv
  <2>1. InExchange = {} BY <1>0, <1>1 DEF InExchange, HookReceives, VMReceives, Actors
  <2>2. Quiet BY <1>1 DEF Quiet, Lag
  <2> QED BY <1>1, <2>1, <2>2 DEF ProtocolInv, Agree
<1> QED BY <1>1, <1>2, <1>3, <1>4, <1>5, <1>6 DEF RunInv

\* RunInv is about nothing else than these variables.
LEMMA SameRun ==
  ASSUME UNCHANGED <<pc, class, loader, dep, todo, got, classesCache, ignoredClasses, interceptors,
                     loadedInterceptorsPerCl, initializers, helpersLeft, loads, prepared, aborted>>,
         UNCHANGED <<toServer, toAgent, position, subject, unsent, registered, byteCodeCache,
                     sendInterceptors>>
  PROVE  RunInv => RunInv'
<1>1. LoadInv => LoadInv' BY DEF LoadInv, Loading
<1>2. CachingInv => CachingInv' BY DEF CachingInv, Has, Cached, ServerHas, Settled
<1>3. ReadyInv => ReadyInv' BY DEF ReadyInv, OwnBytecode, ReadyToRun
<1>4. AbortInv => AbortInv' BY DEF AbortInv
<1>5. InExchange' = InExchange BY DEF InExchange
<1>6. Quiet => Quiet' BY DEF Quiet, Lag
<1>7. \A a : Exchange(a) => Exchange(a)'
  <2>1. ASSUME NEW a PROVE Exchange(a) => Exchange(a)'
    <3>1. \A k : (AwaitAck(k) => AwaitAck(k)') /\ (Acked(k) => Acked(k)')
      BY DEF AwaitAck, Acked, Lag
    <3>2. CheckPhase(a) => CheckPhase(a)' BY DEF CheckPhase, ServerHas, Cached
    <3>3. \A r, b : Path(r, b) => Path(r, b)' BY DEF Path
    <3>4. HelpersPhase => HelpersPhase' BY <3>1, <3>3 DEF HelpersPhase, Remaining
    <3>5. Unhandled(a) => Unhandled(a)' BY DEF Unhandled, Agree
    <3>6. Cut(a) => Cut(a)'
      BY DEF Cut, Agree, AskedElsewhere, Settled, RefersToMissing, Unanswerable
    <3>7. \A r : Answer(r, a) => Answer(r, a)'
      BY <3>3 DEF Answer, Ended, Failed, Content, Distinct, Known, Supplied, Coming, Unanswerable
    <3> QED BY <3>1, <3>2, <3>4, <3>5, <3>6, <3>7 DEF Exchange, AnswerPhase
  <2> QED BY <2>1
<1>8. ProtocolInv => ProtocolInv' BY <1>5, <1>6, <1>7 DEF ProtocolInv, Agree
<1> QED BY <1>1, <1>2, <1>3, <1>4, <1>8 DEF RunInv

\* Every step keeps FirstRun; a restart begins another run.
LEMMA RunStep ==
  ASSUME ~Overlap, TypeInv, MonitorInv, QuietInv, DefineInv, runs # 0, FirstRun, [Next]_vars
  PROVE  /\ runs' # 0 /\ FirstRun'
         /\ runs' = runs \/ (Restart /\ runs' # 1)
<1>0. runs \in Nat BY DEF TypeInv, TypeOK, AgentTypeOK, JvmTypeOK
<1>1. CASE UNCHANGED vars
  <2>1. /\ UNCHANGED <<pc, class, loader, dep, todo, got, classesCache, ignoredClasses, interceptors,
                       loadedInterceptorsPerCl, initializers, helpersLeft, loads, prepared, aborted, runs>>
        /\ UNCHANGED <<toServer, toAgent, position, subject, unsent, registered, byteCodeCache,
                       sendInterceptors>>
    BY <1>1 DEF vars, agent, server, wire, frame, tables, jvm, life
  <2>2. RunInv => RunInv' BY <2>1, SameRun
  <2> QED BY <2>1, <2>2 DEF FirstRun
<1>2. CASE ServerNext /\ UNCHANGED agent
  <2>1. runs' = runs BY <1>2 DEF agent, jvm, life
  <2>2. RunInv => RunInv' BY <1>2, ServerKeepsRun
  <2> QED BY <2>1, <2>2 DEF FirstRun
<1>3. CASE VMStep /\ UNCHANGED server
  <2>1. runs' = runs BY <1>3, VMFrames DEF VMFrame
  <2>2. RunInv => RunInv' BY <1>3, VMKeepsRun
  <2> QED BY <2>1, <2>2 DEF FirstRun
<1>4. ASSUME NEW t \in Threads, HookStep(t), UNCHANGED server
      PROVE  runs' = runs /\ FirstRun'
  <2>1. runs' = runs BY <1>4, HookFrames DEF HookFrame
  <2>2. RunInv => RunInv' BY <1>4, HookKeepsRun
  <2> QED BY <2>1, <2>2 DEF FirstRun
<1>5. ASSUME NEW t \in Threads, UNCHANGED server,
             \/ LoadInitializersForClass(t)
             \/ \E c \in Classes, l \in Loaders : BeginLoad(t, c, l) \/ BeginPrepare(t, c, l)
      PROVE  runs' = runs /\ FirstRun'
  <2>1. runs' = runs BY <1>5, OutsideSteps
  <2>2. RunInv => RunInv' BY <1>5, OutsideKeepsRun
  <2> QED BY <2>1, <2>2 DEF FirstRun
<1>6. CASE Kill /\ UNCHANGED server
  <2>1. /\ UNCHANGED <<pc, class, loader, dep, todo, got, classesCache, ignoredClasses, interceptors,
                       loadedInterceptorsPerCl, initializers, helpersLeft, loads, prepared, aborted, runs>>
        /\ UNCHANGED <<toServer, toAgent, position, subject, unsent, registered, byteCodeCache,
                       sendInterceptors>>
    BY <1>6 DEF Kill, server, wire, frame, tables
  <2>2. RunInv => RunInv' BY <2>1, SameRun
  <2> QED BY <2>1, <2>2 DEF FirstRun
<1>7. CASE Restart
  <2>1. runs' = runs + 1 BY <1>7 DEF Restart
  <2> QED BY <1>0, <1>7, <2>1 DEF FirstRun
<1> QED BY <1>1, <1>2, <1>3, <1>4, <1>5, <1>6, <1>7 DEF Next, AgentNext

(* What follows for a first run, and for systems that have only one *)

\* RunInv holds all through the first run of the application.
THEOREM FirstRunHolds ==
  ASSUME ~Overlap
  PROVE  Spec => [](TypeInv /\ MonitorInv /\ QuietInv /\ runs # 0 /\ FirstRun)
<1>1. Init => DefineInv /\ runs # 0 /\ FirstRun
  <2>1. Init => DefineInv
    BY AgentAssumption DEF Init, AgentInit, DefineInv, NoSelfLock, Actors
  <2> QED BY <2>1, RunBegins DEF FirstRun
<1>2. TypeInv /\ MonitorInv /\ QuietInv /\ DefineInv /\ runs # 0 /\ FirstRun /\ [Next]_vars
        => DefineInv' /\ (runs # 0)' /\ FirstRun'
  BY DefineStep, RunStep
<1> QED BY <1>1, <1>2, MonitorRespected, PTL DEF Spec

\* A local Instrumentor ends with the application, and a bound of one run allows no second.
SingleRun == LocalMode \/ MaxRuns = 1

\* The invariant of the single run.
SingleInv == TypeInv /\ MonitorInv /\ QuietInv /\ RunInv /\ runs = 1

\* RunInv holds always when the server serves one run only.
THEOREM SingleRunHolds ==
  ASSUME ~Overlap, SingleRun
  PROVE  Spec => []SingleInv
<1>1. Init => runs = 1 BY RunBegins
<1>2. TypeInv /\ runs = 1 /\ [Next]_vars => (runs = 1)'
  <2> SUFFICES ASSUME TypeInv, runs = 1, [Next]_vars PROVE runs' = 1
    OBVIOUS
  <2>1. CASE UNCHANGED vars BY <2>1 DEF vars, agent, jvm, life
  <2>2. CASE ServerNext /\ UNCHANGED agent BY <2>2 DEF agent, jvm, life
  <2>3. CASE VMStep BY <2>3, VMFrames DEF VMFrame
  <2>4. ASSUME NEW t \in Threads, HookStep(t) PROVE runs' = 1
    BY <2>4 DEF HookStep, EnterHook, FoundInCache, AskHasClass, CheckAck, CheckReply, SendClassData,
         TriggerLoading, RegisterAck, NextDependency, RequestInstrument, InstrumentAck,
         ReceiveAuxMarker, ReceiveAuxName, ReceiveAuxBytes, ReceiveInitMarker, ReceiveInterceptorName,
         ReceiveInterceptorBytes, DefineInterceptor, ReceiveInitializerBytes, ReceiveUnread,
         ReceiveVerdict, ReceiveNewBytes, ExitHook, Acknowledged, Abort, Loads, jvm, life
  <2>5. ASSUME NEW t \in Threads, UNCHANGED server,
               \/ LoadInitializersForClass(t)
               \/ \E c \in Classes, l \in Loaders : BeginLoad(t, c, l) \/ BeginPrepare(t, c, l)
        PROVE  runs' = 1
    BY <2>5, OutsideSteps
  <2>6. CASE Kill BY <2>6 DEF Kill
  <2>7. CASE Restart BY <2>7 DEF Restart, SingleRun
  <2> QED BY <2>1, <2>2, <2>3, <2>4, <2>5, <2>6, <2>7 DEF Next, AgentNext
<1>3. TypeInv /\ MonitorInv /\ QuietInv /\ FirstRun /\ runs = 1 => SingleInv
  BY DEF FirstRun, SingleInv
<1> QED BY <1>1, <1>2, <1>3, FirstRunHolds, PTL DEF Spec

\* The JVM is brought down in the first run only by a thread that has just called triggerLoading for
\* a dependency without bytes, or by one whose search for initializers another hook ran into: no
\* acknowledgement is ever mistaken, and no verdict.
THEOREM AbortsExplained ==
  ASSUME ~Overlap
  PROVE  Spec => []AbortExplained
<1>1. TypeInv /\ runs # 0 /\ FirstRun => AbortExplained
  BY DEF FirstRun, RunInv, AbortInv, AbortExplained, TypeInv, TypeOK, AgentTypeOK, JvmTypeOK
<1> QED BY <1>1, FirstRunHolds, PTL

\* What the server has is never less than what the agent believes.
THEOREM CacheIsSound ==
  ASSUME ~Overlap, SingleRun
  PROVE  Spec => []CacheSound
<1>1. SingleInv => CacheSound
  <2> SUFFICES ASSUME SingleInv, NEW c \in classesCache
               PROVE  \/ c \in ServerHas
                      \/ position = "registerBytes" /\ subject = c
                      \/ \E i \in 1..Len(toServer) : toServer[i] = Name(c)
    BY DEF CacheSound
  <2>1. toServer \in Seq(Message) BY Types DEF SingleInv
  <2>2. toServer # <<>> => 1 \in 1..Len(toServer) BY <2>1
  <2> QED BY <2>2 DEF SingleInv, RunInv, CachingInv, Has, ServerHas
<1> QED BY <1>1, SingleRunHolds, PTL

\* A hook returns its own class: instrumented by its own bytecode, or untouched.
THEOREM ReturnsOwnBytecode ==
  ASSUME ~Overlap, SingleRun
  PROVE  Spec => []OwnBytecode
<1>1. SingleInv => OwnBytecode BY DEF SingleInv, RunInv, ReadyInv
<1> QED BY <1>1, SingleRunHolds, PTL

\* Instrumented code has its interceptors, initializers and auxiliary classes in place.
THEOREM InstrumentedIsReady ==
  ASSUME ~Overlap, SingleRun
  PROVE  Spec => []ReadyToRun
<1>1. SingleInv => ReadyToRun BY DEF SingleInv, RunInv, ReadyInv
<1> QED BY <1>1, SingleRunHolds, PTL

\* Between exchanges both sides know the same interceptors.
THEOREM InterceptorsKnown ==
  ASSUME ~Overlap, SingleRun
  PROVE  Spec => []InterceptorsAgree
<1>1. SingleInv => InterceptorsAgree
  <2> SUFFICES ASSUME SingleInv, InExchange = {} PROVE Agree
    BY DEF InterceptorsAgree, Agree
  <2>1. \A t \in Threads : pc[t] \notin AnswerPoints
    <3>1. Threads \subseteq Actors BY Types DEF SingleInv
    <3> QED BY <3>1 DEF InExchange, AnswerPoints, HookReceives
  <2> QED BY <2>1 DEF SingleInv, RunInv, ProtocolInv
<1> QED BY <1>1, SingleRunHolds, PTL

\* Who is starved, and why: a hook whose answer the server believes to have given.
LEMMA StarvedWhy ==
  ASSUME ~Overlap, SingleInv, NEW a \in Actors, Starved(a)
  PROVE  /\ a \in Threads /\ position = "request" /\ pc[a] \in AnswerPoints
         /\ Unanswerable(class[a]) \/ RefersToMissing(class[a]) \/ AskedElsewhere(a)
<1>0. /\ a \in InExchange /\ pc[a] # "define"
      /\ toServer = <<>> /\ toAgent = <<>> /\ position \notin Sending
  BY DEF Starved, wire
<1>1. TypeInv /\ MonitorInv /\ QuietInv /\ LoadInv /\ ProtocolInv BY DEF SingleInv, RunInv
<1>2. \/ pc[a] \in DOMAIN RequestOf /\ (AwaitAck(RequestOf[pc[a]]) \/ Acked(RequestOf[pc[a]]))
      \/ pc[a] = "checkReply" /\ a \in Threads /\ CheckPhase(a)
      \/ pc[a] \in AnswerPoints /\ a \in Threads /\ AnswerPhase(a)
      \/ pc[a] \in HelperPoints /\ a = VM /\ HelpersPhase
  BY <1>0, <1>1, Phases
<1>3. CASE \E k : AwaitAck(k) \/ Acked(k)
  BY <1>0, <1>3 DEF AwaitAck, Acked, Lag
<1>4. CASE CheckPhase(a) BY <1>0, <1>4 DEF CheckPhase
<1>5. CASE pc[a] \in AnswerPoints /\ a \in Threads /\ AnswerPhase(a)
  <2>1. ~Unhandled(a) BY <1>0 DEF Unhandled
  <2>2. CASE Cut(a) BY <1>0, <1>5, <2>2 DEF Cut, Payload
  <2>3. ASSUME NEW r \in Labellings, Answer(r, a)
        PROVE  position = "request" /\ Unanswerable(class[a])
    <3>1. Len(r) = 1 BY <1>0, <2>3 DEF Answer, Path, Walk
    <3>2. r[1].at = PointOf(pc[a]) BY <2>3 DEF Answer, Path
    <3>3. r[Len(r)].at # "finished" BY <1>5, <3>1, <3>2 DEF PointOf, AnswerPoints
    <3>4. ~Ended(r, class[a]) BY <1>0, <3>3 DEF Ended, Sending
    <3> QED BY <2>3, <3>4 DEF Answer, Failed
  <2> QED BY <1>5, <2>1, <2>2, <2>3 DEF AnswerPhase
<1>6. CASE pc[a] \in HelperPoints /\ a = VM /\ HelpersPhase
  <2>1. /\ position = IF unsent = {} THEN "request" ELSE "helpers"
        /\ Len(toAgent) + 3 * Cardinality(unsent) = Remaining
    BY <1>0, <1>6 DEF HelpersPhase, AwaitAck, Lag
  <2>2. unsent = {} /\ Cardinality(unsent) = 0 BY <1>0, <2>1, FS_EmptySet DEF Sending
  <2>3. Remaining = 0 BY <1>0, <2>1, <2>2
  <2>4. /\ Cardinality(Helpers) \in Nat /\ helpersLeft \in Nat
        /\ pc[VM] \in {"helperName", "helperLength", "helperBytes"} => helpersLeft # 0
    BY <1>1, ServerAssumption, FS_CardinalityType DEF TypeInv, VMInv, TypeOK, AgentTypeOK, JvmTypeOK
  <2> QED BY <1>6, <2>3, <2>4 DEF Remaining, HelperPoints
<1> QED BY <1>2, <1>3, <1>4, <1>5, <1>6

\* Whoever is starved waits for the answer about a class whose transformation fails, that lacks a
\* class it refers to, or that was asked for before.
THEOREM StarvationIsExplained ==
  ASSUME ~Overlap, SingleRun
  PROVE  Spec => []StarvationExplained
<1>1. SingleInv => StarvationExplained
  <2> SUFFICES ASSUME SingleInv, NEW a \in Actors, Starved(a)
               PROVE  /\ a \in Threads /\ position = "request"
                      /\ Unanswerable(class[a]) \/ RefersToMissing(class[a]) \/ AskedBefore(a)
    BY DEF StarvationExplained
  <2>1. AskedElsewhere(a) => AskedBefore(a) BY DEF AskedElsewhere, Settled, AskedBefore
  <2> QED BY <2>1, StarvedWhy
<1> QED BY <1>1, SingleRunHolds, PTL

(* What the agent is promised when no class is asked for twice *)

\* The classes the agent has instrumented all come from one class loader.
OneLoader == \A k, l \in Loaders \ IgnoredLoaders : k = l

\* No class is then answered from byteCodeCache.
LEMMA AskedOnce ==
  ASSUME OneLoader, TypeInv, LoadInv, NEW t \in Threads, pc[t] \in AnswerPoints
  PROVE  ~AskedElsewhere(t)
<1>1. loader[t] \in Loaders \ IgnoredLoaders
  BY DEF TypeInv, HookInv, LoadInv, Loading, AnswerPoints
<1> QED BY <1>1 DEF OneLoader, AskedElsewhere, Settled

\* The reply at the head of the connection is always one the waiting actor understands.
THEOREM RepliesAreAligned ==
  ASSUME ~Overlap, SingleRun, OneLoader
  PROVE  Spec => []RepliesAligned
<1>1. SingleInv => RepliesAligned
  <2> SUFFICES ASSUME SingleInv PROVE RepliesAligned
    OBVIOUS
  <2>1. TypeInv /\ MonitorInv /\ QuietInv /\ LoadInv /\ ProtocolInv /\ toAgent \in Seq(Message)
    BY Types DEF SingleInv, RunInv
  <2>2. InExchange = {} => toAgent = <<>> BY <2>1 DEF ProtocolInv, Quiet
  <2>3. ASSUME NEW a \in InExchange, pc[a] # "define", toAgent # <<>>
        PROVE  Reply.kind \in Understood[pc[a]]
    <3>1. \/ pc[a] \in DOMAIN RequestOf /\ (AwaitAck(RequestOf[pc[a]]) \/ Acked(RequestOf[pc[a]]))
          \/ pc[a] = "checkReply" /\ a \in Threads /\ CheckPhase(a)
          \/ pc[a] \in AnswerPoints /\ a \in Threads /\ AnswerPhase(a)
          \/ pc[a] \in HelperPoints /\ a = VM /\ HelpersPhase
      BY <2>1, Phases
    <3>2. CASE pc[a] \in DOMAIN RequestOf /\ (AwaitAck(RequestOf[pc[a]]) \/ Acked(RequestOf[pc[a]]))
      <4>1. toAgent = <<Text("ack_req_msg")>> BY <2>3, <3>2 DEF AwaitAck, Acked
      <4>2. Reply.kind = "ack_req_msg" BY <4>1 DEF Reply, Text
      <4> QED BY <3>2, <4>2 DEF RequestOf, Understood, HookReceives, VMReceives
    <3>3. CASE pc[a] = "checkReply" /\ CheckPhase(a)
      <4>1. toAgent = <<Text("no")>> \/ toAgent = <<Text("yes")>> BY <2>3, <3>3 DEF CheckPhase
      <4>2. Reply.kind \in {"yes", "no"} BY <4>1 DEF Reply, Text
      <4> QED BY <3>3, <4>2 DEF Understood, HookReceives
    <3>4. CASE pc[a] \in AnswerPoints /\ a \in Threads /\ AnswerPhase(a)
      <4>1. ~Cut(a) BY <2>1, <2>3, <3>4, AskedOnce DEF Cut
      <4>2. ~Unhandled(a) BY <2>3 DEF Unhandled
      <4>3. PICK r \in Labellings : Answer(r, a) BY <3>4, <4>1, <4>2 DEF AnswerPhase
      <4>4. Walk(r, toAgent) /\ r[1].at = pc[a] BY <2>3, <4>3 DEF Answer, Path, PointOf
      <4>5. Follows(r[1], Reply, r[2]) BY <2>1, <2>3, <4>4, WalkBack DEF Reply
      <4> QED BY <2>3, <3>4, <4>4, <4>5, Scripted DEF Understood, HookReceives, VMReceives,
             AnswerPoints
    <3>5. CASE pc[a] \in HelperPoints /\ a = VM /\ HelpersPhase
      <4>1. PICK r \in Labellings : Path(r, VM) BY <2>3, <3>5 DEF HelpersPhase, AwaitAck
      <4>2. Walk(r, toAgent) /\ r[1].at = pc[a] BY <3>5, <4>1 DEF Path, PointOf, HelperPoints
      <4>3. Follows(r[1], Reply, r[2]) BY <2>1, <2>3, <4>2, WalkBack DEF Reply
      <4> QED BY <3>5, <4>2, <4>3, Scripted DEF Understood, HookReceives, VMReceives, HelperPoints
    <3> QED BY <3>1, <3>2, <3>3, <3>4, <3>5
  <2> QED BY <2>2, <2>3 DEF RepliesAligned
<1> QED BY <1>1, SingleRunHolds, PTL

\* The transformations never fail, and find the bytes of every interceptor and every class.
AllAnswered ==
  /\ \A c \in Classes : Verdict[c] # "error"
  /\ Interceptors \subseteq Shipped
  /\ Classes \subseteq Findable

\* Then nobody waits for a message that is not going to be sent.
THEOREM NobodyStarves ==
  ASSUME ~Overlap, SingleRun, OneLoader, AllAnswered
  PROVE  Spec => []NeverStarved
<1>1. SingleInv => NeverStarved
  <2> SUFFICES ASSUME SingleInv, NEW a \in Actors, Starved(a) PROVE FALSE
    BY DEF NeverStarved
  <2>1. TypeInv /\ LoadInv BY DEF SingleInv, RunInv
  <2>2. /\ a \in Threads /\ pc[a] \in AnswerPoints
        /\ Unanswerable(class[a]) \/ RefersToMissing(class[a]) \/ AskedElsewhere(a)
    BY StarvedWhy
  <2>3. class[a] \in Classes BY <2>1, <2>2 DEF TypeInv, HookInv, AnswerPoints
  <2>4. ~Unanswerable(class[a]) BY <2>3, ServerAssumption DEF Unanswerable, AllAnswered
  <2>5. ~RefersToMissing(class[a]) BY <2>3, NamesAssumption DEF RefersToMissing, AllAnswered
  <2> QED BY <2>1, <2>2, <2>4, <2>5, AskedOnce
<1> QED BY <1>1, SingleRunHolds, PTL

\* A class is transformed only after the server has it and everything it refers to.
THEOREM DependenciesArriveFirst ==
  ASSUME ~Overlap, SingleRun, Classes \subseteq Findable
  PROVE  Spec => []DependenciesFirst
<1>1. SingleInv => DependenciesFirst
  <2> SUFFICES ASSUME SingleInv, position = "instrumentName", toServer # <<>>
               PROVE  ClassNamed(Request) # None
                        /\ {ClassNamed(Request)} \cup Refs[ClassNamed(Request)] \subseteq ServerHas
    BY DEF DependenciesFirst
  <2>1. TypeInv /\ MonitorInv /\ QuietInv /\ LoadInv /\ CachingInv /\ ProtocolInv
    BY DEF SingleInv, RunInv
  <2>2. PICK t \in Threads : Unhandled(t) BY <2>1, ServerKnows
  <2>3. pc[t] = "aux" /\ toServer = <<Name(class[t])>> BY <2>2 DEF Unhandled
  <2>4. class[t] \in Classes BY <2>1, <2>3 DEF TypeInv, HookInv
  <2>5. ClassNamed(Request) = class[t] /\ class[t] # None
    BY <2>3, <2>4, NamesAssumption DEF ClassNamed, Name, Request
  <2>6. \A c \in classesCache : c \in ServerHas BY <2>1 DEF CachingInv, Has, ServerHas
  <2>7. class[t] \in classesCache BY <2>1, <2>3 DEF CachingInv, AnswerPoints
  <2>8. \A u \in Threads : todo[u] = {} /\ pc[u] \notin SendPoints
    <3>1. t \in InExchange BY <2>1, <2>3, Types DEF InExchange, HookReceives
    <3>2. \A u \in Threads : pc[u] \notin {"idle", "enter", "prepare"} => u = t
      BY <2>1, <3>1, Alone
    <3>3. \A u \in Threads : pc[u] \notin SendPoints \cup {"deps"}
      BY <2>3, <3>2 DEF SendPoints
    <3> QED BY <2>1, <3>3 DEF LoadInv
  <2>9. \A d \in Refs[class[t]] : d \in ServerHas
    <3>1. Refs[class[t]] \subseteq Findable BY <2>4, NamesAssumption
    <3> QED BY <2>1, <2>6, <2>7, <2>8, <3>1 DEF CachingInv, ServerHas
  <2> QED BY <2>5, <2>6, <2>7, <2>9
<1> QED BY <1>1, SingleRunHolds, PTL

(* The refinement of ClassLoading *)

\* The application has no class by the name of one of the library's.
OwnNames == Classes \cap (Helpers \cup Auxiliaries \cup Interceptors) = {}

\* Who owns the monitor is past EnterHook.
OwnerInv == \A t \in Threads : monitor = t => pc[t] \notin {"idle", "enter", "prepare"}
\* The JVM is not initialized before VMInit.
BootInv == pc[VM] = "boot" => ~vmStarted
\* Where an actor holds the name of a class that becomes an ignored one.
NamedPoints == {"auxLength", "auxBytes", "interceptorLength", "interceptorBytes", "helperLength",
                "helperBytes"}
\* The application's classes are never ignored: their names do not come from the server.
NamesInv ==
  /\ \A i \in 1..Len(toAgent) : toAgent[i].kind = "name" => toAgent[i].of \notin Classes
  /\ \A a \in Actors : pc[a] \in NamedPoints => got[a] \notin Classes
  /\ unsent \cap Classes = {} /\ ignoredClasses \cap Classes = {}
\* The server says "no" only to a class that is to stay as it is.
VerdictInv ==
  \A i \in 1..Len(toAgent) : toAgent[i].kind = "ack_req_int_no" =>
    \A t \in Threads : pc[t] \in AnswerPoints => Verdict[class[t]] = "ignore"
\* What the refinement needs besides SingleInv.
ServedInv == OwnerInv /\ BootInv /\ NamesInv /\ VerdictInv

\* The names in the messages are of U, and there is a "no" among them only if v.
Harmless(msgs, U, v) ==
  /\ msgs \in Seq(Message)
  /\ \A k \in 1..Len(msgs) : /\ msgs[k].kind = "name" => msgs[k].of \in U
                             /\ msgs[k].kind = "ack_req_int_no" => v

\* Messages put together of such messages.
LEMMA HarmlessJoined ==
  ASSUME NEW x, NEW y, NEW U, NEW v \in BOOLEAN, Harmless(x, U, v), Harmless(y, U, v)
  PROVE  Harmless(x \o y, U, v)
<1>1. x \in Seq(Message) /\ y \in Seq(Message) BY DEF Harmless
<1>2. /\ x \o y \in Seq(Message) /\ Len(x \o y) = Len(x) + Len(y)
      /\ \A i \in 1..Len(x) : (x \o y)[i] = x[i]
      /\ \A j \in 1..Len(y) : (x \o y)[Len(x) + j] = y[j]
  BY <1>1, JoinedMessages
<1>3. \A i \in 1..Len(x \o y) : i \in 1..Len(x) \/ \E j \in 1..Len(y) : i = Len(x) + j
  <2> TAKE i \in 1..Len(x \o y)
  <2>1. i \in 1..Len(x) \/ (i - Len(x) \in 1..Len(y) /\ i = Len(x) + (i - Len(x)))
    BY <1>1, <1>2
  <2> QED BY <2>1
<1> QED BY <1>2, <1>3 DEF Harmless

\* A class in transit is its name, and two messages without one.
LEMMA HarmlessParts ==
  ASSUME NEW n \in Names \cup {None}, NEW U, NEW v \in BOOLEAN
  PROVE  /\ n \in U => Harmless(Blob(n), U, v) /\ Harmless(<<Name(n)>>, U, v)
         /\ Harmless(Payload(n), U, v) /\ Harmless(<<>>, U, v)
<1>1. /\ Blob(n) \in Seq(Message) /\ Len(Blob(n)) = 3 /\ Blob(n)[1] = [kind |-> "name", of |-> n]
      /\ Blob(n)[2] = [kind |-> "length", of |-> n] /\ Blob(n)[3] = [kind |-> "bytes", of |-> n]
      /\ Payload(n) \in Seq(Message) /\ Len(Payload(n)) = 2
      /\ Payload(n)[1] = [kind |-> "length", of |-> n]
      /\ Payload(n)[2] = [kind |-> "bytes", of |-> n]
  BY BlobParts
<1>2. Harmless(Payload(n), U, v)
  <2>1. \A k \in 1..Len(Payload(n)) : Payload(n)[k].kind \in {"length", "bytes"} BY <1>1
  <2> QED BY <1>1, <2>1 DEF Harmless
<1>3. n \in U => Harmless(Blob(n), U, v)
  <2>1. \A k \in 1..Len(Blob(n)) : Blob(n)[k].kind \in {"name", "length", "bytes"} /\ Blob(n)[k].of = n
    BY <1>1
  <2> QED BY <1>1, <2>1 DEF Harmless
<1>4. n \in U => Harmless(<<Name(n)>>, U, v)
  <2>1. Name(n) \in Message BY BlobIsMessages
  <2> QED BY <2>1 DEF Harmless, Name
<1>5. Harmless(<<>>, U, v) BY DEF Harmless
<1> QED BY <1>2, <1>3, <1>4, <1>5

\* A text names no class.
LEMMA HarmlessText ==
  ASSUME NEW k \in Texts, NEW U, NEW v \in BOOLEAN, k = "ack_req_int_no" => v
  PROVE  Harmless(<<Text(k)>>, U, v)
<1>1. Text(k) \in Message BY TextIsMessage
<1>2. k # "name" BY DEF Texts
<1> QED BY <1>1, <1>2 DEF Harmless, Text

\* What the server sends in one step: names of what it has still to send, and "no" only in answer to
\* the request for a class that is to stay as it is.
LEMMA ServerSays ==
  ASSUME TypeInv, ServerNext, NEW v \in BOOLEAN,
         v <=> position = "instrumentName" /\ Verdict[ClassNamed(Request)] = "ignore"
  PROVE  \E msgs : toAgent' = toAgent \o msgs /\ Harmless(msgs, unsent, v)
<1>0. toAgent \in Seq(Message) /\ unsent \subseteq Names BY Types
<1>n. Harmless(<<>>, unsent, v) BY HarmlessParts
<1>k. UNCHANGED toAgent => toAgent' = toAgent \o <<>> BY <1>0
<1>t. \A k \in Texts \ {"ack_req_int_no"} : Harmless(<<Text(k)>>, unsent, v) BY HarmlessText
<1>p. \A n \in Names : Harmless(Payload(n), unsent, v) BY HarmlessParts
<1>b. \A n \in unsent : Harmless(Blob(n), unsent, v) /\ Harmless(<<Name(n)>>, unsent, v)
  BY <1>0, HarmlessParts
<1>j. \A x, y : Harmless(x, unsent, v) /\ Harmless(y, unsent, v) => Harmless(x \o y, unsent, v)
  BY HarmlessJoined
<1>1. CASE ReceiveRequest
  <2>1. \/ toAgent' = toAgent \o <<Text("ack_req_msg"), Text("count")>>
        \/ toAgent' = toAgent \o <<Text("ack_req_msg")>>
    BY <1>1 DEF ReceiveRequest, ServerSends
  <2>2. <<Text("ack_req_msg"), Text("count")>> = <<Text("ack_req_msg")>> \o <<Text("count")>>
    OBVIOUS
  <2>3. Harmless(<<Text("ack_req_msg")>>, unsent, v) /\ Harmless(<<Text("count")>>, unsent, v)
    BY <1>t DEF Texts
  <2> QED BY <1>j, <2>1, <2>2, <2>3
<1>2. CASE SendHelperClass BY <1>2, <1>b DEF SendHelperClass, ServerSends
<1>3. CASE ReceiveRegisterName \/ ReceiveRegisterBytes
  BY <1>3, <1>k, <1>n DEF ReceiveRegisterName, ReceiveRegisterBytes
<1>4. CASE ReceiveCheckName
  <2>1. PICK k \in {"yes", "no"} : toAgent' = toAgent \o <<Text(k)>>
    BY <1>4 DEF ReceiveCheckName, ServerSends
  <2> QED BY <1>t, <2>1 DEF Texts
<1>5. CASE HandleInstrument
  <2> PICK c : c = ClassNamed(Request) OBVIOUS
  <2>1. position = "instrumentName" BY <1>5 DEF HandleInstrument
  <2>2. \/ c \in Cached /\ AnswerFromCache(c)
        \/ AnswerNull(c, <<>>)
        \/ /\ Verdict[c] = "ignore"
           /\ AnswerNull(c, <<Text("no_more_aux_classes"), Text("no_more_initializers"),
                              Text("ack_req_int_no")>>)
        \/ AnswerMatch(c)
    BY <1>5 DEF HandleInstrument
  <2>3. CASE c \in Cached /\ AnswerFromCache(c)
    <3>1. c \in Names BY <2>3 DEF Cached, Names
    <3>2. toAgent' = toAgent \o Payload(c) \/ toAgent' = toAgent \o <<>>
      BY <2>3 DEF AnswerFromCache, ServerSends
    <3> QED BY <1>n, <1>p, <3>1, <3>2
  <2>4. CASE AnswerNull(c, <<>>) BY <1>n, <2>4 DEF AnswerNull, ServerSends
  <2>5. CASE /\ Verdict[c] = "ignore"
             /\ AnswerNull(c, <<Text("no_more_aux_classes"), Text("no_more_initializers"),
                                Text("ack_req_int_no")>>)
    <3>1. v BY <2>1, <2>5
    <3>2. Harmless(<<Text("ack_req_int_no")>>, unsent, v) BY <3>1, HarmlessText DEF Texts
    <3>3. /\ Harmless(<<Text("no_more_aux_classes")>>, unsent, v)
          /\ Harmless(<<Text("no_more_initializers")>>, unsent, v)
      BY <1>t DEF Texts
    <3>4. <<Text("no_more_aux_classes"), Text("no_more_initializers"), Text("ack_req_int_no")>>
            = (<<Text("no_more_aux_classes")>> \o <<Text("no_more_initializers")>>)
                \o <<Text("ack_req_int_no")>>
      OBVIOUS
    <3> QED BY <1>j, <2>5, <3>2, <3>3, <3>4 DEF AnswerNull, ServerSends
  <2>6. CASE AnswerMatch(c) BY <1>k, <1>n, <2>6 DEF AnswerMatch
  <2> QED BY <2>2, <2>3, <2>4, <2>5, <2>6
<1>6. CASE SendAuxiliary
  <2>1. Harmless(<<Text("auxiliary_types")>>, unsent, v) BY <1>t DEF Texts
  <2>2. PICK a \in unsent : toAgent' = toAgent \o (<<Text("auxiliary_types")>> \o Blob(a))
    BY <1>6 DEF SendAuxiliary, ServerSends
  <2> QED BY <1>b, <1>j, <2>1, <2>2
<1>7. CASE EndAuxiliaries BY <1>7, <1>t DEF EndAuxiliaries, ServerSends, Texts
<1>8. CASE SendInitializer
  <2>1. PICK i \in unsent : InitializerStep(i, i \notin sendInterceptors, {i})
    BY <1>8 DEF SendInitializer
  <2> PICK code : code = (IF i \notin sendInterceptors THEN Payload(i) ELSE <<>>) OBVIOUS
  <2>2. toAgent' = toAgent \o (<<Text("initializers"), Name(i)>> \o code \o Blob(i))
    BY <2>1 DEF InitializerStep, ServerSends
  <2>3. <<Text("initializers"), Name(i)>> = <<Text("initializers")>> \o <<Name(i)>> OBVIOUS
  <2>4. Harmless(<<Text("initializers")>>, unsent, v) BY <1>t DEF Texts
  <2>5. Harmless(code, unsent, v) BY <1>0, <1>n, <1>p
  <2>6. Harmless(<<Text("initializers"), Name(i)>>, unsent, v) BY <1>b, <1>j, <2>3, <2>4
  <2>7. Harmless(<<Text("initializers"), Name(i)>> \o code, unsent, v) BY <1>j, <2>5, <2>6
  <2> QED BY <1>b, <1>j, <2>2, <2>7
<1>9. CASE FailInitializer
  <2>1. PICK i \in unsent : toAgent' = toAgent \o <<Text("initializers"), Name(i)>>
    BY <1>9 DEF FailInitializer, AnswerNull, ServerSends
  <2>3. <<Text("initializers"), Name(i)>> = <<Text("initializers")>> \o <<Name(i)>> OBVIOUS
  <2>4. Harmless(<<Text("initializers")>>, unsent, v) BY <1>t DEF Texts
  <2> QED BY <1>b, <1>j, <2>1, <2>3, <2>4
<1>10. CASE EndInitializers
  <2>1. position = "initializers" BY <1>10 DEF EndInitializers
  <2>2. subject \in Names BY <2>1 DEF TypeInv, StreamInv, Names
  <2>3. toAgent' = toAgent \o (<<Text("no_more_initializers"), Text("ack_req_int_yes")>>
                                  \o Payload(subject))
    BY <1>10 DEF EndInitializers, ServerSends
  <2>4. <<Text("no_more_initializers"), Text("ack_req_int_yes")>>
          = <<Text("no_more_initializers")>> \o <<Text("ack_req_int_yes")>>
    OBVIOUS
  <2>5. /\ Harmless(<<Text("no_more_initializers")>>, unsent, v)
        /\ Harmless(<<Text("ack_req_int_yes")>>, unsent, v)
    BY <1>t DEF Texts
  <2> QED BY <1>j, <1>p, <2>2, <2>3, <2>4, <2>5
<1> QED BY <1>1, <1>2, <1>3, <1>4, <1>5, <1>6, <1>7, <1>8, <1>9, <1>10 DEF ServerNext

\* What is still to be sent has no name of an application's class.
LEMMA ServerUnsent ==
  ASSUME TypeInv, OwnNames, unsent \cap Classes = {}, ServerNext
  PROVE  unsent' \cap Classes = {}
<1>1. \A c \in Classes : AuxiliariesOf[c] \cap Classes = {} /\ InterceptorsOf[c] \cap Classes = {}
  BY ServerAssumption DEF OwnNames
<1>2. Helpers \cap Classes = {} BY DEF OwnNames
<1>3. CASE unsent' \subseteq unsent BY <1>3
<1>4. CASE HandleInstrument
  <2> PICK c : c = ClassNamed(Request) OBVIOUS
  <2>1. \/ UNCHANGED unsent
        \/ Transformable(c) /\ unsent' = AuxiliariesOf[c]
    BY <1>4 DEF HandleInstrument, AnswerFromCache, AnswerNull, AnswerMatch
  <2>2. Transformable(c) => c \in Classes
    BY ServerAssumption DEF Transformable, TypeInv, TypeOK, ServerTypeOK
  <2> QED BY <1>1, <1>3, <2>1, <2>2
<1>5. CASE EndAuxiliaries
  <2>1. subject \in Classes /\ unsent' = InterceptorsOf[subject]
    BY <1>5 DEF EndAuxiliaries, TypeInv, StreamInv
  <2> QED BY <1>1, <2>1
<1>6. CASE ReceiveRequest BY <1>2, <1>3, <1>6 DEF ReceiveRequest
<1> QED BY <1>3, <1>4, <1>5, <1>6
  DEF ServerNext, SendHelperClass, ReceiveRegisterName, ReceiveRegisterBytes, ReceiveCheckName,
      SendAuxiliary, SendInitializer, InitializerStep, FailInitializer, AnswerNull, EndInitializers

\* The server keeps ServedInv.
LEMMA ServerKeepsServed ==
  ASSUME TypeInv, MonitorInv, QuietInv, ~Overlap, ProtocolInv, OwnNames, ServedInv,
         ServerNext, UNCHANGED agent
  PROVE  ServedInv'
<1>1. UNCHANGED <<pc, class, got, monitor, vmStarted, ignoredClasses>>
  BY DEF agent, frame, locks, tables, jvm
<1>2. OwnerInv' /\ BootInv' BY <1>1 DEF ServedInv, OwnerInv, BootInv
<1> PICK v \in BOOLEAN : v <=> position = "instrumentName" /\ Verdict[ClassNamed(Request)] = "ignore"
  OBVIOUS
<1>3. PICK msgs : toAgent' = toAgent \o msgs /\ Harmless(msgs, unsent, v) BY ServerSays
<1>4. toAgent \in Seq(Message) /\ msgs \in Seq(Message) BY <1>3, Types DEF Harmless
<1>5. \A i \in 1..Len(toAgent') : \/ \E j \in 1..Len(toAgent) : toAgent'[i] = toAgent[j]
                                  \/ \E k \in 1..Len(msgs) : toAgent'[i] = msgs[k]
  <2>1. /\ Len(toAgent') = Len(toAgent) + Len(msgs)
        /\ \A i \in 1..Len(toAgent) : toAgent'[i] = toAgent[i]
        /\ \A j \in 1..Len(msgs) : toAgent'[Len(toAgent) + j] = msgs[j]
    BY <1>3, <1>4, JoinedMessages
  <2> TAKE i \in 1..Len(toAgent')
  <2>2. \/ i \in 1..Len(toAgent)
        \/ i - Len(toAgent) \in 1..Len(msgs) /\ i = Len(toAgent) + (i - Len(toAgent))
    BY <1>4, <2>1
  <2> QED BY <2>1, <2>2
<1>6. NamesInv'
  <2>1. \A i \in 1..Len(toAgent') : toAgent'[i].kind = "name" => toAgent'[i].of \notin Classes
    BY <1>3, <1>5 DEF ServedInv, NamesInv, Harmless
  <2>2. unsent' \cap Classes = {} BY ServerUnsent DEF ServedInv, NamesInv
  <2> QED BY <1>1, <2>1, <2>2 DEF ServedInv, NamesInv
<1>7. v => \A t \in Threads : pc[t] \in AnswerPoints => Verdict[class[t]] = "ignore"
  <2> SUFFICES ASSUME v, NEW t \in Threads, pc[t] \in AnswerPoints
               PROVE  Verdict[class[t]] = "ignore"
    OBVIOUS
  <2>1. position = "instrumentName" /\ toServer # <<>>
    BY ServerAt DEF Receiving
  <2>2. PICK u \in Threads : Unhandled(u) BY <2>1, ServerKnows
  <2>3. pc[u] = "aux" /\ toServer = <<Name(class[u])>> BY <2>2 DEF Unhandled
  <2>4. class[u] \in Classes BY <2>3 DEF TypeInv, HookInv
  <2>5. ClassNamed(Request) = class[u] BY <2>3, <2>4 DEF ClassNamed, Name, Request
  <2>6. t = u
    <3>1. pc[t] \notin {"idle", "enter", "prepare"} /\ pc[u] \notin {"idle", "enter", "prepare"}
      BY <2>3 DEF AnswerPoints
    <3> QED BY <3>1 DEF MonitorInv
  <2> QED BY <2>5, <2>6
<1>8. VerdictInv' BY <1>1, <1>3, <1>5, <1>7 DEF ServedInv, VerdictInv, Harmless
<1> QED BY <1>2, <1>6, <1>8 DEF ServedInv

\* What a step of a hook does to the names.
HookNames(t) ==
  /\ \A i \in 1..Len(toAgent') : \E j \in 1..Len(toAgent) : toAgent'[i] = toAgent[j]
  /\ pc'[t] \in NamedPoints => got'[t] \notin Classes
  /\ ignoredClasses' \cap Classes = {}
  /\ pc'[t] \in AnswerPoints => (pc[t] \in AnswerPoints /\ class'[t] = class[t]) \/ toAgent' = <<>>
  /\ vmStarted' = vmStarted

\* What is left of the replies was there before.
LEMMA TakenReplies ==
  ASSUME toAgent \in Seq(Message), UNCHANGED toAgent \/ AgentTakes
  PROVE  \A i \in 1..Len(toAgent') : \E j \in 1..Len(toAgent) : toAgent'[i] = toAgent[j]
<1>1. CASE UNCHANGED toAgent BY <1>1
<1>2. CASE AgentTakes
  <2>1. toAgent # <<>> /\ toAgent' = Tail(toAgent) BY <1>2 DEF AgentTakes
  <2>2. /\ Len(toAgent) \in Nat \ {0} /\ Len(Tail(toAgent)) = Len(toAgent) - 1
        /\ \A i \in 1..Len(Tail(toAgent)) : Tail(toAgent)[i] = toAgent[i + 1]
    BY <2>1, Taken
  <2>3. \A i \in 1..Len(Tail(toAgent)) : i + 1 \in 1..Len(toAgent) BY <2>2
  <2> QED BY <2>1, <2>2, <2>3
<1> QED BY <1>1, <1>2

\* A hook that reads a name reads no application's.
LEMMA NameRead ==
  ASSUME TypeInv, MonitorInv, QuietInv, DefineInv, ProtocolInv, ~Overlap, NamesInv,
         NEW t \in Threads, HookStep(t), pc[t] \in {"auxName", "interceptorName"}, AgentTakes
  PROVE  Reply.of \notin Classes
<1>1. pc[t] \in AnswerPoints \ {"define"} /\ ~Cut(t) BY DEF AnswerPoints, Cut
<1>2. PICK r \in Labellings : /\ r[1].at = pc[t] /\ Follows(r[1], Reply, r[2])
                              /\ 1 \in 1..Len(toAgent) /\ Reply = toAgent[1]
  BY <1>1, AnswerReads
<1>3. Reply.kind = "name" BY <1>2, Scripted
<1> QED BY <1>2, <1>3 DEF NamesInv

\* Every step of a hook is of that form.
LEMMA HookKeepsNames ==
  ASSUME TypeInv, MonitorInv, QuietInv, DefineInv, ProtocolInv, ~Overlap, NamesInv,
         NEW t \in Threads, HookStep(t)
  PROVE  HookNames(t)
<1>0. /\ toAgent \in Seq(Message) /\ t \in Actors
      /\ ignoredClasses \cap Classes = {} /\ (pc[t] \in NamedPoints => got[t] \notin Classes)
      /\ pc \in [Actors -> HookPoints \cup VMPoints] /\ got \in [Actors -> Names \cup {None}]
  BY Types DEF NamesInv
<1>1. \A p : Goto(t, p) => pc'[t] = p BY <1>0 DEF Goto
<1>2. \A n : got' = [got EXCEPT ![t] = n] => got'[t] = n BY <1>0
<1>3. (UNCHANGED toAgent \/ AgentTakes) =>
        \A i \in 1..Len(toAgent') : \E j \in 1..Len(toAgent) : toAgent'[i] = toAgent[j]
  BY <1>0, TakenReplies
<1>4. UNCHANGED tables => UNCHANGED ignoredClasses BY DEF tables
<1>5. UNCHANGED frame => UNCHANGED class BY DEF frame
<1>6. UNCHANGED jvm \/ Abort => UNCHANGED vmStarted BY DEF jvm, Abort
<1>7. \A o : Loads(t, o) => UNCHANGED vmStarted BY DEF Loads
<1>8. UNCHANGED wire => UNCHANGED toAgent BY DEF wire
<1> USE DEF At, NamedPoints, AnswerPoints, HookNames
<1>10. CASE EnterHook(t) BY <1>0, <1>1, <1>3, <1>4, <1>5, <1>6, <1>7, <1>8, <1>10 DEF EnterHook
<1>11. CASE FoundInCache(t) BY <1>0, <1>1, <1>3, <1>4, <1>5, <1>6, <1>8, <1>11 DEF FoundInCache
<1>12. CASE AskHasClass(t) BY <1>0, <1>1, <1>3, <1>4, <1>5, <1>6, <1>12 DEF AskHasClass
<1>13. CASE CheckAck(t) BY <1>0, <1>1, <1>3, <1>4, <1>5, <1>6, <1>13 DEF CheckAck, Acknowledged
<1>14. CASE CheckReply(t) BY <1>0, <1>1, <1>3, <1>5, <1>6, <1>14 DEF CheckReply
<1>15. CASE SendClassData(t) BY <1>0, <1>1, <1>3, <1>4, <1>5, <1>6, <1>15 DEF SendClassData
<1>16. CASE TriggerLoading(t) BY <1>0, <1>1, <1>3, <1>4, <1>5, <1>6, <1>8, <1>16 DEF TriggerLoading
<1>17. CASE RegisterAck(t) BY <1>0, <1>1, <1>3, <1>6, <1>17 DEF RegisterAck, Acknowledged
<1>18. CASE NextDependency(t) BY <1>0, <1>1, <1>3, <1>4, <1>6, <1>8, <1>18 DEF NextDependency
<1>19. CASE RequestInstrument(t) BY <1>0, <1>1, <1>3, <1>4, <1>5, <1>6, <1>19 DEF RequestInstrument
<1>20. CASE InstrumentAck(t)
  <2>1. pc[t] = "instrumentAck" /\ pc[t] \in HookReceives /\ AgentTakes
    BY <1>20 DEF InstrumentAck, Acknowledged, HookReceives
  <2>2. AwaitAck("INSTRUMENT") \/ Acked("INSTRUMENT")
    BY <2>1, HookProtocol DEF Exchange, RequestOf
  <2>3. toAgent = <<Text("ack_req_msg")>> BY <2>1, <2>2 DEF AwaitAck, Acked, AgentTakes
  <2>4. toAgent' = <<>> BY <2>1, <2>3 DEF AgentTakes
  <2> QED BY <1>0, <1>1, <1>3, <1>4, <1>5, <1>6, <1>20, <2>1, <2>4 DEF InstrumentAck, Acknowledged
<1>21. CASE ReceiveAuxMarker(t)
  BY <1>0, <1>1, <1>3, <1>4, <1>5, <1>6, <1>21 DEF ReceiveAuxMarker
<1>22. CASE ReceiveAuxName(t)
  <2>1. Reply.of \notin Classes BY <1>22, NameRead DEF ReceiveAuxName
  <2> QED BY <1>0, <1>1, <1>2, <1>3, <1>4, <1>5, <1>6, <1>22, <2>1 DEF ReceiveAuxName
<1>23. CASE ReceiveAuxBytes(t)
  BY <1>0, <1>1, <1>3, <1>5, <1>6, <1>23 DEF ReceiveAuxBytes
<1>24. CASE ReceiveInitMarker(t)
  BY <1>0, <1>1, <1>3, <1>4, <1>5, <1>6, <1>24 DEF ReceiveInitMarker
<1>25. CASE ReceiveInterceptorName(t)
  <2>1. Reply.of \notin Classes BY <1>25, NameRead DEF ReceiveInterceptorName
  <2> QED BY <1>0, <1>1, <1>2, <1>3, <1>4, <1>5, <1>6, <1>25, <2>1 DEF ReceiveInterceptorName
<1>26. CASE ReceiveInterceptorBytes(t)
  BY <1>0, <1>1, <1>3, <1>5, <1>6, <1>26 DEF ReceiveInterceptorBytes
<1>27. CASE DefineInterceptor(t)
  BY <1>0, <1>1, <1>3, <1>5, <1>6, <1>8, <1>27 DEF DefineInterceptor
<1>28. CASE ReceiveInitializerBytes(t)
  BY <1>0, <1>1, <1>3, <1>5, <1>28 DEF ReceiveInitializerBytes
<1>29. CASE ReceiveUnread(t)
  BY <1>0, <1>1, <1>3, <1>4, <1>5, <1>6, <1>29 DEF ReceiveUnread, AfterUnread
<1>30. CASE ReceiveVerdict(t)
  BY <1>0, <1>1, <1>3, <1>4, <1>5, <1>6, <1>7, <1>30 DEF ReceiveVerdict
<1>31. CASE ReceiveNewBytes(t)
  BY <1>0, <1>1, <1>3, <1>4, <1>5, <1>7, <1>31 DEF ReceiveNewBytes
<1>32. CASE ExitHook(t) BY <1>0, <1>1, <1>3, <1>4, <1>6, <1>8, <1>32 DEF ExitHook
<1> QED BY HookStep(t), <1>10, <1>11, <1>12, <1>13, <1>14, <1>15, <1>16, <1>17, <1>18, <1>19,
    <1>20, <1>21, <1>22, <1>23, <1>24, <1>25, <1>26, <1>27, <1>28, <1>29, <1>30, <1>31,
        <1>32 DEF HookStep

\* A hook keeps ServedInv.
LEMMA HookKeepsServed ==
  ASSUME TypeInv, MonitorInv, QuietInv, DefineInv, ProtocolInv, ~Overlap, ServedInv,
         NEW t \in Threads, HookStep(t), UNCHANGED server
  PROVE  ServedInv'
<1>0. PcTypeOK /\ HookFrame(t) /\ HookNames(t) /\ UNCHANGED unsent
  BY HookFrames, HookKeepsNames DEF TypeInv, TypeOK, AgentTypeOK, ServedInv, server
<1>1. Actors = Threads \cup {VM} /\ VM \notin Threads /\ None \notin Threads
  BY AgentAssumption DEF Actors
<1>2. Enters(t) \/ Exits(t) \/ Remains(t) BY <1>0, HookMoves
<1>3. OwnerInv'
  <2>1. CASE Enters(t)
    <3>1. pc'[t] \notin {"idle", "prepare"} BY <1>0, <2>1 DEF HookFrame, Enters
    <3>2. pc'[t] # "enter"
      BY <2>1, <1>0, HookStep(t)
      DEF HookStep, EnterHook, FoundInCache, AskHasClass, CheckAck, CheckReply, SendClassData, At, Goto,
          TriggerLoading, RegisterAck, NextDependency, RequestInstrument, InstrumentAck, Enters,
          ReceiveAuxMarker, ReceiveAuxName, ReceiveAuxBytes, ReceiveInitMarker,
          ReceiveInterceptorName, ReceiveInterceptorBytes, DefineInterceptor, ReceiveInitializerBytes,
          ReceiveUnread, AfterUnread, ReceiveVerdict, ReceiveNewBytes, ExitHook, PcTypeOK, Actors
    <3> QED BY <2>1, <3>1, <3>2 DEF OwnerInv, Enters
  <2>2. CASE Exits(t) BY <1>1, <2>2 DEF OwnerInv, Exits
  <2>3. CASE Remains(t)
    <3>1. monitor' = t BY <2>3 DEF Remains, MonitorInv
    <3>2. pc'[t] \notin {"enter", "prepare"} BY <1>0, <2>3 DEF HookFrame, Remains
    <3>3. pc'[t] # "idle"
      <4>1. pc[t] = "exit" => monitor' = None
        BY HookStep(t)
        DEF HookStep, EnterHook, FoundInCache, AskHasClass, CheckAck, CheckReply, SendClassData, At,
            TriggerLoading, RegisterAck, NextDependency, RequestInstrument, InstrumentAck,
            ReceiveAuxMarker, ReceiveAuxName, ReceiveAuxBytes, ReceiveInitMarker,
            ReceiveInterceptorName, ReceiveInterceptorBytes, DefineInterceptor, ReceiveInitializerBytes,
            ReceiveUnread, AfterUnread, ReceiveVerdict, ReceiveNewBytes, ExitHook
      <4> QED BY <1>0, <1>1, <3>1, <4>1 DEF HookFrame
    <3> QED BY <3>1, <3>2, <3>3 DEF OwnerInv
  <2> QED BY <1>2, <2>1, <2>2, <2>3
<1>4. BootInv' BY <1>0, <1>1 DEF ServedInv, BootInv, HookFrame, HookNames
<1>5. NamesInv'
  <2>1. \A i \in 1..Len(toAgent') : toAgent'[i].kind = "name" => toAgent'[i].of \notin Classes
    BY <1>0 DEF ServedInv, NamesInv, HookNames
  <2>2. \A a \in Actors : pc'[a] \in NamedPoints => got'[a] \notin Classes
    BY <1>0, <1>1 DEF ServedInv, NamesInv, HookNames, HookFrame
  <2> QED BY <1>0, <2>1, <2>2 DEF ServedInv, NamesInv, HookNames
<1>6. VerdictInv'
  <2> SUFFICES ASSUME NEW i \in 1..Len(toAgent'), toAgent'[i].kind = "ack_req_int_no",
                      NEW u \in Threads, pc'[u] \in AnswerPoints
               PROVE  Verdict[class'[u]] = "ignore"
    BY DEF VerdictInv
  <2>1. PICK j \in 1..Len(toAgent) : toAgent'[i] = toAgent[j] BY <1>0 DEF HookNames
  <2>2. pc[u] \in AnswerPoints /\ class'[u] = class[u]
    <3>1. CASE u = t
      <4>1. toAgent' # <<>> OBVIOUS
      <4> QED BY <1>0, <3>1, <4>1 DEF HookNames
    <3>2. CASE u # t BY <1>0, <1>1, <3>2 DEF HookFrame
    <3> QED BY <3>1, <3>2
  <2> QED BY <2>1, <2>2 DEF ServedInv, VerdictInv
<1> QED BY <1>3, <1>4, <1>5, <1>6 DEF ServedInv

\* VMInit and VMDeath keep ServedInv.
LEMMA VMKeepsServed ==
  ASSUME TypeInv, ProtocolInv, ServedInv, VMStep, UNCHANGED server
  PROVE  ServedInv'
<1>0. /\ toAgent \in Seq(Message) /\ Actors = Threads \cup {VM} /\ VM \notin Threads
      /\ pc \in [Actors -> HookPoints \cup VMPoints] /\ got \in [Actors -> Names \cup {None}]
  BY Types DEF Actors
<1>1. VMFrame /\ UNCHANGED unsent BY VMFrames DEF server
<1>2. UNCHANGED monitor
  BY DEF VMStep, VMInit, HelpersAck, HelpersCount, HelperName, HelperLength, HelperBytes,
         VMDeath, StopAck, locks
<1>3. OwnerInv' BY <1>1, <1>2 DEF ServedInv, OwnerInv, VMFrame
<1>4. \A p : Goto(VM, p) => pc'[VM] = p BY <1>0 DEF Goto
<1>5. \A n : got' = [got EXCEPT ![VM] = n] => got'[VM] = n BY <1>0
<1>6. BootInv'
  <2>1. pc'[VM] # "boot"
    BY <1>4 DEF VMStep, VMInit, HelpersAck, HelpersCount, HelperName, HelperLength, HelperBytes,
         VMDeath, StopAck, Acknowledged, At
  <2> QED BY <2>1 DEF BootInv
<1>7. UNCHANGED toAgent \/ AgentTakes
  BY DEF VMStep, VMInit, HelpersAck, HelpersCount, HelperName, HelperLength, HelperBytes,
         VMDeath, StopAck, Acknowledged
<1>8. \A i \in 1..Len(toAgent') : \E j \in 1..Len(toAgent) : toAgent'[i] = toAgent[j]
  BY <1>0, <1>7, TakenReplies
<1>9. VerdictInv'
  <2>1. \A t \in Threads : pc'[t] = pc[t] /\ class'[t] = class[t] BY <1>1 DEF VMFrame
  <2> QED BY <1>8, <2>1 DEF ServedInv, VerdictInv
<1>10. pc'[VM] \in NamedPoints => got'[VM] \notin Classes
  <2>1. CASE HelperName
    <3>1. pc[VM] = "helperName" /\ AgentTakes /\ got'[VM] = Reply.of
      BY <1>5, <2>1 DEF HelperName, At
    <3>2. VM \in InExchange /\ pc[VM] \in HelperPoints
      BY <1>0, <3>1 DEF InExchange, VMReceives, HelperPoints
    <3>3. HelpersPhase BY <3>2 DEF ProtocolInv, Exchange
    <3>4. Reply.kind = "name" BY <3>1, <3>2, <3>3, HelpersGoOn
    <3>5. Reply = toAgent[1] /\ 1 \in 1..Len(toAgent)
      BY <1>0, <3>1, Taken DEF Reply, AgentTakes
    <3> QED BY <3>1, <3>4, <3>5 DEF ServedInv, NamesInv
  <2>2. CASE HelperLength
    <3>1. pc[VM] = "helperLength" /\ UNCHANGED got BY <2>2 DEF HelperLength, At
    <3> QED BY <1>0, <3>1 DEF ServedInv, NamesInv, NamedPoints
  <2>3. CASE VMInit \/ HelpersAck \/ HelpersCount \/ HelperBytes \/ VMDeath \/ StopAck
    <3>1. pc'[VM] \notin NamedPoints
      BY <1>4, <2>3 DEF VMInit, HelpersAck, HelpersCount, HelperBytes, VMDeath, StopAck, At,
           Acknowledged, NamedPoints
    <3> QED BY <3>1
  <2> QED BY <2>1, <2>2, <2>3 DEF VMStep
<1>11. ignoredClasses' \cap Classes = {}
  <2>1. CASE HelperBytes
    <3>1. pc[VM] = "helperBytes" /\ ignoredClasses' = ignoredClasses \cup {got[VM]}
      BY <2>1 DEF HelperBytes, At
    <3> QED BY <1>0, <3>1 DEF ServedInv, NamesInv, NamedPoints
  <2>2. CASE VMInit \/ HelpersAck \/ HelpersCount \/ HelperName \/ HelperLength \/ VMDeath \/ StopAck
    <3>1. UNCHANGED ignoredClasses
      BY <2>2 DEF VMInit, HelpersAck, HelpersCount, HelperName, HelperLength, VMDeath, StopAck,
           tables
    <3> QED BY <3>1 DEF ServedInv, NamesInv
  <2> QED BY <2>1, <2>2 DEF VMStep
<1>12. NamesInv'
  <2>1. \A i \in 1..Len(toAgent') : toAgent'[i].kind = "name" => toAgent'[i].of \notin Classes
    BY <1>8 DEF ServedInv, NamesInv
  <2>2. \A a \in Actors : pc'[a] \in NamedPoints => got'[a] \notin Classes
    BY <1>0, <1>1, <1>10 DEF ServedInv, NamesInv, VMFrame
  <2> QED BY <1>1, <1>11, <2>1, <2>2 DEF ServedInv, NamesInv
<1> QED BY <1>3, <1>6, <1>9, <1>12 DEF ServedInv

\* Loads that begin and classes that are prepared keep ServedInv.
LEMMA OutsideKeepsServed ==
  ASSUME TypeInv, ServedInv, UNCHANGED server, NEW t \in Threads,
         \/ LoadInitializersForClass(t)
         \/ \E c \in Classes, l \in Loaders : BeginLoad(t, c, l) \/ BeginPrepare(t, c, l)
  PROVE  ServedInv' /\ monitor # t /\ UNCHANGED <<monitor, vmStarted>>
<1>0. Outside(t) BY OutsideSteps
<1>1. UNCHANGED <<toAgent, unsent, ignoredClasses>> BY <1>0 DEF Outside, wire, server, tables
<1>2. UNCHANGED <<monitor, vmStarted>>
  BY DEF LoadInitializersForClass, BeginLoad, BeginPrepare, Prepared, Abort, locks, jvm
<1>3. Actors = Threads \cup {VM} /\ VM \notin Threads BY Types DEF Actors
<1>4. monitor # t BY <1>0 DEF ServedInv, OwnerInv, Outside
<1>5. OwnerInv' BY <1>0, <1>2, <1>3, <1>4 DEF ServedInv, OwnerInv, Outside
<1>6. BootInv' BY <1>0, <1>2, <1>3 DEF ServedInv, BootInv, Outside
<1>7. NamesInv'
  <2>1. \A a \in Actors : pc'[a] \in NamedPoints => got'[a] \notin Classes
    BY <1>0, <1>3 DEF ServedInv, NamesInv, Outside, NamedPoints
  <2> QED BY <1>1, <2>1 DEF ServedInv, NamesInv
<1>8. VerdictInv'
  <2>1. \A u \in Threads : pc'[u] \in AnswerPoints => pc[u] \in AnswerPoints /\ class'[u] = class[u]
    BY <1>0, <1>3 DEF Outside, AnswerPoints
  <2> QED BY <1>1, <2>1 DEF ServedInv, VerdictInv
<1> QED BY <1>2, <1>4, <1>5, <1>6, <1>7, <1>8 DEF ServedInv
\* Whoever owns the monitor is served, until its outcome is settled.
LEMMA ServingIs ==
  /\ monitor = None => Serving = {}
  /\ \A t \in Threads : monitor = t =>
       Serving = IF pc[t] = "exit" THEN {} ELSE {<<class[t], loader[t]>>}
BY AgentAssumption DEF Serving

\* So it is after a step.
LEMMA ServingBecomes ==
  /\ monitor' = None => Serving' = {}
  /\ \A t \in Threads : monitor' = t =>
       Serving' = IF pc'[t] = "exit" THEN {} ELSE {<<class'[t], loader'[t]>>}
BY AgentAssumption DEF Serving

\* A hook that returns new bytecode returns its own, and its class was to be instrumented.
LEMMA OwnBytes ==
  ASSUME TypeInv, MonitorInv, QuietInv, DefineInv, ProtocolInv, ~Overlap, NEW t \in Threads,
         ReceiveNewBytes(t)
  PROVE  Reply = Payload(class[t])[2] /\ Verdict[class[t]] = "match"
<1>1. pc[t] = "newBytes" /\ AgentTakes /\ HookStep(t) BY DEF ReceiveNewBytes, At, HookStep
<1>2. pc[t] \in AnswerPoints \ {"define"} /\ ~Cut(t) BY <1>1 DEF AnswerPoints, Cut
<1>3. PICK r \in Labellings : /\ Answer(r, t) /\ r[1].at = pc[t] /\ Reply \in Message
                              /\ Follows(r[1], Reply, r[2]) /\ 1 \in 1..Len(toAgent)
  BY <1>1, <1>2, AnswerReads
<1>4. Reply.of = r[1].of /\ Reply.kind = "bytes" /\ r[2].at = "finished" BY <1>1, <1>3, Scripted
<1>5. r[1].of = class[t] /\ Verdict[class[t]] = "match" BY <1>1, <1>3 DEF Answer, Content
<1>6. Reply = [kind |-> "bytes", of |-> class[t]] BY <1>3, <1>4, <1>5 DEF Message
<1> QED BY <1>5, <1>6 DEF Payload

\* A hook that enters takes the load up, or leaves the class as it is.
LEMMA EnterRefines ==
  ASSUME TypeInv, LoadInv, ServedInv, NEW t \in Threads, EnterHook(t)
  PROVE  [Abstract!Next]_(Abstract!vars)
<1> PICK cl : cl = <<class[t], loader[t]>> OBVIOUS
<1>0. /\ pc \in [Actors -> HookPoints \cup VMPoints] /\ t \in Actors
      /\ pc[t] = "enter" /\ monitor = None /\ monitor' = t
      /\ UNCHANGED <<class, loader>>
  BY Types DEF EnterHook, At, frame
<1>1. cl \in Classes \X Loaders /\ cl[1] = class[t] /\ cl[2] = loader[t]
  BY <1>0 DEF TypeInv, HookInv
<1>2. loads[cl] = "pending" BY <1>0 DEF LoadInv, Loading
<1>3. Serving = {} BY <1>0, ServingIs
<1>4. CASE vmStarted /\ ShouldContinue(class[t], loader[t])
  <2>1. pc'[t] = "check" /\ UNCHANGED <<loads, vmStarted>> BY <1>0, <1>4 DEF EnterHook, Goto, jvm
  <2>2. Serving' = {cl} BY <1>0, <2>1, ServingBecomes
  <2>3. Abstract!Serve(cl)
    BY <1>1, <1>2, <1>3, <1>4, <2>1, <2>2 DEF Abstract!Serve, ShouldContinue
  <2> QED BY <1>1, <2>3 DEF Abstract!Next
<1>5. CASE ~(vmStarted /\ ShouldContinue(class[t], loader[t]))
  <2>1. pc'[t] = "exit" /\ loads' = [loads EXCEPT ![cl] = "original"] /\ UNCHANGED vmStarted
    BY <1>0, <1>5 DEF EnterHook, Goto, Loads
  <2>2. Serving' = {} BY <1>0, <2>1, ServingBecomes
  <2>3. class[t] \notin ignoredClasses BY <1>1 DEF ServedInv, NamesInv
  <2>4. ~vmStarted \/ cl[2] \in IgnoredLoaders BY <1>1, <1>5, <2>3 DEF ShouldContinue
  <2>5. Abstract!Skip(cl) BY <1>2, <1>3, <2>1, <2>2, <2>4 DEF Abstract!Skip
  <2> QED BY <1>1, <2>5 DEF Abstract!Next
<1> QED BY <1>4, <1>5

\* A hook that settles its outcome answers its load by the verdict.
LEMMA AnswerRefines ==
  ASSUME TypeInv, MonitorInv, QuietInv, DefineInv, ProtocolInv, ~Overlap, ServedInv,
         NEW t \in Threads, HookStep(t), pc[t] \notin {"enter", "exit"}, pc'[t] = "exit"
  PROVE  [Abstract!Next]_(Abstract!vars)
<1> PICK cl : cl = <<class[t], loader[t]>> OBVIOUS
<1>0. /\ pc \in [Actors -> HookPoints \cup VMPoints] /\ t \in Actors
      /\ toAgent \in Seq(Message)
      /\ HookFrame(t) /\ PcTypeOK
      /\ \A p : Goto(t, p) => pc'[t] = p
  BY Types, HookFrames DEF Goto, TypeInv, TypeOK, AgentTypeOK
<1>1. cl \in Classes \X Loaders /\ cl[1] = class[t]
  BY <1>0 DEF TypeInv, HookInv, HookFrame
<1>2. monitor = t /\ monitor' = t
  <2>1. monitor = t BY <1>0 DEF MonitorInv, HookFrame
  <2>2. Enters(t) \/ Exits(t) \/ Remains(t) BY <1>0, HookMoves
  <2> QED BY <2>1, <2>2 DEF Enters, Exits, Remains
<1>3. Serving = {cl} /\ Serving' = {} BY <1>2, ServingIs, ServingBecomes
<1>4. ReceiveVerdict(t) \/ ReceiveNewBytes(t)
  BY <1>0, HookStep(t)
  DEF HookStep, EnterHook, FoundInCache, AskHasClass, CheckAck, CheckReply, SendClassData, At,
      TriggerLoading, RegisterAck, NextDependency, RequestInstrument, InstrumentAck, Acknowledged,
      ReceiveAuxMarker, ReceiveAuxName, ReceiveAuxBytes, ReceiveInitMarker, ReceiveInterceptorName,
      ReceiveInterceptorBytes, DefineInterceptor, ReceiveInitializerBytes, ReceiveUnread, AfterUnread,
      ExitHook
<1>5. /\ loads' = [loads EXCEPT ![cl] = IF Verdict[cl[1]] = "match" THEN "instrumented" ELSE "original"]
      /\ UNCHANGED vmStarted
  <2>1. CASE ReceiveVerdict(t)
    <3>1. /\ AgentTakes /\ pc[t] = "verdict" /\ Reply.kind = "ack_req_int_no"
          /\ loads' = [loads EXCEPT ![cl] = "original"] /\ UNCHANGED vmStarted
      BY <1>0, <2>1 DEF ReceiveVerdict, Loads, At
    <3>2. Reply = toAgent[1] /\ 1 \in 1..Len(toAgent) BY <1>0, <3>1, Taken DEF Reply, AgentTakes
    <3>3. Verdict[class[t]] = "ignore"
      BY <3>1, <3>2 DEF ServedInv, VerdictInv, AnswerPoints
    <3> QED BY <1>1, <3>1, <3>3
  <2>2. CASE ReceiveNewBytes(t)
    <3>1. Reply = Payload(class[t])[2] /\ Verdict[class[t]] = "match" BY <2>2, OwnBytes
    <3> QED BY <1>1, <2>2, <3>1 DEF ReceiveNewBytes, Loads
  <2> QED BY <1>4, <2>1, <2>2
<1>6. Abstract!Answer(cl) BY <1>3, <1>5 DEF Abstract!Answer
<1> QED BY <1>1, <1>6 DEF Abstract!Next

\* No other step of a hook changes what is promised.
LEMMA HookRefines ==
  ASSUME TypeInv, MonitorInv, QuietInv, DefineInv, LoadInv, ProtocolInv, ~Overlap, ServedInv,
         NEW t \in Threads, HookStep(t)
  PROVE  [Abstract!Next]_(Abstract!vars)
<1>0. HookFrame(t) /\ HookEffect(t) /\ HookNames(t) /\ PcTypeOK
  BY HookFrames, HookEffects, HookKeepsNames DEF TypeInv, TypeOK, AgentTypeOK, ServedInv
<1>1. CASE pc[t] = "enter"
  <2>1. EnterHook(t)
    BY <1>1, HookStep(t)
    DEF HookStep, FoundInCache, AskHasClass, CheckAck, CheckReply, SendClassData, At,
        TriggerLoading, RegisterAck, NextDependency, RequestInstrument, InstrumentAck,
        ReceiveAuxMarker, ReceiveAuxName, ReceiveAuxBytes, ReceiveInitMarker, ReceiveInterceptorName,
        ReceiveInterceptorBytes, DefineInterceptor, ReceiveInitializerBytes, ReceiveUnread, AfterUnread,
        ReceiveVerdict, ReceiveNewBytes, ExitHook
  <2> QED BY <2>1, EnterRefines
<1>2. CASE pc[t] \notin {"enter", "exit"} /\ pc'[t] = "exit" BY <1>2, AnswerRefines
<1>3. CASE pc[t] # "enter" /\ (pc[t] = "exit" \/ pc'[t] # "exit")
  <2>1. loads' = loads /\ vmStarted' = vmStarted BY <1>0, <1>3 DEF HookEffect, HookNames
  <2>2. monitor = t BY <1>0, <1>3 DEF MonitorInv, HookFrame
  <2>3. Exits(t) \/ Remains(t) BY <1>0, <1>3, HookMoves DEF Enters
  <2>4. Serving' = Serving
    <3>1. CASE pc[t] = "exit"
      <4>1. Serving = {} BY <2>2, <3>1, ServingIs
      <4>2. pc'[t] = "idle" BY <1>0, <3>1 DEF HookFrame
      <4>3. Exits(t)
        BY <3>1, <4>2, HookStep(t)
        DEF HookStep, EnterHook, FoundInCache, AskHasClass, CheckAck, CheckReply, SendClassData, At,
            TriggerLoading, RegisterAck, NextDependency, RequestInstrument, InstrumentAck,
            ReceiveAuxMarker, ReceiveAuxName, ReceiveAuxBytes, ReceiveInitMarker,
            ReceiveInterceptorName, ReceiveInterceptorBytes, DefineInterceptor,
            ReceiveInitializerBytes, ReceiveUnread, AfterUnread, ReceiveVerdict, ReceiveNewBytes,
            ExitHook, Exits
      <4>4. Serving' = {} BY <4>3, ServingBecomes DEF Exits
      <4> QED BY <4>1, <4>4
    <3>2. CASE pc[t] # "exit"
      <4>1. monitor' = t BY <2>2, <2>3, <3>2 DEF Exits, Remains
      <4>2. pc'[t] # "exit" /\ class'[t] = class[t] /\ loader'[t] = loader[t]
        BY <1>0, <1>3, <3>2 DEF HookFrame
      <4> QED BY <2>2, <3>2, <4>1, <4>2, ServingIs, ServingBecomes
    <3> QED BY <3>1, <3>2
  <2> QED BY <2>1, <2>4 DEF Abstract!vars
<1> QED BY <1>1, <1>2, <1>3
\* While nobody that is served moves, Serving is what it was.
LEMMA ServingStays ==
  ASSUME UNCHANGED monitor,
         \A t \in Threads : monitor = t =>
           pc'[t] = pc[t] /\ class'[t] = class[t] /\ loader'[t] = loader[t]
  PROVE  Serving' = Serving
BY DEF Serving

\* A load begins with a request; preparing a class is no concern of the promise.
LEMMA OutsideRefines ==
  ASSUME TypeInv, ServedInv, UNCHANGED server, NEW t \in Threads,
         \/ LoadInitializersForClass(t)
         \/ \E c \in Classes, l \in Loaders : BeginLoad(t, c, l) \/ BeginPrepare(t, c, l)
  PROVE  [Abstract!Next]_(Abstract!vars)
<1>1. Outside(t) /\ monitor # t /\ UNCHANGED <<monitor, vmStarted>>
  BY OutsideSteps, OutsideKeepsServed
<1>2. Serving' = Serving
  <2>1. Threads \subseteq Actors BY Types
  <2> QED BY <1>1, <2>1, ServingStays DEF Outside
<1>3. CASE \E c \in Classes, l \in Loaders : BeginLoad(t, c, l)
  <2>1. PICK c \in Classes, l \in Loaders : BeginLoad(t, c, l) BY <1>3
  <2> PICK cl : cl = <<c, l>> OBVIOUS
  <2>2. loads[cl] = "unloaded" /\ loads' = [loads EXCEPT ![cl] = "pending"]
    BY <2>1 DEF BeginLoad
  <2>3. Abstract!Request(cl) BY <1>1, <1>2, <2>2 DEF Abstract!Request
  <2> QED BY <2>3 DEF Abstract!Next
<1>4. CASE \/ LoadInitializersForClass(t)
           \/ \E c \in Classes, l \in Loaders : BeginPrepare(t, c, l)
  <2>1. UNCHANGED loads
    BY <1>4 DEF LoadInitializersForClass, BeginPrepare, Prepared, Abort, jvm
  <2> QED BY <1>1, <1>2, <2>1 DEF Abstract!vars
<1> QED BY <1>3, <1>4

\* VMInit starts the JVM; nothing else on that thread matters to the promise.
LEMMA VMRefines ==
  ASSUME TypeInv, ServedInv, VMStep
  PROVE  [Abstract!Next]_(Abstract!vars)
<1>1. VMFrame BY VMFrames
<1>2. UNCHANGED monitor
  BY DEF VMStep, VMInit, HelpersAck, HelpersCount, HelperName, HelperLength, HelperBytes,
         VMDeath, StopAck, locks
<1>3. UNCHANGED loads /\ Serving' = Serving BY <1>1, <1>2, ServingStays DEF VMFrame
<1>4. CASE VMInit
  <2>1. ~vmStarted /\ vmStarted' = TRUE BY <1>4 DEF VMInit, At, ServedInv, BootInv
  <2>2. Abstract!Start BY <1>3, <2>1 DEF Abstract!Start
  <2> QED BY <2>2 DEF Abstract!Next
<1>5. CASE HelpersAck \/ HelpersCount \/ HelperName \/ HelperLength \/ HelperBytes \/ VMDeath \/ StopAck
  <2>1. UNCHANGED vmStarted
    BY <1>5 DEF HelpersAck, HelpersCount, HelperName, HelperLength, HelperBytes, VMDeath, StopAck,
         Acknowledged, Abort, jvm
  <2> QED BY <1>3, <2>1 DEF Abstract!vars
<1> QED BY <1>4, <1>5 DEF VMStep

\* Every step of the protocol is a step of ClassLoading, or none at all, and keeps what that needs.
LEMMA RefinementStep ==
  ASSUME ~Overlap, SingleRun, OwnNames, SingleInv, DefineInv, ServedInv, [Next]_vars
  PROVE  ServedInv' /\ [Abstract!Next]_(Abstract!vars)
<1>0. /\ TypeInv /\ MonitorInv /\ QuietInv /\ LoadInv /\ ProtocolInv /\ runs = 1
      /\ Threads \subseteq Actors
  BY Types DEF SingleInv, RunInv
<1>1. CASE ServerNext /\ UNCHANGED agent
  <2>1. UNCHANGED <<monitor, pc, class, loader, loads, vmStarted>>
    BY <1>1 DEF agent, frame, locks, jvm
  <2> QED BY <1>0, <1>1, <2>1, ServerKeepsServed, ServingStays DEF Abstract!vars
<1>2. CASE VMStep /\ UNCHANGED server BY <1>0, <1>2, VMKeepsServed, VMRefines
<1>3. ASSUME NEW t \in Threads, HookStep(t), UNCHANGED server
      PROVE  ServedInv' /\ [Abstract!Next]_(Abstract!vars)
  BY <1>0, <1>3, HookKeepsServed, HookRefines
<1>4. ASSUME NEW t \in Threads, UNCHANGED server,
             \/ LoadInitializersForClass(t)
             \/ \E c \in Classes, l \in Loaders : BeginLoad(t, c, l) \/ BeginPrepare(t, c, l)
      PROVE  ServedInv' /\ [Abstract!Next]_(Abstract!vars)
  BY <1>0, <1>4, OutsideKeepsServed, OutsideRefines
<1>5. CASE (Kill /\ UNCHANGED server) \/ UNCHANGED vars
  <2>1. UNCHANGED <<monitor, pc, class, loader, got, loads, vmStarted, ignoredClasses, unsent, toAgent>>
    BY <1>5 DEF Kill, vars, agent, server, wire, frame, locks, tables, jvm
  <2>2. ServedInv' BY <2>1 DEF ServedInv, OwnerInv, BootInv, NamesInv, VerdictInv
  <2> QED BY <2>1, <2>2, ServingStays DEF Abstract!vars
<1>6. CASE Restart BY <1>0, <1>6 DEF Restart, SingleRun
<1> QED BY <1>1, <1>2, <1>3, <1>4, <1>5, <1>6 DEF Next, AgentNext

\* A run begins with nothing requested and nobody served.
LEMMA RefinementBegins == OwnNames /\ Init => Abstract!Init /\ ServedInv /\ DefineInv
<1> SUFFICES ASSUME OwnNames, Init PROVE Abstract!Init /\ ServedInv /\ DefineInv
  OBVIOUS
<1>0. VM \notin Threads /\ Actors = Threads \cup {VM} /\ None \notin Threads
  BY AgentAssumption DEF Actors
<1>1. /\ \A t \in Threads : pc[t] = "idle"
      /\ pc[VM] = "boot" /\ monitor = None /\ ~vmStarted /\ vmStarted = FALSE
      /\ ignoredClasses = {} /\ unsent = {} /\ toAgent = <<>> /\ interceptors = {}
      /\ loads = [cl \in Classes \X Loaders |-> "unloaded"]
  BY <1>0 DEF Init, AgentInit, ServerInit
<1>2. Abstract!Init BY <1>1, ServingIs DEF Abstract!Init
<1>3. OwnerInv /\ BootInv /\ VerdictInv BY <1>0, <1>1 DEF OwnerInv, BootInv, VerdictInv
<1>4. NamesInv BY <1>0, <1>1 DEF NamesInv, NamedPoints
<1>5. DefineInv BY <1>0, <1>1 DEF DefineInv, NoSelfLock
<1> QED BY <1>2, <1>3, <1>4, <1>5 DEF ServedInv

\* The protocol, message by message, does what ClassLoading allows: loads are served one after the
\* other, each is answered once and by the verdict on its own class, and none before its JVM is
\* initialized or for an ignored loader.  This is ImplementsClassLoading without its fairness.
THEOREM RefinesClassLoading ==
  ASSUME ~Overlap, SingleRun, OwnNames
  PROVE  Spec => Abstract!Init /\ [][Abstract!Next]_(Abstract!vars)
<1>1. Init => Abstract!Init /\ ServedInv /\ DefineInv BY RefinementBegins
<1>2. SingleInv /\ DefineInv /\ ServedInv /\ [Next]_vars
        => DefineInv' /\ ServedInv' /\ [Abstract!Next]_(Abstract!vars)
  BY RefinementStep, DefineStep DEF SingleInv
<1> QED BY <1>1, <1>2, SingleRunHolds, PTL DEF Spec
===============================================================================
