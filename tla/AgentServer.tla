----------------------------- MODULE AgentServer ------------------------------
(* The native agent and the Instrumentor JVM over one connection, and what the *)
(* two together promise the monitored application.                             *)
EXTENDS NativeAgent, InstrumentorServer

vars == <<agent, server, wire>>

Init == AgentInit /\ ServerInit

Next == \/ AgentNext /\ UNCHANGED server
        \/ ServerNext /\ UNCHANGED agent

Spec == Init /\ [][Next]_vars

\* Each thread inside the agent, the VM callbacks and the server's thread keep running; nothing
\* forces a class to be loaded, the application to end or to be started again.
Fairness ==
  /\ \A t \in Threads : WF_vars((HookStep(t) \/ LoadInitializersForClass(t)) /\ UNCHANGED server)
  /\ WF_vars(VMStep /\ pc[VM] # "running" /\ UNCHANGED server)
  /\ WF_vars(ServerNext /\ UNCHANGED agent)
FairSpec == Spec /\ Fairness

\* Every variable stays in its type: threads at control points of the code, queues of messages,
\* tables of names.
TypeOK ==
  /\ AgentTypeOK /\ ServerTypeOK
  /\ toServer \in Seq(Message) /\ toAgent \in Seq(Message)

(* Who may use the connection *)

\* At most one actor is in the middle of an exchange ("communication originating from different
\* thread can cause problems", InstrumentorAPI.h:94): the socket pairs replies with whoever asks
\* first, and instrument() receives the new bytecode after mtx is released.
SocketExclusive == \A a, b \in InExchange : a = b

\* What an actor at a control point can make sense of.
Understood ==
  [p \in HookReceives \cup VMReceives |->
     CASE p \in {"checkAck", "registerAck", "instrumentAck",
                 "helpersAck", "stopAck"} -> {"ack_req_msg"}
       [] p = "checkReply"   -> {"yes", "no"}
       [] p = "aux"          -> {"auxiliary_types", "no_more_aux_classes"}
       [] p = "init"         -> {"initializers", "no_more_initializers"}
       [] p = "verdict"      -> {"ack_req_int_yes", "ack_req_int_no"}
       [] p = "helpersCount" -> {"count"}
       [] p \in {"auxName", "interceptorName", "initializerName", "helperName"} -> {"name"}
       [] p \in {"auxLength", "interceptorLength", "initializerLength", "newLength",
                 "helperLength"} -> {"length"}
       [] OTHER              -> {"bytes"}]

\* The two sides never get out of step: the reply at the head of the connection is one the waiting
\* actor understands at its place in the code, and no reply is on its way when nobody waits.
RepliesAligned ==
  Alive => /\ InExchange = {} => toAgent = <<>>
           /\ \A a \in InExchange : pc[a] # "define" /\ toAgent # <<>>
                                      => Reply.kind \in Understood[pc[a]]

\* An actor that waits for a message nobody is going to send: nothing is in transit and the server
\* waits too, or has ended.
Starved(a) ==
  /\ Alive /\ a \in InExchange /\ pc[a] # "define"
  /\ wire = <<<<>>, <<>>>> /\ position \notin Sending

\* No hook and no callback waits for ever; it would hold the monitor, and all class loading with it.
NeverStarved == \A a \in Actors : ~Starved(a)

(* What instrumentation needs *)

\* When the server transforms a class it has the class and everything the class refers to:
\* all of it was sent before the INSTRUMENT request, and arrived.
DependenciesFirst ==
  position = "instrumentName" /\ toServer # <<>> =>
    LET c == ClassNamed(Request) IN c # None /\ {c} \cup Refs[c] \subseteq ServerHas

\* The agent's cache never claims more than what the server has, or what is in the connection
\* ahead of any question the agent may ask.
CacheSound ==
  \A c \in classesCache :
    \/ c \in ServerHas
    \/ position = "registerBytes" /\ subject = c
    \/ \E i \in 1..Len(toServer) : toServer[i] = Name(c)

\* The class a hook returns is its own: instrumented by its own bytecode when Byte Buddy matched
\* it, untouched when the class was not to be transformed or the agent ignores it.
OwnBytecode ==
  \A c \in Classes, l \in Loaders :
    /\ loads[<<c, l>>] # "foreign"
    /\ loads[<<c, l>>] = "instrumented" => Verdict[c] = "match"

\* Instrumented code is handed to the JVM only when what it needs at run time is in place: its
\* interceptors are defined in its loader, its initializers stored, its auxiliary classes and
\* interceptors known as classes the hook must leave alone.  When the class is prepared its
\* initializers run, unless another hook inserted into their map during the search.
ReadyToRun ==
  \A c \in Classes, l \in Loaders :
    loads[<<c, l>>] = "instrumented" =>
      /\ InterceptorsOf[c] \subseteq loadedInterceptorsPerCl[l] \cap ignoredClasses
      /\ initializers[c] = InterceptorsOf[c]
      /\ AuxiliariesOf[c] \subseteq ignoredClasses
      /\ prepared[<<c, l>>] = "plain" => InterceptorsOf[c] = {}

\* Defining an interceptor inside mtx never asks the server about it: mtx is not recursive.
NoSelfLock == \A t \in Threads : pc[t] # "selfLocked"

\* Both sides agree which interceptors the agent has whenever no exchange is running; otherwise
\* the server would leave out bytecode the agent waits for.
InterceptorsAgree == Alive /\ InExchange = {} => interceptors = sendInterceptors

\* Every class load that reaches the agent gets its class back.
HookReturns == \A t \in Threads : pc[t] = "enter" ~> pc[t] = "idle"

\* A load is being served from the moment its hook owns the monitor until its outcome is settled.
Serving == {<<class[t], loader[t]>> : t \in {u \in Threads : monitor = u /\ pc[u] # "exit"}}

\* The message-by-message protocol implements ClassLoading: hooks are served one at a time, each
\* load is answered once, by the verdict on its own class, and none is forgotten.
Abstract == INSTANCE ClassLoading WITH serving <- Serving, started <- vmStarted
ImplementsClassLoading == Abstract!Spec

(* Where the promises stop *)

\* Verdicts that leave the answer unfinished: onError sends nothing, and an interceptor whose
\* bytecode is missing ends the stream in its middle.
Unanswerable(c) ==
  Verdict[c] = "error" \/ (Verdict[c] = "match" /\ ~(InterceptorsOf[c] \subseteq Shipped))

\* The class was put to the server before: for another loader, or in an earlier run.
AskedBefore(t) == runs > 1 \/ \E l \in Loaders \ {loader[t]} : loads[<<class[t], l>>] # "unloaded"

\* A reference that could not be sent when the class was.
RefersToMissing(c) == \E d \in Refs[c] \ Findable : d \notin registered \cup ServerClasspath

\* The only ways to be starved: a transformation that fails, or lacks a class it needs, and a class
\* that was asked for before and is now answered from byteCodeCache.  The server is at the top of
\* its loop: it believes it has answered.  This is about runs whose predecessor was not cut off in
\* the middle of an exchange; after a cut the server may take new requests for the rest of the old.
StarvationExplained ==
  \A a \in Actors : Starved(a) /\ ~cut =>
    /\ a \in Threads /\ position = "request"
    /\ Unanswerable(class[a]) \/ RefersToMissing(class[a]) \/ AskedBefore(a)

\* The JVM is only brought down by an agent that meets a server which served an earlier run (it
\* leaves out interceptors it has sent before), by a thread that has just called triggerLoading
\* for a dependency without bytes, or by one whose search for initializers another hook ran into.
AbortExplained ==
  aborted =>
    \/ runs > 1
    \/ \E t \in Threads :
         \/ pc[t] = "deps" /\ dep[t] \notin Findable
         \/ pc[t] = "prepare" /\ prepared[<<class[t], loader[t]>>] = "raced"

\* A class the server was asked for before, for another loader, is answered from its cache ("first
\* look into cache and send the instrumented bytecode to the native agent").
CachedAnswered == \A t \in Threads : Starved(t) => byteCodeCache[class[t]] # "code"
===============================================================================
