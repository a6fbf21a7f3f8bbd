-------------------------- MODULE InstrumentorServer --------------------------
(* The Instrumentor JVM: the request loop of InstrumentorServer.java and the   *)
(* Byte Buddy listener of BaseAgentBuilder.java that streams the answer to an  *)
(* INSTRUMENT request.  One thread; it reads requests by position.             *)
EXTENDS Wire

CONSTANTS ServerClasspath, \* application classes the server's own class loader has
          Verdict,         \* what Byte Buddy does with the class: "match", "ignore" or "error"
          AuxiliariesOf,   \* auxiliary types Byte Buddy generates for the class
          InterceptorsOf,  \* interceptors of the class's loaded type initializers
          Shipped          \* interceptors whose bytecode the server found (getInterceptorByteCodes)

ASSUME ServerAssumption ==
  /\ ServerClasspath \subseteq Classes \* and closed: a class path has what its classes refer to
  /\ \A c \in ServerClasspath : Refs[c] \subseteq ServerClasspath
  /\ Verdict \in [Classes -> {"match", "ignore", "error"}]
  /\ AuxiliariesOf \in [Classes -> SUBSET Auxiliaries]
  /\ InterceptorsOf \in [Classes -> SUBSET Interceptors]
  /\ Shipped \subseteq Interceptors
  /\ Helpers # {} /\ IsFiniteSet(Helpers)

VARIABLES position,        \* where the server's thread is: what it receives or sends next
          subject,         \* the class name of the request being handled
          unsent,          \* what is left to stream of the set being sent
          registered,      \* keys of InstrumentorClassLoader.cache
          byteCodeCache,   \* "absent", "null" (not transformed) or "code"
          sendInterceptors \* interceptors whose bytecode was already sent
server == <<position, subject, unsent, registered, byteCodeCache, sendInterceptors>>

Receiving == {"request", "registerName", "registerBytes", "checkName", "instrumentName"}
Sending   == {"helpers", "auxiliaries", "initializers"}

ServerTypeOK ==
  /\ position \in Receiving \cup Sending \cup {"stopped", "failed"}
  /\ subject \in Classes \cup {None}
  /\ unsent \subseteq Names
  /\ registered \subseteq Classes
  /\ byteCodeCache \in [Classes -> {"absent", "null", "code"}]
  /\ sendInterceptors \subseteq Interceptors

ServerInit ==
  /\ position = "request" /\ subject = None /\ unsent = {}
  /\ registered = {} /\ sendInterceptors = {}
  /\ byteCodeCache = [c \in Classes |-> "absent"]

\* The classes the server can load: handleHasClassCheck answers "yes" for exactly these.
Cached    == {c \in Classes : byteCodeCache[c] # "absent"}
ServerHas == Cached \cup registered \cup ServerClasspath

\* start(): receive the request type, acknowledge it, dispatch.  A type no case handles throws
\* a RuntimeException that ends the server's only thread.
Dispatch(kind) ==
  CASE kind = "STOP"              -> "stopped"
    [] kind = "INSTRUMENT"        -> "instrumentName"
    [] kind = "CHECK_HAS_CLASS"   -> "checkName"
    [] kind = "REGISTER_BYTECODE" -> "registerName"
    [] kind = "HELPER_CLASSES"    -> "helpers"
    [] OTHER                      -> "failed"

ReceiveRequest ==
  /\ position = "request"
  /\ ServerTakes
  /\ position' = Dispatch(Request.kind)
  /\ IF position' = "helpers"
       THEN ServerSends(<<Text("ack_req_msg"), Text("count")>>) /\ unsent' = Helpers
       ELSE ServerSends(<<Text("ack_req_msg")>>) /\ UNCHANGED unsent
  /\ UNCHANGED <<subject, registered, byteCodeCache, sendInterceptors>>

\* handleSentPrepClasses: name, length and bytes of every helper class.
SendHelperClass ==
  /\ position = "helpers"
  /\ \E h \in unsent :
       /\ ServerSends(Blob(h))
       /\ unsent' = unsent \ {h}
       /\ position' = IF unsent' = {} THEN "request" ELSE "helpers"
  /\ UNCHANGED <<toServer, subject, registered, byteCodeCache, sendInterceptors>>

ReceiveRegisterName ==
  /\ position = "registerName" /\ position' = "registerBytes"
  /\ ServerTakes /\ subject' = ClassNamed(Request)
  /\ UNCHANGED <<toAgent, unsent, registered, byteCodeCache, sendInterceptors>>

\* registerByteCode keeps the first bytes registered; the set of keys is all that matters here.
\* A garbled name is the name of no class.
ReceiveRegisterBytes ==
  /\ position = "registerBytes" /\ position' = "request"
  /\ ServerTakes
  /\ registered' = registered \cup ({subject} \cap Classes)
  /\ UNCHANGED <<toAgent, subject, unsent, byteCodeCache, sendInterceptors>>

\* Mutant: the branch that answers "no" is lost.
CheckWithoutNo ==
  /\ position = "checkName" /\ position' = "request"
  /\ ServerTakes
  /\ ServerSends(IF ClassNamed(Request) \in ServerHas THEN <<Text("yes")>> ELSE <<>>)
  /\ UNCHANGED <<subject, unsent, registered, byteCodeCache, sendInterceptors>>

ReceiveCheckName ==
  /\ position = "checkName" /\ position' = "request"
  /\ ServerTakes
  /\ ServerSends(<<Text(IF ClassNamed(Request) \in ServerHas THEN "yes" ELSE "no")>>)
  /\ UNCHANGED <<subject, unsent, registered, byteCodeCache, sendInterceptors>>

\* Byte Buddy can describe a class only when it can load it and what it refers to; otherwise, and
\* when the transformation itself fails, transform() catches the Throwable and reports onError.
Transformable(c) ==
  /\ c \in registered \cup ServerClasspath
  /\ Refs[c] \subseteq registered \cup ServerClasspath
  /\ Verdict[c] # "error"

\* handleInstrument, class already in byteCodeCache: only sendByteCodeToAgent runs, so nothing
\* is sent for a class that was not transformed, and no control messages precede the code.
AnswerFromCache(c) ==
  /\ position' = "request"
  /\ ServerSends(IF byteCodeCache[c] = "code" THEN Payload(c) ELSE <<>>)
  /\ UNCHANGED <<unsent, byteCodeCache>>

\* The listener's onIgnored and onError: transform() returns null and byteCodeCache keeps the null.
\* onError sends nothing.
AnswerNull(c, msgs) ==
  /\ position' = "request"
  /\ ServerSends(msgs)
  /\ byteCodeCache' = [d \in Classes |-> IF d = c THEN "null" ELSE byteCodeCache[d]]
  /\ UNCHANGED unsent

\* The listener's onTransformation begins to stream.
AnswerMatch(c) ==
  /\ position' = "auxiliaries"
  /\ unsent' = AuxiliariesOf[c]
  /\ UNCHANGED <<toAgent, byteCodeCache>>

\* Mutant: onIgnored forgets to end the initializers.
IgnoredCutShort ==
  /\ position = "instrumentName"
  /\ ServerTakes
  /\ subject' = ClassNamed(Request)
  /\ LET c == ClassNamed(Request) IN
       \/ Verdict[c] = "ignore"
            /\ AnswerNull(c, <<Text("no_more_aux_classes"), Text("ack_req_int_no")>>)
       \/ Verdict[c] = "match" /\ AnswerMatch(c)
  /\ UNCHANGED <<registered, sendInterceptors>>

\* Mutant: a class that is to be ignored is transformed.
IgnoredTransformed ==
  /\ position = "instrumentName"
  /\ ServerTakes
  /\ subject' = ClassNamed(Request)
  /\ AnswerMatch(ClassNamed(Request))
  /\ UNCHANGED <<registered, sendInterceptors>>

HandleInstrument ==
  /\ position = "instrumentName"
  /\ ServerTakes
  /\ subject' = ClassNamed(Request)
  /\ LET c == ClassNamed(Request) IN
       \/ c \in Cached /\ AnswerFromCache(c)
       \/ c \notin Cached /\ ~Transformable(c) /\ AnswerNull(c, <<>>)
       \/ c \notin Cached /\ Transformable(c) /\ Verdict[c] = "ignore"
            /\ AnswerNull(c, <<Text("no_more_aux_classes"), Text("no_more_initializers"),
                               Text("ack_req_int_no")>>)
       \/ c \notin Cached /\ Transformable(c) /\ Verdict[c] = "match" /\ AnswerMatch(c)
  /\ UNCHANGED <<registered, sendInterceptors>>

SendAuxiliary ==
  /\ position = "auxiliaries" /\ UNCHANGED position
  /\ \E a \in unsent : ServerSends(<<Text("auxiliary_types")>> \o Blob(a)) /\ unsent' = unsent \ {a}
  /\ UNCHANGED <<toServer, subject, registered, byteCodeCache, sendInterceptors>>

EndAuxiliaries ==
  /\ position = "auxiliaries" /\ unsent = {}
  /\ position' = "initializers"
  /\ unsent' = InterceptorsOf[subject]
  /\ ServerSends(<<Text("no_more_aux_classes")>>)
  /\ UNCHANGED <<toServer, subject, registered, byteCodeCache, sendInterceptors>>

\* handleLoadedTypeInitializers for one ForStaticField initializer: the interceptor's name, its
\* bytecode the first time it is sent to anybody, then the serialized initializer.
InitializerStep(i, withCode, sent) ==
  /\ position = "initializers" /\ UNCHANGED position
  /\ i \in Shipped \cup sendInterceptors
  /\ ServerSends(<<Text("initializers"), Name(i)>>
                   \o (IF withCode THEN Payload(i) ELSE <<>>) \o Blob(i))
  /\ sendInterceptors' = sendInterceptors \cup sent
  /\ unsent' = unsent \ {i}
  /\ UNCHANGED <<toServer, subject, registered, byteCodeCache>>

\* Mutants: the bytecode is always sent; what was sent is never recorded; the class is recorded
\* in place of the interceptor.
SendCodeAlways == \E i \in unsent : InitializerStep(i, TRUE, {i})
RecordNothing  == \E i \in unsent : InitializerStep(i, i \notin sendInterceptors, {})
RecordSubject  == \E i \in unsent : InitializerStep(i, i \notin sendInterceptors, {subject})

SendInitializer == \E i \in unsent : InitializerStep(i, i \notin sendInterceptors, {i})

\* "Byte code for interceptor class ... not found!": the RuntimeException ends the transformation
\* in the middle of the stream; Byte Buddy reports onError and transform() returns null.
FailInitializer ==
  /\ position = "initializers"
  /\ \E i \in unsent \ (Shipped \cup sendInterceptors) :
       AnswerNull(subject, <<Text("initializers"), Name(i)>>)
  /\ UNCHANGED <<toServer, subject, registered, sendInterceptors>>

\* Mutant: the verdict goes out before the end of the initializers.
VerdictFirst ==
  /\ position = "initializers" /\ unsent = {}
  /\ position' = "request"
  /\ ServerSends(<<Text("ack_req_int_yes"), Text("no_more_initializers")>> \o Payload(subject))
  /\ byteCodeCache' = [byteCodeCache EXCEPT ![subject] = "code"]
  /\ UNCHANGED <<toServer, subject, unsent, registered, sendInterceptors>>

\* onTransformation ends; handleInstrument caches and sends the code.
EndInitializers ==
  /\ position = "initializers" /\ unsent = {}
  /\ position' = "request"
  /\ ServerSends(<<Text("no_more_initializers"), Text("ack_req_int_yes")>> \o Payload(subject))
  /\ byteCodeCache' = [byteCodeCache EXCEPT ![subject] = "code"]
  /\ UNCHANGED <<toServer, subject, unsent, registered, sendInterceptors>>

ServerNext ==
  \/ ReceiveRequest \/ SendHelperClass
  \/ ReceiveRegisterName \/ ReceiveRegisterBytes
  \/ ReceiveCheckName
  \/ HandleInstrument
  \/ SendAuxiliary \/ EndAuxiliaries
  \/ SendInitializer \/ FailInitializer \/ EndInitializers
===============================================================================
