--------------------------------- MODULE Wire ---------------------------------
(* The connection between the native agent and the Instrumentor JVM: one       *)
(* nanomsg PAIR socket on each side (InstrumentorAPI.cpp:290, SocketWrapper).  *)
(* nanomsg delivers whole messages in order, once; this is external code.      *)
(* A message is its kind and the name it is about.  Lengths and bytecode are   *)
(* kept as messages of their own, because each side reads by position.         *)
EXTENDS Naturals, Sequences, FiniteSets

CONSTANTS Classes,      \* names of the application's classes
          Refs,         \* super class, interfaces, field and method types outside java/ and sun/
          Helpers,      \* classes every agent fetches in VMInit
          Auxiliaries,  \* names of classes Byte Buddy generates
          Interceptors, \* names of the interceptor classes
          None          \* "no name": a reply without one, or a garbled string

ASSUME NamesAssumption ==
  /\ None \notin Classes \cup Helpers \cup Auxiliaries \cup Interceptors
  /\ Refs \in [Classes -> SUBSET Classes]

VARIABLES toServer, \* sent by the agent, not yet received by the server
          toAgent   \* sent by the server, not yet received by the agent
wire == <<toServer, toAgent>>

Requests == {"INSTRUMENT", "STOP", "CHECK_HAS_CLASS", "REGISTER_BYTECODE", "HELPER_CLASSES"}
Texts    == {"ack_req_msg", "yes", "no", "auxiliary_types", "no_more_aux_classes", "initializers",
             "no_more_initializers", "ack_req_int_yes", "ack_req_int_no", "count"}
Names    == Classes \cup Helpers \cup Auxiliaries \cup Interceptors

Message == [kind : Requests \cup Texts \cup {"name", "length", "bytes"}, of : Names \cup {None}]

Text(k)    == [kind |-> k, of |-> None]
Name(n)    == [kind |-> "name", of |-> n]
Payload(n) == <<[kind |-> "length", of |-> n], [kind |-> "bytes", of |-> n]>>
Blob(n)    == <<Name(n)>> \o Payload(n)

\* socket.send / sock.send: nanomsg queues the message; the sender does not wait for the peer.
AgentSends(msgs)  == toServer' = toServer \o msgs
ServerSends(msgs) == toAgent' = toAgent \o msgs

\* socket.recv / sock.recvBytes: blocks until a message is there and takes the first one.
Reply        == Head(toAgent)
AgentTakes   == toAgent # <<>> /\ toAgent' = Tail(toAgent)
Request      == Head(toServer)
ServerTakes  == toServer # <<>> /\ toServer' = Tail(toServer)

\* A class name as the receiver understands it: any message can be read as a string, and a string
\* that was not sent as the name of a class names no class.
ClassNamed(m) == IF m.kind = "name" /\ m.of \in Classes THEN m.of ELSE None
===============================================================================
