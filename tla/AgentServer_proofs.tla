------------------------- MODULE AgentServer_proofs ---------------------------
(* Theorems about AgentServer, for any number of threads, classes and loaders. *)
EXTENDS AgentServer, FiniteSetTheorems, SequenceTheorems, TLAPS

(* Lemmas about the wire *)

\* A text is a message.
LEMMA TextIsMessage == ASSUME NEW k \in Requests \cup Texts PROVE Text(k) \in Message
BY DEF Text, Message

\* Sending keeps a queue of messages.
LEMMA SendType ==
  ASSUME NEW q \in Seq(Message), NEW msgs \in Seq(Message)
  PROVE  q \o msgs \in Seq(Message)
OBVIOUS

\* A name is a message, and so are its length and its bytes.
LEMMA BlobIsMessages ==
  ASSUME NEW n \in Names \cup {None}
  PROVE  /\ Name(n) \in Message
         /\ Payload(n) \in Seq(Message) /\ Payload(n)[2] \in Message
         /\ Blob(n) \in Seq(Message)
<1>1. Name(n) \in Message BY DEF Name, Message
<1>2. /\ [kind |-> "length", of |-> n] \in Message
      /\ [kind |-> "bytes", of |-> n] \in Message BY DEF Message
<1>3. Payload(n) \in Seq(Message) /\ Payload(n)[2] \in Message BY <1>2 DEF Payload
<1>4. Blob(n) \in Seq(Message) BY <1>1, <1>3 DEF Blob
<1> QED BY <1>1, <1>3, <1>4

\* A received name is a class or None.
LEMMA ClassNamedType == ASSUME NEW msg \in Message PROVE ClassNamed(msg) \in Classes \cup {None}
BY DEF ClassNamed

\* Taking the first message of a queue leaves a queue of messages.
LEMMA TakeType ==
  ASSUME NEW q \in Seq(Message), q # <<>>
  PROVE  Head(q) \in Message /\ Tail(q) \in Seq(Message) /\ Head(q).of \in Names \cup {None}
<1>1. Head(q) \in Message /\ Tail(q) \in Seq(Message) OBVIOUS
<1> QED BY <1>1 DEF Message

\* What is left of a queue of messages is a queue of messages.
LEMMA SuffixType ==
  ASSUME NEW q \in Seq(Message), NEW k \in 1..Len(q) + 1
  PROVE  SubSeq(q, k, Len(q)) \in Seq(Message)
<1>1. \A i \in k..Len(q) : q[i] \in Message OBVIOUS
<1> QED BY <1>1, SubSeqProperties

(* Type correctness.  Besides the types, the step that streams an answer needs *)
(* to know that it streams the answer for a class, and a hook inside the agent *)
(* that it has a class and a loader.                                           *)

StreamInv == position \in {"auxiliaries", "initializers"} => subject \in Classes
HookInv == \A t \in Threads : pc[t] # "idle" =>
             class[t] \in Classes /\ loader[t] \in Loaders /\ dep[t] \in Classes
VMInv == pc[VM] \in {"helperName", "helperLength", "helperBytes"} => helpersLeft # 0
TypeInv == TypeOK /\ StreamInv /\ HookInv /\ VMInv

\* Steps of the server keep the types.
LEMMA ServerTypes == TypeInv /\ ServerNext /\ UNCHANGED agent => TypeInv'
<1> SUFFICES ASSUME TypeInv, ServerNext, UNCHANGED agent PROVE TypeInv'
  OBVIOUS
<1> USE NamesAssumption, ServerAssumption
<1>0. AgentTypeOK' /\ HookInv' /\ VMInv'
  BY DEF TypeInv, TypeOK, AgentTypeOK, PcTypeOK, FrameTypeOK, LockTypeOK, TableTypeOK, JvmTypeOK,
         HookInv, VMInv, agent, frame, locks, tables, jvm, life
<1>t. /\ ServerTypeOK /\ toServer \in Seq(Message) /\ toAgent \in Seq(Message) /\ StreamInv
  BY DEF TypeInv, TypeOK
<1>r. toServer # <<>> => Request \in Message /\ Tail(toServer) \in Seq(Message)
  BY <1>t, TakeType DEF Request
<1> SUFFICES ServerTypeOK' /\ StreamInv' /\ toServer' \in Seq(Message) /\ toAgent' \in Seq(Message)
  BY <1>0 DEF TypeInv, TypeOK
<1> USE <1>t DEF ServerTypeOK, StreamInv, Receiving, Sending, Names
<1>1. CASE ReceiveRequest
  <2>1. Text("ack_req_msg") \in Message /\ Text("count") \in Message
    BY TextIsMessage DEF Texts
  <2>2. toServer' \in Seq(Message)
    BY <1>1, <1>r DEF ReceiveRequest, ServerTakes
  <2>3. /\ <<Text("ack_req_msg")>> \in Seq(Message)
        /\ <<Text("ack_req_msg"), Text("count")>> \in Seq(Message)
    BY ONLY <2>1
  <2>4. \/ toAgent' = toAgent \o <<Text("ack_req_msg")>>
        \/ toAgent' = toAgent \o <<Text("ack_req_msg"), Text("count")>>
    BY <1>1 DEF ReceiveRequest, ServerSends
  <2>5. toAgent' \in Seq(Message)
    <3> DEFINE short == <<Text("ack_req_msg")>>
               long  == <<Text("ack_req_msg"), Text("count")>>
    <3> HIDE DEF short, long
    <3>1. short \in Seq(Message) /\ long \in Seq(Message) BY <2>3 DEF short, long
    <3>2. toAgent \o short \in Seq(Message) /\ toAgent \o long \in Seq(Message)
      BY <1>t, <3>1, SendType
    <3>3. toAgent' = toAgent \o short \/ toAgent' = toAgent \o long BY <2>4 DEF short, long
    <3> QED BY <3>2, <3>3
  <2> QED BY <1>1, <2>2, <2>5 DEF ReceiveRequest, Dispatch
<1>2. CASE SendHelperClass
  <2>1. toServer' \in Seq(Message) /\ toAgent' \in Seq(Message)
    BY <1>2, BlobIsMessages DEF SendHelperClass, ServerSends
  <2> QED BY <1>2, <2>1 DEF SendHelperClass
<1>3. CASE ReceiveRegisterName
  BY <1>3, <1>r, ClassNamedType DEF ReceiveRegisterName, ServerTakes
<1>4. CASE ReceiveRegisterBytes
  BY <1>4, <1>r DEF ReceiveRegisterBytes, ServerTakes
<1>5. CASE ReceiveCheckName
  <2>1. Text("yes") \in Message /\ Text("no") \in Message
    BY TextIsMessage DEF Texts
  <2> QED BY <1>5, <1>r, <2>1 DEF ReceiveCheckName, ServerTakes, ServerSends
<1>6. CASE HandleInstrument
  <2> DEFINE c == ClassNamed(Request)
  <2>1. c \in Classes \cup {None} /\ toServer' \in Seq(Message) /\ subject' = c
    BY <1>6, <1>r, ClassNamedType DEF HandleInstrument, ServerTakes
  <2>2. registered' = registered /\ sendInterceptors' = sendInterceptors
    BY <1>6 DEF HandleInstrument
  <2>3. CASE c \in Cached /\ AnswerFromCache(c)
    <3>1. Payload(c) \in Seq(Message) BY <2>3, BlobIsMessages DEF Cached
    <3> QED BY <2>1, <2>2, <2>3, <3>1 DEF AnswerFromCache, ServerSends
  <2>4. ASSUME NEW msgs \in Seq(Message), AnswerNull(c, msgs)
        PROVE  /\ ServerTypeOK' /\ StreamInv'
               /\ toServer' \in Seq(Message) /\ toAgent' \in Seq(Message)
    BY <2>1, <2>2, <2>4 DEF AnswerNull, ServerSends
  <2>5. CASE AnswerNull(c, <<>>)
    <3>1. <<>> \in Seq(Message) OBVIOUS
    <3> QED BY ONLY <2>4, <2>5, <3>1
  <2>6. CASE AnswerNull(c, <<Text("no_more_aux_classes"), Text("no_more_initializers"),
                             Text("ack_req_int_no")>>)
    <3>1. /\ Text("no_more_aux_classes") \in Message
          /\ Text("no_more_initializers") \in Message
          /\ Text("ack_req_int_no") \in Message
      BY TextIsMessage DEF Texts
    <3>2. <<Text("no_more_aux_classes"), Text("no_more_initializers"), Text("ack_req_int_no")>>
            \in Seq(Message)
      BY ONLY <3>1
    <3> QED BY ONLY <2>4, <2>6, <3>2
  <2>7. CASE Transformable(c) /\ AnswerMatch(c)
    <3>1. c \in Classes BY <2>7 DEF Transformable
    <3> QED BY <2>1, <2>2, <2>7, <3>1 DEF AnswerMatch
  <2> QED BY <1>6, <2>3, <2>5, <2>6, <2>7 DEF HandleInstrument
<1>7. CASE SendAuxiliary
  <2>1. Text("auxiliary_types") \in Message BY TextIsMessage DEF Texts
  <2>2. toServer' \in Seq(Message) /\ toAgent' \in Seq(Message)
    BY <1>7, <2>1, BlobIsMessages DEF SendAuxiliary, ServerSends
  <2> QED BY <1>7, <2>2 DEF SendAuxiliary
<1>8. CASE EndAuxiliaries
  <2>1. Text("no_more_aux_classes") \in Message BY TextIsMessage DEF Texts
  <2> QED BY <1>8, <2>1 DEF EndAuxiliaries, ServerSends
<1>9. CASE SendInitializer
  <2> PICK i \in unsent : InitializerStep(i, i \notin sendInterceptors, {i})
    BY <1>9 DEF SendInitializer
  <2>1. Text("initializers") \in Message BY TextIsMessage DEF Texts
  <2>2. i \in Names /\ i \in Interceptors BY DEF InitializerStep
  <2>3. Name(i) \in Message /\ Payload(i) \in Seq(Message) /\ Blob(i) \in Seq(Message)
    BY <2>2, BlobIsMessages
  <2>4. toAgent' \in Seq(Message)
    BY <2>1, <2>3 DEF InitializerStep, ServerSends
  <2> QED BY <2>2, <2>4 DEF InitializerStep
<1>10. CASE FailInitializer
  <2> PICK i \in unsent : AnswerNull(subject, <<Text("initializers"), Name(i)>>)
    BY <1>10 DEF FailInitializer
  <2>1. Text("initializers") \in Message BY TextIsMessage DEF Texts
  <2>2. Name(i) \in Message BY BlobIsMessages
  <2> QED BY <1>10, <2>1, <2>2 DEF FailInitializer, AnswerNull, ServerSends
<1>11. CASE EndInitializers
  <2>1. Text("no_more_initializers") \in Message /\ Text("ack_req_int_yes") \in Message
    BY TextIsMessage DEF Texts
  <2>2. subject \in Classes BY <1>11 DEF EndInitializers
  <2>3. Payload(subject) \in Seq(Message) BY <2>2, BlobIsMessages
  <2> QED BY <1>11, <2>1, <2>2, <2>3 DEF EndInitializers, ServerSends
<1> QED BY <1>1, <1>2, <1>3, <1>4, <1>5, <1>6, <1>7, <1>8, <1>9, <1>10, <1>11 DEF ServerNext

\* A thread inside the agent moves to another point of the hook.
LEMMA MoveTypes ==
  ASSUME PcTypeOK, HookInv, VMInv, NEW t \in Threads, NEW p \in HookPoints, Goto(t, p),
         pc[t] # "idle" \/ p = "idle", UNCHANGED <<class, loader, helpersLeft>>,
         UNCHANGED dep \/ \E d \in Classes : dep' = [dep EXCEPT ![t] = d], FrameTypeOK
  PROVE  PcTypeOK' /\ HookInv' /\ VMInv'
<1>1. t \in Actors /\ VM \in Actors /\ t # VM BY AgentAssumption DEF Actors
<1>2. pc' = [pc EXCEPT ![t] = p] BY DEF Goto
<1>3. PcTypeOK' BY <1>1, <1>2, AgentAssumption DEF PcTypeOK, Actors
<1>4. pc'[VM] = pc[VM] /\ pc'[t] = p /\ \A u \in Threads \ {t} : pc'[u] = pc[u]
  BY <1>1, <1>2, AgentAssumption DEF PcTypeOK, Actors
<1>5. \A u \in Threads : dep'[u] = dep[u] \/ (u = t /\ dep'[u] \in Classes)
  BY DEF FrameTypeOK
<1>6. HookInv' BY <1>4, <1>5 DEF HookInv
<1> QED BY <1>3, <1>4, <1>6 DEF VMInv

\* A thread leaves the agent.
LEMMA LeaveTypes ==
  ASSUME PcTypeOK, HookInv, VMInv, FrameTypeOK, NEW t \in Threads, Goto(t, "idle"), Leave(t),
         UNCHANGED helpersLeft
  PROVE  PcTypeOK' /\ HookInv' /\ VMInv' /\ FrameTypeOK'
<1>1. t \in Actors /\ VM \in Actors /\ t # VM BY AgentAssumption DEF Actors
<1>2. pc' = [pc EXCEPT ![t] = "idle"] BY DEF Goto
<1>3. PcTypeOK' BY <1>1, <1>2, AgentAssumption DEF PcTypeOK, Actors, HookPoints
<1>4. pc'[VM] = pc[VM] /\ pc'[t] = "idle" /\ \A u \in Threads \ {t} : pc'[u] = pc[u]
  BY <1>1, <1>2, AgentAssumption DEF PcTypeOK, Actors
<1>5. \A u \in Threads \ {t} : class'[u] = class[u] /\ loader'[u] = loader[u] /\ dep'[u] = dep[u]
  BY DEF Leave, FrameTypeOK
<1>6. HookInv' BY <1>4, <1>5 DEF HookInv
<1>7. FrameTypeOK' BY DEF Leave, FrameTypeOK
<1> QED BY <1>3, <1>4, <1>6, <1>7 DEF VMInv

\* Receiving an acknowledgement and sending the arguments keeps both queues queues of messages.
LEMMA AckQueues ==
  ASSUME toServer \in Seq(Message), toAgent \in Seq(Message), NEW a, NEW p,
         NEW args \in Seq(Message), Acknowledged(a, p, args)
  PROVE  toServer' \in Seq(Message) /\ toAgent' \in Seq(Message)
<1>1. toAgent' \in Seq(Message) BY TakeType DEF Acknowledged, AgentTakes
<1>2. toServer' = toServer \/ toServer' = toServer \o args
  BY DEF Acknowledged, AgentSends, Abort
<1> QED BY <1>1, <1>2, SendType

\* Steps of a hook keep the types.
LEMMA HookTypes ==
  ASSUME TypeInv, NEW t \in Threads, HookStep(t), UNCHANGED server
  PROVE  TypeInv'
<1> USE NamesAssumption, AgentAssumption
<1>0. /\ PcTypeOK /\ FrameTypeOK /\ LockTypeOK /\ TableTypeOK /\ JvmTypeOK
      /\ HookInv /\ VMInv /\ toServer \in Seq(Message) /\ toAgent \in Seq(Message)
  BY DEF TypeInv, TypeOK, AgentTypeOK
<1>s. ServerTypeOK' /\ StreamInv'
  BY DEF TypeInv, TypeOK, ServerTypeOK, StreamInv, server
<1>r. toAgent # <<>> => /\ Reply \in Message /\ Reply.of \in Names \cup {None}
                        /\ Tail(toAgent) \in Seq(Message)
  BY <1>0, TakeType DEF Reply
<1> DEFINE PCs == PcTypeOK' /\ HookInv' /\ VMInv'
           Data == FrameTypeOK' /\ LockTypeOK' /\ TableTypeOK' /\ JvmTypeOK'
           Queues == toServer' \in Seq(Message) /\ toAgent' \in Seq(Message)
<1> SUFFICES PCs /\ Data /\ Queues
  BY <1>s DEF TypeInv, TypeOK, AgentTypeOK
\* What is left alone keeps its type.
<1>u. /\ UNCHANGED pc /\ UNCHANGED frame /\ UNCHANGED jvm => PCs
      /\ UNCHANGED <<frame, got>> => FrameTypeOK'
      /\ UNCHANGED locks => LockTypeOK'
      /\ UNCHANGED tables => TableTypeOK'
      /\ UNCHANGED jvm => JvmTypeOK'
      /\ UNCHANGED wire => Queues
  BY <1>0 DEF PcTypeOK, HookInv, VMInv, FrameTypeOK, LockTypeOK, TableTypeOK, JvmTypeOK, frame,
              locks, tables, jvm, life, wire
<1>1. CASE EnterHook(t)
  <2>1. PCs BY <1>0, <1>1, MoveTypes DEF EnterHook, HookPoints, HookReceives, At, frame, jvm,
      life, Loads
  <2>2. Data BY <1>0, <1>u, <1>1 DEF EnterHook, frame, locks, tables, jvm, life, LockTypeOK,
      JvmTypeOK, HookInv, Loads, Outcomes, At
  <2>3. Queues BY <1>0, <1>1 DEF EnterHook, wire
  <2> QED BY <2>1, <2>2, <2>3
<1>2. CASE FoundInCache(t)
  <2>1. PCs BY <1>0, <1>2, MoveTypes DEF FoundInCache, HookPoints, HookReceives, At, frame,
      jvm, life
  <2>2. Data BY <1>0, <1>u, <1>2 DEF FoundInCache, frame, locks, tables, jvm, life
  <2>3. Queues BY <1>0, <1>2 DEF FoundInCache, wire
  <2> QED BY <2>1, <2>2, <2>3
<1>3. CASE AskHasClass(t)
  <2>1. PCs BY <1>0, <1>3, MoveTypes DEF AskHasClass, HookPoints, HookReceives, At, frame, jvm,
      life
  <2>2. Data BY <1>0, <1>u, <1>3 DEF AskHasClass, frame, locks, tables, jvm, life, Lock,
      LockTypeOK
  <2>3. Queues
    <3>1. <<Text("CHECK_HAS_CLASS")>> \in Seq(Message) BY TextIsMessage DEF Requests
    <3> QED BY <1>0, <1>3, <3>1, SendType DEF AskHasClass, AgentSends
  <2> QED BY <2>1, <2>2, <2>3
<1>4. CASE CheckAck(t)
  <2>1. PCs
    <3>1. CASE Reply.kind = "ack_req_msg"
      BY <1>0, <1>4, <3>1, MoveTypes DEF CheckAck, Acknowledged, HookPoints, HookReceives, At,
          frame, jvm, life
    <3>2. CASE Reply.kind # "ack_req_msg"
      BY <1>0, <1>4, <3>2 DEF CheckAck, Acknowledged, Abort, PcTypeOK, HookInv, VMInv, frame
    <3> QED BY <3>1, <3>2
  <2>2. Data BY <1>0, <1>u, <1>4 DEF CheckAck, frame, locks, tables, jvm, life, Acknowledged,
      Abort,
      JvmTypeOK
  <2>3. Queues
    <3>1. dep[t] \in Names BY <1>0, <1>4 DEF CheckAck, HookInv, At, Names
    <3>2. <<Name(dep[t])>> \in Seq(Message) BY <3>1, BlobIsMessages
    <3> QED BY <1>0, <1>4, <3>2, AckQueues DEF CheckAck
  <2> QED BY <2>1, <2>2, <2>3
<1>5. CASE CheckReply(t)
  <2>1. PCs BY <1>0, <1>5, MoveTypes DEF CheckReply, HookPoints, HookReceives, At, frame, jvm,
      life
  <2>2. Data BY <1>0, <1>u, <1>5 DEF CheckReply, frame, locks, tables, jvm, life, Unlock,
      LockTypeOK,
      TableTypeOK, HookInv, At
  <2>3. Queues BY <1>0, <1>r, <1>5 DEF CheckReply, AgentTakes
  <2> QED BY <2>1, <2>2, <2>3
<1>6. CASE SendClassData(t)
  <2>1. PCs BY <1>0, <1>6, MoveTypes DEF SendClassData, HookPoints, HookReceives, At, frame,
      jvm, life
  <2>2. Data BY <1>0, <1>u, <1>6 DEF SendClassData, frame, locks, tables, jvm, life, Lock,
      LockTypeOK
  <2>3. Queues
    <3>1. <<Text("REGISTER_BYTECODE")>> \in Seq(Message) BY TextIsMessage DEF Requests
    <3> QED BY <1>0, <1>6, <3>1, SendType DEF SendClassData, AgentSends
  <2> QED BY <2>1, <2>2, <2>3
<1>7. CASE TriggerLoading(t)
  <2>1. PCs BY <1>0, <1>7, MoveTypes DEF TriggerLoading, HookPoints, HookReceives, At, frame,
      jvm, life, Abort
  <2>2. Data BY <1>0, <1>u, <1>7 DEF TriggerLoading, frame, locks, tables, jvm, life, Abort,
      JvmTypeOK
  <2>3. Queues BY <1>0, <1>7 DEF TriggerLoading, wire
  <2> QED BY <2>1, <2>2, <2>3
<1>8. CASE RegisterAck(t)
  <2>1. PCs
    <3>1. CASE Reply.kind = "ack_req_msg"
      BY <1>0, <1>8, <3>1, MoveTypes DEF RegisterAck, Acknowledged, HookPoints, HookReceives,
          At, frame, jvm, life
    <3>2. CASE Reply.kind # "ack_req_msg"
      BY <1>0, <1>8, <3>2 DEF RegisterAck, Acknowledged, Abort, PcTypeOK, HookInv, VMInv, frame
    <3> QED BY <3>1, <3>2
  <2>2. Data
    <3>1. dep[t] \in Classes BY <1>0, <1>8 DEF RegisterAck, HookInv, At
    <3>2. Refs[dep[t]] \subseteq Classes BY <3>1
    <3>3. FrameTypeOK'
      <4>1. todo' \in [Threads -> SUBSET Classes] BY <1>0, <1>8, <3>2 DEF RegisterAck, FrameTypeOK
      <4> QED BY <1>0, <1>8, <4>1 DEF RegisterAck, FrameTypeOK
    <3>4. LockTypeOK' BY <1>0, <1>8 DEF RegisterAck, LockTypeOK, Unlock
    <3>5. TableTypeOK' BY <1>0, <1>8, <3>1 DEF RegisterAck, TableTypeOK
    <3>6. JvmTypeOK' BY <1>0, <1>8 DEF RegisterAck, Acknowledged, Abort, JvmTypeOK, jvm, life
    <3> QED BY <3>3, <3>4, <3>5, <3>6
  <2>3. Queues
    <3>1. dep[t] \in Names BY <1>0, <1>8 DEF RegisterAck, HookInv, At, Names
    <3>2. <<Name(dep[t]), Payload(dep[t])[2]>> \in Seq(Message) BY <3>1, BlobIsMessages
    <3> QED BY <1>0, <1>8, <3>2, AckQueues DEF RegisterAck
  <2> QED BY <2>1, <2>2, <2>3
<1>9. CASE NextDependency(t)
  <2>1. PCs BY <1>0, <1>9, MoveTypes DEF NextDependency, HookPoints, HookReceives, At,
      FrameTypeOK, jvm, life
  <2>2. Data BY <1>0, <1>u, <1>9 DEF NextDependency, frame, locks, tables, jvm, life, FrameTypeOK
  <2>3. Queues BY <1>0, <1>9 DEF NextDependency, wire
  <2> QED BY <2>1, <2>2, <2>3
<1>10. CASE RequestInstrument(t)
  <2>1. PCs BY <1>0, <1>10, MoveTypes DEF RequestInstrument, HookPoints, HookReceives, At,
      frame, jvm, life
  <2>2. Data BY <1>0, <1>u, <1>10 DEF RequestInstrument, frame, locks, tables, jvm, life, Lock,
      LockTypeOK
  <2>3. Queues
    <3>1. <<Text("INSTRUMENT")>> \in Seq(Message) BY TextIsMessage DEF Requests
    <3> QED BY <1>0, <1>10, <3>1, SendType DEF RequestInstrument, AgentSends
  <2> QED BY <2>1, <2>2, <2>3
<1>11. CASE InstrumentAck(t)
  <2>1. PCs
    <3>1. CASE Reply.kind = "ack_req_msg"
      BY <1>0, <1>11, <3>1, MoveTypes DEF InstrumentAck, Acknowledged, HookPoints, HookReceives,
          At, frame, jvm, life
    <3>2. CASE Reply.kind # "ack_req_msg"
      BY <1>0, <1>11, <3>2 DEF InstrumentAck, Acknowledged, Abort, PcTypeOK, HookInv, VMInv, frame
    <3> QED BY <3>1, <3>2
  <2>2. Data BY <1>0, <1>u, <1>11 DEF InstrumentAck, frame, locks, tables, jvm, life,
      Acknowledged,
      Abort, JvmTypeOK
  <2>3. Queues
    <3>1. class[t] \in Names BY <1>0, <1>11 DEF InstrumentAck, HookInv, At, Names
    <3>2. <<Name(class[t])>> \in Seq(Message) BY <3>1, BlobIsMessages
    <3> QED BY <1>0, <1>11, <3>2, AckQueues DEF InstrumentAck
  <2> QED BY <2>1, <2>2, <2>3
<1>12. CASE ReceiveAuxMarker(t)
  <2>1. PCs BY <1>0, <1>12, MoveTypes DEF ReceiveAuxMarker, HookPoints, HookReceives, At,
      frame, jvm, life
  <2>2. Data BY <1>0, <1>u, <1>12 DEF ReceiveAuxMarker, frame, locks, tables, jvm, life
  <2>3. Queues BY <1>0, <1>r, <1>12 DEF ReceiveAuxMarker, AgentTakes
  <2> QED BY <2>1, <2>2, <2>3
<1>13. CASE ReceiveAuxName(t)
  <2>1. PCs BY <1>0, <1>13, MoveTypes DEF ReceiveAuxName, HookPoints, HookReceives, At, frame,
      jvm, life
  <2>2. Data BY <1>0, <1>u, <1>r, <1>13 DEF ReceiveAuxName, frame, locks, tables, jvm, life,
      AgentTakes, FrameTypeOK
  <2>3. Queues BY <1>0, <1>r, <1>13 DEF ReceiveAuxName, AgentTakes
  <2> QED BY <2>1, <2>2, <2>3
<1>14. CASE ReceiveAuxBytes(t)
  <2>1. PCs BY <1>0, <1>14, MoveTypes DEF ReceiveAuxBytes, HookPoints, HookReceives, At, frame,
      jvm, life
  <2>2. Data BY <1>0, <1>u, <1>14 DEF ReceiveAuxBytes, frame, locks, tables, jvm, life,
      FrameTypeOK,
      TableTypeOK, Actors
  <2>3. Queues BY <1>0, <1>r, <1>14 DEF ReceiveAuxBytes, AgentTakes
  <2> QED BY <2>1, <2>2, <2>3
<1>15. CASE ReceiveInitMarker(t)
  <2>1. PCs BY <1>0, <1>15, MoveTypes DEF ReceiveInitMarker, HookPoints, HookReceives, At,
      frame, jvm, life
  <2>2. Data BY <1>0, <1>u, <1>15 DEF ReceiveInitMarker, frame, locks, tables, jvm, life
  <2>3. Queues BY <1>0, <1>r, <1>15 DEF ReceiveInitMarker, AgentTakes
  <2> QED BY <2>1, <2>2, <2>3
<1>16. CASE ReceiveInterceptorName(t)
  <2>1. PCs BY <1>0, <1>16, MoveTypes DEF ReceiveInterceptorName, HookPoints, HookReceives, At,
      frame, jvm, life
  <2>2. Data BY <1>0, <1>u, <1>r, <1>16 DEF ReceiveInterceptorName, frame, locks, tables, jvm,
      life,
      AgentTakes, FrameTypeOK
  <2>3. Queues BY <1>0, <1>r, <1>16 DEF ReceiveInterceptorName, AgentTakes
  <2> QED BY <2>1, <2>2, <2>3
<1>17. CASE ReceiveInterceptorBytes(t)
  <2>1. PCs BY <1>0, <1>17, MoveTypes DEF ReceiveInterceptorBytes, HookPoints, HookReceives, At,
      frame, jvm, life
  <2>2. Data BY <1>0, <1>u, <1>17 DEF ReceiveInterceptorBytes, frame, locks, tables, jvm, life,
      FrameTypeOK, TableTypeOK, Actors
  <2>3. Queues BY <1>0, <1>r, <1>17 DEF ReceiveInterceptorBytes, AgentTakes
  <2> QED BY <2>1, <2>2, <2>3
<1>18. CASE DefineInterceptor(t)
  <2>1. PCs BY <1>0, <1>18, MoveTypes DEF DefineInterceptor, HookPoints, HookReceives, At,
      frame, jvm, life
  <2>2. Data
    <3>1. got[t] \in Names \cup {None} /\ loader[t] \in Loaders
      BY <1>0, <1>18 DEF DefineInterceptor, HookInv, FrameTypeOK, At, Actors
    <3>2. \/ UNCHANGED loadedInterceptorsPerCl
          \/ loadedInterceptorsPerCl' =
               [loadedInterceptorsPerCl EXCEPT ![loader[t]] = @ \cup {got[t]}]
      BY <1>18 DEF DefineInterceptor
    <3>3. loadedInterceptorsPerCl' \in [Loaders -> SUBSET (Names \cup {None})]
      BY <1>0, <3>1, <3>2 DEF TableTypeOK
    <3>4. TableTypeOK' BY <1>0, <1>18, <3>3 DEF DefineInterceptor, TableTypeOK
    <3> QED BY <1>0, <1>u, <1>18, <3>4 DEF DefineInterceptor, frame, locks, jvm, life
  <2>3. Queues BY <1>0, <1>18 DEF DefineInterceptor, wire
  <2> QED BY <2>1, <2>2, <2>3
<1>19. CASE ReceiveInitializerBytes(t)
  <2>1. PCs BY <1>0, <1>19, MoveTypes DEF ReceiveInitializerBytes, HookPoints, HookReceives, At,
      frame, jvm, life
  <2>2. FrameTypeOK' /\ LockTypeOK' /\ TableTypeOK'
    BY <1>0, <1>u, <1>r, <1>19 DEF ReceiveInitializerBytes, AgentTakes, TableTypeOK, HookInv, At
  <2>4. JvmTypeOK'
    BY <1>0, <1>19 DEF ReceiveInitializerBytes, Race, Preparations, JvmTypeOK, life
  <2>3. Queues BY <1>0, <1>r, <1>19 DEF ReceiveInitializerBytes, AgentTakes
  <2> QED BY <2>1, <2>2, <2>3, <2>4
<1>20. CASE ReceiveUnread(t)
  <2>1. AfterUnread[pc[t]] \in HookPoints /\ pc[t] # "idle"
    BY <1>20 DEF ReceiveUnread, AfterUnread, HookPoints, HookReceives
  <2>2. PCs BY <1>0, <1>20, <2>1, MoveTypes DEF ReceiveUnread, frame, jvm, life
  <2>3. Data BY <1>0, <1>u, <1>20 DEF ReceiveUnread, frame, locks, tables, jvm, life
  <2>4. Queues BY <1>0, <1>r, <1>20 DEF ReceiveUnread, AgentTakes
  <2> QED BY <2>2, <2>3, <2>4
<1>21. CASE ReceiveVerdict(t)
  <2>1. PCs
    <3>1. CASE UNCHANGED pc
      BY <1>0, <1>21, <3>1 DEF ReceiveVerdict, Loads, Abort, PcTypeOK, HookInv, VMInv, frame,
          jvm, life
    <3>2. CASE Goto(t, "newLength") \/ Goto(t, "exit")
      BY <1>0, <1>21, <3>2, MoveTypes DEF ReceiveVerdict, Loads, Abort, HookPoints,
          HookReceives, At, frame, jvm, life
    <3> QED BY <1>21, <3>1, <3>2 DEF ReceiveVerdict
  <2>2. Data
    <3>1. FrameTypeOK' /\ TableTypeOK'
      BY <1>u, <1>21 DEF ReceiveVerdict
    <3>2. LockTypeOK'
      BY <1>0, <1>u, <1>21 DEF ReceiveVerdict, Unlock, LockTypeOK, locks
    <3>3. class[t] \in Classes /\ loader[t] \in Loaders
      BY <1>0, <1>21 DEF ReceiveVerdict, At, HookInv
    <3>4. JvmTypeOK'
      BY <1>0, <1>u, <1>21, <3>3 DEF ReceiveVerdict, Abort, Loads, Outcomes, JvmTypeOK, jvm, life
    <3> QED BY <3>1, <3>2, <3>4
  <2>3. Queues BY <1>0, <1>r, <1>21 DEF ReceiveVerdict, AgentTakes
  <2> QED BY <2>1, <2>2, <2>3
<1>22. CASE ReceiveNewBytes(t)
  <2>1. PCs BY <1>0, <1>22, MoveTypes DEF ReceiveNewBytes, HookPoints, HookReceives, At, frame,
      jvm, life, Loads
  <2>2. Data BY <1>0, <1>u, <1>22 DEF ReceiveNewBytes, frame, locks, tables, jvm, life, Loads,
      Outcomes, JvmTypeOK, HookInv, At
  <2>3. Queues BY <1>0, <1>r, <1>22 DEF ReceiveNewBytes, AgentTakes
  <2> QED BY <2>1, <2>2, <2>3
<1>23. CASE ExitHook(t)
  <2>1. PCs BY <1>0, <1>23, LeaveTypes DEF ExitHook, jvm, life
  <2>2. UNCHANGED helpersLeft BY <1>23 DEF ExitHook, jvm
  <2>4. Data
    <3>1. FrameTypeOK' BY <1>0, <1>23, <2>2, LeaveTypes DEF ExitHook
    <3> QED BY <1>0, <1>u, <1>23, <3>1 DEF ExitHook, LockTypeOK
  <2>3. Queues BY <1>0, <1>23 DEF ExitHook, wire
  <2> QED BY <2>1, <2>3, <2>4
<1> QED BY HookStep(t), <1>1, <1>2, <1>3, <1>4, <1>5, <1>6, <1>7, <1>8, <1>9, <1>10, <1>11,
    <1>12, <1>13, <1>14, <1>15, <1>16, <1>17, <1>18, <1>19, <1>20, <1>21, <1>22,
        <1>23 DEF HookStep

\* The VM callbacks move VM only.
LEMMA VMMoveTypes ==
  ASSUME PcTypeOK, HookInv, NEW p \in VMPoints, Goto(VM, p), UNCHANGED <<class, loader, dep>>,
         p \in {"helperName", "helperLength", "helperBytes"} => helpersLeft' # 0
  PROVE  PcTypeOK' /\ HookInv' /\ VMInv'
<1>1. VM \in Actors /\ \A t \in Threads : t \in Actors /\ t # VM BY AgentAssumption DEF Actors
<1>2. pc' = [pc EXCEPT ![VM] = p] BY DEF Goto
<1>3. pc'[VM] = p /\ \A t \in Threads : pc'[t] = pc[t] BY <1>1, <1>2 DEF PcTypeOK
<1>4. PcTypeOK' BY <1>1, <1>2, <1>3 DEF PcTypeOK
<1> QED BY <1>3, <1>4 DEF HookInv, VMInv

\* The number of helper classes is a natural number.
LEMMA AtoiType == ASSUME NEW msg PROVE Atoi(msg) \in Nat
BY ServerAssumption, AgentAssumption, FS_CardinalityType DEF Atoi

\* Steps of VMInit and VMDeath keep the types.
LEMMA VMTypes ==
  ASSUME TypeInv, VMStep, UNCHANGED server
  PROVE  TypeInv'
<1> USE NamesAssumption, AgentAssumption
<1>0. /\ PcTypeOK /\ FrameTypeOK /\ LockTypeOK /\ TableTypeOK /\ JvmTypeOK
      /\ HookInv /\ VMInv /\ toServer \in Seq(Message) /\ toAgent \in Seq(Message)
  BY DEF TypeInv, TypeOK, AgentTypeOK
<1>s. ServerTypeOK' /\ StreamInv'
  BY DEF TypeInv, TypeOK, ServerTypeOK, StreamInv, server
<1>r. toAgent # <<>> => /\ Reply \in Message /\ Reply.of \in Names \cup {None}
                        /\ Tail(toAgent) \in Seq(Message)
  BY <1>0, TakeType DEF Reply
<1> DEFINE PCs == PcTypeOK' /\ HookInv' /\ VMInv'
           Data == FrameTypeOK' /\ LockTypeOK' /\ TableTypeOK' /\ JvmTypeOK'
           Queues == toServer' \in Seq(Message) /\ toAgent' \in Seq(Message)
<1> SUFFICES PCs /\ Data /\ Queues
  BY <1>s DEF TypeInv, TypeOK, AgentTypeOK
<1>u. /\ UNCHANGED <<frame, got>> => FrameTypeOK'
      /\ UNCHANGED locks => LockTypeOK'
      /\ UNCHANGED tables => TableTypeOK'
      /\ UNCHANGED jvm => JvmTypeOK'
  BY <1>0 DEF FrameTypeOK, LockTypeOK, TableTypeOK, JvmTypeOK, frame, locks, tables, jvm, life
<1>e. <<>> \in Seq(Message) OBVIOUS
<1>1. CASE VMInit
  <2>1. PCs BY <1>0, <1>1, VMMoveTypes DEF VMInit, VMPoints, VMReceives, frame
  <2>2. Data BY <1>0, <1>u, <1>1 DEF VMInit, JvmTypeOK, life
  <2>3. <<Text("HELPER_CLASSES")>> \in Seq(Message) BY TextIsMessage DEF Requests
  <2> QED BY <1>0, <1>1, <2>1, <2>2, <2>3, SendType DEF VMInit, AgentSends
<1>2. CASE HelpersAck
  <2>1. PCs
    <3>1. CASE Reply.kind = "ack_req_msg"
      BY <1>0, <1>2, <3>1, VMMoveTypes DEF HelpersAck, Acknowledged, VMPoints, VMReceives,
          frame, jvm, life
    <3>2. CASE Reply.kind # "ack_req_msg"
      BY <1>0, <1>2, <3>2 DEF HelpersAck, Acknowledged, Abort, PcTypeOK, HookInv, VMInv, frame
    <3> QED BY <3>1, <3>2
  <2>2. Data BY <1>0, <1>u, <1>2 DEF HelpersAck, Acknowledged, Abort, JvmTypeOK
  <2>3. Queues BY <1>0, <1>2, <1>e, AckQueues DEF HelpersAck
  <2> QED BY <2>1, <2>2, <2>3
<1>3. CASE HelpersCount
  <2>1. helpersLeft' \in Nat BY <1>3, AtoiType DEF HelpersCount
  <2>2. PCs BY <1>0, <1>3, VMMoveTypes DEF HelpersCount, VMPoints, VMReceives, frame
  <2>3. Data BY <1>0, <1>u, <1>3, <2>1 DEF HelpersCount, JvmTypeOK, life
  <2>4. Queues BY <1>0, <1>r, <1>3 DEF HelpersCount, AgentTakes
  <2> QED BY <2>2, <2>3, <2>4
<1>4. CASE HelperName
  <2>1. PCs BY <1>0, <1>4, VMMoveTypes DEF HelperName, VMInv, At, VMPoints, VMReceives, frame,
      jvm, life
  <2>2. FrameTypeOK' BY <1>0, <1>r, <1>4 DEF HelperName, AgentTakes, FrameTypeOK, frame
  <2>3. Data BY <1>0, <1>u, <1>4, <2>2 DEF HelperName
  <2>4. Queues BY <1>0, <1>r, <1>4 DEF HelperName, AgentTakes
  <2> QED BY <2>1, <2>3, <2>4
<1>5. CASE HelperLength
  <2>1. PCs BY <1>0, <1>5, VMMoveTypes DEF HelperLength, VMInv, At, VMPoints, VMReceives,
      frame, jvm, life
  <2>2. Data BY <1>0, <1>u, <1>5 DEF HelperLength
  <2>3. Queues BY <1>0, <1>r, <1>5 DEF HelperLength, AgentTakes
  <2> QED BY <2>1, <2>2, <2>3
<1>6. CASE HelperBytes
  <2>1. helpersLeft' \in Nat BY <1>0, <1>6 DEF HelperBytes, At, VMInv, JvmTypeOK
  <2>2. PCs BY <1>0, <1>6, VMMoveTypes DEF HelperBytes, VMPoints, VMReceives, frame
  <2>3. got[VM] \in Names \cup {None} BY <1>0 DEF FrameTypeOK, Actors
  <2>4. Data BY <1>0, <1>u, <1>6, <2>1, <2>3 DEF HelperBytes, JvmTypeOK, TableTypeOK, life
  <2>5. Queues BY <1>0, <1>r, <1>6 DEF HelperBytes, AgentTakes
  <2> QED BY <2>2, <2>4, <2>5
<1>7. CASE VMDeath
  <2>1. PCs BY <1>0, <1>7, VMMoveTypes DEF VMDeath, VMPoints, VMReceives, frame, jvm, life
  <2>2. Data BY <1>0, <1>u, <1>7 DEF VMDeath
  <2>3. <<Text("STOP")>> \in Seq(Message) BY TextIsMessage DEF Requests
  <2>4. toServer \o <<Text("STOP")>> \in Seq(Message) BY <1>0, <2>3, SendType
  <2>5. toServer' = toServer \/ toServer' = toServer \o <<Text("STOP")>>
    BY <1>7 DEF VMDeath, AgentSends
  <2>6. toServer' \in Seq(Message) BY <1>0, <2>4, <2>5
  <2>7. Queues BY <1>0, <1>7, <2>6 DEF VMDeath
  <2> QED BY <2>1, <2>2, <2>7
<1>8. CASE StopAck
  <2>1. PCs
    <3>1. CASE Reply.kind = "ack_req_msg"
      BY <1>0, <1>8, <3>1, VMMoveTypes DEF StopAck, Acknowledged, VMPoints, VMReceives, frame,
          jvm, life
    <3>2. CASE Reply.kind # "ack_req_msg"
      BY <1>0, <1>8, <3>2 DEF StopAck, Acknowledged, Abort, PcTypeOK, HookInv, VMInv, frame
    <3> QED BY <3>1, <3>2
  <2>2. Data BY <1>0, <1>u, <1>8 DEF StopAck, Acknowledged, Abort, JvmTypeOK
  <2>3. Queues BY <1>0, <1>8, <1>e, AckQueues DEF StopAck
  <2> QED BY <2>1, <2>2, <2>3
<1> QED BY <1>1, <1>2, <1>3, <1>4, <1>5, <1>6, <1>7, <1>8 DEF VMStep

\* A new load keeps the types.
LEMMA BeginTypes ==
  ASSUME TypeInv, NEW t \in Threads, NEW c \in Classes, NEW l \in Loaders, BeginLoad(t, c, l),
         UNCHANGED server
  PROVE  TypeInv'
<1> USE NamesAssumption, AgentAssumption
<1>0. /\ PcTypeOK /\ FrameTypeOK /\ LockTypeOK /\ TableTypeOK /\ JvmTypeOK
      /\ HookInv /\ VMInv /\ toServer \in Seq(Message) /\ toAgent \in Seq(Message)
  BY DEF TypeInv, TypeOK, AgentTypeOK
<1>1. ServerTypeOK' /\ StreamInv'
  BY DEF TypeInv, TypeOK, ServerTypeOK, StreamInv, server
<1>2. t \in Actors /\ VM \in Actors /\ t # VM BY DEF Actors
<1>3. FrameTypeOK' BY <1>0 DEF BeginLoad, FrameTypeOK
<1>4. pc' = [pc EXCEPT ![t] = "enter"] BY DEF BeginLoad, Goto
<1>5. pc'[VM] = pc[VM] /\ \A u \in Threads \ {t} : pc'[u] = pc[u] BY <1>0, <1>2, <1>4 DEF PcTypeOK
<1>6. PcTypeOK' BY <1>0, <1>2, <1>4, <1>5 DEF PcTypeOK, HookPoints
<1>7. /\ class'[t] = c /\ loader'[t] = l /\ dep'[t] = c
      /\ \A u \in Threads \ {t} : class'[u] = class[u] /\ loader'[u] = loader[u] /\ dep'[u] = dep[u]
  BY <1>0 DEF BeginLoad, FrameTypeOK
<1>8. HookInv' BY <1>0, <1>5, <1>7 DEF HookInv
<1>9. JvmTypeOK' BY <1>0 DEF BeginLoad, JvmTypeOK, Outcomes, life
<1>10. LockTypeOK' /\ TableTypeOK' /\ VMInv'
  BY <1>0, <1>5 DEF BeginLoad, LockTypeOK, TableTypeOK, VMInv, locks, tables
<1>11. toServer' \in Seq(Message) /\ toAgent' \in Seq(Message) BY <1>0 DEF BeginLoad, wire
<1> QED BY <1>1, <1>3, <1>6, <1>8, <1>9, <1>10, <1>11 DEF TypeInv, TypeOK, AgentTypeOK

\* So does the preparation of a class, from its beginning ...
LEMMA PrepareTypes ==
  ASSUME TypeInv, NEW t \in Threads, NEW c \in Classes, NEW l \in Loaders, BeginPrepare(t, c, l),
         UNCHANGED server
  PROVE  TypeInv'
<1> USE NamesAssumption, AgentAssumption
<1>0. /\ PcTypeOK /\ FrameTypeOK /\ LockTypeOK /\ TableTypeOK /\ JvmTypeOK
      /\ HookInv /\ VMInv /\ toServer \in Seq(Message) /\ toAgent \in Seq(Message)
  BY DEF TypeInv, TypeOK, AgentTypeOK
<1>1. ServerTypeOK' /\ StreamInv'
  BY DEF TypeInv, TypeOK, ServerTypeOK, StreamInv, server
<1>2. t \in Actors /\ VM \in Actors /\ t # VM BY DEF Actors
<1>3. FrameTypeOK' BY <1>0 DEF BeginPrepare, FrameTypeOK
<1>4. pc' = [pc EXCEPT ![t] = "prepare"] BY DEF BeginPrepare, Goto
<1>5. pc'[VM] = pc[VM] /\ \A u \in Threads \ {t} : pc'[u] = pc[u] BY <1>0, <1>2, <1>4 DEF PcTypeOK
<1>6. PcTypeOK' BY <1>0, <1>2, <1>4, <1>5 DEF PcTypeOK, HookPoints
<1>7. /\ class'[t] = c /\ loader'[t] = l /\ dep'[t] = c
      /\ \A u \in Threads \ {t} : class'[u] = class[u] /\ loader'[u] = loader[u] /\ dep'[u] = dep[u]
  BY <1>0 DEF BeginPrepare, FrameTypeOK
<1>8. HookInv' BY <1>0, <1>5, <1>7 DEF HookInv
<1>9. JvmTypeOK' BY <1>0 DEF BeginPrepare, JvmTypeOK, Preparations, life
<1>10. LockTypeOK' /\ TableTypeOK' /\ VMInv'
  BY <1>0, <1>5 DEF BeginPrepare, LockTypeOK, TableTypeOK, VMInv, locks, tables
<1>11. toServer' \in Seq(Message) /\ toAgent' \in Seq(Message) BY <1>0 DEF BeginPrepare, wire
<1> QED BY <1>1, <1>3, <1>6, <1>8, <1>9, <1>10, <1>11 DEF TypeInv, TypeOK, AgentTypeOK

\* ... to the initializers that it finds, or misses.
LEMMA LoadInitializersTypes ==
  ASSUME TypeInv, NEW t \in Threads, LoadInitializersForClass(t), UNCHANGED server
  PROVE  TypeInv'
<1> USE NamesAssumption, AgentAssumption
<1>0. /\ PcTypeOK /\ FrameTypeOK /\ LockTypeOK /\ TableTypeOK /\ JvmTypeOK
      /\ HookInv /\ VMInv /\ toServer \in Seq(Message) /\ toAgent \in Seq(Message)
  BY DEF TypeInv, TypeOK, AgentTypeOK
<1>1. ServerTypeOK' /\ StreamInv'
  BY DEF TypeInv, TypeOK, ServerTypeOK, StreamInv, server
<1>2. UNCHANGED <<locks, tables, wire, helpersLeft>>
  BY DEF LoadInitializersForClass, Prepared, Abort, jvm, life
<1>3. PcTypeOK' /\ HookInv' /\ VMInv' /\ FrameTypeOK'
  <2>1. CASE Goto(t, "idle") /\ Leave(t)
    BY <1>0, <1>2, <2>1, LeaveTypes
  <2>2. CASE UNCHANGED <<pc, frame, got>>
    BY <1>0, <1>2, <2>2 DEF PcTypeOK, HookInv, VMInv, FrameTypeOK, frame
  <2> QED BY <2>1, <2>2 DEF LoadInitializersForClass
<1>4. class[t] \in Classes /\ loader[t] \in Loaders
  BY <1>0 DEF LoadInitializersForClass, At, HookInv
<1>5. JvmTypeOK'
  BY <1>0, <1>4 DEF LoadInitializersForClass, Prepared, Abort, Preparations, JvmTypeOK, jvm, life
<1>6. /\ LockTypeOK' /\ TableTypeOK'
      /\ toServer' \in Seq(Message) /\ toAgent' \in Seq(Message)
  BY <1>0, <1>2 DEF LockTypeOK, TableTypeOK, locks, tables, wire
<1> QED BY <1>1, <1>3, <1>5, <1>6 DEF TypeInv, TypeOK, AgentTypeOK

\* Being killed changes nothing else.
LEMMA KillTypes == TypeInv /\ Kill /\ UNCHANGED server => TypeInv'
BY DEF Kill, TypeInv, TypeOK, AgentTypeOK, PcTypeOK, FrameTypeOK, LockTypeOK, TableTypeOK,
    JvmTypeOK,
       HookInv, VMInv, ServerTypeOK, StreamInv, frame, locks, tables, wire, server

\* A restart of the application keeps the types.
LEMMA RestartTypes == TypeInv /\ Restart /\ UNCHANGED server => TypeInv'
<1> SUFFICES ASSUME TypeInv, Restart, UNCHANGED server PROVE TypeInv'
  OBVIOUS
<1>1. ServerTypeOK' /\ StreamInv'
  BY DEF TypeInv, TypeOK, ServerTypeOK, StreamInv, server
<1>2. PcTypeOK' /\ HookInv' /\ VMInv'
  BY AgentAssumption DEF Restart, PcTypeOK, HookInv, VMInv, HookPoints, VMPoints, Actors
<1>3. FrameTypeOK' /\ LockTypeOK' /\ TableTypeOK'
  BY DEF Restart, FrameTypeOK, LockTypeOK, TableTypeOK
<1>4. JvmTypeOK'
  <2>1. runs' \in Nat BY DEF TypeInv, TypeOK, AgentTypeOK, Restart, JvmTypeOK
  <2>2. /\ loads' \in [Classes \X Loaders -> Outcomes]
        /\ prepared' \in [Classes \X Loaders -> Preparations]
    BY DEF Restart, Outcomes, Preparations
  <2> QED BY <2>1, <2>2 DEF Restart, JvmTypeOK
<1>5. toServer' \in Seq(Message) /\ toAgent' \in Seq(Message)
  <2>1. toAgent \in Seq(Message) BY DEF TypeInv, TypeOK
  <2>2. PICK k \in 1..Len(toAgent) + 1 : toAgent' = SubSeq(toAgent, k, Len(toAgent))
    BY DEF Restart
  <2>3. SubSeq(toAgent, k, Len(toAgent)) \in Seq(Message) BY <2>1, SuffixType
  <2> QED BY <2>2, <2>3 DEF Restart
<1> QED BY <1>1, <1>2, <1>3, <1>4, <1>5 DEF TypeInv, TypeOK, AgentTypeOK

\* Every behaviour of the agent and the server stays in the types the modules declare, with the
\* streamed answer always about a class.
THEOREM TypeCorrect == Spec => []TypeInv
<1>1. Init => TypeInv
  <2> SUFFICES ASSUME Init PROVE TypeInv
    OBVIOUS
  <2>1. PcTypeOK /\ HookInv /\ VMInv
    BY AgentAssumption DEF Init, AgentInit, PcTypeOK, HookInv, VMInv, HookPoints, VMPoints, Actors
  <2>2. FrameTypeOK /\ LockTypeOK /\ TableTypeOK
    BY DEF Init, AgentInit, FrameTypeOK, LockTypeOK, TableTypeOK
  <2>3. JvmTypeOK BY DEF Init, AgentInit, JvmTypeOK, Outcomes, Preparations
  <2>4. ServerTypeOK /\ StreamInv BY DEF Init, ServerInit, ServerTypeOK, StreamInv, Receiving
  <2>5. toServer \in Seq(Message) /\ toAgent \in Seq(Message) BY DEF Init, AgentInit
  <2> QED BY <2>1, <2>2, <2>3, <2>4, <2>5 DEF TypeInv, TypeOK, AgentTypeOK
<1>2. TypeInv /\ [Next]_vars => TypeInv'
  <2> SUFFICES ASSUME TypeInv, [Next]_vars PROVE TypeInv'
    OBVIOUS
  <2>1. CASE AgentNext /\ UNCHANGED server
    BY <2>1, HookTypes, BeginTypes, PrepareTypes, LoadInitializersTypes, VMTypes, KillTypes,
        RestartTypes DEF AgentNext
  <2>2. CASE ServerNext /\ UNCHANGED agent
    BY <2>2, ServerTypes
  <2>3. CASE UNCHANGED vars
    BY <2>3 DEF vars, agent, server, wire, frame, locks, tables, jvm, life, TypeInv, TypeOK,
        AgentTypeOK,
                PcTypeOK, FrameTypeOK, LockTypeOK, TableTypeOK, JvmTypeOK, ServerTypeOK,
                    StreamInv,
                HookInv, VMInv
  <2> QED BY <2>1, <2>2, <2>3 DEF Next
<1> QED BY <1>1, <1>2, PTL DEF Spec

\* The type invariant the runs check holds in every state, for all values of the constants.
COROLLARY TypesHold == Spec => []TypeOK
<1>1. TypeInv => TypeOK BY DEF TypeInv
<1> QED BY <1>1, TypeCorrect, PTL

(* Mutual exclusion.  The monitor decides: a thread past EnterHook owns it.    *)
(* The VM callbacks do not take it, so the invariant needs the quiet JVM       *)
(* (~Overlap) to keep them apart from the hooks.                               *)

MonitorInv == \A t \in Threads : pc[t] \notin {"idle", "enter", "prepare"} => monitor = t
QuietInv   == ~Overlap /\ pc[VM] \in VMReceives => \A t \in Threads : pc[t] = "idle"

\* What a step of a hook does to the monitor: it takes it when it enters, gives it back when it
\* exits, and keeps it in between.
Enters(t)  == pc[t] = "enter" /\ monitor = None /\ monitor' = t
Exits(t)   == pc[t] = "exit" /\ pc'[t] = "idle" /\ monitor' = None
Remains(t) == pc[t] \notin {"idle", "enter", "prepare"} /\ UNCHANGED monitor

\* A step of a hook moves no other actor.
LEMMA HookMoves ==
  ASSUME PcTypeOK, NEW t \in Threads, HookStep(t)
  PROVE  /\ \A u \in Actors \ {t} : pc'[u] = pc[u]
         /\ Enters(t) \/ Exits(t) \/ Remains(t)
<1> USE AgentAssumption DEF PcTypeOK, At, Goto, Actors
<1>0. pc \in [Actors -> HookPoints \cup VMPoints] /\ t \in Actors OBVIOUS
<1>1. \A p : Goto(t, p) => pc'[t] = p /\ \A u \in Actors \ {t} : pc'[u] = pc[u]
  BY <1>0
<1>2. UNCHANGED pc => \A u \in Actors \ {t} : pc'[u] = pc[u] OBVIOUS
<1> HIDE DEF PcTypeOK, Goto, Actors
<1>3. CASE EnterHook(t) BY <1>1, <1>3 DEF EnterHook, Enters
<1>4. CASE ExitHook(t) BY <1>1, <1>4 DEF ExitHook, Exits
<1>5. CASE FoundInCache(t) BY <1>1, <1>2, <1>5 DEF FoundInCache, Remains, locks
<1>6. CASE AskHasClass(t) BY <1>1, <1>2, <1>6 DEF AskHasClass, Remains, locks, Lock
<1>7. CASE CheckAck(t) BY <1>1, <1>2, <1>7 DEF CheckAck, Remains, locks, Acknowledged
<1>8. CASE CheckReply(t) BY <1>1, <1>2, <1>8 DEF CheckReply, Remains, locks, Unlock
<1>9. CASE SendClassData(t) BY <1>1, <1>2, <1>9 DEF SendClassData, Remains, locks, Lock
<1>10. CASE TriggerLoading(t) BY <1>1, <1>2, <1>10 DEF TriggerLoading, Remains, locks
<1>11. CASE RegisterAck(t) BY <1>1, <1>2, <1>11
    DEF RegisterAck, Remains, locks, Acknowledged, Unlock
<1>12. CASE NextDependency(t) BY <1>1, <1>2, <1>12 DEF NextDependency, Remains, locks
<1>13. CASE RequestInstrument(t) BY <1>1, <1>2, <1>13 DEF RequestInstrument, Remains, locks, Lock
<1>14. CASE InstrumentAck(t) BY <1>1, <1>2, <1>14 DEF InstrumentAck, Remains, locks, Acknowledged
<1>15. CASE ReceiveAuxMarker(t) BY <1>1, <1>2, <1>15 DEF ReceiveAuxMarker, Remains, locks
<1>16. CASE ReceiveAuxName(t) BY <1>1, <1>2, <1>16 DEF ReceiveAuxName, Remains, locks
<1>17. CASE ReceiveAuxBytes(t) BY <1>1, <1>2, <1>17 DEF ReceiveAuxBytes, Remains, locks
<1>18. CASE ReceiveInitMarker(t) BY <1>1, <1>2, <1>18 DEF ReceiveInitMarker, Remains, locks
<1>19. CASE ReceiveInterceptorName(t)
    BY <1>1, <1>2, <1>19 DEF ReceiveInterceptorName, Remains, locks
<1>20. CASE ReceiveInterceptorBytes(t)
    BY <1>1, <1>2, <1>20 DEF ReceiveInterceptorBytes, Remains, locks
<1>21. CASE DefineInterceptor(t) BY <1>1, <1>2, <1>21 DEF DefineInterceptor, Remains, locks
<1>22. CASE ReceiveInitializerBytes(t)
    BY <1>1, <1>2, <1>22 DEF ReceiveInitializerBytes, Remains, locks
<1>23. CASE ReceiveUnread(t) BY <1>1, <1>2, <1>23 DEF ReceiveUnread, Remains, locks, AfterUnread
<1>24. CASE ReceiveVerdict(t) BY <1>1, <1>2, <1>24 DEF ReceiveVerdict, Remains, locks, Unlock
<1>25. CASE ReceiveNewBytes(t) BY <1>1, <1>2, <1>25 DEF ReceiveNewBytes, Remains, locks
<1> QED BY HookStep(t), <1>3, <1>4, <1>5, <1>6, <1>7, <1>8, <1>9, <1>10, <1>11, <1>12, <1>13,
    <1>14, <1>15, <1>16, <1>17, <1>18, <1>19, <1>20, <1>21, <1>22, <1>23, <1>24,
        <1>25 DEF HookStep

\* The monitor and the quiet JVM are respected by every step.
LEMMA ExclusionStep == TypeInv /\ MonitorInv /\ QuietInv /\ [Next]_vars => MonitorInv' /\ QuietInv'
<1> SUFFICES ASSUME TypeInv, MonitorInv, QuietInv, [Next]_vars PROVE MonitorInv' /\ QuietInv'
  OBVIOUS
<1> USE AgentAssumption
<1>0. PcTypeOK BY DEF TypeInv, TypeOK, AgentTypeOK
<1>1. ASSUME NEW t \in Threads, HookStep(t) PROVE MonitorInv' /\ QuietInv'
  <2>1. \A u \in Actors \ {t} : pc'[u] = pc[u] BY <1>0, <1>1, HookMoves
  <2>2. Enters(t) \/ Exits(t) \/ Remains(t) BY <1>0, <1>1, HookMoves
  <2>3. MonitorInv' BY <2>1, <2>2 DEF MonitorInv, Enters, Exits, Remains, Actors
  <2>4. pc[t] # "idle" BY <2>2 DEF Enters, Exits, Remains
  <2>5. pc'[VM] = pc[VM] BY <2>1 DEF Actors
  <2> QED BY <2>3, <2>4, <2>5 DEF QuietInv
<1>2. ASSUME NEW t \in Threads, NEW c \in Classes, NEW l \in Loaders, BeginLoad(t, c, l)
      PROVE  MonitorInv' /\ QuietInv'
  <2>1. pc' = [pc EXCEPT ![t] = "enter"] /\ monitor' = monitor
    BY <1>2 DEF BeginLoad, Goto, locks
  <2>2. Overlap \/ pc[VM] \notin VMReceives BY <1>2 DEF BeginLoad, VMReceives
  <2>3. pc'[VM] = pc[VM] /\ pc'[t] = "enter" /\ \A u \in Threads \ {t} : pc'[u] = pc[u]
    BY <1>0, <2>1 DEF PcTypeOK, Actors
  <2> QED BY <2>1, <2>2, <2>3 DEF MonitorInv, QuietInv
<1>8. ASSUME NEW t \in Threads, NEW c \in Classes, NEW l \in Loaders, BeginPrepare(t, c, l)
      PROVE  MonitorInv' /\ QuietInv'
  <2>1. pc' = [pc EXCEPT ![t] = "prepare"] /\ monitor' = monitor
    BY <1>8 DEF BeginPrepare, Goto, locks
  <2>2. Overlap \/ pc[VM] \notin VMReceives BY <1>8 DEF BeginPrepare, VMReceives
  <2>3. pc'[VM] = pc[VM] /\ pc'[t] = "prepare" /\ \A u \in Threads \ {t} : pc'[u] = pc[u]
    BY <1>0, <2>1 DEF PcTypeOK, Actors
  <2> QED BY <2>1, <2>2, <2>3 DEF MonitorInv, QuietInv
<1>9. ASSUME NEW t \in Threads, LoadInitializersForClass(t)
      PROVE  MonitorInv' /\ QuietInv'
  <2>1. \/ pc' = [pc EXCEPT ![t] = "idle"]
        \/ UNCHANGED pc
    BY <1>9 DEF LoadInitializersForClass, Goto
  <2>2. monitor' = monitor BY <1>9 DEF LoadInitializersForClass, locks
  <2>3. /\ pc'[VM] = pc[VM] /\ pc'[t] \in {"idle", pc[t]}
        /\ \A u \in Threads \ {t} : pc'[u] = pc[u]
    BY <1>0, <2>1 DEF PcTypeOK, Actors
  <2> QED BY <2>2, <2>3 DEF MonitorInv, QuietInv
<1>3. CASE VMStep
  <2>1. UNCHANGED pc \/ \E p \in VMPoints : Goto(VM, p)
    BY <1>3 DEF VMStep, VMInit, HelpersAck, HelpersCount, HelperName, HelperLength, HelperBytes,
                VMDeath, StopAck, Acknowledged, VMPoints, VMReceives
  <2>2. \A t \in Threads : pc'[t] = pc[t] BY <1>0, <2>1 DEF Goto, PcTypeOK, Actors
  <2>3. monitor' = monitor
    BY <1>3 DEF VMStep, VMInit, HelpersAck, HelpersCount, HelperName, HelperLength, HelperBytes,
                VMDeath, StopAck, locks
  <2>4. (VMInit \/ VMDeath) => (~Overlap => \A t \in Threads : pc[t] = "idle")
    BY DEF VMInit, VMDeath, QuietThreads
  <2>5. ~(VMInit \/ VMDeath) => pc[VM] \in VMReceives
    BY <1>3 DEF VMStep, HelpersAck, HelpersCount, HelperName, HelperLength, HelperBytes,
        StopAck, At,
                VMReceives
  <2> QED BY <2>2, <2>3, <2>4, <2>5 DEF MonitorInv, QuietInv
<1>4. CASE Restart
  BY <1>4 DEF Restart, MonitorInv, QuietInv, Actors, VMReceives
<1>5. CASE UNCHANGED <<pc, monitor>>
  BY <1>5 DEF MonitorInv, QuietInv
<1>6. ServerNext /\ UNCHANGED agent => UNCHANGED <<pc, monitor>> BY DEF agent, locks
<1>7. UNCHANGED vars => UNCHANGED <<pc, monitor>> BY DEF vars, agent, locks
<1>10. Kill => UNCHANGED <<pc, monitor>> BY DEF Kill, locks
<1> QED BY <1>1, <1>2, <1>3, <1>4, <1>5, <1>6, <1>7, <1>8, <1>9, <1>10 DEF Next, AgentNext

\* The monitor is honoured in every state: a thread past EnterHook owns it, mtx is held by that
\* thread alone, and a quiet JVM keeps hooks and VM callbacks apart.
THEOREM MonitorRespected == Spec => [](TypeInv /\ MonitorInv /\ QuietInv)
<1>1. Init => MonitorInv /\ QuietInv
  BY AgentAssumption DEF Init, AgentInit, MonitorInv, QuietInv, Actors
<1> QED BY <1>1, TypeCorrect, ExclusionStep, PTL DEF Spec

\* In a JVM that loads no class while it runs VMInit and VMDeath, no two actors are ever in the
\* middle of an exchange with the server.
THEOREM ExclusiveUse == ASSUME ~Overlap PROVE Spec => []SocketExclusive
<1>1. TypeInv /\ MonitorInv /\ QuietInv => SocketExclusive
  <2> SUFFICES ASSUME TypeInv, MonitorInv, QuietInv, NEW a \in InExchange, NEW b \in InExchange
               PROVE  a = b
    BY DEF SocketExclusive
  <2>0. PcTypeOK BY DEF TypeInv, TypeOK, AgentTypeOK
  <2>1. \A t \in InExchange \cap Threads : monitor = t
    BY <2>0 DEF InExchange, MonitorInv, PcTypeOK, HookReceives, VMReceives
  <2>2. VM \in InExchange => InExchange \cap Threads = {}
    <3> SUFFICES ASSUME VM \in InExchange PROVE InExchange \cap Threads = {}
      OBVIOUS
    <3>1. pc[VM] \in VMReceives
      BY <2>0, AgentAssumption DEF InExchange, HookReceives, VMReceives, PcTypeOK, VMPoints
    <3>2. \A t \in Threads : pc[t] = "idle" BY <3>1 DEF QuietInv
    <3> QED BY <3>2 DEF InExchange, HookReceives, VMReceives
  <2> QED BY <2>1, <2>2 DEF InExchange, Actors
<1> QED BY <1>1, MonitorRespected, PTL

(* Defining an interceptor inside mtx.  Every interceptor the agent has is an  *)
(* ignored class, and the one a thread is about to define is one of them, so   *)
(* the hook DefineClass raises returns at once.                                *)

DefineInv ==
  /\ interceptors \subseteq ignoredClasses
  /\ \A t \in Threads : pc[t] = "define" => got[t] \in ignoredClasses
  /\ NoSelfLock

\* One thread's part of DefineInv after its own step.
Defines(t) ==
  /\ interceptors' \subseteq ignoredClasses' /\ ignoredClasses \subseteq ignoredClasses'
  /\ pc'[t] = "define" => got'[t] \in ignoredClasses'
  /\ pc'[t] # "selfLocked"
  /\ \A u \in Actors \ {t} : got'[u] = got[u]

\* A step of a hook keeps the interceptors ignored, and leaves the names other threads received.
LEMMA HookDefines ==
  ASSUME PcTypeOK, FrameTypeOK, DefineInv, NEW t \in Threads, HookStep(t)
  PROVE  Defines(t)
<1>0. /\ pc \in [Actors -> HookPoints \cup VMPoints] /\ t \in Actors
      /\ got \in [Actors -> Names \cup {None}]
  BY DEF PcTypeOK, FrameTypeOK, Actors
<1>1. \A p : Goto(t, p) => pc'[t] = p BY <1>0 DEF Goto
<1>2. /\ pc[t] = "define" => got[t] \in ignoredClasses
      /\ pc[t] # "selfLocked" /\ interceptors \subseteq ignoredClasses
  BY DEF DefineInv, NoSelfLock
<1>3. \A n : got' = [got EXCEPT ![t] = n] => got'[t] = n /\ \A u \in Actors \ {t} : got'[u] = got[u]
  BY <1>0
<1>4. CASE ReceiveInterceptorName(t)
  BY <1>1, <1>2, <1>3, <1>4 DEF ReceiveInterceptorName, Defines, tables
<1>5. CASE ReceiveInterceptorBytes(t)
  BY <1>1, <1>2, <1>5 DEF ReceiveInterceptorBytes, Defines
<1>6. CASE DefineInterceptor(t)
  BY <1>1, <1>2, <1>6 DEF DefineInterceptor, ShouldContinue, Defines, At
<1>7. CASE EnterHook(t) BY <1>1, <1>2, <1>7 DEF EnterHook, Defines, tables
<1>8. CASE FoundInCache(t) BY <1>1, <1>2, <1>8 DEF FoundInCache, Defines, tables
<1>9. CASE AskHasClass(t) BY <1>1, <1>2, <1>9 DEF AskHasClass, Defines, tables
<1>10. CASE CheckAck(t) BY <1>1, <1>2, <1>10 DEF CheckAck, Defines, tables, Acknowledged, At
<1>11. CASE CheckReply(t) BY <1>1, <1>2, <1>11 DEF CheckReply, Defines, tables
<1>12. CASE SendClassData(t) BY <1>1, <1>2, <1>12 DEF SendClassData, Defines, tables
<1>13. CASE TriggerLoading(t) BY <1>1, <1>2, <1>13 DEF TriggerLoading, Defines, tables, At
<1>14. CASE RegisterAck(t) BY <1>1, <1>2, <1>14 DEF RegisterAck, Defines, tables, Acknowledged, At
<1>15. CASE NextDependency(t) BY <1>1, <1>2, <1>15 DEF NextDependency, Defines, tables
<1>16. CASE RequestInstrument(t) BY <1>1, <1>2, <1>16 DEF RequestInstrument, Defines, tables
<1>17. CASE InstrumentAck(t) BY <1>1, <1>2, <1>17
    DEF InstrumentAck, Defines, tables, Acknowledged, At
<1>18. CASE ReceiveAuxMarker(t) BY <1>1, <1>2, <1>18 DEF ReceiveAuxMarker, Defines, tables
<1>19. CASE ReceiveAuxBytes(t) BY <1>1, <1>2, <1>19 DEF ReceiveAuxBytes, Defines, tables
<1>20. CASE ReceiveInitMarker(t) BY <1>1, <1>2, <1>20 DEF ReceiveInitMarker, Defines, tables
<1>21. CASE ReceiveInitializerBytes(t)
    BY <1>1, <1>2, <1>21 DEF ReceiveInitializerBytes, Defines, tables
<1>22. CASE ReceiveUnread(t) BY <1>1, <1>2, <1>22 DEF ReceiveUnread, Defines, tables, AfterUnread
<1>23. CASE ReceiveVerdict(t) BY <1>1, <1>2, <1>23 DEF ReceiveVerdict, Defines, tables, At
<1>24. CASE ReceiveNewBytes(t) BY <1>1, <1>2, <1>24 DEF ReceiveNewBytes, Defines, tables
<1>25. CASE ExitHook(t) BY <1>1, <1>2, <1>3, <1>25 DEF ExitHook, Leave, Defines, tables
<1>26. CASE ReceiveAuxName(t) BY <1>1, <1>2, <1>3, <1>26 DEF ReceiveAuxName, Defines, tables
<1> QED BY HookStep(t), <1>4, <1>5, <1>6, <1>7, <1>8, <1>9, <1>10, <1>11, <1>12, <1>13, <1>14,
    <1>15, <1>16, <1>17, <1>18, <1>19, <1>20, <1>21, <1>22, <1>23, <1>24, <1>25,
        <1>26 DEF HookStep

\* Every step keeps the interceptors ignored, the one about to be defined included.
LEMMA DefineStep == TypeInv /\ DefineInv /\ [Next]_vars => DefineInv'
<1> SUFFICES ASSUME TypeInv, DefineInv, [Next]_vars PROVE DefineInv'
  OBVIOUS
<1> USE AgentAssumption
<1>0. PcTypeOK /\ FrameTypeOK BY DEF TypeInv, TypeOK, AgentTypeOK
<1>1. ASSUME NEW t \in Threads, HookStep(t) PROVE DefineInv'
  <2>1. \A u \in Actors \ {t} : pc'[u] = pc[u] BY <1>0, <1>1, HookMoves
  <2>2. Defines(t) BY <1>0, <1>1, HookDefines
  <2>3. ASSUME NEW u \in Threads
        PROVE  /\ pc'[u] = "define" => got'[u] \in ignoredClasses'
               /\ pc'[u] # "selfLocked"
    <3>1. CASE u = t BY <2>2, <3>1 DEF Defines
    <3>2. CASE u # t BY <2>1, <2>2, <3>2 DEF Defines, DefineInv, NoSelfLock, Actors
    <3> QED BY <3>1, <3>2
  <2> QED BY <2>2, <2>3 DEF Defines, DefineInv, NoSelfLock
<1>2. ASSUME NEW t \in Threads, NEW c \in Classes, NEW l \in Loaders, BeginLoad(t, c, l)
      PROVE  DefineInv'
  <2>1. pc' = [pc EXCEPT ![t] = "enter"] /\ UNCHANGED <<got, ignoredClasses, interceptors>>
    BY <1>2 DEF BeginLoad, Goto, tables
  <2>2. pc'[t] = "enter" /\ \A u \in Threads \ {t} : pc'[u] = pc[u]
    BY <1>0, <2>1 DEF PcTypeOK, Actors
  <2> QED BY <2>1, <2>2 DEF DefineInv, NoSelfLock
<1>8. ASSUME NEW t \in Threads, NEW c \in Classes, NEW l \in Loaders, BeginPrepare(t, c, l)
      PROVE  DefineInv'
  <2>1. pc' = [pc EXCEPT ![t] = "prepare"] /\ UNCHANGED <<got, ignoredClasses, interceptors>>
    BY <1>8 DEF BeginPrepare, Goto, tables
  <2>2. pc'[t] = "prepare" /\ \A u \in Threads \ {t} : pc'[u] = pc[u]
    BY <1>0, <2>1 DEF PcTypeOK, Actors
  <2> QED BY <2>1, <2>2 DEF DefineInv, NoSelfLock
<1>9. ASSUME NEW t \in Threads, LoadInitializersForClass(t)
      PROVE  DefineInv'
  <2>1. /\ pc' = [pc EXCEPT ![t] = "idle"] \/ UNCHANGED <<pc, got>>
        /\ UNCHANGED <<ignoredClasses, interceptors>>
        /\ got' = [got EXCEPT ![t] = None] \/ UNCHANGED got
    BY <1>9 DEF LoadInitializersForClass, Leave, Goto, tables
  <2>3. \A u \in Threads \ {t} : got'[u] = got[u] BY <1>0, <2>1 DEF FrameTypeOK, Actors
  <2>4. pc[t] = "prepare" BY <1>9 DEF LoadInitializersForClass, At
  <2>2. pc'[t] \in {"idle", pc[t]} /\ \A u \in Threads \ {t} : pc'[u] = pc[u]
    BY <1>0, <2>1 DEF PcTypeOK, Actors
  <2> QED BY <2>1, <2>2, <2>3, <2>4 DEF DefineInv, NoSelfLock
<1>3. CASE VMStep
  <2>1. UNCHANGED pc \/ \E p \in VMPoints : Goto(VM, p)
    BY <1>3 DEF VMStep, VMInit, HelpersAck, HelpersCount, HelperName, HelperLength, HelperBytes,
                VMDeath, StopAck, Acknowledged, VMPoints, VMReceives
  <2>2. \A t \in Threads : pc'[t] = pc[t] BY <1>0, <2>1 DEF Goto, PcTypeOK, Actors
  <2>3. UNCHANGED got \/ got' = [got EXCEPT ![VM] = Reply.of]
    BY <1>3 DEF VMStep, VMInit, HelpersAck, HelpersCount, HelperName, HelperLength, HelperBytes,
                VMDeath, StopAck
  <2>4. \A t \in Threads : got'[t] = got[t] BY <1>0, <2>3 DEF FrameTypeOK, Actors
  <2>5. UNCHANGED interceptors /\ ignoredClasses \subseteq ignoredClasses'
    BY <1>3 DEF VMStep, VMInit, HelpersAck, HelpersCount, HelperName, HelperLength, HelperBytes,
                VMDeath, StopAck, tables
  <2> QED BY <2>2, <2>4, <2>5 DEF DefineInv, NoSelfLock
<1>4. CASE Restart
  BY <1>4 DEF Restart, DefineInv, NoSelfLock, Actors
<1>5. CASE UNCHANGED <<pc, got, ignoredClasses, interceptors>>
  BY <1>5 DEF DefineInv, NoSelfLock
<1>6. ServerNext /\ UNCHANGED agent => UNCHANGED <<pc, got, ignoredClasses, interceptors>>
  BY DEF agent, tables
<1>7. UNCHANGED vars => UNCHANGED <<pc, got, ignoredClasses, interceptors>>
  BY DEF vars, agent, tables
<1>10. Kill => UNCHANGED <<pc, got, ignoredClasses, interceptors>> BY DEF Kill, tables
<1> QED BY <1>1, <1>2, <1>3, <1>4, <1>5, <1>6, <1>7, <1>8, <1>9, <1>10 DEF Next, AgentNext

\* A thread that defines an interceptor inside mtx never comes to wait for mtx again, however the
\* messages and the threads interleave, and even when VMInit or VMDeath break into the exchange.
THEOREM InterceptorsDefinable == Spec => []NoSelfLock
<1>1. Init => DefineInv
  BY AgentAssumption DEF Init, AgentInit, DefineInv, NoSelfLock, Actors
<1>2. DefineInv => NoSelfLock BY DEF DefineInv
<1> QED BY <1>1, <1>2, TypeCorrect, DefineStep, PTL DEF Spec
===============================================================================
