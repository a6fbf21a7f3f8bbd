-------------------------- MODULE ThreadTracing_proofs ------------------------
(* The thread example with any number of starter tasks: contexts stay private, *)
(* traces follow the tasks, no advice fails, every span is exported and        *)
(* children first, and files hold the span they are named after.               *)
EXTENDS ThreadTracing, Tracing_proofs

Dependants == {Dependant(n) : n \in TaskNames}
Workers == Starters \cup Dependants

\* The thread that starts t.
Creator(t) == IF t \in Starters THEN Main ELSE Starter(t.name)

Starting == {"attach", "open", "start"}

\* The context meant for t: attached to it, or in the hand of its creator.
CtxOf(t) ==
  IF pc[Creator(t)] = "attach" /\ callee[Creator(t)] = t THEN tc[Creator(t)] ELSE attached[t]

ProgramTypes ==
  /\ DOMAIN attached = Threads
  /\ pc \in [Threads -> Labels]
  /\ callee \in [Threads -> Threads]
  /\ tc \in [Threads -> 0..Len(contexts)]

\* Which points each thread can reach, a dependant task only after its starter; none of them is "thrown".
PointsInv ==
  /\ pc[Main] \in {"call", "attach", "open", "start", "join", "done"}
  /\ \A t \in Starters : pc[t] # "thrown"
  /\ \A t \in Dependants :
       /\ pc[t] \in {"new", "close", "pop", "done"}
       /\ pc[t] # "new" => pc[Creator(t)] \in {"join", "close", "pop", "done"}

\* A thread that is starting another one holds the context it gives it.
StartingInv ==
  \A t \in Threads : pc[t] \in Starting =>
    /\ callee[t] \in Workers /\ Creator(callee[t]) = t
    /\ pc[callee[t]] = "new"
    /\ tc[t] # 0
    /\ pc[t] # "attach" => attached[callee[t]] = tc[t]
    /\ pc[t] = "start" => contexts[tc[t]].chain # <<>>

\* A thread that runs has a context, with a span in it until it has closed it.
RunningInv ==
  \A t \in Workers :
    /\ pc[t] # "new" => attached[t] # 0
    /\ pc[t] \notin {"new", "done"} => contexts[attached[t]].chain # <<>>
    /\ pc[t] = "pop" => tc[t] = attached[t]

\* What is attached to a thread is the context meant for it, once its creator has got to that; Main
\* has none.
BeingStarted(t) == pc[Creator(t)] \in {"open", "start"} /\ callee[Creator(t)] = t
AttachedInv ==
  /\ attached[Main] = 0
  /\ \A t \in Workers : attached[t] # 0 =>
       attached[t] = CtxOf(t) /\ (pc[t] # "new" \/ BeingStarted(t))

\* A context is meant for one thread, and two contexts are of one trace exactly if their threads
\* belong to the same starter task.
OwnersInv ==
  \A t, u \in Workers : CtxOf(t) # 0 /\ CtxOf(u) # 0 =>
    /\ CtxOf(t) = CtxOf(u) => t = u
    /\ contexts[CtxOf(t)].trace = contexts[CtxOf(u)].trace <=> t.name = u.name

ThreadInv ==
  /\ LibraryInv /\ ProgramTypes
  /\ PointsInv /\ StartingInv /\ RunningInv /\ AttachedInv /\ OwnersInv

\* Who starts whom.
LEMMA ThreadFacts ==
  /\ Threads = {Main} \cup Workers /\ Workers = Starters \cup Dependants
  /\ Main \notin Workers /\ Starters \cap Dependants = {}
  /\ \A t \in Starters : /\ Creator(t) = Main /\ t.name \in TaskNames /\ t = Starter(t.name)
  /\ \A t \in Dependants : /\ Creator(t) = Starter(t.name) /\ Creator(t) \in Starters
                           /\ t.name \in TaskNames /\ t = Dependant(t.name)
  /\ \A n \in TaskNames : /\ Starter(n) \in Starters /\ Starter(n).name = n
                          /\ Dependant(n) \in Dependants /\ Dependant(n).name = n
                          /\ Creator(Dependant(n)) = Starter(n)
  /\ \A t \in Workers : Creator(t) \in Threads
<1>1. /\ Main \notin Starters /\ Main \notin Dependants
      /\ Starters \cap Dependants = {}
      /\ \A n \in TaskNames : Starter(n).name = n /\ Dependant(n).name = n
  <2>1. \A n \in TaskNames : Starter(n).name = n /\ Dependant(n).name = n
    BY DEF Starter, Dependant
  <2>2. \A n \in TaskNames : Starter(n).kind = "starter" /\ Dependant(n).kind = "dependant"
    BY DEF Starter, Dependant
  <2>3. Main.kind = "main"
    BY DEF Main
  <2>4. (\A t \in Starters : t.kind = "starter") /\ (\A t \in Dependants : t.kind = "dependant")
    BY <2>2 DEF Starters, Dependants
  <2>5. Starters \cap Dependants = {}
    BY <2>4
  <2> QED BY <2>1, <2>3, <2>4, <2>5
<1>2. Threads = {Main} \cup Workers /\ Workers = Starters \cup Dependants
  BY DEF Threads, Workers, Starters, Dependants
<1>3. \A n \in TaskNames : Starter(n) \in Starters /\ Dependant(n) \in Dependants
  BY DEF Starters, Dependants
<1>4. \A t \in Starters : t.name \in TaskNames /\ t = Starter(t.name)
  BY <1>1 DEF Starters
<1>5. \A t \in Dependants : t.name \in TaskNames /\ t = Dependant(t.name)
  BY <1>1 DEF Dependants
<1>6. \A t \in Starters : Creator(t) = Main
  BY DEF Creator
<1>7. \A t \in Dependants : Creator(t) = Starter(t.name)
  BY <1>1 DEF Creator
<1>8. \A t \in Workers : Creator(t) \in Threads
  BY <1>2, <1>3, <1>4, <1>5, <1>6, <1>7
<1> QED BY <1>1, <1>2, <1>3, <1>4, <1>5, <1>6, <1>7, <1>8

\* Different dependant tasks have different starters.
LEMMA CreatorsDiffer ==
  ASSUME NEW t \in Dependants, NEW u \in Dependants, Creator(t) = Creator(u) PROVE t = u
<1>1. Creator(t) = Starter(t.name) /\ Creator(u) = Starter(u.name)
  BY ThreadFacts
<1>2. t.name \in TaskNames /\ u.name \in TaskNames /\ t = Dependant(t.name) /\ u = Dependant(u.name)
  BY ThreadFacts
<1>3. Starter(t.name).name = t.name /\ Starter(u.name).name = u.name
  BY <1>2, ThreadFacts
<1>4. t.name = u.name
  BY <1>1, <1>3
<1> QED BY <1>2, <1>4

\* The invariant's types, context by context.
LEMMA ThreadTyped ==
  ASSUME ThreadInv
  PROVE  /\ TracingTypeOK /\ Len(contexts) \in Nat
         /\ pc \in [Threads -> Labels] /\ callee \in [Threads -> Threads]
         /\ tc \in [Threads -> 0..Len(contexts)]
         /\ attached \in [Threads -> 0..Len(contexts)]
         /\ \A t \in Workers : CtxOf(t) \in 0..Len(contexts)
         /\ \A c \in 1..Len(contexts) : contexts[c].trace \in 1..Len(contexts)
<1>1. TracingTypeOK /\ ProgramTypes
  BY DEF ThreadInv, LibraryInv
<1>2. attached \in [Threads -> 0..Len(contexts)]
  BY <1>1 DEF TracingTypeOK, ProgramTypes
<1>3. \A t \in Workers : t \in Threads /\ Creator(t) \in Threads
  BY ThreadFacts
<1>4. \A t \in Workers : CtxOf(t) \in 0..Len(contexts)
  BY <1>1, <1>2, <1>3 DEF ProgramTypes, CtxOf
<1> QED BY <1>1, <1>2, <1>4, ContextsTyped DEF ProgramTypes

\* Owners and traces stay as they are when no context changes hands.
LEMMA OwnersKept ==
  ASSUME OwnersInv, \A t \in Workers : CtxOf(t)' = CtxOf(t),
         \A t \in Workers : CtxOf(t) # 0 => contexts'[CtxOf(t)].trace = contexts[CtxOf(t)].trace
  PROVE  OwnersInv'
<1> SUFFICES ASSUME NEW t \in Workers, NEW u \in Workers, CtxOf(t)' # 0, CtxOf(u)' # 0
             PROVE  /\ CtxOf(t)' = CtxOf(u)' => t = u
                    /\ contexts'[CtxOf(t)'].trace = contexts'[CtxOf(u)'].trace <=> t.name = u.name
  BY DEF OwnersInv
<1>1. CtxOf(t)' = CtxOf(t) /\ CtxOf(u)' = CtxOf(u)
  OBVIOUS
<1>2. contexts'[CtxOf(t)].trace = contexts[CtxOf(t)].trace
  BY <1>1
<1>3. contexts'[CtxOf(u)].trace = contexts[CtxOf(u)].trace
  BY <1>1
<1> QED BY <1>1, <1>2, <1>3 DEF OwnersInv

\* The initial states satisfy the invariant.
LEMMA ThreadInvInit == ASSUME Init PROVE ThreadInv
<1>1. LibraryInv /\ contexts = <<>> /\ attached = [h \in Threads |-> 0]
  BY InitialLibrary DEF Init, TracingInit
<1>2. /\ pc = [t \in Threads |-> IF t = Main THEN "call" ELSE "new"]
      /\ callee = [t \in Threads |-> t] /\ tc = [t \in Threads |-> 0]
  BY DEF Init
<1>3. pc[Main] = "call" /\ \A t \in Workers : pc[t] = "new"
  BY <1>2, ThreadFacts
<1>4. ProgramTypes
  <2>1. Len(contexts) = 0
    BY <1>1
  <2> QED BY <1>1, <1>2, <2>1 DEF ProgramTypes, Labels
<1>5. PointsInv
  BY <1>3, ThreadFacts DEF PointsInv
<1>6. StartingInv
  BY <1>3, ThreadFacts DEF StartingInv, Starting
<1>7. RunningInv
  BY <1>3 DEF RunningInv
<1>8. \A t \in Workers : CtxOf(t) = 0
  BY <1>1, <1>3, ThreadFacts DEF CtxOf
<1>9. AttachedInv
  BY <1>1, ThreadFacts DEF AttachedInv
<1>10. OwnersInv
  BY <1>8 DEF OwnersInv
<1> QED BY <1>1, <1>4, <1>5, <1>6, <1>7, <1>9, <1>10 DEF ThreadInv

\* Creating a context for the thread that is about to be started: the new context is meant for that
\* thread, nothing else changes hands.
LEMMA HandingStep ==
  ASSUME ThreadInv, NEW t \in Threads, NEW u \in Workers, Creator(u) = t,
         pc[t] = "call", pc[u] = "new",
         pc' = [pc EXCEPT ![t] = "attach"], callee' = [callee EXCEPT ![t] = u],
         tc' = [tc EXCEPT ![t] = Len(contexts) + 1], attached' = attached, LibraryInv',
         Len(contexts') = Len(contexts) + 1,
         \A d \in 1..Len(contexts) : contexts'[d] = contexts[d],
         \A w \in Workers : w # u /\ CtxOf(w) # 0 =>
           (contexts'[Len(contexts) + 1].trace = contexts[CtxOf(w)].trace <=> u.name = w.name)
  PROVE  ThreadInv'
<1> DEFINE new == Len(contexts) + 1
<1>1. /\ ProgramTypes /\ PointsInv /\ StartingInv /\ RunningInv /\ AttachedInv /\ OwnersInv
      /\ Len(contexts) \in Nat /\ u \in Threads
      /\ pc \in [Threads -> Labels] /\ callee \in [Threads -> Threads]
      /\ tc \in [Threads -> 0..Len(contexts)] /\ attached \in [Threads -> 0..Len(contexts)]
      /\ \A w \in Workers : CtxOf(w) \in 0..Len(contexts)
  BY ThreadTyped, ThreadFacts DEF ThreadInv
<1>2. /\ pc'[t] = "attach" /\ callee'[t] = u /\ tc'[t] = new
      /\ \A w \in Threads : w # t => pc'[w] = pc[w] /\ callee'[w] = callee[w] /\ tc'[w] = tc[w]
  BY <1>1
<1>3. t \notin Dependants /\ u # t /\ \A w \in Workers : w \in Threads /\ Creator(w) \in Threads
  BY ThreadFacts
<1>4. attached[u] = 0
  BY <1>1 DEF AttachedInv, BeingStarted
<1>5. CtxOf(u)' = new /\ \A w \in Workers : w # u => CtxOf(w)' = CtxOf(w)
  <2>1. CtxOf(u)' = new
    BY <1>2 DEF CtxOf
  <2>2. ASSUME NEW w \in Workers, w # u PROVE CtxOf(w)' = CtxOf(w)
    <3>1. CASE Creator(w) = t
      BY <1>2, <2>2, <3>1 DEF CtxOf
    <3>2. CASE Creator(w) # t
      BY <1>2, <1>3, <3>2 DEF CtxOf
    <3> QED BY <3>1, <3>2
  <2> QED BY <2>1, <2>2
<1>6. ProgramTypes'
  <2>1. DOMAIN attached' = Threads /\ pc' \in [Threads -> Labels] /\ callee' \in [Threads -> Threads]
    BY <1>1, <1>3 DEF ProgramTypes, Labels
  <2>2. tc' \in [Threads -> 0..Len(contexts')]
    BY <1>1
  <2> QED BY <2>1, <2>2 DEF ProgramTypes
<1>7. PointsInv'
  <2>1. pc'[Main] \in {"call", "attach", "open", "start", "join", "done"}
    <3>1. pc[Main] \in {"call", "attach", "open", "start", "join", "done"} /\ Main \in Threads
      BY <1>1, ThreadFacts DEF PointsInv
    <3> QED BY <1>2, <3>1
  <2>2. ASSUME NEW w \in Starters PROVE pc'[w] # "thrown"
    <3>1. pc[w] # "thrown" /\ w \in Threads
      BY <1>1, ThreadFacts DEF PointsInv
    <3> QED BY <1>2, <3>1
  <2>3. ASSUME NEW w \in Dependants
        PROVE  /\ pc'[w] \in {"new", "close", "pop", "done"}
               /\ pc'[w] # "new" => pc'[Creator(w)] \in {"join", "close", "pop", "done"}
    <3>1. /\ pc[w] \in {"new", "close", "pop", "done"}
          /\ pc[w] # "new" => pc[Creator(w)] \in {"join", "close", "pop", "done"}
      BY <1>1 DEF PointsInv
    <3>2. w # t /\ w \in Threads /\ Creator(w) \in Threads
      BY <1>3, ThreadFacts
    <3>3. pc'[w] = pc[w]
      BY <1>2, <3>2
    <3>4. CASE Creator(w) = t
      BY <3>1, <3>3, <3>4
    <3>5. CASE Creator(w) # t
      BY <1>2, <3>1, <3>2, <3>3, <3>5
    <3> QED BY <3>4, <3>5
  <2> QED BY <2>1, <2>2, <2>3 DEF PointsInv
<1>8. StartingInv'
  <2> SUFFICES ASSUME NEW w \in Threads, pc'[w] \in Starting
               PROVE  /\ callee'[w] \in Workers /\ Creator(callee'[w]) = w
                      /\ pc'[callee'[w]] = "new" /\ tc'[w] # 0
                      /\ pc'[w] # "attach" => attached'[callee'[w]] = tc'[w]
                      /\ pc'[w] = "start" => contexts'[tc'[w]].chain # <<>>
    BY DEF StartingInv
  <2>1. CASE w = t
    BY <1>1, <1>2, <1>3, <2>1
  <2>2. CASE w # t
    <3>1. /\ callee[w] \in Workers /\ Creator(callee[w]) = w /\ pc[callee[w]] = "new" /\ tc[w] # 0
          /\ pc[w] # "attach" => attached[callee[w]] = tc[w]
          /\ pc[w] = "start" => contexts[tc[w]].chain # <<>>
      BY <1>1, <1>2, <2>2 DEF StartingInv
    <3>2. callee[w] # t /\ callee[w] \in Threads
      BY <1>3, <3>1
    <3>3. tc[w] \in 1..Len(contexts)
      BY <1>1, <3>1
    <3> QED BY <1>2, <2>2, <3>1, <3>2, <3>3
  <2> QED BY <2>1, <2>2
<1>9. RunningInv'
  <2> SUFFICES ASSUME NEW w \in Workers
               PROVE  /\ pc'[w] # "new" => attached'[w] # 0
                      /\ pc'[w] \notin {"new", "done"} => contexts'[attached'[w]].chain # <<>>
                      /\ pc'[w] = "pop" => tc'[w] = attached'[w]
    BY DEF RunningInv
  <2>1. /\ pc[w] # "new" => attached[w] # 0
        /\ pc[w] \notin {"new", "done"} => contexts[attached[w]].chain # <<>>
        /\ pc[w] = "pop" => tc[w] = attached[w]
    BY <1>1 DEF RunningInv
  <2>2. attached[w] # 0 => contexts'[attached[w]] = contexts[attached[w]]
    BY <1>1, <1>3
  <2>3. CASE w = t
    BY <1>2, <2>1, <2>2, <2>3
  <2>4. CASE w # t
    BY <1>2, <1>3, <2>1, <2>2, <2>4
  <2> QED BY <2>3, <2>4
<1>10. AttachedInv'
  <2>1. ASSUME NEW w \in Workers, attached[w] # 0
        PROVE  attached[w] = CtxOf(w)' /\ (pc'[w] # "new" \/ BeingStarted(w)')
    <3>1. attached[w] = CtxOf(w) /\ (pc[w] # "new" \/ BeingStarted(w)) /\ w # u
      BY <1>1, <1>4, <2>1 DEF AttachedInv
    <3>2. pc[w] # "new" => pc'[w] # "new"
      BY <1>2, <1>3
    <3>3. BeingStarted(w) => BeingStarted(w)'
      BY <1>2, <1>3 DEF BeingStarted
    <3> QED BY <1>5, <3>1, <3>2, <3>3
  <2> QED BY <1>1, <2>1 DEF AttachedInv
<1>11. OwnersInv'
  <2> SUFFICES ASSUME NEW v \in Workers, NEW w \in Workers, CtxOf(v)' # 0, CtxOf(w)' # 0
               PROVE  /\ CtxOf(v)' = CtxOf(w)' => v = w
                      /\ contexts'[CtxOf(v)'].trace = contexts'[CtxOf(w)'].trace <=> v.name = w.name
    BY DEF OwnersInv
  <2>1. \A x \in Workers : x # u /\ CtxOf(x) # 0 => contexts'[CtxOf(x)] = contexts[CtxOf(x)]
    BY <1>1
  <2>2. CASE v # u /\ w # u
    <3>1. CtxOf(v)' = CtxOf(v) /\ CtxOf(w)' = CtxOf(w) /\ CtxOf(v) # 0 /\ CtxOf(w) # 0
      BY <1>5, <2>2
    <3>2. contexts'[CtxOf(v)] = contexts[CtxOf(v)] /\ contexts'[CtxOf(w)] = contexts[CtxOf(w)]
      BY <2>1, <2>2, <3>1
    <3>3. /\ CtxOf(v) = CtxOf(w) => v = w
          /\ contexts[CtxOf(v)].trace = contexts[CtxOf(w)].trace <=> v.name = w.name
      BY <1>1, <3>1 DEF OwnersInv
    <3> QED BY <3>1, <3>2, <3>3
  <2>3. CASE v = u /\ w # u
    <3>1. CtxOf(w)' = CtxOf(w) /\ CtxOf(w) # 0 /\ CtxOf(w) \in 0..Len(contexts)
      BY <1>1, <1>5, <2>3
    <3>2. contexts'[new].trace = contexts[CtxOf(w)].trace <=> u.name = w.name
      BY <2>3, <3>1
    <3>3. contexts'[CtxOf(w)] = contexts[CtxOf(w)]
      BY <2>1, <2>3, <3>1
    <3> HIDE DEF new
    <3> QED BY <1>1, <1>5, <2>3, <3>1, <3>2, <3>3 DEF new
  <2>4. CASE v # u /\ w = u
    <3>1. CtxOf(v)' = CtxOf(v) /\ CtxOf(v) # 0 /\ CtxOf(v) \in 0..Len(contexts)
      BY <1>1, <1>5, <2>4
    <3>2. contexts'[new].trace = contexts[CtxOf(v)].trace <=> u.name = v.name
      BY <2>4, <3>1
    <3>3. contexts'[CtxOf(v)] = contexts[CtxOf(v)]
      BY <2>1, <2>4, <3>1
    <3> HIDE DEF new
    <3> QED BY <1>1, <1>5, <2>4, <3>1, <3>2, <3>3 DEF new
  <2>5. CASE v = u /\ w = u
    BY <2>5
  <2> QED BY <2>2, <2>3, <2>4, <2>5
<1> QED BY <1>6, <1>7, <1>8, <1>9, <1>10, <1>11 DEF ThreadInv

\* A starter task gets a new trace: no other context is of that trace.
LEMMA StarterStartEnterStep ==
  ASSUME ThreadInv, NEW n \in TaskNames, StarterStartEnter(n) PROVE ThreadInv'
<1> DEFINE u == Starter(n)
           new == Len(contexts) + 1
<1>1. /\ pc[u] = "new" /\ pc[Main] = "call" /\ pc' = [pc EXCEPT ![Main] = "attach"]
      /\ callee' = [callee EXCEPT ![Main] = u] /\ tc' = [tc EXCEPT ![Main] = new]
      /\ attached' = attached /\ Create
  BY DEF StarterStartEnter, Moves, Keeps, NewContext, Create
<1>2. /\ u \in Starters /\ u \in Workers /\ Creator(u) = Main /\ Main \in Threads /\ u.name = n
      /\ Creator(Dependant(n)) = u /\ Dependant(n) \in Dependants /\ Dependant(n) \in Workers
  BY ThreadFacts
<1>3. LibraryInv'
  BY <1>1, CreatePreserves DEF ThreadInv
<1>4. /\ Len(contexts') = new /\ \A d \in 1..Len(contexts) : contexts'[d] = contexts[d]
      /\ contexts'[new].trace = new
  BY <1>1, ThreadTyped, CreateEffect
<1>5. CtxOf(Dependant(n)) = 0
  <2>1. pc[Dependant(n)] = "new"
    BY <1>1, <1>2 DEF ThreadInv, PointsInv
  <2>2. attached[Dependant(n)] = 0
    BY <1>1, <1>2, <2>1 DEF ThreadInv, AttachedInv, BeingStarted
  <2> QED BY <1>1, <1>2, <2>2 DEF CtxOf
<1>6. ASSUME NEW w \in Workers, w # u, CtxOf(w) # 0
      PROVE  contexts'[new].trace = contexts[CtxOf(w)].trace <=> u.name = w.name
  <2>1. contexts[CtxOf(w)].trace \in 1..Len(contexts) /\ Len(contexts) \in Nat
    BY <1>6, ThreadTyped
  <2>2. w.name # n
    BY <1>2, <1>5, <1>6, ThreadFacts
  <2> QED BY <1>2, <1>4, <2>1, <2>2
<1> HIDE DEF u
<1> QED BY <1>1, <1>2, <1>3, <1>4, <1>6, HandingStep

\* A dependant task gets a copy of its starter's context, of the same trace.
LEMMA DependantStartEnterStep ==
  ASSUME ThreadInv, NEW n \in TaskNames, DependantStartEnter(n) PROVE ThreadInv'
<1> DEFINE t == Starter(n)
           u == Dependant(n)
           new == Len(contexts) + 1
<1>1. /\ t \in Starters /\ t \in Workers /\ t \in Threads /\ t.name = n
      /\ u \in Dependants /\ u \in Workers /\ u.name = n /\ Creator(u) = t
  BY ThreadFacts
<1>2. pc[t] = "call" /\ pc[u] = "new" /\ attached[t] # 0 /\ attached[t] = CtxOf(t)
  <2>1. pc[t] = "call"
    BY DEF DependantStartEnter, Moves
  <2>2. pc[u] = "new"
    BY <1>1, <2>1 DEF ThreadInv, PointsInv
  <2>3. attached[t] # 0
    BY <1>1, <2>1 DEF ThreadInv, RunningInv
  <2> QED BY <1>1, <2>1, <2>2, <2>3 DEF ThreadInv, AttachedInv
<1>3. attached[t] \in 1..Len(contexts)
  BY <1>1, <1>2, ThreadTyped
<1>4. /\ pc' = [pc EXCEPT ![t] = "attach"] /\ callee' = [callee EXCEPT ![t] = u]
      /\ tc' = [tc EXCEPT ![t] = new] /\ DeepCopy(attached[t]) /\ attached' = attached
  BY <1>2 DEF DependantStartEnter, Moves, Keeps, NewContext, DeepCopy
<1>5. LibraryInv'
  BY <1>3, <1>4, DeepCopyPreserves DEF ThreadInv
<1>6. /\ Len(contexts') = new /\ \A d \in 1..Len(contexts) : contexts'[d] = contexts[d]
      /\ contexts'[new].trace = contexts[attached[t]].trace
  BY <1>3, <1>4, ThreadTyped, DeepCopyEffect
<1>7. ASSUME NEW w \in Workers, w # u, CtxOf(w) # 0
      PROVE  contexts'[new].trace = contexts[CtxOf(w)].trace <=> u.name = w.name
  <2>1. contexts[CtxOf(t)].trace = contexts[CtxOf(w)].trace <=> t.name = w.name
    BY <1>1, <1>2, <1>7 DEF ThreadInv, OwnersInv
  <2> QED BY <1>1, <1>2, <1>6, <2>1
<1> HIDE DEF t, u
<1> QED BY <1>1, <1>2, <1>4, <1>5, <1>6, <1>7, HandingStep

\* Attaching makes the context the thread's own; it was meant for it before.
LEMMA AttachOnThreadStep ==
  ASSUME ThreadInv, NEW t \in Threads, AttachOnThread(t) PROVE ThreadInv'
<1> DEFINE u == callee[t]
<1>1. /\ ProgramTypes /\ PointsInv /\ StartingInv /\ RunningInv /\ AttachedInv /\ OwnersInv
      /\ LibraryInv /\ TracingTypeOK
      /\ pc \in [Threads -> Labels] /\ attached \in [Threads -> 0..Len(contexts)]
      /\ tc \in [Threads -> 0..Len(contexts)]
      /\ \A w \in Workers : w \in Threads /\ Creator(w) \in Threads
  BY ThreadTyped, ThreadFacts DEF ThreadInv
<1>2. /\ pc[t] = "attach" /\ pc' = [pc EXCEPT ![t] = "open"] /\ AttachTo(u, tc[t])
      /\ attached' = [attached EXCEPT ![u] = tc[t]]
      /\ contexts' = contexts /\ callee' = callee /\ tc' = tc
  BY DEF AttachOnThread, Moves, AttachTo
<1>3. u \in Workers /\ Creator(u) = t /\ pc[u] = "new" /\ tc[t] # 0
  BY <1>1, <1>2 DEF StartingInv, Starting
<1>4. /\ pc'[t] = "open" /\ \A w \in Threads : w # t => pc'[w] = pc[w]
      /\ attached'[u] = tc[t] /\ \A w \in Threads : w # u => attached'[w] = attached[w]
      /\ u # t /\ t \notin Dependants /\ Main \notin Workers /\ Main \in Threads
  BY <1>1, <1>2, <1>3, ThreadFacts
<1>5. LibraryInv'
  BY <1>1, <1>2, AttachPreserves
<1>6. ProgramTypes'
  BY <1>1, <1>2 DEF ProgramTypes, Labels
<1>7. PointsInv'
  <2>1. \A w \in Dependants : w \in Workers /\ Creator(w) \in Starters
    BY ThreadFacts
  <2> QED BY <1>1, <1>2, <1>4, <2>1, ThreadFacts DEF PointsInv
<1>8. \A w \in Workers : CtxOf(w)' = CtxOf(w)
  <2> TAKE w \in Workers
  <2>1. CASE w = u
    BY <1>2, <1>3, <1>4, <2>1 DEF CtxOf
  <2>2. CASE w # u /\ Creator(w) = t
    BY <1>1, <1>2, <1>4, <2>2 DEF CtxOf
  <2>3. CASE w # u /\ Creator(w) # t
    BY <1>1, <1>2, <1>4, <2>3 DEF CtxOf
  <2> QED BY <2>1, <2>2, <2>3
<1>9. StartingInv'
  <2> SUFFICES ASSUME NEW w \in Threads, pc'[w] \in Starting
               PROVE  /\ callee[w] \in Workers /\ Creator(callee[w]) = w
                      /\ pc'[callee[w]] = "new" /\ tc[w] # 0
                      /\ pc'[w] # "attach" => attached'[callee[w]] = tc[w]
                      /\ pc'[w] = "start" => contexts[tc[w]].chain # <<>>
    BY <1>2 DEF StartingInv
  <2>1. CASE w = t
    BY <1>1, <1>3, <1>4, <2>1
  <2>2. CASE w # t
    <3>1. /\ callee[w] \in Workers /\ Creator(callee[w]) = w /\ pc[callee[w]] = "new" /\ tc[w] # 0
          /\ pc[w] # "attach" => attached[callee[w]] = tc[w]
          /\ pc[w] = "start" => contexts[tc[w]].chain # <<>>
      BY <1>1, <1>4, <2>2 DEF StartingInv
    <3>2. callee[w] # t /\ callee[w] # u /\ callee[w] \in Threads
      BY <1>1, <1>2, <1>3, <2>2, <3>1
    <3> QED BY <1>4, <2>2, <3>1, <3>2
  <2> QED BY <2>1, <2>2
<1>10. RunningInv'
  <2> SUFFICES ASSUME NEW w \in Workers
               PROVE  /\ pc'[w] # "new" => attached'[w] # 0
                      /\ pc'[w] \notin {"new", "done"} => contexts[attached'[w]].chain # <<>>
                      /\ pc'[w] = "pop" => tc[w] = attached'[w]
    BY <1>2 DEF RunningInv
  <2>1. /\ pc[w] # "new" => attached[w] # 0
        /\ pc[w] \notin {"new", "done"} => contexts[attached[w]].chain # <<>>
        /\ pc[w] = "pop" => tc[w] = attached[w]
    BY <1>1 DEF RunningInv
  <2>2. CASE w = u
    BY <1>1, <1>3, <1>4, <2>2
  <2>3. CASE w = t
    BY <1>1, <1>2, <1>4, <2>1, <2>3
  <2>4. CASE w # u /\ w # t
    BY <1>1, <1>4, <2>1, <2>4
  <2> QED BY <2>2, <2>3, <2>4
<1>11. AttachedInv'
  <2>1. attached'[Main] = 0
    BY <1>1, <1>3, <1>4 DEF AttachedInv
  <2>2. ASSUME NEW w \in Workers, attached'[w] # 0
        PROVE  attached'[w] = CtxOf(w)' /\ (pc'[w] # "new" \/ BeingStarted(w)')
    <3>1. CASE w = u
      <4>1. CtxOf(w) = tc[t]
        BY <1>2, <1>3, <3>1 DEF CtxOf
      <4>2. BeingStarted(w)'
        BY <1>2, <1>3, <1>4, <3>1 DEF BeingStarted
      <4>3. CtxOf(w)' = CtxOf(w)
        BY <1>8
      <4>4. attached'[w] = tc[t]
        BY <1>4, <3>1
      <4> QED BY <4>1, <4>2, <4>3, <4>4
    <3>2. CASE w # u
      <4>1. attached[w] = CtxOf(w) /\ (pc[w] # "new" \/ BeingStarted(w)) /\ attached'[w] = attached[w]
        BY <1>1, <1>4, <2>2, <3>2 DEF AttachedInv
      <4>2. pc[w] # "new" => pc'[w] # "new"
        BY <1>1, <1>4
      <4>3. BeingStarted(w) => BeingStarted(w)'
        BY <1>1, <1>2, <1>4 DEF BeingStarted
      <4>4. CtxOf(w)' = CtxOf(w)
        BY <1>8
      <4>5. pc'[w] # "new" \/ BeingStarted(w)'
        BY <4>1, <4>2, <4>3
      <4> QED BY <4>1, <4>4, <4>5
    <3> QED BY <3>1, <3>2
  <2> QED BY <2>1, <2>2 DEF AttachedInv
<1>12. OwnersInv'
  BY <1>1, <1>2, <1>8, OwnersKept
<1> QED BY <1>5, <1>6, <1>7, <1>9, <1>10, <1>11, <1>12 DEF ThreadInv

\* Opening the new thread's span makes its context non-empty, and no other context empty.
LEMMA OpenSpanStep ==
  ASSUME ThreadInv, NEW t \in Threads, OpenSpan(t) PROVE ThreadInv'
<1> DEFINE c == tc[t]
<1>1. /\ ProgramTypes /\ PointsInv /\ StartingInv /\ RunningInv /\ AttachedInv /\ OwnersInv
      /\ LibraryInv /\ TracingTypeOK /\ Len(contexts) \in Nat
      /\ pc \in [Threads -> Labels] /\ attached \in [Threads -> 0..Len(contexts)]
      /\ tc \in [Threads -> 0..Len(contexts)]
      /\ \A w \in Workers : w \in Threads /\ Creator(w) \in Threads
      /\ \A w \in Workers : CtxOf(w) \in 0..Len(contexts)
  BY ThreadTyped, ThreadFacts DEF ThreadInv
<1>2. /\ pc[t] = "open" /\ pc' = [pc EXCEPT ![t] = "start"]
      /\ OpenNestedSpan(c, SpanName(t), "thread")
      /\ attached' = attached /\ callee' = callee /\ tc' = tc
  BY DEF OpenSpan, Moves, OpenNestedSpan
<1>3. /\ callee[t] \in Workers /\ Creator(callee[t]) = t /\ c # 0
      /\ t \notin Dependants
  BY <1>1, <1>2, ThreadFacts DEF StartingInv, Starting
<1>4. /\ pc'[t] = "start" /\ \A w \in Threads : w # t => pc'[w] = pc[w]
  BY <1>1, <1>2
<1>5. c \in 1..Len(contexts) /\ SpanName(t) \in SpanNames /\ "thread" \in Services
  <2>1. c \in 1..Len(contexts)
    BY <1>1, <1>3
  <2>2. SpanName(t) \in {"Starter Span", "Nested Span"}
    BY DEF SpanName
  <2>3. SpanName(t) \in SpanNames /\ "thread" \in Services
    <3> HIDE DEF c
    <3> QED BY <2>2, ThreadAssumption
  <2> QED BY <2>1, <2>3
<1>6. LibraryInv'
  BY <1>1, <1>2, <1>5, OpenPreserves
<1>7. /\ Len(contexts') = Len(contexts)
      /\ \A d \in 1..Len(contexts) : contexts'[d].trace = contexts[d].trace
      /\ \A d \in 1..Len(contexts) : contexts[d].chain # <<>> => contexts'[d].chain # <<>>
      /\ contexts'[c].chain # <<>>
  BY <1>1, <1>2, <1>5, OpenEffect
<1>8. ProgramTypes'
  BY <1>1, <1>2, <1>7 DEF ProgramTypes, Labels
<1>9. PointsInv'
  <2>1. \A w \in Dependants : w \in Workers /\ Creator(w) \in Starters
    BY ThreadFacts
  <2> QED BY <1>1, <1>2, <1>3, <1>4, <2>1, ThreadFacts DEF PointsInv
<1>10. \A w \in Workers : CtxOf(w)' = CtxOf(w)
  BY <1>1, <1>2, <1>4 DEF CtxOf
<1>11. StartingInv'
  <2> SUFFICES ASSUME NEW w \in Threads, pc'[w] \in Starting
               PROVE  /\ callee[w] \in Workers /\ Creator(callee[w]) = w
                      /\ pc'[callee[w]] = "new" /\ tc[w] # 0
                      /\ pc'[w] # "attach" => attached[callee[w]] = tc[w]
                      /\ pc'[w] = "start" => contexts'[tc[w]].chain # <<>>
    BY <1>2 DEF StartingInv
  <2>1. pc[w] \in Starting
    BY <1>2, <1>4 DEF Starting
  <2>2. /\ callee[w] \in Workers /\ Creator(callee[w]) = w /\ pc[callee[w]] = "new" /\ tc[w] # 0
        /\ pc[w] # "attach" => attached[callee[w]] = tc[w]
        /\ pc[w] = "start" => contexts[tc[w]].chain # <<>>
    BY <1>1, <2>1 DEF StartingInv
  <2>3. callee[w] # t /\ callee[w] \in Threads /\ tc[w] \in 1..Len(contexts)
    BY <1>1, <1>2, <2>2
  <2>4. CASE w = t
    BY <1>2, <1>4, <1>7, <2>2, <2>3, <2>4
  <2>5. CASE w # t
    BY <1>4, <1>7, <2>2, <2>3, <2>5
  <2> QED BY <2>4, <2>5
<1>12. RunningInv'
  <2> SUFFICES ASSUME NEW w \in Workers
               PROVE  /\ pc'[w] # "new" => attached[w] # 0
                      /\ pc'[w] \notin {"new", "done"} => contexts'[attached[w]].chain # <<>>
                      /\ pc'[w] = "pop" => tc[w] = attached[w]
    BY <1>2 DEF RunningInv
  <2>1. /\ pc[w] # "new" => attached[w] # 0
        /\ pc[w] \notin {"new", "done"} => contexts[attached[w]].chain # <<>>
        /\ pc[w] = "pop" => tc[w] = attached[w]
    BY <1>1 DEF RunningInv
  <2>2. attached[w] # 0 => attached[w] \in 1..Len(contexts)
    BY <1>1
  <2>3. CASE w = t
    BY <1>2, <1>4, <1>7, <2>1, <2>2, <2>3
  <2>4. CASE w # t
    BY <1>1, <1>4, <1>7, <2>1, <2>2, <2>4
  <2> QED BY <2>3, <2>4
<1>13. AttachedInv'
  <2>1. ASSUME NEW w \in Workers, attached[w] # 0
        PROVE  attached[w] = CtxOf(w)' /\ (pc'[w] # "new" \/ BeingStarted(w)')
    <3>1. attached[w] = CtxOf(w) /\ (pc[w] # "new" \/ BeingStarted(w))
      BY <1>1, <2>1 DEF AttachedInv
    <3>2. pc[w] # "new" => pc'[w] # "new"
      BY <1>1, <1>4
    <3>3. BeingStarted(w) => BeingStarted(w)'
      BY <1>1, <1>2, <1>4 DEF BeingStarted
    <3>4. CtxOf(w)' = CtxOf(w)
      BY <1>10
    <3>5. pc'[w] # "new" \/ BeingStarted(w)'
      BY <3>1, <3>2, <3>3
    <3> QED BY <3>1, <3>4, <3>5
  <2> QED BY <1>1, <1>2, <2>1 DEF AttachedInv
<1>14. OwnersInv'
  <2>1. \A w \in Workers : CtxOf(w) # 0 => contexts'[CtxOf(w)].trace = contexts[CtxOf(w)].trace
    BY <1>1, <1>7
  <2> QED BY <1>1, <1>10, <2>1, OwnersKept
<1> QED BY <1>6, <1>8, <1>9, <1>11, <1>12, <1>13, <1>14 DEF ThreadInv

\* super.start(): the new thread has what its end will ask for.
LEMMA ThreadStartStep ==
  ASSUME ThreadInv, NEW t \in Threads, ThreadStart(t) PROVE ThreadInv'
<1> DEFINE u == callee[t]
<1>1. /\ ProgramTypes /\ PointsInv /\ StartingInv /\ RunningInv /\ AttachedInv /\ OwnersInv
      /\ LibraryInv /\ Len(contexts) \in Nat
      /\ pc \in [Threads -> Labels] /\ attached \in [Threads -> 0..Len(contexts)]
      /\ \A w \in Workers : w \in Threads /\ Creator(w) \in Threads
  BY ThreadTyped, ThreadFacts DEF ThreadInv
<1>2. pc[t] = "start" /\ UNCHANGED tracing /\ UNCHANGED <<contexts, attached, callee, tc>>
  BY DEF ThreadStart, tracing
<1>3. /\ u \in Workers /\ u \in Threads /\ Creator(u) = t /\ pc[u] = "new" /\ tc[t] # 0 /\ u # t
      /\ attached[u] = tc[t] /\ contexts[tc[t]].chain # <<>>
  BY <1>1, <1>2 DEF StartingInv, Starting
<1>4. \E from \in {"call", "close"}, to \in {"call", "join"} :
         /\ pc' = [pc EXCEPT ![u] = from, ![t] = to]
         /\ u \in Starters => from = "call"
         /\ u \notin Starters => from = "close"
         /\ t # Main => to = "join"
  BY DEF ThreadStart
<1>5. PICK from \in {"call", "close"}, to \in {"call", "join"} :
         /\ pc' = [pc EXCEPT ![u] = from, ![t] = to]
         /\ u \in Starters => from = "call"
         /\ u \notin Starters => from = "close"
         /\ t # Main => to = "join"
  BY <1>4
<1> HIDE DEF u
<1>6. /\ pc'[t] = to /\ pc'[u] = from /\ \A w \in Threads : w # t /\ w # u => pc'[w] = pc[w]
  BY <1>1, <1>3, <1>5
<1>7. LibraryInv'
  BY <1>1, <1>2, StutterPreserves
<1>8. ProgramTypes'
  BY <1>1, <1>2, <1>5 DEF ProgramTypes, Labels
<1>9. PointsInv'
  <2>1. \A w \in Dependants : w \in Workers /\ Creator(w) \in Starters /\ w \notin Starters
    BY ThreadFacts
  <2>2. pc'[Main] \in {"call", "attach", "open", "start", "join", "done"}
    BY <1>1, <1>3, <1>6, ThreadFacts DEF PointsInv
  <2>3. \A w \in Starters : pc'[w] # "thrown"
    BY <1>1, <1>6, ThreadFacts DEF PointsInv
  <2>4. ASSUME NEW w \in Dependants
        PROVE  /\ pc'[w] \in {"new", "close", "pop", "done"}
               /\ pc'[w] # "new" => pc'[Creator(w)] \in {"join", "close", "pop", "done"}
    <3>1. /\ pc[w] \in {"new", "close", "pop", "done"}
          /\ pc[w] # "new" => pc[Creator(w)] \in {"join", "close", "pop", "done"}
      BY <1>1 DEF PointsInv
    <3>2. w # t /\ Creator(w) # Main /\ w \in Threads /\ Creator(w) \in Threads
      BY <1>1, <1>2, <2>1, <3>1, ThreadFacts
    <3>3. CASE w = u
      BY <1>3, <1>5, <1>6, <2>1, <3>2, <3>3
    <3>4. CASE w # u
      BY <1>2, <1>3, <1>6, <3>1, <3>2, <3>4
    <3> QED BY <3>3, <3>4
  <2> QED BY <2>2, <2>3, <2>4 DEF PointsInv
<1>10. \A w \in Workers : CtxOf(w)' = CtxOf(w)
  BY <1>1, <1>2, <1>3, <1>6 DEF CtxOf
<1>11. StartingInv'
  <2> SUFFICES ASSUME NEW w \in Threads, pc'[w] \in Starting
               PROVE  /\ callee[w] \in Workers /\ Creator(callee[w]) = w
                      /\ pc'[callee[w]] = "new" /\ tc[w] # 0
                      /\ pc'[w] # "attach" => attached[callee[w]] = tc[w]
                      /\ pc'[w] = "start" => contexts[tc[w]].chain # <<>>
    BY <1>2 DEF StartingInv
  <2>1. w # t /\ w # u /\ pc'[w] = pc[w]
    BY <1>6 DEF Starting
  <2>2. /\ callee[w] \in Workers /\ Creator(callee[w]) = w /\ pc[callee[w]] = "new" /\ tc[w] # 0
        /\ pc[w] # "attach" => attached[callee[w]] = tc[w]
        /\ pc[w] = "start" => contexts[tc[w]].chain # <<>>
    BY <1>1, <2>1 DEF StartingInv
  <2>3. callee[w] # t /\ callee[w] # u /\ callee[w] \in Threads
    BY <1>1, <1>2, <1>3, <2>1, <2>2
  <2> QED BY <1>6, <2>1, <2>2, <2>3
<1>12. RunningInv'
  <2> SUFFICES ASSUME NEW w \in Workers
               PROVE  /\ pc'[w] # "new" => attached[w] # 0
                      /\ pc'[w] \notin {"new", "done"} => contexts[attached[w]].chain # <<>>
                      /\ pc'[w] = "pop" => tc[w] = attached[w]
    BY <1>2 DEF RunningInv
  <2>1. /\ pc[w] # "new" => attached[w] # 0
        /\ pc[w] \notin {"new", "done"} => contexts[attached[w]].chain # <<>>
        /\ pc[w] = "pop" => tc[w] = attached[w]
    BY <1>1 DEF RunningInv
  <2>2. CASE w = u
    BY <1>3, <1>6, <2>2
  <2>3. CASE w = t
    BY <1>2, <1>6, <2>1, <2>3
  <2>4. CASE w # u /\ w # t
    BY <1>1, <1>6, <2>1, <2>4
  <2> QED BY <2>2, <2>3, <2>4
<1>13. AttachedInv'
  <2>1. ASSUME NEW w \in Workers, attached[w] # 0
        PROVE  attached[w] = CtxOf(w)' /\ (pc'[w] # "new" \/ BeingStarted(w)')
    <3>1. attached[w] = CtxOf(w) /\ (pc[w] # "new" \/ BeingStarted(w))
      BY <1>1, <2>1 DEF AttachedInv
    <3>2. pc'[w] # "new" \/ BeingStarted(w)'
      <4>1. CASE w = u \/ w = t
        BY <1>6, <4>1
      <4>2. CASE w # u /\ w # t /\ pc[w] # "new"
        BY <1>1, <1>6, <4>2
      <4>3. CASE w # u /\ w # t /\ pc[w] = "new"
        <5>1. pc[Creator(w)] \in {"open", "start"} /\ callee[Creator(w)] = w
          BY <3>1, <4>3 DEF BeingStarted
        <5>2. Creator(w) # t /\ Creator(w) # u
          BY <1>3, <4>3, <5>1 DEF u
        <5>3. pc'[Creator(w)] = pc[Creator(w)]
          BY <1>1, <1>6, <5>2
        <5> QED BY <1>2, <5>1, <5>3 DEF BeingStarted
      <4> QED BY <4>1, <4>2, <4>3
    <3>3. CtxOf(w)' = CtxOf(w)
      BY <1>10
    <3> QED BY <3>1, <3>2, <3>3
  <2> QED BY <1>1, <1>2, <2>1 DEF AttachedInv
<1>14. OwnersInv'
  BY <1>1, <1>2, <1>10, OwnersKept
<1> QED BY <1>7, <1>8, <1>9, <1>11, <1>12, <1>13, <1>14 DEF ThreadInv

\* A thread at the end of its work moves on; only a thread that is done may have emptied its context.
LEMMA MoveOnStep ==
  ASSUME ThreadInv, LibraryInv', NEW t \in Threads, NEW to \in {"close", "pop", "done"},
         pc[t] \in {"join", "close", "pop"}, t = Main => to = "done",
         pc' = [pc EXCEPT ![t] = to], callee' = callee, attached' = attached,
         tc' \in [Threads -> 0..Len(contexts)], \A w \in Threads : w # t => tc'[w] = tc[w],
         to = "pop" => tc'[t] = attached[t],
         Len(contexts') = Len(contexts),
         \A d \in 1..Len(contexts) : contexts'[d].trace = contexts[d].trace,
         \A d \in 1..Len(contexts) :
           (to = "done" /\ t \in Workers /\ d = attached[t]) \/ contexts'[d].chain = contexts[d].chain
  PROVE  ThreadInv'
<1>1. /\ ProgramTypes /\ PointsInv /\ StartingInv /\ RunningInv /\ AttachedInv /\ OwnersInv
      /\ Len(contexts) \in Nat
      /\ pc \in [Threads -> Labels] /\ attached \in [Threads -> 0..Len(contexts)]
      /\ tc \in [Threads -> 0..Len(contexts)]
      /\ \A w \in Workers : w \in Threads /\ Creator(w) \in Threads
      /\ \A w \in Workers : CtxOf(w) \in 0..Len(contexts)
  BY ThreadTyped, ThreadFacts DEF ThreadInv
<1>2. /\ pc'[t] = to /\ \A w \in Threads : w # t => pc'[w] = pc[w]
  BY <1>1
<1>3. ProgramTypes'
  BY <1>1 DEF ProgramTypes, Labels
<1>4. PointsInv'
  <2>1. \A w \in Dependants : w \in Workers /\ Creator(w) \in Starters
    BY ThreadFacts
  <2>2. ASSUME NEW w \in Dependants
        PROVE  /\ pc'[w] \in {"new", "close", "pop", "done"}
               /\ pc'[w] # "new" => pc'[Creator(w)] \in {"join", "close", "pop", "done"}
    <3>1. /\ pc[w] \in {"new", "close", "pop", "done"}
          /\ pc[w] # "new" => pc[Creator(w)] \in {"join", "close", "pop", "done"}
      BY <1>1 DEF PointsInv
    <3>2. Creator(w) # w /\ w \in Threads /\ Creator(w) \in Threads
      BY <1>1, <2>1, ThreadFacts
    <3> QED BY <1>2, <3>1, <3>2
  <2>3. pc'[Main] \in {"call", "attach", "open", "start", "join", "done"}
    BY <1>1, <1>2, ThreadFacts DEF PointsInv
  <2>4. \A w \in Starters : pc'[w] # "thrown"
    BY <1>1, <1>2, ThreadFacts DEF PointsInv
  <2> QED BY <2>2, <2>3, <2>4 DEF PointsInv
<1>5. \A w \in Workers : CtxOf(w)' = CtxOf(w)
  <2> TAKE w \in Workers
  <2>1. CASE Creator(w) = t
    BY <1>1, <1>2, <2>1 DEF CtxOf
  <2>2. CASE Creator(w) # t
    BY <1>1, <1>2, <2>2 DEF CtxOf
  <2> QED BY <2>1, <2>2
<1>6. ASSUME NEW w \in Workers, w # t, attached[w] # 0
      PROVE  contexts'[attached[w]].chain = contexts[attached[w]].chain
  <2>1. CASE t \in Workers
    <3>1. attached[t] # 0
      BY <1>1, <2>1 DEF RunningInv
    <3>2. attached[t] = CtxOf(t) /\ attached[w] = CtxOf(w)
      BY <1>1, <1>6, <2>1, <3>1 DEF AttachedInv
    <3>3. attached[w] # attached[t]
      BY <1>1, <1>6, <2>1, <3>1, <3>2 DEF OwnersInv
    <3> QED BY <1>1, <1>6, <3>3
  <2>2. CASE t \notin Workers
    BY <1>1, <1>6, <2>2
  <2> QED BY <2>1, <2>2
<1>7. StartingInv'
  <2> SUFFICES ASSUME NEW w \in Threads, pc'[w] \in Starting
               PROVE  /\ callee[w] \in Workers /\ Creator(callee[w]) = w
                      /\ pc'[callee[w]] = "new" /\ tc'[w] # 0
                      /\ pc'[w] # "attach" => attached[callee[w]] = tc'[w]
                      /\ pc'[w] = "start" => contexts'[tc'[w]].chain # <<>>
    BY DEF StartingInv
  <2>1. w # t /\ pc'[w] = pc[w] /\ tc'[w] = tc[w]
    BY <1>2 DEF Starting
  <2>2. /\ callee[w] \in Workers /\ Creator(callee[w]) = w /\ pc[callee[w]] = "new" /\ tc[w] # 0
        /\ pc[w] # "attach" => attached[callee[w]] = tc[w]
        /\ pc[w] = "start" => contexts[tc[w]].chain # <<>>
    BY <1>1, <2>1 DEF StartingInv
  <2>3. callee[w] # t /\ callee[w] \in Threads
    BY <1>1, <2>2
  <2>4. pc'[callee[w]] = "new"
    BY <1>2, <2>2, <2>3
  <2>5. pc[w] = "start" => contexts'[tc[w]].chain = contexts[tc[w]].chain
    BY <1>6, <2>2, <2>3
  <2> QED BY <2>1, <2>2, <2>4, <2>5
<1>8. RunningInv'
  <2> SUFFICES ASSUME NEW w \in Workers
               PROVE  /\ pc'[w] # "new" => attached[w] # 0
                      /\ pc'[w] \notin {"new", "done"} => contexts'[attached[w]].chain # <<>>
                      /\ pc'[w] = "pop" => tc'[w] = attached[w]
    BY DEF RunningInv
  <2>1. /\ pc[w] # "new" => attached[w] # 0
        /\ pc[w] \notin {"new", "done"} => contexts[attached[w]].chain # <<>>
        /\ pc[w] = "pop" => tc[w] = attached[w]
    BY <1>1 DEF RunningInv
  <2>2. CASE w = t
    BY <1>1, <1>2, <2>1, <2>2
  <2>3. CASE w # t
    <3>1. pc'[w] = pc[w] /\ tc'[w] = tc[w]
      BY <1>1, <1>2, <2>3
    <3> QED BY <1>6, <2>1, <2>3, <3>1
  <2> QED BY <2>2, <2>3
<1>9. AttachedInv'
  <2>1. ASSUME NEW w \in Workers, attached[w] # 0
        PROVE  attached[w] = CtxOf(w)' /\ (pc'[w] # "new" \/ BeingStarted(w)')
    <3>1. attached[w] = CtxOf(w) /\ (pc[w] # "new" \/ BeingStarted(w))
      BY <1>1, <2>1 DEF AttachedInv
    <3>2. pc[w] # "new" => pc'[w] # "new"
      BY <1>1, <1>2
    <3>3. BeingStarted(w) => BeingStarted(w)'
      BY <1>1, <1>2 DEF BeingStarted
    <3>4. CtxOf(w)' = CtxOf(w)
      BY <1>5
    <3>5. pc'[w] # "new" \/ BeingStarted(w)'
      BY <3>1, <3>2, <3>3
    <3> QED BY <3>1, <3>4, <3>5
  <2> QED BY <1>1, <2>1 DEF AttachedInv
<1>10. OwnersInv'
  <2>1. \A w \in Workers : CtxOf(w) # 0 => contexts'[CtxOf(w)].trace = contexts[CtxOf(w)].trace
    BY <1>1
  <2> QED BY <1>1, <1>5, <2>1, OwnersKept
<1> QED BY <1>3, <1>4, <1>7, <1>8, <1>9, <1>10 DEF ThreadInv

\* The exit advice of run() finds the thread's context, with its span in it.
LEMMA RunExitStep ==
  ASSUME ThreadInv, NEW t \in Threads, RunExit(t) PROVE ThreadInv'
<1> DEFINE c == attached[t]
<1>1. pc[t] = "close" /\ t \in Workers
  <2>1. pc[t] = "close"
    BY DEF RunExit, Moves
  <2> QED BY <2>1, ThreadFacts DEF ThreadInv, PointsInv
<1>2. c # 0 /\ c \in 1..Len(contexts) /\ contexts[c].chain # <<>>
  <2>1. c # 0 /\ contexts[c].chain # <<>>
    BY <1>1 DEF ThreadInv, RunningInv
  <2> QED BY <2>1, ThreadTyped
<1>3. Current(c) # 0
  <2>1. /\ Chain(c) \in Seq(1..Len(spans)) /\ Len(Chain(c)) \in Nat /\ Len(spans) \in Nat
        /\ \A k \in 1..Len(Chain(c)) : Chain(c)[k] \in 1..Len(spans)
    BY <1>2, ThreadTyped, ContextsTyped, SpansTyped
  <2>2. Chain(c) # <<>>
    BY <1>2 DEF Chain
  <2>3. Chain(c)[Len(Chain(c))] \in 1..Len(spans)
    BY <2>1, <2>2
  <2> QED BY <2>1, <2>2, <2>3 DEF Current
<1>4. /\ pc' = [pc EXCEPT ![t] = "pop"] /\ tc' = [tc EXCEPT ![t] = c] /\ callee' = callee
      /\ ExportCurrent(c) /\ attached' = attached /\ contexts' = contexts
  BY <1>2, <1>3 DEF RunExit, Moves, Keeps, ExportCurrent
<1>5. LibraryInv'
  BY <1>2, <1>3, <1>4, ExportPreserves DEF ThreadInv
<1>6. /\ tc' \in [Threads -> 0..Len(contexts)] /\ tc'[t] = c
      /\ \A w \in Threads : w # t => tc'[w] = tc[w]
  BY <1>2, <1>4, ThreadTyped
<1>7. t # Main
  BY <1>1, ThreadFacts
<1> QED BY <1>1, <1>4, <1>5, <1>6, <1>7, MoveOnStep

\* Moving up empties no context but the thread's own.
LEMMA ContextMovesUpStep ==
  ASSUME ThreadInv, NEW t \in Threads, ContextMovesUp(t) PROVE ThreadInv'
<1> DEFINE c == attached[t]
<1>1. pc[t] = "pop" /\ t \in Workers
  <2>1. pc[t] = "pop"
    BY DEF ContextMovesUp, Moves
  <2> QED BY <2>1, ThreadFacts DEF ThreadInv, PointsInv
<1>2. c # 0 /\ tc[t] = c
  BY <1>1 DEF ThreadInv, RunningInv
<1>3. c \in 1..Len(contexts)
  BY <1>2, ThreadTyped
<1>4. /\ pc' = [pc EXCEPT ![t] = "done"] /\ tc' = tc /\ callee' = callee
      /\ MoveUp(c) /\ attached' = attached
  BY <1>2 DEF ContextMovesUp, Moves, MoveUp
<1>5. LibraryInv'
  BY <1>3, <1>4, MoveUpPreserves DEF ThreadInv
<1>6. /\ Len(contexts') = Len(contexts)
      /\ \A d \in 1..Len(contexts) : d # c => contexts'[d] = contexts[d]
      /\ \A d \in 1..Len(contexts) : contexts'[d].trace = contexts[d].trace
  BY <1>3, <1>4, ThreadTyped, MoveUpEffect
<1>7. tc' \in [Threads -> 0..Len(contexts)] /\ \A w \in Threads : w # t => tc'[w] = tc[w]
  BY <1>4, ThreadTyped
<1>8. \A d \in 1..Len(contexts) : d = c \/ contexts'[d].chain = contexts[d].chain
  BY <1>6
<1>9. t # Main
  BY <1>1, ThreadFacts
<1> QED BY <1>1, <1>4, <1>5, <1>6, <1>7, <1>8, <1>9, MoveOnStep

\* The joins change nothing but where their threads are.
LEMMA JoinStep ==
  ASSUME ThreadInv, (\E n \in TaskNames : JoinDependant(n)) \/ MainExit PROVE ThreadInv'
<1>1. tc \in [Threads -> 0..Len(contexts)] /\ Main \in Threads
  BY ThreadTyped, ThreadFacts
<1>2. ASSUME NEW n \in TaskNames, JoinDependant(n) PROVE ThreadInv'
  <2>1. Starter(n) \in Threads /\ Starter(n) # Main
    BY ThreadFacts
  <2>2. /\ pc[Starter(n)] = "join" /\ pc' = [pc EXCEPT ![Starter(n)] = "close"]
        /\ UNCHANGED tracing /\ UNCHANGED <<contexts, attached, callee, tc>>
    BY <1>2 DEF JoinDependant, Moves, tracing
  <2>3. LibraryInv'
    BY <2>2, StutterPreserves DEF ThreadInv
  <2> QED BY <1>1, <2>1, <2>2, <2>3, MoveOnStep
<1>3. ASSUME MainExit PROVE ThreadInv'
  <2>1. /\ pc[Main] = "join" /\ pc' = [pc EXCEPT ![Main] = "done"] /\ SystemExit
        /\ UNCHANGED <<contexts, attached, callee, tc>>
    BY <1>3 DEF MainExit, Moves, SystemExit
  <2>2. LibraryInv'
    BY <2>1, ExitPreserves DEF ThreadInv
  <2> QED BY <1>1, <2>1, <2>2, MoveOnStep
<1> QED BY <1>2, <1>3

\* Steps of the exporter and of the clock, and stuttering, leave the program alone.
LEMMA ElsewhereStep ==
  ASSUME ThreadInv, LibraryInv', UNCHANGED <<contexts, attached, pc, callee, tc>>
  PROVE  ThreadInv'
<1>1. \A w \in Workers : CtxOf(w)' = CtxOf(w) /\ BeingStarted(w)' = BeingStarted(w)
  BY DEF CtxOf, BeingStarted
<1>2. OwnersInv'
  BY <1>1, OwnersKept DEF ThreadInv
<1>3. ProgramTypes' /\ PointsInv' /\ StartingInv' /\ RunningInv'
  BY DEF ThreadInv, ProgramTypes, PointsInv, StartingInv, RunningInv
<1>4. AttachedInv'
  <2>1. \A w \in Workers : attached'[w] # 0 =>
          attached'[w] = CtxOf(w)' /\ (pc'[w] # "new" \/ BeingStarted(w)')
    BY <1>1 DEF ThreadInv, AttachedInv
  <2> QED BY <2>1 DEF ThreadInv, AttachedInv
<1> QED BY <1>2, <1>3, <1>4 DEF ThreadInv

\* Every step preserves the invariant.
LEMMA ThreadInvStep ==
  ASSUME ThreadInv, [Next]_vars PROVE ThreadInv'
<1>1. ASSUME NEW t \in Threads, ThreadStep(t) PROVE ThreadInv'
  BY <1>1, AttachOnThreadStep, OpenSpanStep, ThreadStartStep, RunExitStep, ContextMovesUpStep
     DEF ThreadStep
<1>2. ASSUME NEW n \in TaskNames, NamedStep(n) PROVE ThreadInv'
  BY <1>2, StarterStartEnterStep, DependantStartEnterStep, JoinStep DEF NamedStep
<1>3. ASSUME LibraryStep PROVE ThreadInv'
  <2>1. LibraryInv'
    BY <1>3, ExporterPreserves, TickPreserves DEF LibraryStep, ThreadInv
  <2>2. UNCHANGED <<contexts, attached, pc, callee, tc>>
    BY <1>3 DEF LibraryStep, program, ExporterStep, Post, DropSpan, OpenFile, WriteFile, FileFails,
                TaskMoves,
                Tick
  <2> QED BY <2>1, <2>2, ElsewhereStep
<1>4. ASSUME UNCHANGED vars PROVE ThreadInv'
  <2>1. UNCHANGED tracing /\ UNCHANGED <<contexts, attached, pc, callee, tc>>
    BY <1>4 DEF vars, tracing
  <2>2. LibraryInv'
    BY <2>1, StutterPreserves DEF ThreadInv
  <2> QED BY <2>1, <2>2, ElsewhereStep
<1> QED BY <1>1, <1>2, <1>3, <1>4, JoinStep DEF Next, ProgramStep

\* Contexts follow the tasks: the invariant behind the theorems below.
THEOREM ContextsFollowTasks == Spec => []ThreadInv
<1>1. Init => ThreadInv
  BY ThreadInvInit
<1>2. ThreadInv /\ [Next]_vars => ThreadInv'
  BY ThreadInvStep
<1> QED BY <1>1, <1>2, PTL DEF Spec

\* Every reference of the library and of the advices leads to an object.
THEOREM ProgramTyped == Spec => []TypeOK
<1>1. ThreadInv => TypeOK
  BY DEF ThreadInv, LibraryInv, ProgramTypes, TypeOK
<1> QED BY <1>1, ContextsFollowTasks, PTL

\* No advice throws: getFromCurrentThread finds a context, closeCurrentSpan a span
\* (TraceContextManager.java:36, TraceContext.java:80).
THEOREM AdvicesSucceed == Spec => []NothingThrown
<1>1. ThreadInv => NothingThrown
  BY ThreadFacts DEF ThreadInv, PointsInv, NothingThrown
<1> QED BY <1>1, ContextsFollowTasks, PTL

\* No two threads are attached to one context (TraceContext.java:169).
THEOREM ContextsPrivate == Spec => []ContextPrivate
<1>1. ASSUME ThreadInv PROVE ContextPrivate
  <2> SUFFICES ASSUME NEW t \in Threads, NEW u \in Threads, t # u, attached[t] # 0,
                      attached[t] = attached[u]
               PROVE  FALSE
    BY DEF ContextPrivate
  <2>1. t \in Workers /\ u \in Workers
    BY <1>1, ThreadFacts DEF ThreadInv, AttachedInv
  <2>2. attached[t] = CtxOf(t) /\ attached[u] = CtxOf(u)
    BY <1>1, <2>1 DEF ThreadInv, AttachedInv
  <2> QED BY <1>1, <2>1, <2>2 DEF ThreadInv, OwnersInv
<1> QED BY <1>1, ContextsFollowTasks, PTL

\* A dependant task is traced with the starter task that started it (DependantTask.java:5).
THEOREM TracesFollowTasks == Spec => []SameTrace
<1>1. ASSUME ThreadInv PROVE SameTrace
  <2> SUFFICES ASSUME NEW m \in TaskNames, NEW n \in TaskNames,
                      attached[Dependant(m)] # 0, attached[Starter(n)] # 0
               PROVE  contexts[attached[Dependant(m)]].trace = contexts[attached[Starter(n)]].trace
                        <=> m = n
    BY DEF SameTrace
  <2>1. /\ Dependant(m) \in Workers /\ Dependant(m).name = m
        /\ Starter(n) \in Workers /\ Starter(n).name = n
    BY ThreadFacts
  <2>2. /\ attached[Dependant(m)] = CtxOf(Dependant(m))
        /\ attached[Starter(n)] = CtxOf(Starter(n))
    BY <1>1, <2>1 DEF ThreadInv, AttachedInv
  <2>3. contexts[CtxOf(Dependant(m))].trace = contexts[CtxOf(Starter(n))].trace
          <=> Dependant(m).name = Starter(n).name
    BY <1>1, <2>1, <2>2 DEF ThreadInv, OwnersInv
  <2> QED BY <2>1, <2>2, <2>3
<1> QED BY <1>1, ContextsFollowTasks, PTL

(* The order in which the program's threads end *)

\* A thread that waits for others has started them, and goes on when they are done.
JoinInv ==
  /\ pc[Main] \in {"join", "done"} => \A t \in Starters : pc[t] # "new"
  /\ pc[Main] = "done" => \A t \in Starters : pc[t] = "done"
  /\ exited => pc[Main] = "done"
  /\ \A t \in Dependants :
       /\ pc[Creator(t)] = "join" => pc[t] # "new"
       /\ pc[Creator(t)] \in {"close", "pop", "done"} => pc[t] = "done"

\* A thread's own move that neither starts another thread nor ends Main's wait.
LEMMA JoinKept ==
  ASSUME ThreadInv, JoinInv, NEW t \in Threads, NEW to, pc' = [pc EXCEPT ![t] = to],
         pc[t] \notin {"new", "done"}, to # "new", t = Main => to \notin {"join", "done"},
         t \in Starters => \/ to \notin {"join", "close", "pop", "done"}
                           \/ to # "join" /\ pc[Dependant(t.name)] = "done",
         ~exited, ~exited'
  PROVE  JoinInv'
<1>1. /\ pc \in [Threads -> Labels] /\ Main \in Threads
      /\ \A w \in Starters : w \in Threads /\ w # Main
      /\ \A w \in Dependants : w \in Threads /\ Creator(w) \in Starters /\ Creator(w) \in Threads
                               /\ Creator(w) # w /\ w \notin Starters
  BY ThreadTyped, ThreadFacts
<1>2. /\ pc'[t] = to /\ \A w \in Threads : w # t => pc'[w] = pc[w]
  BY <1>1
<1>3. /\ pc'[Main] \in {"join", "done"} => t # Main /\ pc'[Main] = pc[Main]
  BY <1>1, <1>2
<1>4. pc'[Main] \in {"join", "done"} => \A w \in Starters : pc'[w] # "new"
  BY <1>1, <1>2, <1>3 DEF JoinInv
<1>5. pc'[Main] = "done" => \A w \in Starters : pc'[w] = "done"
  BY <1>1, <1>2, <1>3 DEF JoinInv
<1>6. ASSUME NEW w \in Dependants
      PROVE  /\ pc'[Creator(w)] = "join" => pc'[w] # "new"
             /\ pc'[Creator(w)] \in {"close", "pop", "done"} => pc'[w] = "done"
  <2>1. /\ pc[Creator(w)] = "join" => pc[w] # "new"
        /\ pc[Creator(w)] \in {"close", "pop", "done"} => pc[w] = "done"
    BY DEF JoinInv
  <2>2. CASE t = Creator(w)
    <3>1. t \in Starters /\ Dependant(t.name) = w
      <4>1. Creator(Dependant(t.name)) = t /\ Dependant(t.name) \in Dependants
        BY <1>1, <2>2, ThreadFacts
      <4> QED BY <1>1, <2>2, <4>1, CreatorsDiffer
    <3> QED BY <1>1, <1>2, <2>2, <3>1
  <2>3. CASE t = w
    BY <1>1, <1>2, <2>1, <2>3
  <2>4. CASE t # w /\ t # Creator(w)
    BY <1>1, <1>2, <2>1, <2>4
  <2> QED BY <2>2, <2>3, <2>4
<1> QED BY <1>4, <1>5, <1>6 DEF JoinInv

\* What the joins wait for is what the threads do.
LEMMA JoinInvStep ==
  ASSUME ThreadInv, JoinInv, [Next]_vars PROVE JoinInv'
<1>1. /\ pc \in [Threads -> Labels] /\ Main \in Threads /\ Main \notin Starters
      /\ \A w \in Starters : w \in Threads /\ w \in Workers /\ w # Main /\ w \notin Dependants
      /\ \A w \in Dependants : w \in Threads /\ w \in Workers /\ w # Main
                               /\ Creator(w) \in Starters /\ w \notin Starters
      /\ \A n \in TaskNames : /\ Starter(n) \in Starters /\ Starter(n).name = n
                              /\ Dependant(n) \in Dependants /\ Creator(Dependant(n)) = Starter(n)
      /\ PointsInv /\ StartingInv
  BY ThreadTyped, ThreadFacts DEF ThreadInv
<1>2. ASSUME ~exited, NEW n \in TaskNames, StarterStartEnter(n) PROVE JoinInv'
  <2>1. /\ pc[Main] = "call" /\ pc' = [pc EXCEPT ![Main] = "attach"] /\ ~exited'
    BY <1>2 DEF StarterStartEnter, Moves, Create
  <2> QED BY <1>1, <1>2, <2>1, JoinKept
<1>3. ASSUME ~exited, NEW n \in TaskNames, DependantStartEnter(n) PROVE JoinInv'
  <2>1. \E to \in {"thrown", "attach"} : /\ pc[Starter(n)] = "call" /\ ~exited'
                                         /\ pc' = [pc EXCEPT ![Starter(n)] = to]
    BY <1>3 DEF DependantStartEnter, Moves, DeepCopy, tracing
  <2> QED BY <1>1, <1>3, <2>1, JoinKept
<1>4. ASSUME ~exited, NEW t \in Threads, AttachOnThread(t) \/ OpenSpan(t) PROVE JoinInv'
  <2>1. \E to \in {"open", "start"} : /\ pc[t] \in {"attach", "open"} /\ ~exited'
                                      /\ pc' = [pc EXCEPT ![t] = to]
    BY <1>4 DEF AttachOnThread, OpenSpan, Moves, AttachTo, OpenNestedSpan
  <2> QED BY <1>1, <1>4, <2>1, JoinKept
<1>5. ASSUME ~exited, NEW n \in TaskNames, JoinDependant(n) PROVE JoinInv'
  <2>1. /\ pc[Starter(n)] = "join" /\ pc' = [pc EXCEPT ![Starter(n)] = "close"] /\ ~exited'
        /\ pc[Dependant(n)] \in {"new", "done", "thrown"}
    BY <1>5 DEF JoinDependant, Moves, Alive, tracing
  <2>2. pc[Dependant(n)] = "done"
    BY <1>1, <2>1 DEF JoinInv, PointsInv
  <2> QED BY <1>1, <1>5, <2>1, <2>2, JoinKept
<1>6. ASSUME ~exited, NEW t \in Threads, RunExit(t) \/ ContextMovesUp(t) PROVE JoinInv'
  <2>1. PICK to \in {"thrown", "pop", "done"} : /\ pc[t] \in {"close", "pop"} /\ ~exited'
                                                /\ pc' = [pc EXCEPT ![t] = to]
    BY <1>6 DEF RunExit, ContextMovesUp, Moves, ExportCurrent, MoveUp, tracing
  <2>2. t # Main
    BY <1>1, <2>1 DEF PointsInv
  <2>3. t \in Starters => pc[Dependant(t.name)] = "done"
    <3> SUFFICES ASSUME t \in Starters PROVE pc[Dependant(t.name)] = "done"
      OBVIOUS
    <3>1. Dependant(t.name) \in Dependants /\ Creator(Dependant(t.name)) = t
      BY ThreadFacts
    <3> QED BY <2>1, <3>1 DEF JoinInv
  <2> QED BY <1>1, <1>6, <2>1, <2>2, <2>3, JoinKept
<1>7. ASSUME ~exited, NEW t \in Threads, ThreadStart(t) PROVE JoinInv'
  <2> PICK u : u = callee[t]
    OBVIOUS
  <2>1. pc[t] = "start" /\ ~exited'
    BY <1>7 DEF ThreadStart, tracing
  <2>2. /\ u \in Workers /\ u \in Threads /\ Creator(u) = t /\ pc[u] = "new" /\ u # t
    BY <1>1, <2>1, ThreadFacts DEF StartingInv, Starting
  <2>3. PICK from \in {"call", "close"}, to \in {"call", "join"} :
         /\ pc' = [pc EXCEPT ![u] = from, ![t] = to]
         /\ t # Main => to = "join"
         /\ t = Main /\ to = "join" => \A n \in TaskNames : Starter(n) # u => pc[Starter(n)] # "new"
    BY <1>7 DEF ThreadStart
  <2>4. /\ pc'[t] = to /\ pc'[u] = from /\ \A w \in Threads : w # t /\ w # u => pc'[w] = pc[w]
    BY <1>1, <2>2, <2>3
  <2>5. pc'[Main] = "join" => \A w \in Starters : pc'[w] # "new"
    <3>1. CASE t = Main
      <4>1. to = "join" => \A w \in Starters : w # u => pc[w] # "new"
        BY <2>3, <3>1, ThreadFacts
      <4> QED BY <1>1, <2>4, <3>1, <4>1
    <3>2. CASE t # Main
      <4>1. u # Main /\ pc'[Main] = pc[Main]
        BY <1>1, <2>2, <2>4, <3>2, ThreadFacts
      <4> QED BY <1>1, <2>4, <4>1 DEF JoinInv
    <3> QED BY <3>1, <3>2
  <2>6. pc'[Main] # "done"
    <3>1. u # Main
      BY <2>2, ThreadFacts
    <3>2. pc[Main] # "done"
      <4>1. CASE t = Main
        BY <2>1, <4>1
      <4>2. CASE t # Main
        <5>1. t \in Starters
          BY <1>1, <2>1, <4>2, ThreadFacts DEF PointsInv
        <5> QED BY <2>1, <5>1 DEF JoinInv
      <4> QED BY <4>1, <4>2
    <3> QED BY <1>1, <2>4, <3>1, <3>2
  <2>7. ASSUME NEW w \in Dependants
        PROVE  /\ pc'[Creator(w)] = "join" => pc'[w] # "new"
               /\ pc'[Creator(w)] \in {"close", "pop", "done"} => pc'[w] = "done"
    <3>1. /\ pc[Creator(w)] = "join" => pc[w] # "new"
          /\ pc[Creator(w)] \in {"close", "pop", "done"} => pc[w] = "done"
          /\ pc[w] # "new" => pc[Creator(w)] \in {"join", "close", "pop", "done"}
          /\ pc[w] # "start"
          /\ w \in Threads /\ Creator(w) \in Threads /\ Creator(w) \in Starters
      BY <1>1 DEF JoinInv, PointsInv
    <3>2. w # t
      BY <2>1, <3>1
    <3>3. CASE w = u
      BY <1>1, <2>2, <2>3, <2>4, <3>1, <3>3
    <3>4. CASE w # u /\ Creator(w) = t
      <4>1. t \in Starters /\ u \in Dependants
        <5>1. t \in Starters /\ t # Main
          BY <1>1, <3>1, <3>4
        <5> QED BY <2>2, <5>1, ThreadFacts
      <4> QED BY <2>2, <3>4, <4>1, CreatorsDiffer
    <3>5. CASE w # u /\ Creator(w) = u
      <4>1. pc[w] = "new" /\ pc'[w] = "new"
        BY <2>2, <2>4, <3>1, <3>2, <3>5
      <4>2. u \in Starters /\ pc'[u] = "call"
        BY <1>1, <1>7, <2>1, <2>2, <2>3, <2>4, <3>1, <3>5 DEF ThreadStart
      <4> QED BY <3>5, <4>2
    <3>6. CASE w # u /\ Creator(w) # t /\ Creator(w) # u
      BY <2>4, <3>1, <3>2, <3>6
    <3> QED BY <3>3, <3>4, <3>5, <3>6
  <2> QED BY <2>1, <2>5, <2>6, <2>7 DEF JoinInv
<1>8. ASSUME MainExit PROVE JoinInv'
  <2>1. /\ pc[Main] = "join" /\ pc' = [pc EXCEPT ![Main] = "done"]
        /\ \A n \in TaskNames : pc[Starter(n)] \in {"new", "done", "thrown"}
    BY <1>8 DEF MainExit, Moves, Alive
  <2>2. /\ pc'[Main] = "done" /\ \A w \in Threads : w # Main => pc'[w] = pc[w]
    BY <1>1, <2>1
  <2>3. \A w \in Starters : pc[w] = "done"
    <3> TAKE w \in Starters
    <3>1. w.name \in TaskNames /\ w = Starter(w.name)
      BY ThreadFacts
    <3> QED BY <1>1, <2>1, <3>1 DEF JoinInv, PointsInv
  <2> QED BY <1>1, <2>2, <2>3 DEF JoinInv
<1>9. ASSUME LibraryStep \/ UNCHANGED vars PROVE JoinInv'
  <2>1. pc' = pc /\ exited' = exited
    BY <1>9 DEF LibraryStep, program, vars, ExporterStep, Post, DropSpan, OpenFile, WriteFile,
                FileFails,
                TaskMoves, Tick
  <2> QED BY <2>1 DEF JoinInv
<1> QED BY <1>2, <1>3, <1>4, <1>5, <1>6, <1>7, <1>8, <1>9
        DEF Next, ProgramStep, ThreadStep, NamedStep

(* What is on the chains *)

\* The span of a worker is opened just before the worker starts and closed as the last it does.
Opened(t) ==
  \/ pc[t] \notin {"new", "done"}
  \/ pc[t] = "new" /\ pc[Creator(t)] = "start" /\ callee[Creator(t)] = t

\* The number of spans a worker's context is made with: a dependant task inherits a copy.
Inherited(t) == IF t \in Starters THEN 0 ELSE 1

\* The chain of worker t's context c: what it inherits and, while it is open, the worker's span.
WorkerChain(t, c) ==
  /\ Opened(t) => Len(Chain(c)) = Inherited(t) + 1 /\ spans[Current(c)].id = Current(c)
  /\ ~Opened(t) => Len(Chain(c)) = Inherited(t)

\* What a dependant task inherits in its context d is a copy of the span in its starter's context c.
CopyOf(d, c) == spans[Chain(d)[1]].id = Current(c)

ChainsOf(t) ==
  CtxOf(t) # 0 =>
    /\ WorkerChain(t, CtxOf(t))
    /\ t \in Dependants /\ pc[t] # "done" => CopyOf(CtxOf(t), CtxOf(Creator(t)))
ChainsInv == \A t \in Workers : ChainsOf(t)

\* The steps that give a context to a thread, and the others.
LEMMA HandedOver ==
  ASSUME ThreadInv, NEW t \in Threads, NEW u \in Workers, Creator(u) = t, pc[t] = "call",
         pc[u] = "new", pc' = [pc EXCEPT ![t] = "attach"], callee' = [callee EXCEPT ![t] = u],
         tc' = [tc EXCEPT ![t] = Len(contexts) + 1], attached' = attached
  PROVE  /\ CtxOf(u) = 0 /\ CtxOf(u)' = Len(contexts) + 1
         /\ \A w \in Workers : w # u => CtxOf(w)' = CtxOf(w)
         /\ \A w \in Workers : /\ Opened(w)' <=> Opened(w)
                               /\ pc'[w] = "done" <=> pc[w] = "done"
                               /\ pc'[w] = "pop" <=> pc[w] = "pop"
         /\ ~Opened(u)
<1>1. /\ pc \in [Threads -> Labels] /\ callee \in [Threads -> Threads]
      /\ tc \in [Threads -> 0..Len(contexts)] /\ AttachedInv
      /\ \A w \in Workers : w \in Threads /\ Creator(w) \in Threads
  BY ThreadTyped, ThreadFacts DEF ThreadInv
<1>2. /\ pc'[t] = "attach" /\ callee'[t] = u /\ tc'[t] = Len(contexts) + 1
      /\ \A w \in Threads : w # t => pc'[w] = pc[w] /\ callee'[w] = callee[w] /\ tc'[w] = tc[w]
  BY <1>1
<1>3. CtxOf(u) = 0 /\ CtxOf(u)' = Len(contexts) + 1
  BY <1>1, <1>2 DEF CtxOf, AttachedInv, BeingStarted
<1>4. ASSUME NEW w \in Workers, w # u PROVE CtxOf(w)' = CtxOf(w)
  <2>1. CASE Creator(w) = t
    BY <1>1, <1>2, <1>4, <2>1 DEF CtxOf
  <2>2. CASE Creator(w) # t
    BY <1>1, <1>2, <1>4, <2>2 DEF CtxOf
  <2> QED BY <2>1, <2>2
<1>5. ASSUME NEW w \in Workers
      PROVE  /\ Opened(w)' <=> Opened(w)
             /\ pc'[w] = "done" <=> pc[w] = "done"
             /\ pc'[w] = "pop" <=> pc[w] = "pop"
  <2>1. CASE Creator(w) = t
    BY <1>1, <1>2, <2>1 DEF Opened
  <2>2. CASE Creator(w) # t
    BY <1>1, <1>2, <2>2 DEF Opened
  <2> QED BY <2>1, <2>2
<1>6. ~Opened(u)
  BY DEF Opened
<1> QED BY <1>3, <1>4, <1>5, <1>6

\* No other step changes whose context is whose, and only opening and moving up change what is open.
LEMMA ContextsStay ==
  ASSUME ThreadInv, NEW t \in Threads,
         \/ AttachOnThread(t) \/ OpenSpan(t) \/ ThreadStart(t) \/ RunExit(t) \/ ContextMovesUp(t)
         \/ \E n \in TaskNames : t = Starter(n) /\ JoinDependant(n)
         \/ t = Main /\ MainExit
         \/ LibraryStep \/ UNCHANGED vars
  PROVE  /\ \A w \in Workers : CtxOf(w)' = CtxOf(w)
         /\ \A w \in Workers : \/ OpenSpan(t) /\ w = callee[t]
                               \/ ContextMovesUp(t) /\ w = t
                               \/ /\ Opened(w)' <=> Opened(w)
                                  /\ pc'[w] = "done" <=> pc[w] = "done"
<1>1. /\ pc \in [Threads -> Labels] /\ callee \in [Threads -> Threads]
      /\ tc \in [Threads -> 0..Len(contexts)] /\ attached \in [Threads -> 0..Len(contexts)]
      /\ PointsInv /\ StartingInv /\ RunningInv
      /\ \A w \in Workers : w \in Threads /\ Creator(w) \in Threads /\ Creator(w) # w
      /\ Main \in Threads /\ Main \notin Workers
  BY ThreadTyped, ThreadFacts DEF ThreadInv
<1>2. ASSUME AttachOnThread(t)
      PROVE  \A w \in Workers : /\ CtxOf(w)' = CtxOf(w) /\ (Opened(w)' <=> Opened(w))
                                /\ pc'[w] = "done" <=> pc[w] = "done"
  <2> PICK u : u = callee[t]
    OBVIOUS
  <2>1. /\ pc[t] = "attach" /\ pc' = [pc EXCEPT ![t] = "open"]
        /\ attached' = [attached EXCEPT ![u] = tc[t]] /\ UNCHANGED <<callee, tc>>
    BY <1>2 DEF AttachOnThread, Moves, AttachTo
  <2>2. u \in Workers /\ Creator(u) = t
    BY <1>1, <2>1 DEF StartingInv, Starting
  <2>3. /\ pc'[t] = "open" /\ \A w \in Threads : w # t => pc'[w] = pc[w]
        /\ attached'[u] = tc[t] /\ \A w \in Threads : w # u => attached'[w] = attached[w]
    BY <1>1, <2>1, <2>2
  <2> TAKE w \in Workers
  <2>4. CASE Creator(w) = t
    BY <1>1, <2>1, <2>2, <2>3, <2>4 DEF CtxOf, Opened
  <2>5. CASE Creator(w) # t
    BY <1>1, <2>1, <2>2, <2>3, <2>5 DEF CtxOf, Opened
  <2> QED BY <2>4, <2>5
<1>3. ASSUME OpenSpan(t)
      PROVE  \A w \in Workers : /\ CtxOf(w)' = CtxOf(w)
                                /\ w # callee[t] => (Opened(w)' <=> Opened(w))
                                /\ pc'[w] = "done" <=> pc[w] = "done"
  <2>1. /\ pc[t] = "open" /\ pc' = [pc EXCEPT ![t] = "start"] /\ UNCHANGED <<attached, callee, tc>>
    BY <1>3 DEF OpenSpan, Moves, OpenNestedSpan
  <2>2. /\ pc'[t] = "start" /\ \A w \in Threads : w # t => pc'[w] = pc[w]
    BY <1>1, <2>1
  <2> QED BY <1>1, <2>1, <2>2 DEF CtxOf, Opened
<1>4. ASSUME ThreadStart(t)
      PROVE  \A w \in Workers : /\ CtxOf(w)' = CtxOf(w) /\ (Opened(w)' <=> Opened(w))
                                /\ pc'[w] = "done" <=> pc[w] = "done"
  <2> PICK u : u = callee[t]
    OBVIOUS
  <2>1. pc[t] = "start" /\ UNCHANGED <<attached, callee, tc>>
    BY <1>4 DEF ThreadStart, tracing
  <2>2. u \in Workers /\ u \in Threads /\ Creator(u) = t /\ pc[u] = "new" /\ u # t
    BY <1>1, <2>1 DEF StartingInv, Starting
  <2>3. PICK from \in {"call", "close"}, to \in {"call", "join"} :
          pc' = [pc EXCEPT ![u] = from, ![t] = to]
    BY <1>4 DEF ThreadStart
  <2>4. /\ pc'[t] = to /\ pc'[u] = from /\ \A w \in Threads : w # t /\ w # u => pc'[w] = pc[w]
    BY <1>1, <2>2, <2>3
  <2> TAKE w \in Workers
  <2>5. CASE w = u
    BY <1>1, <2>1, <2>2, <2>3, <2>4, <2>5 DEF CtxOf, Opened
  <2>6. CASE w # u /\ Creator(w) = t
    BY <1>1, <2>1, <2>2, <2>3, <2>4, <2>6 DEF CtxOf, Opened
  <2>7. CASE w # u /\ Creator(w) = u
    BY <1>1, <2>1, <2>2, <2>3, <2>4, <2>7 DEF CtxOf, Opened
  <2>8. CASE w # u /\ Creator(w) # t /\ Creator(w) # u
    BY <1>1, <2>1, <2>2, <2>3, <2>4, <2>8 DEF CtxOf, Opened
  <2> QED BY <2>5, <2>6, <2>7, <2>8
<1>5. ASSUME NEW to \in {"close", "pop", "done"}, pc[t] \in {"join", "close", "pop"},
             (t \in Workers /\ to # "done") \/ t = Main \/ ContextMovesUp(t),
             pc' = [pc EXCEPT ![t] = to], UNCHANGED <<attached, callee>>,
             \A w \in Threads : w # t => tc'[w] = tc[w]
      PROVE  \A w \in Workers : /\ CtxOf(w)' = CtxOf(w)
                                /\ \/ ContextMovesUp(t) /\ w = t
                                   \/ /\ Opened(w)' <=> Opened(w)
                                      /\ pc'[w] = "done" <=> pc[w] = "done"
  <2>1. /\ pc'[t] = to /\ \A w \in Threads : w # t => pc'[w] = pc[w]
    BY <1>1, <1>5
  <2> TAKE w \in Workers
  <2>2. CASE Creator(w) = t
    BY <1>1, <1>5, <2>1, <2>2 DEF CtxOf, Opened
  <2>3. CASE Creator(w) # t
    <3>1. CtxOf(w)' = CtxOf(w)
      BY <1>1, <1>5, <2>1, <2>3 DEF CtxOf
    <3>2. CASE w = t
      BY <1>1, <1>5, <2>1, <3>1, <3>2 DEF Opened
    <3>3. CASE w # t
      BY <1>1, <1>5, <2>1, <2>3, <3>1, <3>3 DEF Opened
    <3> QED BY <3>2, <3>3
  <2> QED BY <2>2, <2>3
<1>6. ASSUME RunExit(t)
      PROVE  \A w \in Workers : /\ CtxOf(w)' = CtxOf(w) /\ (Opened(w)' <=> Opened(w))
                                /\ pc'[w] = "done" <=> pc[w] = "done"
  <2>1. pc[t] = "close" /\ t \in Workers
    <3>1. pc[t] = "close"
      BY <1>6 DEF RunExit, Moves
    <3> QED BY <1>1, <3>1, ThreadFacts DEF PointsInv
  <2>2. ThreadInv'
    BY <1>6, RunExitStep
  <2>3. pc' = [pc EXCEPT ![t] = "pop"]
    <3>1. PICK to \in {"thrown", "pop"} : pc' = [pc EXCEPT ![t] = to]
      BY <1>6 DEF RunExit, Moves
    <3>2. pc'[t] = to /\ pc'[t] # "thrown"
      BY <1>1, <2>1, <2>2, <3>1, ThreadFacts DEF ThreadInv, PointsInv
    <3> QED BY <3>1, <3>2
  <2>4. UNCHANGED <<attached, callee>> /\ \A w \in Threads : w # t => tc'[w] = tc[w]
    BY <1>1, <1>6 DEF RunExit, Keeps, ExportCurrent, tracing
  <2>5. ~ContextMovesUp(t)
    BY <2>1 DEF ContextMovesUp, Moves
  <2> QED BY <1>5, <2>1, <2>3, <2>4, <2>5
<1>7. ASSUME ContextMovesUp(t)
      PROVE  \A w \in Workers : /\ CtxOf(w)' = CtxOf(w)
                                /\ \/ w = t
                                   \/ /\ Opened(w)' <=> Opened(w)
                                      /\ pc'[w] = "done" <=> pc[w] = "done"
  <2>1. /\ pc[t] = "pop" /\ pc' = [pc EXCEPT ![t] = "done"] /\ UNCHANGED <<attached, callee, tc>>
    BY <1>7 DEF ContextMovesUp, Moves, MoveUp
  <2> QED BY <1>5, <1>7, <2>1
<1>8. ASSUME \/ \E n \in TaskNames : t = Starter(n) /\ JoinDependant(n)
             \/ t = Main /\ MainExit
      PROVE  \A w \in Workers : /\ CtxOf(w)' = CtxOf(w) /\ (Opened(w)' <=> Opened(w))
                                /\ pc'[w] = "done" <=> pc[w] = "done"
  <2>1. PICK to \in {"close", "done"} :
          /\ pc[t] = "join" /\ pc' = [pc EXCEPT ![t] = to] /\ UNCHANGED <<attached, callee, tc>>
          /\ to = "done" => t = Main
          /\ to = "close" => t \in Workers
    BY <1>8, ThreadFacts DEF JoinDependant, MainExit, Moves, SystemExit, tracing
  <2>2. ~ContextMovesUp(t)
    BY <2>1 DEF ContextMovesUp, Moves
  <2> QED BY <1>5, <2>1, <2>2
<1>9. ASSUME LibraryStep \/ UNCHANGED vars
      PROVE  \A w \in Workers : /\ CtxOf(w)' = CtxOf(w) /\ (Opened(w)' <=> Opened(w))
                                /\ pc'[w] = "done" <=> pc[w] = "done"
  <2>1. UNCHANGED <<attached, pc, callee, tc>>
    BY <1>9 DEF LibraryStep, program, vars, ExporterStep, Post, DropSpan, OpenFile, WriteFile,
                FileFails,
                TaskMoves, Tick
  <2> QED BY <2>1 DEF CtxOf, Opened
<1> QED BY <1>2, <1>3, <1>4, <1>6, <1>7, <1>8, <1>9

\* A step that leaves a worker's context alone, and its starter's, leaves what is said of them true.
LEMMA WorkerKept ==
  ASSUME ThreadInv, NEW t \in Workers, ChainsOf(t),
         CtxOf(t)' = CtxOf(t), Opened(t)' <=> Opened(t), pc'[t] = "done" <=> pc[t] = "done",
         CtxOf(t) # 0 => contexts'[CtxOf(t)].chain = contexts[CtxOf(t)].chain,
         \A s \in 1..Len(spans) : spans'[s] = spans[s],
         t \in Dependants /\ CtxOf(t) # 0 /\ pc[t] # "done" =>
           /\ CtxOf(Creator(t)) \in 1..Len(contexts)
           /\ CtxOf(Creator(t))' = CtxOf(Creator(t))
           /\ contexts'[CtxOf(Creator(t))].chain = contexts[CtxOf(Creator(t))].chain
  PROVE  ChainsOf(t)'
<1> PICK c : c = CtxOf(t)
  OBVIOUS
<1> SUFFICES ASSUME c # 0
             PROVE  /\ WorkerChain(t, c)'
                    /\ t \in Dependants /\ pc'[t] # "done" => CopyOf(c, CtxOf(Creator(t)))'
  <2>1. CtxOf(t)' = c
    OBVIOUS
  <2> QED BY <2>1 DEF ChainsOf
<1>1. /\ c \in 1..Len(contexts)
      /\ Len(Chain(c)) \in Nat /\ DOMAIN Chain(c) = 1..Len(Chain(c)) /\ Len(spans) \in Nat
      /\ \A k \in 1..Len(Chain(c)) : Chain(c)[k] \in 1..Len(spans)
      /\ Chain(c) \in Seq(1..Len(spans)) /\ Current(c) \in 0..Len(spans)
  BY ThreadTyped, ContextsTyped, SpansTyped
<1>2. Chain(c)' = Chain(c) /\ Current(c)' = Current(c)
  BY DEF Chain, Current
<1>3. Len(Chain(c)) # 0 => Current(c) \in 1..Len(spans) /\ Chain(c)[1] \in 1..Len(spans)
  <2>1. Len(Chain(c)) # 0 => Chain(c) # <<>> /\ Len(Chain(c)) \in 1..Len(Chain(c))
    BY <1>1
  <2> QED BY <1>1, <2>1 DEF Current
<1>4. Inherited(t) \in {0, 1}
  BY DEF Inherited
<1>5. WorkerChain(t, c)'
  <2>1. WorkerChain(t, c)
    BY DEF ChainsOf
  <2>2. Inherited(t)' = Inherited(t)
    BY DEF Inherited
  <2> QED BY <1>2, <1>3, <1>4, <2>1, <2>2 DEF WorkerChain
<1>6. ASSUME t \in Dependants, pc'[t] # "done" PROVE CopyOf(c, CtxOf(Creator(t)))'
  <2> PICK d : d = CtxOf(Creator(t))
    OBVIOUS
  <2>1. CtxOf(Creator(t))' = d /\ CopyOf(c, d) /\ contexts'[d].chain = contexts[d].chain
    BY <1>6 DEF ChainsOf
  <2>2. Current(d)' = Current(d)
    BY <2>1 DEF Current, Chain
  <2>3. Len(Chain(c)) # 0
    <3>1. t \notin Starters
      BY <1>6, ThreadFacts
    <3>2. WorkerChain(t, c)
      BY DEF ChainsOf
    <3>3. Inherited(t) = 1
      BY <3>1 DEF Inherited
    <3>4. CASE Opened(t)
      BY <3>2, <3>3, <3>4 DEF WorkerChain
    <3>5. CASE ~Opened(t)
      BY <3>2, <3>3, <3>5 DEF WorkerChain
    <3> QED BY <3>4, <3>5
  <2>4. CopyOf(c, d)'
    BY <1>2, <1>3, <2>1, <2>2, <2>3 DEF CopyOf
  <2> QED BY <2>1, <2>4 DEF CopyOf
<1> QED BY <1>5, <1>6

\* A dependant task has a context from the time its starter makes it one; while the dependant task
\* is not done its starter waits for it with its own span open.
LEMMA StarterOf ==
  ASSUME ThreadInv, JoinInv, NEW t \in Dependants, CtxOf(t) # 0
  PROVE  LET s == Creator(t) IN
         /\ s \in Starters /\ s \in Workers /\ s # t /\ pc[s] # "new"
         /\ CtxOf(s) \in 1..Len(contexts) /\ CtxOf(s) = attached[s] /\ CtxOf(s) # CtxOf(t)
         /\ pc[t] # "done" => pc[s] \in {"attach", "open", "start", "join"} /\ Opened(s)
<1> PICK s : s = Creator(t)
  OBVIOUS
<1>1. /\ s \in Starters /\ s \in Workers /\ t \in Workers /\ s # t /\ s \in Threads /\ t \in Threads
  BY ThreadFacts
<1>2. pc[s] \in {"attach", "open", "start", "join", "close", "pop", "done"}
  <2>1. CASE pc[s] = "attach"
    BY <2>1
  <2>2. CASE pc[s] # "attach"
    <3>1. attached[t] # 0
      BY <2>2 DEF CtxOf
    <3>2. pc[t] # "new" \/ BeingStarted(t)
      BY <1>1, <3>1 DEF ThreadInv, AttachedInv
    <3> QED BY <3>2 DEF ThreadInv, PointsInv, BeingStarted
  <2> QED BY <2>1, <2>2
<1>3. attached[s] # 0 /\ CtxOf(s) = attached[s]
  BY <1>1, <1>2 DEF ThreadInv, RunningInv, AttachedInv
<1>4. CtxOf(s) \in 1..Len(contexts)
  BY <1>1, <1>3, ThreadTyped
<1>5. CtxOf(s) # CtxOf(t)
  BY <1>1, <1>3 DEF ThreadInv, OwnersInv
<1>6. pc[t] # "done" => pc[s] \in {"attach", "open", "start", "join"}
  BY <1>2 DEF JoinInv
<1>7. pc[t] # "done" => Opened(s)
  BY <1>6 DEF Opened
<1> QED BY <1>1, <1>2, <1>3, <1>4, <1>5, <1>6, <1>7

\* An open worker's chain has its span as the last; a starter's has no other.
LEMMA OpenChain ==
  ASSUME ThreadInv, ChainsInv, NEW t \in Workers, CtxOf(t) # 0, Opened(t)
  PROVE  /\ CtxOf(t) \in 1..Len(contexts)
         /\ Len(Chain(CtxOf(t))) = Inherited(t) + 1
         /\ Current(CtxOf(t)) = Chain(CtxOf(t))[Inherited(t) + 1]
         /\ Current(CtxOf(t)) \in 1..Len(spans)
         /\ spans[Current(CtxOf(t))].id = Current(CtxOf(t))
<1> PICK c : c = CtxOf(t)
  OBVIOUS
<1>1. /\ c \in 1..Len(contexts) /\ Len(Chain(c)) \in Nat
      /\ \A k \in 1..Len(Chain(c)) : Chain(c)[k] \in 1..Len(spans)
  BY ThreadTyped, ContextsTyped
<1>2. Len(Chain(c)) = Inherited(t) + 1 /\ spans[Current(c)].id = Current(c)
  BY DEF ChainsInv, ChainsOf, WorkerChain
<1>3. Inherited(t) \in {0, 1}
  BY DEF Inherited
<1>4. Chain(c) # <<>> /\ Len(Chain(c)) \in 1..Len(Chain(c))
  BY <1>1, <1>2, <1>3
<1>5. Current(c) = Chain(c)[Inherited(t) + 1] /\ Current(c) \in 1..Len(spans)
  BY <1>1, <1>2, <1>4 DEF Current
<1> QED BY <1>1, <1>2, <1>5

\* A step that gives a new context to one thread leaves the others' chains alone.
LEMMA HandedChains ==
  ASSUME ThreadInv, JoinInv, ChainsInv, NEW t \in Threads, NEW u \in Workers, Creator(u) = t,
         pc[t] = "call", pc[u] = "new", pc' = [pc EXCEPT ![t] = "attach"],
         callee' = [callee EXCEPT ![t] = u], tc' = [tc EXCEPT ![t] = Len(contexts) + 1],
         attached' = attached,
         \A d \in 1..Len(contexts) : contexts'[d] = contexts[d],
         \A s \in 1..Len(spans) : spans'[s] = spans[s]
  PROVE  \A w \in Workers : w # u => ChainsOf(w)'
<1> SUFFICES ASSUME NEW w \in Workers, w # u PROVE ChainsOf(w)'
  OBVIOUS
<1>1. /\ CtxOf(u) = 0 /\ CtxOf(w)' = CtxOf(w) /\ (Opened(w)' <=> Opened(w))
      /\ pc'[w] = "done" <=> pc[w] = "done"
      /\ \A v \in Workers : v # u => CtxOf(v)' = CtxOf(v)
  BY HandedOver
<1>2. CtxOf(w) # 0 => contexts'[CtxOf(w)].chain = contexts[CtxOf(w)].chain
  BY ThreadTyped
<1>3. ASSUME w \in Dependants, CtxOf(w) # 0
      PROVE  /\ CtxOf(Creator(w)) \in 1..Len(contexts)
             /\ CtxOf(Creator(w))' = CtxOf(Creator(w))
             /\ contexts'[CtxOf(Creator(w))].chain = contexts[CtxOf(Creator(w))].chain
  <2> PICK s : s = Creator(w)
    OBVIOUS
  <2>1. s \in Workers /\ CtxOf(s) \in 1..Len(contexts) /\ pc[s] # "new"
    BY <1>3, StarterOf
  <2>2. s # u /\ CtxOf(s)' = CtxOf(s)
    BY <1>1, <2>1
  <2> QED BY <2>1, <2>2
<1>4. ChainsOf(w)
  BY DEF ChainsInv
<1> QED BY <1>1, <1>2, <1>3, <1>4, WorkerKept

\* A starter task's context is made without spans.
LEMMA StarterChain ==
  ASSUME ThreadInv, JoinInv, ChainsInv, NEW n \in TaskNames, StarterStartEnter(n)
  PROVE  ChainsInv'
<1> PICK u : u = Starter(n)
  OBVIOUS
<1> PICK new : new = Len(contexts) + 1
  OBVIOUS
<1>1. /\ pc[u] = "new" /\ pc[Main] = "call" /\ pc' = [pc EXCEPT ![Main] = "attach"]
      /\ callee' = [callee EXCEPT ![Main] = u] /\ tc' = [tc EXCEPT ![Main] = new]
      /\ attached' = attached /\ spans' = spans /\ Create
  BY DEF StarterStartEnter, Moves, Keeps, NewContext, Create
<1>2. u \in Starters /\ u \in Workers /\ u \notin Dependants /\ Creator(u) = Main /\ Main \in Threads
  BY ThreadFacts
<1>3. /\ \A d \in 1..Len(contexts) : contexts'[d] = contexts[d]
      /\ contexts'[new].chain = <<>>
  BY <1>1, ThreadTyped, CreateEffect
<1>4. CtxOf(u)' = new /\ (Opened(u)' <=> Opened(u)) /\ ~Opened(u)
  BY <1>1, <1>2, HandedOver
<1>5. ChainsOf(u)'
  <2>1. ~Opened(u)' /\ Chain(new)' = <<>> /\ Inherited(u)' = 0
    BY <1>2, <1>3, <1>4 DEF Chain, Inherited
  <2>2. WorkerChain(u, new)'
    BY <2>1 DEF WorkerChain
  <2> QED BY <1>2, <1>4, <2>2 DEF ChainsOf
<1>6. \A w \in Workers : w # u => ChainsOf(w)'
  BY <1>1, <1>2, <1>3, HandedChains
<1> QED BY <1>5, <1>6 DEF ChainsInv

\* A dependant task's context is made with a copy of its starter's span.
LEMMA DependantChain ==
  ASSUME ThreadInv, JoinInv, ChainsInv, NEW n \in TaskNames, DependantStartEnter(n)
  PROVE  ChainsInv'
<1> PICK t : t = Starter(n)
  OBVIOUS
<1> PICK u : u = Dependant(n)
  OBVIOUS
<1> PICK new : new = Len(contexts) + 1
  OBVIOUS
<1> PICK c : c = attached[t]
  OBVIOUS
<1>1. /\ t \in Starters /\ t \in Workers /\ t \in Threads /\ t # u
      /\ u \in Dependants /\ u \in Workers /\ u \notin Starters /\ Creator(u) = t
  BY ThreadFacts
<1>2. pc[t] = "call" /\ pc[u] = "new" /\ c # 0 /\ c = CtxOf(t)
  <2>1. pc[t] = "call"
    BY DEF DependantStartEnter, Moves
  <2>2. pc[u] = "new"
    BY <1>1, <2>1 DEF ThreadInv, PointsInv
  <2>3. c # 0
    BY <1>1, <2>1 DEF ThreadInv, RunningInv
  <2> QED BY <1>1, <2>1, <2>2, <2>3 DEF ThreadInv, AttachedInv
<1>3. /\ pc' = [pc EXCEPT ![t] = "attach"] /\ callee' = [callee EXCEPT ![t] = u]
      /\ tc' = [tc EXCEPT ![t] = new] /\ DeepCopy(c) /\ attached' = attached
  BY <1>2 DEF DependantStartEnter, Moves, Keeps, NewContext, DeepCopy
<1>4. /\ c \in 1..Len(contexts) /\ Len(Chain(c)) = 1 /\ Current(c) = Chain(c)[1]
      /\ Current(c) \in 1..Len(spans) /\ spans[Current(c)].id = Current(c)
  <2>1. Opened(t) /\ Inherited(t) = 0
    BY <1>1, <1>2 DEF Opened, Inherited
  <2>2. /\ c \in 1..Len(contexts) /\ Len(Chain(c)) = Inherited(t) + 1
        /\ Current(c) = Chain(c)[Inherited(t) + 1]
        /\ Current(c) \in 1..Len(spans) /\ spans[Current(c)].id = Current(c)
    BY <1>1, <1>2, <2>1, OpenChain
  <2> QED BY <2>1, <2>2
<1>5. /\ \A d \in 1..Len(contexts) : contexts'[d] = contexts[d]
      /\ contexts'[new].chain = [k \in 1..1 |-> Len(spans) + k]
  BY <1>3, <1>4, ThreadTyped, DeepCopyEffect
<1>6. /\ \A s \in 1..Len(spans) : spans'[s] = spans[s]
      /\ spans'[Len(spans) + 1].id = spans[Chain(c)[1]].id
  <2>1. /\ \A s \in 1..Len(spans) : spans'[s] = spans[s]
        /\ \A k \in 1..Len(Chain(c)) : spans'[Len(spans) + k].id = spans[Chain(c)[k]].id
    BY <1>3, <1>4, ThreadTyped, CopiedSpans
  <2>2. 1 \in 1..Len(Chain(c))
    BY <1>4
  <2> QED BY <2>1, <2>2
<1>7. /\ CtxOf(u)' = new /\ (Opened(u)' <=> Opened(u)) /\ ~Opened(u)
      /\ CtxOf(t)' = c
  BY <1>1, <1>2, <1>3, HandedOver
<1>8. ChainsOf(u)'
  <2>1. ~Opened(u)' /\ Inherited(u)' = 1
    BY <1>1, <1>7 DEF Inherited
  <2>2. Len(Chain(new)') = 1 /\ Chain(new)'[1] = Len(spans) + 1
    BY <1>5 DEF Chain
  <2>3. WorkerChain(u, new)'
    BY <2>1, <2>2 DEF WorkerChain
  <2>4. Current(c)' = Current(c)
    BY <1>4, <1>5 DEF Current, Chain
  <2>5. CopyOf(new, c)'
    BY <1>4, <1>6, <2>2, <2>4 DEF CopyOf
  <2> QED BY <1>1, <1>7, <2>3, <2>5 DEF ChainsOf
<1>9. \A w \in Workers : w # u => ChainsOf(w)'
  BY <1>1, <1>2, <1>3, <1>5, <1>6, HandedChains
<1> QED BY <1>8, <1>9 DEF ChainsInv

\* Opening a worker's span puts it on top of what the worker inherits.
LEMMA OpenSpanChain ==
  ASSUME ThreadInv, JoinInv, ChainsInv, NEW t \in Threads, OpenSpan(t)
  PROVE  ChainsInv'
<1> PICK u : u = callee[t]
  OBVIOUS
<1> PICK c : c = tc[t]
  OBVIOUS
<1> PICK m : m = Len(spans)
  OBVIOUS
<1>1. /\ pc[t] = "open" /\ pc' = [pc EXCEPT ![t] = "start"]
      /\ OpenNestedSpan(c, SpanName(t), "thread") /\ UNCHANGED <<attached, callee, tc>>
  BY DEF OpenSpan, Moves, OpenNestedSpan
<1>2. /\ u \in Workers /\ Creator(u) = t /\ pc[u] = "new" /\ c # 0 /\ attached[u] = c /\ u # t
      /\ u \in Threads
  BY <1>1, ThreadFacts DEF ThreadInv, StartingInv, Starting
<1>3. /\ CtxOf(u) = c /\ c \in 1..Len(contexts) /\ ~Opened(u)
      /\ pc'[u] = "new" /\ Opened(u)' /\ TracingTypeOK /\ m \in Nat
  <2>1. pc \in [Threads -> Labels] /\ TracingTypeOK
    BY ThreadTyped
  <2>2. CtxOf(u) = c /\ ~Opened(u)
    BY <1>1, <1>2 DEF CtxOf, Opened
  <2>3. pc'[u] = "new" /\ pc'[t] = "start"
    BY <1>1, <1>2, <2>1
  <2>4. Opened(u)'
    BY <1>1, <1>2, <2>3 DEF Opened
  <2> QED BY <1>2, <2>1, <2>2, <2>3, <2>4, ThreadTyped, SpansTyped
<1>4. /\ \A d \in 1..Len(contexts) : d # c => contexts'[d] = contexts[d]
      /\ contexts'[c].chain = Append(Chain(c), m + 1)
  BY <1>1, <1>3, OpenEffect
<1>5. /\ \A s \in 1..m : spans'[s] = spans[s]
      /\ spans'[m + 1].id = m + 1
  BY <1>1, <1>3, OpenedSpan
<1>6. \A w \in Workers : CtxOf(w)' = CtxOf(w)
  BY ContextsStay
<1>7. \A w \in Workers : w # u => (Opened(w)' <=> Opened(w)) /\ (pc'[w] = "done" <=> pc[w] = "done")
  <2>1. ~ContextMovesUp(t)
    BY <1>1 DEF ContextMovesUp, Moves
  <2> QED BY <2>1, ContextsStay
<1>8. ASSUME NEW w \in Workers, w # u, CtxOf(w) # 0
      PROVE  CtxOf(w) \in 1..Len(contexts) /\ contexts'[CtxOf(w)].chain = contexts[CtxOf(w)].chain
  <2>1. CtxOf(w) # c
    BY <1>2, <1>3, <1>8 DEF ThreadInv, OwnersInv
  <2> QED BY <1>4, <1>8, <2>1, ThreadTyped
<1>9. ASSUME NEW w \in Workers, w # u PROVE ChainsOf(w)'
  <2>1. ASSUME w \in Dependants, CtxOf(w) # 0
        PROVE  /\ CtxOf(Creator(w)) \in 1..Len(contexts)
               /\ CtxOf(Creator(w))' = CtxOf(Creator(w))
               /\ contexts'[CtxOf(Creator(w))].chain = contexts[CtxOf(Creator(w))].chain
    <3> PICK s : s = Creator(w)
      OBVIOUS
    <3>1. s \in Workers /\ CtxOf(s) \in 1..Len(contexts) /\ pc[s] # "new"
      BY <2>1, StarterOf
    <3>2. s # u /\ CtxOf(s)' = CtxOf(s) /\ CtxOf(s) # 0
      BY <1>2, <1>6, <3>1
    <3>3. contexts'[CtxOf(s)].chain = contexts[CtxOf(s)].chain
      BY <1>8, <3>1, <3>2
    <3> QED BY <3>1, <3>2, <3>3
  <2>2. ChainsOf(w)
    BY DEF ChainsInv
  <2> QED BY <1>5, <1>6, <1>7, <1>8, <1>9, <2>1, <2>2, WorkerKept
<1>10. ChainsOf(u)'
  <2> PICK s : s = Chain(c)
    OBVIOUS
  <2>1. /\ s \in Seq(1..m) /\ Len(s) = Inherited(u) /\ Inherited(u) \in {0, 1}
        /\ \A k \in 1..Len(s) : s[k] \in 1..m
    <3>1. WorkerChain(u, c)
      BY <1>2, <1>3 DEF ChainsInv, ChainsOf
    <3>2. Chain(c) \in Seq(1..Len(spans)) /\ \A k \in 1..Len(Chain(c)) : Chain(c)[k] \in 1..Len(spans)
      BY <1>3, ContextsTyped
    <3>3. Len(s) = Inherited(u)
      BY <1>3, <3>1 DEF WorkerChain
    <3> QED BY <3>2, <3>3 DEF Inherited
  <2>2. /\ Chain(c)' = Append(s, m + 1) /\ Len(Chain(c)') = Inherited(u) + 1
        /\ Chain(c)' # <<>> /\ Chain(c)'[Len(Chain(c)')] = m + 1
        /\ Len(s) = 1 => Chain(c)'[1] = s[1] /\ s[1] \in 1..m
    <3>1. Chain(c)' = Append(s, m + 1)
      BY <1>4 DEF Chain
    <3>2. /\ Len(Append(s, m + 1)) = Len(s) + 1 /\ Append(s, m + 1) # <<>>
          /\ Append(s, m + 1)[Len(s) + 1] = m + 1
          /\ Len(s) = 1 => Append(s, m + 1)[1] = s[1] /\ s[1] \in 1..m
      BY <2>1
    <3> QED BY <2>1, <3>1, <3>2
  <2>3. Current(c)' = m + 1
    BY <2>2 DEF Current
  <2>4. WorkerChain(u, c)'
    <3>1. Inherited(u)' = Inherited(u)
      BY DEF Inherited
    <3> QED BY <1>3, <1>5, <2>2, <2>3, <3>1 DEF WorkerChain
  <2>5. ASSUME u \in Dependants PROVE CopyOf(c, CtxOf(Creator(u)))'
    <3> PICK d : d = CtxOf(t)
      OBVIOUS
    <3>1. /\ d \in 1..Len(contexts) /\ d # c /\ t \in Workers
      BY <1>2, <1>3, <2>5, StarterOf
    <3>2. CopyOf(c, d)
      BY <1>2, <1>3, <2>5 DEF ChainsInv, ChainsOf
    <3>3. Current(d)' = Current(d)
      BY <1>4, <3>1 DEF Current, Chain
    <3>4. Len(s) = 1
      BY <2>1, <2>5, ThreadFacts DEF Inherited
    <3>5. CopyOf(c, d)'
      BY <1>5, <2>2, <3>2, <3>3, <3>4 DEF CopyOf
    <3>6. CtxOf(Creator(u))' = d
      BY <1>2, <1>6, <3>1
    <3> QED BY <3>5, <3>6 DEF CopyOf
  <2>6. CtxOf(u)' = c
    BY <1>2, <1>3, <1>6
  <2> QED BY <2>4, <2>5, <2>6 DEF ChainsOf
<1> QED BY <1>9, <1>10 DEF ChainsInv

\* A worker whose span is closed has on its chain what it inherited.
LEMMA MoveUpChain ==
  ASSUME ThreadInv, JoinInv, ChainsInv, NEW t \in Threads, ContextMovesUp(t)
  PROVE  ChainsInv'
<1> PICK c : c = tc[t]
  OBVIOUS
<1>1. /\ pc[t] = "pop" /\ pc' = [pc EXCEPT ![t] = "done"] /\ MoveUp(c)
      /\ UNCHANGED <<spans, attached, callee, tc>>
  BY DEF ContextMovesUp, Moves, MoveUp
<1>2. t \in Workers
  BY <1>1, ThreadFacts DEF ThreadInv, PointsInv
<1>3. /\ c = attached[t] /\ c # 0 /\ CtxOf(t) = c /\ Opened(t)
  <2>1. attached[t] # 0 /\ tc[t] = attached[t]
    BY <1>1, <1>2 DEF ThreadInv, RunningInv
  <2> QED BY <1>1, <1>2, <2>1 DEF ThreadInv, AttachedInv, Opened
<1>4. c \in 1..Len(contexts) /\ Len(Chain(c)) = Inherited(t) + 1 /\ TracingTypeOK
  BY <1>2, <1>3, OpenChain, ThreadTyped
<1>5. /\ \A d \in 1..Len(contexts) : d # c => contexts'[d] = contexts[d]
      /\ contexts'[c].chain = SubSeq(Chain(c), 1, Len(Chain(c)) - 1)
  BY <1>1, <1>4, MoveUpEffect
<1>6. /\ \A w \in Workers : CtxOf(w)' = CtxOf(w)
      /\ \A w \in Workers : w # t => /\ Opened(w)' <=> Opened(w)
                                     /\ pc'[w] = "done" <=> pc[w] = "done"
  <2>1. ~OpenSpan(t)
    BY <1>1 DEF OpenSpan, Moves
  <2> QED BY <2>1, ContextsStay
<1>7. ASSUME NEW w \in Workers, w # t, CtxOf(w) # 0
      PROVE  CtxOf(w) \in 1..Len(contexts) /\ contexts'[CtxOf(w)].chain = contexts[CtxOf(w)].chain
  <2>1. CtxOf(w) # c
    BY <1>2, <1>3, <1>7 DEF ThreadInv, OwnersInv
  <2> QED BY <1>5, <1>7, <2>1, ThreadTyped
<1>8. ASSUME NEW w \in Workers, w # t PROVE ChainsOf(w)'
  <2>1. ASSUME w \in Dependants, CtxOf(w) # 0, pc[w] # "done"
        PROVE  /\ CtxOf(Creator(w)) \in 1..Len(contexts)
               /\ CtxOf(Creator(w))' = CtxOf(Creator(w))
               /\ contexts'[CtxOf(Creator(w))].chain = contexts[CtxOf(Creator(w))].chain
    <3> PICK s : s = Creator(w)
      OBVIOUS
    <3>1. /\ s \in Workers /\ CtxOf(s) \in 1..Len(contexts)
          /\ pc[s] \in {"attach", "open", "start", "join"}
      BY <2>1, StarterOf
    <3>2. s # t /\ CtxOf(s)' = CtxOf(s) /\ CtxOf(s) # 0
      BY <1>1, <1>6, <3>1
    <3>3. contexts'[CtxOf(s)].chain = contexts[CtxOf(s)].chain
      BY <1>7, <3>1, <3>2
    <3> QED BY <3>1, <3>2, <3>3
  <2>2. ChainsOf(w)
    BY DEF ChainsInv
  <2> QED BY <1>1, <1>6, <1>7, <1>8, <2>1, <2>2, WorkerKept
<1>9. ChainsOf(t)'
  <2> PICK s : s = Chain(c)
    OBVIOUS
  <2>1. /\ s \in Seq(1..Len(spans)) /\ Len(s) = Inherited(t) + 1 /\ Inherited(t) \in {0, 1}
        /\ Inherited(t)' = Inherited(t)
    BY <1>4, ContextsTyped DEF Inherited
  <2>2. Chain(c)' = SubSeq(s, 1, Len(s) - 1)
    BY <1>5 DEF Chain
  <2>3. Len(Chain(c)') = Inherited(t)
    BY <2>1, <2>2
  <2>4. pc'[t] = "done" /\ ~Opened(t)'
    <3>1. pc \in [Threads -> Labels]
      BY ThreadTyped
    <3>2. pc'[t] = "done"
      BY <1>1, <3>1
    <3> QED BY <3>2 DEF Opened
  <2>5. WorkerChain(t, c)'
    BY <2>1, <2>3, <2>4 DEF WorkerChain
  <2>6. CtxOf(t)' = c
    BY <1>2, <1>3, <1>6
  <2> QED BY <2>4, <2>5, <2>6 DEF ChainsOf
<1> QED BY <1>8, <1>9 DEF ChainsInv

\* Every step keeps the chains as described.
LEMMA ChainsStep ==
  ASSUME ThreadInv, JoinInv, ChainsInv, [Next]_vars PROVE ChainsInv'
<1>1. ASSUME NEW t \in Threads,
             \/ AttachOnThread(t) \/ ThreadStart(t) \/ RunExit(t)
             \/ \E n \in TaskNames : t = Starter(n) /\ JoinDependant(n)
             \/ t = Main /\ MainExit
             \/ LibraryStep \/ UNCHANGED vars
      PROVE  ChainsInv'
  <2>1. contexts' = contexts /\ spans' = spans
    BY <1>1 DEF AttachOnThread, AttachTo, ThreadStart, RunExit, ExportCurrent, JoinDependant,
         MainExit, SystemExit, LibraryStep, program, vars, tracing, ExporterStep, Post, DropSpan,
         OpenFile, WriteFile, FileFails, TaskMoves, Tick
  <2>2. CASE OpenSpan(t)
    BY <2>2, OpenSpanChain
  <2>3. CASE ContextMovesUp(t)
    BY <2>3, MoveUpChain
  <2>4. CASE ~OpenSpan(t) /\ ~ContextMovesUp(t)
    <3>1. \A w \in Workers : /\ CtxOf(w)' = CtxOf(w) /\ (Opened(w)' <=> Opened(w))
                             /\ pc'[w] = "done" <=> pc[w] = "done"
      BY <1>1, <2>4, ContextsStay
    <3> SUFFICES ASSUME NEW w \in Workers PROVE ChainsOf(w)'
      BY DEF ChainsInv
    <3>2. ASSUME w \in Dependants, CtxOf(w) # 0
          PROVE  CtxOf(Creator(w)) \in 1..Len(contexts) /\ CtxOf(Creator(w))' = CtxOf(Creator(w))
      <4> PICK s : s = Creator(w)
        OBVIOUS
      <4>1. s \in Workers /\ CtxOf(s) \in 1..Len(contexts)
        BY <3>2, StarterOf
      <4>2. CtxOf(s)' = CtxOf(s)
        BY <3>1, <4>1
      <4> QED BY <4>1, <4>2
    <3>3. ChainsOf(w)
      BY DEF ChainsInv
    <3>4. /\ \A c \in 1..Len(contexts) : contexts'[c].chain = contexts[c].chain
          /\ \A s \in 1..Len(spans) : spans'[s] = spans[s]
          /\ CtxOf(w) # 0 => contexts'[CtxOf(w)].chain = contexts[CtxOf(w)].chain
      BY <2>1
    <3> QED BY <3>1, <3>2, <3>3, <3>4, WorkerKept
  <2> QED BY <2>2, <2>3, <2>4
<1>2. Main \in Threads /\ \A n \in TaskNames : Starter(n) \in Threads
  BY ThreadFacts
<1>3. ASSUME NEW n \in TaskNames, NamedStep(n) PROVE ChainsInv'
  BY <1>1, <1>2, <1>3, StarterChain, DependantChain DEF NamedStep
<1>4. ASSUME NEW t \in Threads, ThreadStep(t) PROVE ChainsInv'
  BY <1>1, <1>4, OpenSpanChain, MoveUpChain DEF ThreadStep
<1> QED BY <1>1, <1>2, <1>3, <1>4 DEF Next, ProgramStep

(* What is exported, and when *)

\* A span that was exported is no copy and was not exported before; it is in no chain any more,
\* unless it is just being closed.
Leaving(c, p) == p = Len(Chain(c)) /\ \E t \in Workers : pc[t] = "pop" /\ attached[t] = c
ExportedInv ==
  /\ \A k \in DOMAIN tasks : spans[tasks[k].span].id = tasks[k].span
  /\ \A j, k \in DOMAIN tasks : tasks[j].span = tasks[k].span => j = k
  /\ \A k \in DOMAIN tasks : \A c \in DOMAIN contexts : \A p \in DOMAIN Chain(c) :
       Chain(c)[p] = tasks[k].span => Leaving(c, p)

\* A span that was not exported is, or is a copy of, the open span of a worker.
Exported(s) == \E k \in DOMAIN tasks : tasks[k].span = s
Pending(s) ==
  \E t \in Workers : CtxOf(t) # 0 /\ Opened(t) /\ pc[t] # "pop" /\ s = Current(CtxOf(t))
CoveredInv == \A s \in DOMAIN spans : Exported(spans[s].id) \/ Pending(spans[s].id)

ClosingInv == ExportedInv /\ CoveredInv /\ ChildrenFirst
OrderInv == JoinInv /\ ChainsInv /\ ClosingInv

\* The types these proofs need.
LEMMA TasksTyped ==
  ASSUME ThreadInv
  PROVE  /\ TracingTypeOK /\ SpansPrivate /\ ChainLinked
         /\ DOMAIN contexts = 1..Len(contexts) /\ DOMAIN spans = 1..Len(spans) /\ Len(spans) \in Nat
         /\ \A s \in 1..Len(spans) : /\ spans[s].id \in 1..Len(spans)
                                     /\ spans[s].parent \in 0..Len(spans)
         /\ \A c \in 1..Len(contexts) :
              /\ Chain(c) \in Seq(1..Len(spans)) /\ Len(Chain(c)) \in Nat
              /\ DOMAIN Chain(c) = 1..Len(Chain(c))
              /\ \A k \in 1..Len(Chain(c)) : Chain(c)[k] \in 1..Len(spans)
         /\ tasks \in Seq(TaskType(Len(spans)))
         /\ DOMAIN tasks = 1..Len(tasks) /\ Len(tasks) \in Nat
         /\ \A k \in DOMAIN tasks : tasks[k].span \in 1..Len(spans)
<1>1. TracingTypeOK /\ SpansPrivate /\ ChainLinked
  BY DEF ThreadInv, LibraryInv
<1>2. /\ tasks \in Seq(TaskType(Len(spans))) /\ DOMAIN tasks = 1..Len(tasks) /\ Len(tasks) \in Nat
      /\ \A k \in DOMAIN tasks : tasks[k] \in TaskType(Len(spans))
  BY <1>1 DEF TracingTypeOK
<1>3. \A k \in DOMAIN tasks : tasks[k].span \in 1..Len(spans)
  BY <1>2 DEF TaskType
<1> QED BY <1>1, <1>2, <1>3, ContextsTyped, SpansTyped

\* Nothing on the chain of a worker that is not closing its span was exported.
LEMMA NotExported ==
  ASSUME ThreadInv, ExportedInv, NEW t \in Workers, CtxOf(t) # 0, pc[t] # "pop",
         NEW p \in DOMAIN Chain(CtxOf(t))
  PROVE  ~Exported(Chain(CtxOf(t))[p])
<1> PICK c : c = CtxOf(t)
  OBVIOUS
<1> SUFFICES ASSUME NEW k \in DOMAIN tasks, tasks[k].span = Chain(c)[p] PROVE FALSE
  BY DEF Exported
<1>1. c \in DOMAIN contexts
  BY ThreadTyped, TasksTyped
<1>2. Leaving(c, p)
  BY <1>1 DEF ExportedInv
<1>3. PICK w \in Workers : pc[w] = "pop" /\ attached[w] = c
  BY <1>2 DEF Leaving
<1>4. CtxOf(w) = c
  BY <1>3 DEF ThreadInv, AttachedInv
<1>5. w = t
  BY <1>3, <1>4 DEF ThreadInv, OwnersInv
<1> QED BY <1>3, <1>5

\* Steps that neither give a context to a thread nor open or close a span.
LEMMA QuietSteps ==
  ASSUME ThreadInv, NEW t \in Threads,
         \/ AttachOnThread(t) \/ ThreadStart(t)
         \/ \E n \in TaskNames : t = Starter(n) /\ JoinDependant(n)
         \/ t = Main /\ MainExit
         \/ LibraryStep \/ UNCHANGED vars
  PROVE  /\ contexts' = contexts /\ spans' = spans
         /\ DOMAIN tasks' = DOMAIN tasks /\ \A k \in DOMAIN tasks : tasks'[k].span = tasks[k].span
         /\ \A w \in Workers : /\ CtxOf(w)' = CtxOf(w) /\ (Opened(w)' <=> Opened(w))
                               /\ pc'[w] = "pop" <=> pc[w] = "pop"
                               /\ pc[w] = "pop" => attached'[w] = attached[w]
<1>1. /\ pc \in [Threads -> Labels] /\ attached \in [Threads -> 0..Len(contexts)]
      /\ \A w \in Workers : w \in Threads
      /\ Main \in Threads /\ Main \notin Workers /\ StartingInv
  BY ThreadTyped, ThreadFacts DEF ThreadInv
<1>2. ASSUME AttachOnThread(t)
      PROVE  /\ UNCHANGED <<contexts, spans, tasks>>
             /\ \A w \in Workers : /\ pc'[w] = "pop" <=> pc[w] = "pop"
                                   /\ pc[w] = "pop" => attached'[w] = attached[w]
  <2> PICK u : u = callee[t]
    OBVIOUS
  <2>1. /\ pc[t] = "attach" /\ pc' = [pc EXCEPT ![t] = "open"]
        /\ attached' = [attached EXCEPT ![u] = tc[t]] /\ UNCHANGED <<contexts, spans, tasks>>
    BY <1>2 DEF AttachOnThread, Moves, AttachTo
  <2>2. pc[u] = "new"
    BY <1>1, <2>1 DEF StartingInv, Starting
  <2> QED BY <1>1, <2>1, <2>2
<1>3. ASSUME ThreadStart(t)
      PROVE  /\ UNCHANGED <<contexts, spans, tasks, attached>>
             /\ \A w \in Workers : pc'[w] = "pop" <=> pc[w] = "pop"
  <2> PICK u : u = callee[t]
    OBVIOUS
  <2>1. pc[t] = "start" /\ UNCHANGED <<contexts, spans, tasks, attached>>
    BY <1>3 DEF ThreadStart, tracing
  <2>2. pc[u] = "new"
    BY <1>1, <2>1 DEF StartingInv, Starting
  <2>3. PICK from \in {"call", "close"}, to \in {"call", "join"} :
          pc' = [pc EXCEPT ![u] = from, ![t] = to]
    BY <1>3 DEF ThreadStart
  <2> QED BY <1>1, <2>1, <2>2, <2>3
<1>4. ASSUME \/ \E n \in TaskNames : t = Starter(n) /\ JoinDependant(n)
             \/ t = Main /\ MainExit
      PROVE  /\ UNCHANGED <<contexts, spans, tasks, attached>>
             /\ \A w \in Workers : pc'[w] = "pop" <=> pc[w] = "pop"
  <2>1. PICK to \in {"close", "done"} :
          /\ pc[t] = "join" /\ pc' = [pc EXCEPT ![t] = to]
          /\ UNCHANGED <<contexts, spans, tasks, attached>>
    BY <1>4 DEF JoinDependant, MainExit, Moves, SystemExit, tracing
  <2> QED BY <1>1, <2>1
<1>5. ASSUME LibraryStep \/ UNCHANGED vars
      PROVE  /\ UNCHANGED <<contexts, spans, attached, pc>>
             /\ DOMAIN tasks' = DOMAIN tasks
             /\ \A k \in DOMAIN tasks : tasks'[k].span = tasks[k].span
  <2>1. TracingTypeOK
    BY ThreadTyped
  <2>2. CASE ExporterStep /\ UNCHANGED program
    BY <2>1, <2>2, ExporterEffect DEF program
  <2>3. CASE (Tick /\ UNCHANGED program) \/ UNCHANGED vars
    BY <2>3 DEF Tick, program, vars
  <2> QED BY <1>5, <2>2, <2>3 DEF LibraryStep
<1>6. \A w \in Workers : CtxOf(w)' = CtxOf(w) /\ (Opened(w)' <=> Opened(w))
  <2>1. (~OpenSpan(t) /\ ~ContextMovesUp(t)) \/ (LibraryStep \/ UNCHANGED vars)
    <3>1. CASE AttachOnThread(t)
      BY <3>1 DEF AttachOnThread, OpenSpan, ContextMovesUp, Moves
    <3>2. CASE ThreadStart(t)
      BY <3>2 DEF ThreadStart, OpenSpan, ContextMovesUp, Moves
    <3>3. CASE \/ \E n \in TaskNames : t = Starter(n) /\ JoinDependant(n)
               \/ t = Main /\ MainExit
      BY <3>3 DEF JoinDependant, MainExit, OpenSpan, ContextMovesUp, Moves
    <3> QED BY <3>1, <3>2, <3>3
  <2>2. CASE ~OpenSpan(t) /\ ~ContextMovesUp(t)
    BY <2>2, ContextsStay
  <2>3. CASE LibraryStep \/ UNCHANGED vars
    <3>1. UNCHANGED <<attached, pc, callee, tc>>
      BY <2>3 DEF LibraryStep, program, vars, ExporterStep, Post, DropSpan, OpenFile, WriteFile,
                FileFails,
                  TaskMoves, Tick
    <3> QED BY <3>1 DEF CtxOf, Opened
  <2> QED BY <2>1, <2>2, <2>3
<1> QED BY <1>2, <1>3, <1>4, <1>5, <1>6
\* A span's parent id stays what it is as long as the spans stay.
LEMMA ParentsKept ==
  ASSUME ThreadInv, \A s \in 1..Len(spans) : spans'[s] = spans[s]
  PROVE  /\ \A s \in 1..Len(spans) : ParentId(s)' = ParentId(s)
         /\ DOMAIN tasks' = DOMAIN tasks /\ (\A k \in DOMAIN tasks : tasks'[k].span = tasks[k].span)
            => (ChildrenFirst => ChildrenFirst')
<1>1. /\ \A s \in 1..Len(spans) : spans[s].id \in 1..Len(spans) /\ spans[s].parent \in 0..Len(spans)
      /\ \A k \in DOMAIN tasks : tasks[k].span \in 1..Len(spans)
      /\ Len(spans) \in Nat
  BY TasksTyped
<1>2. ASSUME NEW s \in 1..Len(spans) PROVE ParentId(s)' = ParentId(s)
  <2>1. spans'[s] = spans[s] /\ spans[s].parent \in 0..Len(spans)
    BY <1>1
  <2>2. spans[s].parent # 0 => spans'[spans[s].parent] = spans[spans[s].parent]
    BY <1>1, <2>1
  <2> QED BY <2>1, <2>2 DEF ParentId
<1>3. ASSUME DOMAIN tasks' = DOMAIN tasks, \A k \in DOMAIN tasks : tasks'[k].span = tasks[k].span,
             ChildrenFirst
      PROVE  ChildrenFirst'
  <2>1. ASSUME NEW k \in DOMAIN tasks
        PROVE  /\ ParentId(tasks[k].span)' = ParentId(tasks[k].span)
               /\ spans'[tasks'[k].span].id = spans[tasks[k].span].id
    <3> PICK s \in 1..Len(spans) : s = tasks[k].span
      BY <1>1
    <3>1. tasks'[k].span = s /\ spans'[s] = spans[s]
      BY <1>3
    <3>2. ParentId(tasks[k].span)' = ParentId(s)'
      BY <3>1 DEF ParentId
    <3> QED BY <1>2, <3>1, <3>2
  <2> QED BY <1>3, <2>1 DEF ChildrenFirst
<1> QED BY <1>2, <1>3

\* Quiet steps export nothing and open nothing.
LEMMA QuietClosing ==
  ASSUME ThreadInv, ClosingInv, NEW t \in Threads,
         \/ AttachOnThread(t) \/ ThreadStart(t)
         \/ \E n \in TaskNames : t = Starter(n) /\ JoinDependant(n)
         \/ t = Main /\ MainExit
         \/ LibraryStep \/ UNCHANGED vars
  PROVE  ClosingInv'
<1>1. /\ contexts' = contexts /\ spans' = spans
      /\ DOMAIN tasks' = DOMAIN tasks /\ \A k \in DOMAIN tasks : tasks'[k].span = tasks[k].span
      /\ \A w \in Workers : /\ CtxOf(w)' = CtxOf(w) /\ (Opened(w)' <=> Opened(w))
                            /\ pc'[w] = "pop" <=> pc[w] = "pop"
                            /\ pc[w] = "pop" => attached'[w] = attached[w]
  BY QuietSteps
<1>2. \A c \in DOMAIN contexts : Chain(c)' = Chain(c) /\ Current(c)' = Current(c)
  BY <1>1 DEF Chain, Current
<1>3. ExportedInv'
  <2>1. ASSUME NEW c \in DOMAIN contexts, NEW p \in DOMAIN Chain(c), Leaving(c, p)
        PROVE  Leaving(c, p)'
    BY <1>1, <1>2, <2>1 DEF Leaving
  <2>2. ASSUME NEW k \in DOMAIN tasks, NEW c \in DOMAIN contexts, NEW p \in DOMAIN Chain(c),
               Chain(c)[p] = tasks[k].span
        PROVE  Leaving(c, p)'
    BY <2>1, <2>2 DEF ClosingInv, ExportedInv
  <2>3. /\ \A k \in DOMAIN tasks : spans'[tasks'[k].span].id = tasks'[k].span
        /\ \A j, k \in DOMAIN tasks : tasks'[j].span = tasks'[k].span => j = k
    BY <1>1 DEF ClosingInv, ExportedInv
  <2>4. \A k \in DOMAIN tasks' : \A c \in DOMAIN contexts' : \A p \in DOMAIN Chain(c)' :
          Chain(c)'[p] = tasks'[k].span => Leaving(c, p)'
    BY <1>1, <1>2, <2>2
  <2> QED BY <1>1, <2>3, <2>4 DEF ExportedInv
<1>4. CoveredInv'
  <2>1. ASSUME NEW x, Exported(x) PROVE Exported(x)'
    BY <1>1, <2>1 DEF Exported
  <2>2. ASSUME NEW x, Pending(x) PROVE Pending(x)'
    <3>1. PICK w \in Workers : CtxOf(w) # 0 /\ Opened(w) /\ pc[w] # "pop" /\ x = Current(CtxOf(w))
      BY <2>2 DEF Pending
    <3>2. CtxOf(w) \in DOMAIN contexts
      BY <3>1, ThreadTyped, TasksTyped
    <3> PICK c : c = CtxOf(w)
      OBVIOUS
    <3>3. CtxOf(w)' = c /\ Current(c)' = x /\ Opened(w)' /\ pc'[w] # "pop"
      BY <1>1, <1>2, <3>1, <3>2
    <3>4. Current(CtxOf(w))' = x
      BY <3>3 DEF Current, Chain
    <3> QED BY <3>1, <3>3, <3>4 DEF Pending
  <2> QED BY <1>1, <2>1, <2>2 DEF ClosingInv, CoveredInv
<1>5. ChildrenFirst'
  BY <1>1, ParentsKept DEF ClosingInv
<1> QED BY <1>3, <1>4, <1>5 DEF ClosingInv

\* A worker that waits for its span to be closed still does after a step that leaves it alone.
LEMMA PendingKept ==
  ASSUME ThreadInv, NEW w \in Workers, CtxOf(w) # 0, Opened(w), pc[w] # "pop",
         CtxOf(w)' = CtxOf(w), Opened(w)', pc'[w] # "pop",
         contexts'[CtxOf(w)].chain = contexts[CtxOf(w)].chain,
         NEW x, x = Current(CtxOf(w))
  PROVE  Pending(x)'
<1> PICK c : c = CtxOf(w)
  OBVIOUS
<1>1. Chain(c)' = Chain(c) /\ CtxOf(w)' = c
  BY DEF Chain
<1>2. Current(CtxOf(w))' = x
  BY <1>1 DEF Current, Chain
<1>3. CtxOf(w)' # 0 /\ Opened(w)' /\ pc'[w] # "pop" /\ x = Current(CtxOf(w))'
  BY <1>1, <1>2
<1> QED BY <1>3 DEF Pending

\* A step that gives a new context to a thread opens and exports nothing: what is in the context are
\* new spans, copies of spans on other chains.
LEMMA HandingClosing ==
  ASSUME ThreadInv, ClosingInv, NEW t \in Threads, NEW u \in Workers, Creator(u) = t,
         pc[t] = "call", pc[u] = "new", pc' = [pc EXCEPT ![t] = "attach"],
         callee' = [callee EXCEPT ![t] = u], tc' = [tc EXCEPT ![t] = Len(contexts) + 1],
         attached' = attached, tasks' = tasks,
         DOMAIN contexts' = 1..(Len(contexts) + 1),
         \A d \in 1..Len(contexts) : contexts'[d] = contexts[d],
         NEW new, new = Len(contexts) + 1,
         \A p \in DOMAIN contexts'[new].chain : contexts'[new].chain[p] \notin 1..Len(spans),
         \A s \in 1..Len(spans) : spans'[s] = spans[s],
         \A s \in DOMAIN spans' : s \in 1..Len(spans) \/
           \E o \in 1..Len(spans) : spans'[s].id = spans[o].id
  PROVE  ClosingInv'
<1>1. /\ CtxOf(u) = 0
      /\ \A w \in Workers : w # u => CtxOf(w)' = CtxOf(w)
      /\ \A w \in Workers : (Opened(w)' <=> Opened(w)) /\ (pc'[w] = "pop" <=> pc[w] = "pop")
  BY HandedOver
<1>2. /\ DOMAIN contexts = 1..Len(contexts) /\ DOMAIN spans = 1..Len(spans)
      /\ \A k \in DOMAIN tasks : tasks[k].span \in 1..Len(spans)
      /\ Len(contexts) \in Nat
  BY TasksTyped, ThreadTyped
<1>3. \A c \in DOMAIN contexts : Chain(c)' = Chain(c)
  BY <1>2 DEF Chain
<1>4. ExportedInv'
  <2>1. /\ \A k \in DOMAIN tasks : spans'[tasks[k].span].id = tasks[k].span
        /\ \A j, k \in DOMAIN tasks : tasks[j].span = tasks[k].span => j = k
    BY <1>2 DEF ClosingInv, ExportedInv
  <2>2. ASSUME NEW k \in DOMAIN tasks, NEW c \in DOMAIN contexts', NEW p \in DOMAIN Chain(c)',
               Chain(c)'[p] = tasks[k].span
        PROVE  Leaving(c, p)'
    <3>1. CASE c \in DOMAIN contexts
      <4>1. Leaving(c, p)
        BY <1>3, <2>2, <3>1 DEF ClosingInv, ExportedInv
      <4> QED BY <1>1, <1>3, <3>1, <4>1 DEF Leaving
    <3>2. CASE c = new
      BY <1>2, <2>2, <3>2 DEF Chain
    <3> QED BY <1>2, <3>1, <3>2
  <2> QED BY <2>1, <2>2 DEF ExportedInv
<1>5. CoveredInv'
  <2>1. ASSUME NEW x, Exported(x) \/ Pending(x) PROVE Exported(x)' \/ Pending(x)'
    <3>1. CASE Exported(x)
      BY <3>1 DEF Exported
    <3>2. CASE Pending(x)
      <4>1. PICK w \in Workers : CtxOf(w) # 0 /\ Opened(w) /\ pc[w] # "pop" /\ x = Current(CtxOf(w))
        BY <3>2 DEF Pending
      <4>2. /\ CtxOf(w)' = CtxOf(w) /\ Opened(w)' /\ pc'[w] # "pop"
            /\ contexts'[CtxOf(w)].chain = contexts[CtxOf(w)].chain
        BY <1>1, <4>1, ThreadTyped
      <4> QED BY <4>1, <4>2, PendingKept
    <3> QED BY <2>1, <3>1, <3>2
  <2>2. ASSUME NEW s \in DOMAIN spans' PROVE Exported(spans[s].id)' \/ Pending(spans[s].id)'
    <3>1. PICK o \in 1..Len(spans) : spans'[s].id = spans[o].id
      BY <2>2
    <3> PICK x : x = spans[o].id
      OBVIOUS
    <3>2. Exported(x) \/ Pending(x)
      BY <1>2 DEF ClosingInv, CoveredInv
    <3>3. Exported(x)' \/ Pending(x)'
      BY <2>1, <3>2
    <3> QED BY <3>1, <3>3 DEF Exported, Pending
  <2> QED BY <2>2 DEF CoveredInv
<1>6. ChildrenFirst'
  BY ParentsKept DEF ClosingInv
<1> QED BY <1>4, <1>5, <1>6 DEF ClosingInv

\* StarterTaskAdvice gives an empty context, DependantTaskAdvice a copy.
LEMMA StartEnterClosing ==
  ASSUME ThreadInv, JoinInv, ChainsInv, ClosingInv, NEW n \in TaskNames,
         StarterStartEnter(n) \/ DependantStartEnter(n)
  PROVE  ClosingInv'
<1> PICK new : new = Len(contexts) + 1
  OBVIOUS
<1>1. /\ TracingTypeOK /\ Len(contexts) \in Nat /\ Len(spans) \in Nat
      /\ DOMAIN contexts = 1..Len(contexts) /\ DOMAIN spans = 1..Len(spans)
  BY TasksTyped, ThreadTyped
<1>2. CASE StarterStartEnter(n)
  <2> PICK u : u = Starter(n)
    OBVIOUS
  <2>1. /\ pc[u] = "new" /\ pc[Main] = "call" /\ pc' = [pc EXCEPT ![Main] = "attach"]
        /\ callee' = [callee EXCEPT ![Main] = u] /\ tc' = [tc EXCEPT ![Main] = new]
        /\ attached' = attached /\ spans' = spans /\ tasks' = tasks /\ Create
    BY <1>2 DEF StarterStartEnter, Moves, Keeps, NewContext, Create
  <2>2. u \in Workers /\ Creator(u) = Main /\ Main \in Threads
    BY ThreadFacts
  <2>3. /\ \A d \in 1..Len(contexts) : contexts'[d] = contexts[d]
        /\ contexts'[new].chain = <<>>
    BY <1>1, <2>1, CreateEffect
  <2>4. DOMAIN contexts' = 1..(Len(contexts) + 1)
    BY <1>1, <2>1 DEF Create, TracingTypeOK
  <2>5. \A p \in DOMAIN contexts'[new].chain : contexts'[new].chain[p] \notin 1..Len(spans)
    BY <2>3
  <2>6. \A s \in DOMAIN spans' : s \in 1..Len(spans)
    BY <1>1, <2>1
  <2> QED BY <2>1, <2>2, <2>3, <2>4, <2>5, <2>6, HandingClosing
<1>3. CASE DependantStartEnter(n)
  <2> PICK t : t = Starter(n)
    OBVIOUS
  <2> PICK u : u = Dependant(n)
    OBVIOUS
  <2> PICK c : c = attached[t]
    OBVIOUS
  <2>1. /\ t \in Starters /\ t \in Workers /\ t \in Threads
        /\ u \in Dependants /\ u \in Workers /\ Creator(u) = t
    BY ThreadFacts
  <2>2. pc[t] = "call" /\ pc[u] = "new" /\ c # 0 /\ c \in 1..Len(contexts)
    <3>1. pc[t] = "call"
      BY <1>3 DEF DependantStartEnter, Moves
    <3>2. pc[u] = "new"
      BY <2>1, <3>1 DEF ThreadInv, PointsInv
    <3>3. c # 0
      BY <2>1, <3>1 DEF ThreadInv, RunningInv
    <3> QED BY <2>1, <3>1, <3>2, <3>3, ThreadTyped
  <2>3. /\ pc' = [pc EXCEPT ![t] = "attach"] /\ callee' = [callee EXCEPT ![t] = u]
        /\ tc' = [tc EXCEPT ![t] = new] /\ DeepCopy(c) /\ attached' = attached /\ tasks' = tasks
    BY <1>3, <2>2 DEF DependantStartEnter, Moves, Keeps, NewContext, DeepCopy
  <2>4. /\ \A d \in 1..Len(contexts) : contexts'[d] = contexts[d]
        /\ contexts'[new].chain = [k \in 1..Len(Chain(c)) |-> Len(spans) + k]
    BY <1>1, <2>2, <2>3, DeepCopyEffect
  <2>5. DOMAIN contexts' = 1..(Len(contexts) + 1)
    BY <1>1, <2>3 DEF DeepCopy, TracingTypeOK
  <2>6. /\ Len(Chain(c)) \in Nat /\ \A k \in 1..Len(Chain(c)) : Chain(c)[k] \in 1..Len(spans)
    BY <2>2, TasksTyped
  <2>7. \A p \in DOMAIN contexts'[new].chain : contexts'[new].chain[p] \notin 1..Len(spans)
    BY <1>1, <2>4, <2>6
  <2>8. /\ DOMAIN spans' = 1..(Len(spans) + Len(Chain(c)))
        /\ \A s \in 1..Len(spans) : spans'[s] = spans[s]
        /\ \A k \in 1..Len(Chain(c)) : spans'[Len(spans) + k].id = spans[Chain(c)[k]].id
    BY <1>1, <2>2, <2>3, CopiedSpans
  <2>9. ASSUME NEW s \in DOMAIN spans', s \notin 1..Len(spans)
        PROVE  \E o \in 1..Len(spans) : spans'[s].id = spans[o].id
    <3>1. PICK k \in 1..Len(Chain(c)) : s = Len(spans) + k
      <4>1. s - Len(spans) \in 1..Len(Chain(c)) /\ s = Len(spans) + (s - Len(spans))
        BY <1>1, <2>6, <2>8, <2>9
      <4> QED BY <4>1
    <3> QED BY <2>6, <2>8, <3>1
  <2> QED BY <2>1, <2>2, <2>3, <2>4, <2>5, <2>7, <2>8, <2>9, HandingClosing
<1> QED BY <1>2, <1>3

\* A new span is its worker's current span until it is closed.
LEMMA OpenClosing ==
  ASSUME ThreadInv, ClosingInv, NEW t \in Threads, OpenSpan(t)
  PROVE  ClosingInv'
<1> PICK u : u = callee[t]
  OBVIOUS
<1> PICK c : c = tc[t]
  OBVIOUS
<1> PICK m : m = Len(spans)
  OBVIOUS
<1>1. /\ pc[t] = "open" /\ pc' = [pc EXCEPT ![t] = "start"] /\ tasks' = tasks
      /\ OpenNestedSpan(c, SpanName(t), "thread") /\ UNCHANGED <<attached, callee, tc>>
  BY DEF OpenSpan, Moves, OpenNestedSpan
<1>2. /\ u \in Workers /\ Creator(u) = t /\ pc[u] = "new" /\ c # 0 /\ attached[u] = c /\ u # t
      /\ u \in Threads
  BY <1>1, ThreadFacts DEF ThreadInv, StartingInv, Starting
<1>3. /\ CtxOf(u) = c /\ c \in 1..Len(contexts) /\ ~Opened(u)
      /\ pc'[u] = "new" /\ Opened(u)' /\ TracingTypeOK /\ m \in Nat
      /\ \A w \in Workers : pc'[w] = "pop" <=> pc[w] = "pop"
  <2>1. pc \in [Threads -> Labels] /\ TracingTypeOK /\ \A w \in Workers : w \in Threads
    BY ThreadTyped, ThreadFacts
  <2>2. CtxOf(u) = c /\ ~Opened(u)
    BY <1>1, <1>2 DEF CtxOf, Opened
  <2>3. pc'[u] = "new" /\ pc'[t] = "start" /\ \A w \in Threads : w # t => pc'[w] = pc[w]
    BY <1>1, <1>2, <2>1
  <2>4. Opened(u)'
    BY <1>1, <1>2, <2>3 DEF Opened
  <2>5. \A w \in Workers : pc'[w] = "pop" <=> pc[w] = "pop"
    BY <1>1, <2>1, <2>3
  <2> QED BY <1>2, <2>1, <2>2, <2>3, <2>4, <2>5, ThreadTyped, SpansTyped
<1>4. /\ Len(contexts') = Len(contexts)
      /\ \A d \in 1..Len(contexts) : d # c => contexts'[d] = contexts[d]
      /\ contexts'[c].chain = Append(Chain(c), m + 1)
  BY <1>1, <1>3, OpenEffect
<1>5. /\ DOMAIN spans' = 1..(m + 1) /\ \A s \in 1..m : spans'[s] = spans[s]
      /\ spans'[m + 1].id = m + 1
  BY <1>1, <1>3, OpenedSpan
<1>6. /\ \A w \in Workers : CtxOf(w)' = CtxOf(w)
      /\ \A w \in Workers : w # u => (Opened(w)' <=> Opened(w))
  <2>1. ~ContextMovesUp(t)
    BY <1>1 DEF ContextMovesUp, Moves
  <2> QED BY <2>1, ContextsStay
<1>7. /\ DOMAIN contexts = 1..Len(contexts) /\ DOMAIN spans = 1..m
      /\ \A k \in DOMAIN tasks : tasks[k].span \in 1..m
      /\ Chain(c) \in Seq(1..m) /\ Len(Chain(c)) \in Nat /\ DOMAIN Chain(c) = 1..Len(Chain(c))
      /\ DOMAIN contexts' = DOMAIN contexts
  <2>1. DOMAIN contexts' = DOMAIN contexts
    BY <1>1 DEF OpenNestedSpan
  <2> QED BY <1>3, <2>1, TasksTyped
<1>8. ExportedInv'
  <2>1. /\ \A k \in DOMAIN tasks : spans'[tasks[k].span].id = tasks[k].span
        /\ \A j, k \in DOMAIN tasks : tasks[j].span = tasks[k].span => j = k
    BY <1>5, <1>7 DEF ClosingInv, ExportedInv
  <2>2. ASSUME NEW k \in DOMAIN tasks, NEW d \in DOMAIN contexts, NEW p \in DOMAIN Chain(d)',
               Chain(d)'[p] = tasks[k].span
        PROVE  Leaving(d, p)'
    <3>1. CASE d # c
      <4>1. Chain(d)' = Chain(d)
        BY <1>4, <1>7, <3>1 DEF Chain
      <4>2. Leaving(d, p)
        BY <2>2, <4>1 DEF ClosingInv, ExportedInv
      <4> QED BY <1>1, <1>3, <4>1, <4>2 DEF Leaving
    <3>2. CASE d = c
      <4>1. /\ DOMAIN Chain(c)' = 1..(Len(Chain(c)) + 1) /\ Chain(c)'[Len(Chain(c)) + 1] = m + 1
            /\ \A q \in 1..Len(Chain(c)) : Chain(c)'[q] = Chain(c)[q]
        <5>1. Chain(c)' = Append(Chain(c), m + 1)
          BY <1>4 DEF Chain
        <5> QED BY <1>7, <5>1
      <4>2. p \in DOMAIN Chain(c) /\ Chain(c)[p] = tasks[k].span
        BY <1>3, <1>7, <2>2, <3>2, <4>1
      <4>3. ~Exported(Chain(c)[p])
        BY <1>2, <1>3, <4>2, NotExported DEF ClosingInv
      <4> QED BY <4>2, <4>3 DEF Exported
    <3> QED BY <3>1, <3>2
  <2>3. \A k \in DOMAIN tasks' : \A d \in DOMAIN contexts' : \A p \in DOMAIN Chain(d)' :
          Chain(d)'[p] = tasks'[k].span => Leaving(d, p)'
    BY <1>1, <1>7, <2>2
  <2> QED BY <1>1, <2>1, <2>3 DEF ExportedInv
<1>9. CoveredInv'
  <2>1. ASSUME NEW x, Exported(x) \/ Pending(x) PROVE Exported(x)' \/ Pending(x)'
    <3>1. CASE Exported(x)
      BY <1>1, <3>1 DEF Exported
    <3>2. CASE Pending(x)
      <4>1. PICK w \in Workers : CtxOf(w) # 0 /\ Opened(w) /\ pc[w] # "pop" /\ x = Current(CtxOf(w))
        BY <3>2 DEF Pending
      <4>2. w # u /\ CtxOf(w) # c
        BY <1>2, <1>3, <4>1 DEF ThreadInv, OwnersInv
      <4>3. /\ CtxOf(w)' = CtxOf(w) /\ Opened(w)' /\ pc'[w] # "pop"
            /\ contexts'[CtxOf(w)].chain = contexts[CtxOf(w)].chain
        BY <1>3, <1>4, <1>6, <4>1, <4>2, ThreadTyped
      <4> QED BY <4>1, <4>3, PendingKept
    <3> QED BY <2>1, <3>1, <3>2
  <2>2. ASSUME NEW s \in 1..m PROVE Exported(spans[s].id)' \/ Pending(spans[s].id)'
    <3> PICK x : x = spans[s].id
      OBVIOUS
    <3>1. Exported(x)' \/ Pending(x)'
      BY <1>7, <2>1 DEF ClosingInv, CoveredInv
    <3>2. spans'[s].id = x
      BY <1>5
    <3> QED BY <3>1, <3>2 DEF Exported, Pending
  <2>3. Pending(m + 1)'
    <3>1. Chain(c)' = Append(Chain(c), m + 1)
      BY <1>4 DEF Chain
    <3>2. Append(Chain(c), m + 1) # <<>> /\ Len(Append(Chain(c), m + 1)) = Len(Chain(c)) + 1
          /\ Append(Chain(c), m + 1)[Len(Chain(c)) + 1] = m + 1
      BY <1>7
    <3>3. Current(c)' = m + 1 /\ CtxOf(u)' = c
      BY <1>2, <1>3, <1>6, <3>1, <3>2 DEF Current
    <3>4. Current(CtxOf(u))' = m + 1
      BY <3>3 DEF Current, Chain
    <3> QED BY <1>2, <1>3, <3>3, <3>4 DEF Pending
  <2>4. Pending(spans[m + 1].id)'
    <3> PICK x : x = m + 1
      OBVIOUS
    <3>1. Pending(x)' /\ spans'[x].id = x
      BY <1>5, <2>3
    <3> QED BY <3>1 DEF Pending
  <2>5. \A s \in DOMAIN spans' : s \in 1..m \/ s = m + 1
    BY <1>3, <1>5
  <2> QED BY <2>2, <2>4, <2>5 DEF CoveredInv
<1>10. ChildrenFirst'
  BY <1>1, <1>5, ParentsKept DEF ClosingInv
<1> QED BY <1>8, <1>9, <1>10 DEF ClosingInv

\* A context that moves up has its last span exported before.
LEMMA MoveUpClosing ==
  ASSUME ThreadInv, ClosingInv, NEW t \in Threads, ContextMovesUp(t)
  PROVE  ClosingInv'
<1> PICK c : c = tc[t]
  OBVIOUS
<1>1. /\ pc[t] = "pop" /\ pc' = [pc EXCEPT ![t] = "done"] /\ MoveUp(c)
      /\ UNCHANGED <<spans, tasks, attached, callee, tc>>
  BY DEF ContextMovesUp, Moves, MoveUp
<1>2. t \in Workers
  BY <1>1, ThreadFacts DEF ThreadInv, PointsInv
<1>3. c = attached[t] /\ c # 0 /\ CtxOf(t) = c
  <2>1. attached[t] # 0 /\ tc[t] = attached[t]
    BY <1>1, <1>2 DEF ThreadInv, RunningInv
  <2> QED BY <1>2, <2>1 DEF ThreadInv, AttachedInv
<1>4. /\ c \in 1..Len(contexts) /\ TracingTypeOK /\ \A w \in Workers : w # t => pc'[w] = pc[w]
      /\ \A w \in Workers : w \in Threads
  BY <1>1, <1>2, <1>3, ThreadTyped, ThreadFacts
<1>5. /\ \A d \in 1..Len(contexts) : d # c => contexts'[d] = contexts[d]
      /\ contexts'[c].chain = SubSeq(Chain(c), 1, Len(Chain(c)) - 1)
  BY <1>1, <1>4, MoveUpEffect
<1>6. /\ \A w \in Workers : CtxOf(w)' = CtxOf(w)
      /\ \A w \in Workers : w # t => (Opened(w)' <=> Opened(w))
  <2>1. ~OpenSpan(t)
    BY <1>1 DEF OpenSpan, Moves
  <2> QED BY <2>1, ContextsStay
<1>7. /\ DOMAIN contexts = 1..Len(contexts) /\ Len(Chain(c)) \in Nat
      /\ Chain(c) \in Seq(1..Len(spans)) /\ DOMAIN Chain(c) = 1..Len(Chain(c))
      /\ DOMAIN contexts' = DOMAIN contexts
  <2>1. DOMAIN contexts' = DOMAIN contexts
    BY <1>1 DEF MoveUp
  <2> QED BY <1>4, <2>1, TasksTyped
<1>8. ExportedInv'
  <2>1. ASSUME NEW k \in DOMAIN tasks, NEW d \in DOMAIN contexts, NEW p \in DOMAIN Chain(d)',
               Chain(d)'[p] = tasks[k].span
        PROVE  Leaving(d, p)'
    <3>1. CASE d # c
      <4>1. Chain(d)' = Chain(d)
        BY <1>5, <1>7, <3>1 DEF Chain
      <4>2. Leaving(d, p)
        BY <2>1, <4>1 DEF ClosingInv, ExportedInv
      <4>3. PICK w \in Workers : pc[w] = "pop" /\ attached[w] = d
        BY <4>2 DEF Leaving
      <4>4. pc'[w] = "pop" /\ attached'[w] = d
        BY <1>1, <1>3, <1>4, <3>1, <4>3
      <4> QED BY <4>1, <4>2, <4>4 DEF Leaving
    <3>2. CASE d = c
      <4>1. Chain(c)' = SubSeq(Chain(c), 1, Len(Chain(c)) - 1)
        BY <1>5 DEF Chain
      <4>2. p \in 1..(Len(Chain(c)) - 1) /\ Chain(c)[p] = tasks[k].span
        BY <1>7, <2>1, <3>2, <4>1
      <4>3. p \in DOMAIN Chain(c) /\ p # Len(Chain(c))
        BY <1>7, <4>2
      <4>4. Leaving(c, p)
        BY <1>4, <1>7, <4>2, <4>3 DEF ClosingInv, ExportedInv
      <4> QED BY <4>3, <4>4 DEF Leaving
    <3> QED BY <3>1, <3>2
  <2>2. \A k \in DOMAIN tasks' : \A d \in DOMAIN contexts' : \A p \in DOMAIN Chain(d)' :
          Chain(d)'[p] = tasks'[k].span => Leaving(d, p)'
    BY <1>1, <1>7, <2>1
  <2> QED BY <1>1, <2>2 DEF ClosingInv, ExportedInv
<1>9. CoveredInv'
  <2>1. ASSUME NEW x, Exported(x) \/ Pending(x) PROVE Exported(x)' \/ Pending(x)'
    <3>1. CASE Exported(x)
      BY <1>1, <3>1 DEF Exported
    <3>2. CASE Pending(x)
      <4>1. PICK w \in Workers : CtxOf(w) # 0 /\ Opened(w) /\ pc[w] # "pop" /\ x = Current(CtxOf(w))
        BY <3>2 DEF Pending
      <4>2. w # t /\ CtxOf(w) # c
        BY <1>1, <1>2, <1>3, <4>1 DEF ThreadInv, OwnersInv
      <4>3. /\ CtxOf(w)' = CtxOf(w) /\ Opened(w)' /\ pc'[w] # "pop"
            /\ contexts'[CtxOf(w)].chain = contexts[CtxOf(w)].chain
        BY <1>4, <1>5, <1>6, <4>1, <4>2, ThreadTyped
      <4> QED BY <4>1, <4>3, PendingKept
    <3> QED BY <2>1, <3>1, <3>2
  <2>2. ASSUME NEW s \in DOMAIN spans PROVE Exported(spans[s].id)' \/ Pending(spans[s].id)'
    <3> PICK x : x = spans[s].id
      OBVIOUS
    <3>1. Exported(x)' \/ Pending(x)'
      BY <2>1 DEF ClosingInv, CoveredInv
    <3>2. spans'[s].id = x
      BY <1>1
    <3> QED BY <3>1, <3>2 DEF Exported, Pending
  <2> QED BY <1>1, <2>2 DEF CoveredInv
<1>10. ChildrenFirst'
  BY <1>1, ParentsKept DEF ClosingInv
<1> QED BY <1>8, <1>9, <1>10 DEF ClosingInv

\* A worker exports its own span, which nobody has exported; whatever waited for it is exported.
LEMMA RunExitClosing ==
  ASSUME ThreadInv, JoinInv, ChainsInv, ClosingInv, NEW t \in Threads, RunExit(t)
  PROVE  ClosingInv'
<1> PICK c : c = attached[t]
  OBVIOUS
<1> PICK x : x = Current(c)
  OBVIOUS
<1> PICK n : n = Len(tasks)
  OBVIOUS
<1>1. pc[t] = "close" /\ t \in Workers
  <2>1. pc[t] = "close"
    BY DEF RunExit, Moves
  <2> QED BY <2>1, ThreadFacts DEF ThreadInv, PointsInv
<1>2. c # 0 /\ c = CtxOf(t) /\ Opened(t)
  <2>1. c # 0
    BY <1>1 DEF ThreadInv, RunningInv
  <2> QED BY <1>1, <2>1 DEF ThreadInv, AttachedInv, Opened
<1>3. /\ c \in 1..Len(contexts) /\ Len(Chain(c)) = Inherited(t) + 1
      /\ x = Chain(c)[Inherited(t) + 1] /\ x \in 1..Len(spans) /\ spans[x].id = x
      /\ Inherited(t) \in {0, 1}
  BY <1>1, <1>2, OpenChain DEF Inherited
<1>4. /\ pc' = [pc EXCEPT ![t] = "pop"] /\ ExportCurrent(c) /\ UNCHANGED <<attached, contexts, spans>>
      /\ tasks' = Append(tasks, [span |-> x, state |-> "submitted"])
  <2>1. x # 0
    BY <1>3
  <2> QED BY <1>2, <2>1 DEF RunExit, Moves, ExportCurrent
<1>5. /\ DOMAIN contexts = 1..Len(contexts) /\ DOMAIN spans = 1..Len(spans)
      /\ n \in Nat /\ DOMAIN tasks = 1..n /\ \A k \in DOMAIN tasks : tasks[k].span \in 1..Len(spans)
      /\ DOMAIN Chain(c) = 1..Len(Chain(c))
      /\ SpansPrivate /\ ChainLinked
      /\ \A s \in 1..Len(spans) : spans[s].id \in 1..Len(spans) /\ spans[s].parent \in 0..Len(spans)
  BY <1>3, TasksTyped
<1>6. /\ DOMAIN tasks' = 1..(n + 1) /\ tasks'[n + 1].span = x
      /\ \A k \in DOMAIN tasks : tasks'[k] = tasks[k]
  BY <1>4, TasksTyped
<1>7. /\ \A w \in Workers : w # t => pc'[w] = pc[w]
      /\ pc'[t] = "pop" /\ \A w \in Workers : CtxOf(w)' = CtxOf(w) /\ (Opened(w)' <=> Opened(w))
  <2>1. /\ pc \in [Threads -> Labels] /\ \A w \in Workers : w \in Threads
    BY ThreadTyped, ThreadFacts
  <2>2. ~OpenSpan(t) /\ ~ContextMovesUp(t)
    BY <1>1 DEF OpenSpan, ContextMovesUp, Moves
  <2>3. \A w \in Workers : CtxOf(w)' = CtxOf(w) /\ (Opened(w)' <=> Opened(w))
    BY <2>2, ContextsStay
  <2> QED BY <1>1, <1>4, <2>1, <2>3
<1>8. \A k \in DOMAIN tasks : tasks[k].span # x
  <2>1. Inherited(t) + 1 \in DOMAIN Chain(c)
    BY <1>3, <1>5
  <2>2. ~Exported(x)
    BY <1>1, <1>2, <1>3, <2>1, NotExported DEF ClosingInv
  <2> QED BY <2>2 DEF Exported
<1>9. \A d \in DOMAIN contexts : Chain(d)' = Chain(d)
  BY <1>4 DEF Chain
<1>10. ExportedInv'
  <2>1. \A k \in DOMAIN tasks' : spans'[tasks'[k].span].id = tasks'[k].span
    BY <1>3, <1>4, <1>5, <1>6 DEF ClosingInv, ExportedInv
  <2>2. \A j, k \in DOMAIN tasks' : tasks'[j].span = tasks'[k].span => j = k
    BY <1>5, <1>6, <1>8 DEF ClosingInv, ExportedInv
  <2>3. ASSUME NEW k \in DOMAIN tasks', NEW d \in DOMAIN contexts, NEW p \in DOMAIN Chain(d),
               Chain(d)[p] = tasks'[k].span
        PROVE  Leaving(d, p)'
    <3>1. CASE k \in DOMAIN tasks
      <4>1. Leaving(d, p)
        BY <1>6, <2>3, <3>1 DEF ClosingInv, ExportedInv
      <4>2. PICK w \in Workers : pc[w] = "pop" /\ attached[w] = d
        BY <4>1 DEF Leaving
      <4>3. pc'[w] = "pop" /\ attached'[w] = d
        BY <1>4, <1>7, <4>2
      <4> QED BY <1>9, <4>1, <4>3 DEF Leaving
    <3>2. CASE k = n + 1
      <4>1. Chain(d)[p] = Chain(c)[Inherited(t) + 1] /\ Inherited(t) + 1 \in DOMAIN Chain(c)
        BY <1>3, <1>5, <1>6, <2>3, <3>2
      <4>2. d = c /\ p = Len(Chain(c))
        BY <1>3, <1>5, <4>1 DEF SpansPrivate
      <4> QED BY <1>1, <1>3, <1>4, <1>5, <1>7, <1>9, <4>2 DEF Leaving
    <3> QED BY <1>5, <1>6, <3>1, <3>2
  <2>4. \A k \in DOMAIN tasks' : \A d \in DOMAIN contexts' : \A p \in DOMAIN Chain(d)' :
          Chain(d)'[p] = tasks'[k].span => Leaving(d, p)'
    BY <1>4, <1>9, <2>3
  <2> QED BY <2>1, <2>2, <2>4 DEF ExportedInv
<1>11. CoveredInv'
  <2>1. ASSUME NEW y, Exported(y) \/ Pending(y) PROVE Exported(y)' \/ Pending(y)'
    <3>1. CASE Exported(y)
      BY <1>5, <1>6, <3>1 DEF Exported
    <3>2. CASE Pending(y)
      <4>1. PICK w \in Workers : CtxOf(w) # 0 /\ Opened(w) /\ pc[w] # "pop" /\ y = Current(CtxOf(w))
        BY <3>2 DEF Pending
      <4>2. CASE w = t
        <5>1. y = x /\ n + 1 \in DOMAIN tasks'
          BY <1>2, <1>5, <1>6, <4>1, <4>2
        <5> QED BY <1>6, <5>1 DEF Exported
      <4>3. CASE w # t
        <5>1. /\ CtxOf(w)' = CtxOf(w) /\ Opened(w)' /\ pc'[w] # "pop"
              /\ contexts'[CtxOf(w)].chain = contexts[CtxOf(w)].chain
          BY <1>4, <1>7, <4>1, <4>3
        <5> QED BY <4>1, <5>1, PendingKept
      <4> QED BY <4>2, <4>3
    <3> QED BY <2>1, <3>1, <3>2
  <2>2. ASSUME NEW s \in DOMAIN spans PROVE Exported(spans[s].id)' \/ Pending(spans[s].id)'
    <3> PICK y : y = spans[s].id
      OBVIOUS
    <3>1. Exported(y)' \/ Pending(y)'
      BY <2>1 DEF ClosingInv, CoveredInv
    <3>2. spans'[s].id = y
      BY <1>4
    <3> QED BY <3>1, <3>2 DEF Exported, Pending
  <2> QED BY <1>4, <2>2 DEF CoveredInv
<1>12. ChildrenFirst'
  <2>1. ParentId(x) # x /\ \A j \in DOMAIN tasks : ParentId(x) # tasks[j].span
    <3>1. CASE t \in Starters
      <4>1. x = Chain(c)[1] /\ 1 \in DOMAIN Chain(c)
        BY <1>3, <1>5, <3>1 DEF Inherited
      <4>2. ParentId(x) = 0
        BY <1>3, <1>5, <4>1 DEF ChainLinked, ParentId
      <4> QED BY <1>3, <1>5, <4>2
    <3>2. CASE t \notin Starters
      <4> PICK s : s = Creator(t)
        OBVIOUS
      <4> PICK d : d = CtxOf(s)
        OBVIOUS
      <4>1. t \in Dependants /\ Inherited(t) = 1
        BY <1>1, <3>2, ThreadFacts DEF Inherited
      <4>2. /\ s \in Workers /\ d \in 1..Len(contexts) /\ d # c
            /\ pc[s] \in {"attach", "open", "start", "join"} /\ Opened(s)
        BY <1>1, <1>2, <4>1, StarterOf
      <4>3. CopyOf(c, d)
        BY <1>1, <1>2, <4>1 DEF ChainsInv, ChainsOf
      <4>4. ParentId(x) = Current(d)
        <5>1. x = Chain(c)[2] /\ 2 \in DOMAIN Chain(c) /\ 1 \in DOMAIN Chain(c)
          BY <1>3, <1>5, <4>1
        <5>2. spans[x].parent = Chain(c)[1]
          <6>1. \A q \in DOMAIN Chain(c) : q # 1 => spans[Chain(c)[q]].parent = Chain(c)[q - 1]
            BY <1>3, <1>5 DEF ChainLinked
          <6>2. spans[Chain(c)[2]].parent = Chain(c)[2 - 1]
            BY <5>1, <6>1
          <6> QED BY <5>1, <6>2
        <5>3. Chain(c)[1] # 0
          BY <1>3, <5>1, TasksTyped
        <5> QED BY <4>3, <5>2, <5>3 DEF ParentId, CopyOf
      <4>5. /\ Current(d) = Chain(d)[Inherited(s) + 1] /\ Inherited(s) + 1 \in DOMAIN Chain(d)
        <5>1. d # 0
          BY <4>2
        <5>2. Current(d) = Chain(d)[Inherited(s) + 1] /\ Len(Chain(d)) = Inherited(s) + 1
          BY <4>2, <5>1, OpenChain
        <5>3. Inherited(s) \in {0, 1} /\ DOMAIN Chain(d) = 1..Len(Chain(d))
          BY <4>2, TasksTyped DEF Inherited
        <5> QED BY <5>2, <5>3
      <4>6. ~Exported(Current(d))
        <5>1. d # 0 /\ pc[s] # "pop"
          BY <4>2
        <5> QED BY <4>2, <4>5, <5>1, NotExported DEF ClosingInv
      <4>7. Current(d) # x
        <5>1. Inherited(t) + 1 \in DOMAIN Chain(c)
          BY <1>3, <1>5
        <5> QED BY <1>3, <1>5, <4>2, <4>5, <5>1 DEF SpansPrivate
      <4> QED BY <4>4, <4>6, <4>7 DEF Exported
    <3> QED BY <3>1, <3>2
  <2>2. \A s \in 1..Len(spans) : ParentId(s)' = ParentId(s)
    BY <1>4, ParentsKept
  <2>3. ASSUME NEW j \in DOMAIN tasks', NEW k \in DOMAIN tasks',
               ParentId(tasks[k].span)' = spans'[tasks'[j].span].id
        PROVE  k < j
    <3> PICK y : y = tasks'[k].span
      OBVIOUS
    <3> PICK z : z = tasks'[j].span
      OBVIOUS
    <3>1. y \in 1..Len(spans) /\ z \in 1..Len(spans)
      <4>1. \A i \in DOMAIN tasks' : i \in DOMAIN tasks \/ i = n + 1
        BY <1>5, <1>6
      <4>2. \A i \in DOMAIN tasks' : tasks'[i].span \in 1..Len(spans)
        BY <1>3, <1>5, <1>6, <4>1
      <4> QED BY <4>2
    <3>2. ParentId(y) = spans[z].id
      <4>1. ParentId(tasks[k].span)' = ParentId(y)'
        BY DEF ParentId
      <4> QED BY <1>4, <2>2, <2>3, <3>1, <4>1
    <3>3. CASE k \in DOMAIN tasks /\ j \in DOMAIN tasks
      BY <1>6, <3>2, <3>3 DEF ClosingInv, ChildrenFirst
    <3>4. CASE k \in DOMAIN tasks /\ j = n + 1
      BY <1>5, <3>4
    <3>5. CASE k = n + 1
      <4>1. y = x
        BY <1>6, <3>5
      <4>2. j \in DOMAIN tasks \/ z = x
        BY <1>5, <1>6
      <4>3. CASE j \in DOMAIN tasks
        <5>1. z = tasks[j].span /\ spans[z].id = z
          BY <1>6, <4>3 DEF ClosingInv, ExportedInv
        <5> QED BY <2>1, <3>2, <4>1, <4>3, <5>1
      <4>4. CASE z = x
        BY <1>3, <2>1, <3>2, <4>1, <4>4
      <4> QED BY <4>2, <4>3, <4>4
    <3> QED BY <1>5, <1>6, <3>3, <3>4, <3>5
  <2> QED BY <2>3 DEF ChildrenFirst
<1> QED BY <1>10, <1>11, <1>12 DEF ClosingInv

\* Every step keeps what is said of exports.
LEMMA ClosingStep ==
  ASSUME ThreadInv, JoinInv, ChainsInv, ClosingInv, [Next]_vars PROVE ClosingInv'
<1>1. Main \in Threads /\ \A n \in TaskNames : Starter(n) \in Threads
  BY ThreadFacts
<1>2. ASSUME NEW n \in TaskNames, NamedStep(n) PROVE ClosingInv'
  BY <1>1, <1>2, StartEnterClosing, QuietClosing DEF NamedStep
<1>3. ASSUME NEW t \in Threads, ThreadStep(t) PROVE ClosingInv'
  BY <1>3, QuietClosing, OpenClosing, RunExitClosing, MoveUpClosing DEF ThreadStep
<1>4. ASSUME MainExit \/ LibraryStep \/ UNCHANGED vars PROVE ClosingInv'
  BY <1>1, <1>4, QuietClosing
<1> QED BY <1>2, <1>3, <1>4 DEF Next, ProgramStep

\* Nothing is open at first.
LEMMA OrderInit == ASSUME Init PROVE OrderInv
<1>1. /\ contexts = <<>> /\ spans = <<>> /\ tasks = <<>> /\ exited = FALSE
      /\ attached = [h \in Threads |-> 0]
      /\ pc = [t \in Threads |-> IF t = Main THEN "call" ELSE "new"]
  BY DEF Init, TracingInit
<1>2. /\ pc[Main] = "call" /\ \A t \in Workers : pc[t] = "new"
      /\ \A t \in Workers : CtxOf(t) = 0
      /\ \A t \in Dependants : pc[Creator(t)] = "new"
  <2>1. /\ Main \in Threads /\ \A t \in Workers : t \in Threads /\ t # Main /\ Creator(t) \in Threads
        /\ \A t \in Dependants : Creator(t) \in Workers
    BY ThreadFacts
  <2>2. \A t \in Threads : pc[t] # "attach" /\ attached[t] = 0
    BY <1>1
  <2> QED BY <1>1, <2>1, <2>2 DEF CtxOf
<1>3. JoinInv
  BY <1>1, <1>2 DEF JoinInv
<1>4. ChainsInv
  BY <1>2 DEF ChainsInv, ChainsOf
<1>5. ExportedInv /\ CoveredInv /\ ChildrenFirst
  BY <1>1 DEF ExportedInv, CoveredInv, ChildrenFirst
<1> QED BY <1>3, <1>4, <1>5 DEF OrderInv, ClosingInv

\* Threads end in the order of their spans: the invariant behind the two theorems below.
THEOREM SpansCloseInOrder == Spec => [](ThreadInv /\ OrderInv)
<1>1. Init => ThreadInv /\ OrderInv
  BY ThreadInvInit, OrderInit
<1>2. ThreadInv /\ OrderInv /\ [Next]_vars => ThreadInv' /\ OrderInv'
  <2> SUFFICES ASSUME ThreadInv, OrderInv, [Next]_vars PROVE ThreadInv' /\ OrderInv'
    OBVIOUS
  <2>1. ThreadInv'
    BY ThreadInvStep
  <2>2. JoinInv' /\ ChainsInv' /\ ClosingInv'
    BY JoinInvStep, ChainsStep, ClosingStep DEF OrderInv
  <2> QED BY <2>1, <2>2 DEF OrderInv
<1> QED BY <1>1, <1>2, PTL DEF Spec

\* However the threads are scheduled, a span is exported before the span it is nested in: a starter
\* task's join outlasts the whole of its dependant task (StarterTask.java, StarterTaskAdvice.java).
THEOREM ChildrenExportedFirst == Spec => []ChildrenFirst
<1>1. OrderInv => ChildrenFirst
  BY DEF OrderInv, ClosingInv
<1> QED BY <1>1, SpansCloseInOrder, PTL

\* When Main has joined every starter task and exits, every span that was opened was exported.
THEOREM EverySpanClosed == Spec => []AllClosed
<1>1. ASSUME ThreadInv, OrderInv PROVE AllClosed
  <2> SUFFICES ASSUME exited, NEW s \in DOMAIN spans
               PROVE  \E k \in DOMAIN tasks : spans[tasks[k].span].id = spans[s].id
    BY DEF AllClosed
  <2>1. \A t \in Starters : pc[t] = "done"
    BY <1>1 DEF OrderInv, JoinInv
  <2>2. \A t \in Dependants : pc[t] = "done"
    BY <1>1, <2>1, ThreadFacts DEF OrderInv, JoinInv
  <2>3. \A t \in Workers : ~Opened(t)
    BY <2>1, <2>2, ThreadFacts DEF Opened
  <2>4. Exported(spans[s].id)
    BY <1>1, <2>3 DEF OrderInv, ClosingInv, CoveredInv, Pending
  <2> QED BY <1>1, <2>4 DEF OrderInv, ClosingInv, ExportedInv, Exported
<1> QED BY <1>1, SpansCloseInOrder, PTL

(* What is on disk *)

\* A file holds spans of its own millisecond; a span that was written is in its file, or another
\* span of its millisecond is being written or was.
DiskInv ==
  Exporter = "disk" =>
    /\ \A ts \in 0..MaxTime : \A k \in files[ts] : FileOf(k) = ts
    /\ \A k \in DOMAIN tasks : tasks[k].state = "done" =>
         k \in files[FileOf(k)] \/ \E j \in DOMAIN tasks : j # k /\ FileOf(j) = FileOf(k)

\* What files and tasks are.
LEMMA FilesTyped ==
  ASSUME ThreadInv
  PROVE  /\ tasks \in Seq(TaskType(Len(spans))) /\ DOMAIN tasks = 1..Len(tasks) /\ Len(tasks) \in Nat
         /\ files \in [0..MaxTime -> SUBSET (DOMAIN tasks)]
         /\ \A k \in DOMAIN tasks : /\ tasks[k].span \in 1..Len(spans) /\ FileOf(k) \in 0..MaxTime
                                    /\ tasks[k] = [span |-> tasks[k].span, state |-> tasks[k].state]
<1>1. /\ TracingTypeOK /\ DOMAIN tasks = 1..Len(tasks) /\ Len(tasks) \in Nat
      /\ \A k \in DOMAIN tasks : tasks[k].span \in 1..Len(spans)
      /\ tasks \in Seq(TaskType(Len(spans)))
  BY TasksTyped
<1>2. \A k \in DOMAIN tasks : FileOf(k) \in 0..MaxTime
  BY <1>1, SpansTyped DEF FileOf
<1>3. files \in [0..MaxTime -> SUBSET (DOMAIN tasks)]
  BY <1>1 DEF TracingTypeOK
<1>4. \A k \in DOMAIN tasks : tasks[k] = [span |-> tasks[k].span, state |-> tasks[k].state]
  <2>1. \A k \in DOMAIN tasks : tasks[k] \in TaskType(Len(spans))
    BY <1>1
  <2> QED BY <2>1 DEF TaskType
<1> QED BY <1>1, <1>2, <1>3, <1>4

\* Steps that touch no file: a new task has not been written.
LEMMA DiskKept ==
  ASSUME ThreadInv, DiskInv, files' = files, \A s \in 1..Len(spans) : spans'[s] = spans[s],
         \/ tasks' = tasks
         \/ \E x \in 1..Len(spans) : tasks' = Append(tasks, [span |-> x, state |-> "submitted"])
  PROVE  DiskInv'
<1> SUFFICES ASSUME Exporter = "disk"
             PROVE  /\ \A ts \in 0..MaxTime : \A k \in files[ts] : FileOf(k)' = ts
                    /\ \A k \in DOMAIN tasks' : tasks'[k].state = "done" =>
                         \/ k \in files[FileOf(k)']
                         \/ \E j \in DOMAIN tasks' : j # k /\ FileOf(j)' = FileOf(k)'
  BY DEF DiskInv
<1>1. /\ DOMAIN tasks = 1..Len(tasks) /\ Len(tasks) \in Nat
      /\ files \in [0..MaxTime -> SUBSET (DOMAIN tasks)]
      /\ \A k \in DOMAIN tasks : tasks[k].span \in 1..Len(spans)
  BY FilesTyped
<1>2. /\ DOMAIN tasks \subseteq DOMAIN tasks' /\ \A k \in DOMAIN tasks : tasks'[k] = tasks[k]
      /\ \A k \in DOMAIN tasks' : k \in DOMAIN tasks \/ tasks'[k].state = "submitted"
  <2>1. CASE tasks' = tasks
    BY <2>1
  <2>2. ASSUME NEW x \in 1..Len(spans), tasks' = Append(tasks, [span |-> x, state |-> "submitted"])
        PROVE  /\ DOMAIN tasks \subseteq DOMAIN tasks' /\ \A k \in DOMAIN tasks : tasks'[k] = tasks[k]
               /\ \A k \in DOMAIN tasks' : k \in DOMAIN tasks \/ tasks'[k].state = "submitted"
    <3> PICK e : e = [span |-> x, state |-> "submitted"]
      OBVIOUS
    <3>1. e \in TaskType(Len(spans)) /\ tasks \in Seq(TaskType(Len(spans))) /\ e.state = "submitted"
      BY FilesTyped DEF TaskType
    <3>2. /\ DOMAIN tasks' = 1..(Len(tasks) + 1)
          /\ \A k \in 1..Len(tasks) : tasks'[k] = tasks[k]
          /\ tasks'[Len(tasks) + 1] = e
      <4>1. tasks' = Append(tasks, e)
        BY <2>2
      <4> QED BY <3>1, <4>1, AppendFacts
    <3>3. \A k \in DOMAIN tasks' : k \in DOMAIN tasks \/ k = Len(tasks) + 1
      BY <1>1, <3>2
    <3> QED BY <1>1, <3>1, <3>2, <3>3
  <2> QED BY <2>1, <2>2
<1>3. \A k \in DOMAIN tasks : FileOf(k)' = FileOf(k)
  BY <1>1, <1>2 DEF FileOf
<1>4. \A ts \in 0..MaxTime : \A k \in files[ts] : FileOf(k)' = ts
  BY <1>1, <1>3 DEF DiskInv
<1>5. ASSUME NEW k \in DOMAIN tasks', tasks'[k].state = "done"
      PROVE  \/ k \in files[FileOf(k)']
             \/ \E j \in DOMAIN tasks' : j # k /\ FileOf(j)' = FileOf(k)'
  <2>1. k \in DOMAIN tasks /\ tasks[k].state = "done"
    <3>1. "done" # "submitted"
      OBVIOUS
    <3> QED BY <1>2, <1>5, <3>1
  <2>2. k \in files[FileOf(k)] \/ \E j \in DOMAIN tasks : j # k /\ FileOf(j) = FileOf(k)
    BY <2>1 DEF DiskInv
  <2> QED BY <1>2, <1>3, <2>1, <2>2
<1> QED BY <1>4, <1>5

\* The executor's threads: emptying a file is the start of writing another span to it, and a task
\* that fails leaves the files alone.
LEMMA DiskWritten ==
  ASSUME ThreadInv, DiskInv, ExporterStep PROVE DiskInv'
<1> SUFFICES ASSUME Exporter = "disk"
             PROVE  /\ \A ts \in 0..MaxTime : \A k \in files'[ts] : FileOf(k)' = ts
                    /\ \A k \in DOMAIN tasks' : tasks'[k].state = "done" =>
                         \/ k \in files'[FileOf(k)']
                         \/ \E j \in DOMAIN tasks' : j # k /\ FileOf(j)' = FileOf(k)'
  BY DEF DiskInv
<1>1. PICK k \in DOMAIN tasks : OpenFile(k) \/ WriteFile(k)
  BY DEF ExporterStep, Post, DropSpan
<1>2. /\ files \in [0..MaxTime -> SUBSET (DOMAIN tasks)]
      /\ \A i \in DOMAIN tasks : FileOf(i) \in 0..MaxTime
      /\ tasks[k] = [span |-> tasks[k].span, state |-> tasks[k].state]
  BY FilesTyped
<1>3. PICK to \in {"open", "done", "dropped"} :
        /\ tasks' = [tasks EXCEPT ![k].state = to] /\ spans' = spans
        /\ to = "open" => files' = [files EXCEPT ![FileOf(k)] = {}]
        /\ to = "done" => files' = [files EXCEPT ![FileOf(k)] = @ \cup {k}]
        /\ to = "dropped" => files' = files
  BY <1>1 DEF OpenFile, WriteFile, FileFails, TaskMoves
<1>4. /\ DOMAIN tasks' = DOMAIN tasks /\ tasks'[k].state = to /\ tasks'[k].span = tasks[k].span
      /\ \A i \in DOMAIN tasks : i # k => tasks'[i] = tasks[i]
  BY <1>2, <1>3
<1>5. \A i \in DOMAIN tasks : FileOf(i)' = FileOf(i)
  BY <1>3, <1>4 DEF FileOf
<1>6. CASE to = "open"
  <2> PICK f \in 0..MaxTime : f = FileOf(k)
    BY <1>2
  <2>1. files'[f] = {} /\ \A ts \in 0..MaxTime : ts # f => files'[ts] = files[ts]
    BY <1>2, <1>3, <1>6
  <2>2. \A ts \in 0..MaxTime : \A i \in files'[ts] : FileOf(i)' = ts
    BY <1>2, <1>5, <2>1 DEF DiskInv
  <2>3. ASSUME NEW i \in DOMAIN tasks', tasks'[i].state = "done"
        PROVE  \/ i \in files'[FileOf(i)']
               \/ \E j \in DOMAIN tasks' : j # i /\ FileOf(j)' = FileOf(i)'
    <3>1. i # k /\ i \in DOMAIN tasks /\ tasks[i].state = "done"
      BY <1>4, <1>6, <2>3
    <3>2. CASE FileOf(i) = f
      BY <1>4, <1>5, <3>1, <3>2
    <3>3. CASE FileOf(i) # f
      <4>1. i \in files[FileOf(i)] \/ \E j \in DOMAIN tasks : j # i /\ FileOf(j) = FileOf(i)
        BY <3>1 DEF DiskInv
      <4> QED BY <1>2, <1>4, <1>5, <2>1, <3>1, <3>3, <4>1
    <3> QED BY <3>2, <3>3
  <2> QED BY <2>2, <2>3
<1>7. CASE to = "done"
  <2> PICK f \in 0..MaxTime : f = FileOf(k)
    BY <1>2
  <2>1. files'[f] = files[f] \cup {k} /\ \A ts \in 0..MaxTime : ts # f => files'[ts] = files[ts]
    BY <1>2, <1>3, <1>7
  <2>2. \A ts \in 0..MaxTime : \A i \in files'[ts] : FileOf(i)' = ts
    BY <1>2, <1>5, <2>1 DEF DiskInv
  <2>3. ASSUME NEW i \in DOMAIN tasks', tasks'[i].state = "done"
        PROVE  \/ i \in files'[FileOf(i)']
               \/ \E j \in DOMAIN tasks' : j # i /\ FileOf(j)' = FileOf(i)'
    <3>1. CASE i = k
      BY <1>4, <1>5, <2>1, <3>1
    <3>2. CASE i # k
      <4>1. i \in files[FileOf(i)] \/ \E j \in DOMAIN tasks : j # i /\ FileOf(j) = FileOf(i)
        BY <1>4, <2>3, <3>2 DEF DiskInv
      <4> QED BY <1>2, <1>4, <1>5, <2>1, <4>1
    <3> QED BY <3>1, <3>2
  <2> QED BY <2>2, <2>3
<1>8. CASE to = "dropped"
  <2>1. \A i \in DOMAIN tasks : tasks'[i].state = "done" => tasks[i].state = "done"
    BY <1>4, <1>8
  <2>2. files' = files /\ DOMAIN tasks' = DOMAIN tasks
    BY <1>3, <1>4, <1>8
  <2>3. \A ts \in 0..MaxTime : \A i \in files'[ts] : FileOf(i)' = ts
    BY <1>2, <1>5, <2>2 DEF DiskInv
  <2> QED BY <1>5, <2>1, <2>2, <2>3 DEF DiskInv
<1> QED BY <1>6, <1>7, <1>8

\* Every step keeps the files as described.
LEMMA DiskStep ==
  ASSUME ThreadInv, DiskInv, [Next]_vars PROVE DiskInv'
<1>1. TracingTypeOK /\ attached \in [Threads -> 0..Len(contexts)]
  BY ThreadTyped
<1>2. ASSUME NEW n \in TaskNames, NamedStep(n) PROVE DiskInv'
  <2>1. CASE StarterStartEnter(n) \/ JoinDependant(n)
    BY <2>1, DiskKept DEF StarterStartEnter, Create, JoinDependant, tracing
  <2>2. CASE DependantStartEnter(n)
    <3> PICK c : c = attached[Starter(n)]
      OBVIOUS
    <3>1. CASE c = 0
      BY <2>2, <3>1, DiskKept DEF DependantStartEnter, tracing
    <3>2. CASE c # 0
      <4>1. c \in 1..Len(contexts)
        BY <1>1, <3>2, ThreadFacts, ThreadTyped
      <4>2. DeepCopy(c)
        BY <2>2, <3>2 DEF DependantStartEnter
      <4>3. \A s \in 1..Len(spans) : spans'[s] = spans[s]
        BY <1>1, <4>1, <4>2, CopiedSpans
      <4> QED BY <4>2, <4>3, DiskKept DEF DeepCopy
    <3> QED BY <3>1, <3>2
  <2> QED BY <1>2, <2>1, <2>2 DEF NamedStep
<1>3. ASSUME NEW t \in Threads, ThreadStep(t) PROVE DiskInv'
  <2>1. CASE AttachOnThread(t) \/ ThreadStart(t) \/ ContextMovesUp(t)
    BY <2>1, DiskKept DEF AttachOnThread, AttachTo, ThreadStart, ContextMovesUp, MoveUp, tracing
  <2>2. CASE OpenSpan(t)
    <3>1. OpenNestedSpan(tc[t], SpanName(t), "thread")
      BY <2>2 DEF OpenSpan
    <3>2. \A s \in 1..Len(spans) : spans'[s] = spans[s]
      BY <1>1, <3>1, OpenedSpan
    <3> QED BY <3>1, <3>2, DiskKept DEF OpenNestedSpan
  <2>3. CASE RunExit(t)
    <3> PICK c : c = attached[t]
      OBVIOUS
    <3>1. CASE UNCHANGED tracing
      BY <3>1, DiskKept DEF tracing
    <3>2. CASE c # 0 /\ Current(c) # 0 /\ ExportCurrent(c)
      <4>1. Current(c) \in 1..Len(spans)
        BY <1>1, <3>2, ContextsTyped, SpansTyped
      <4> QED BY <3>2, <4>1, DiskKept DEF ExportCurrent
    <3> QED BY <2>3, <3>1, <3>2 DEF RunExit
  <2> QED BY <1>3, <2>1, <2>2, <2>3 DEF ThreadStep
<1>4. ASSUME MainExit \/ (Tick /\ UNCHANGED program) \/ UNCHANGED vars PROVE DiskInv'
  BY <1>4, DiskKept DEF MainExit, SystemExit, Tick, vars
<1> QED BY <1>2, <1>3, <1>4, DiskWritten DEF Next, ProgramStep, LibraryStep

\* A span whose file opened and was written, and which has its millisecond for itself, is in its file
\* and nothing else is, in whatever order the executor's threads ran and whichever of the other files
\* did not open or were not written (JSONDiskExporter.java:36-46).
THEOREM FilesHoldTheirSpan == Spec => []SpanOnDiskIfAlone
<1>1. Init => DiskInv
  BY DEF Init, TracingInit, DiskInv
<1>2. ThreadInv /\ DiskInv /\ [Next]_vars => DiskInv'
  BY DiskStep
<1>3. ASSUME ThreadInv, DiskInv PROVE SpanOnDiskIfAlone
  <2> SUFFICES ASSUME Exporter = "disk", NEW k \in DOMAIN tasks, tasks[k].state = "done",
                      \A j \in DOMAIN tasks : j # k => FileOf(j) # FileOf(k)
               PROVE  files[FileOf(k)] = {k}
    BY DEF SpanOnDiskIfAlone
  <2>1. files \in [0..MaxTime -> SUBSET (DOMAIN tasks)] /\ FileOf(k) \in 0..MaxTime
    BY <1>3, FilesTyped
  <2>2. k \in files[FileOf(k)] /\ \A i \in files[FileOf(k)] : FileOf(i) = FileOf(k)
    BY <1>3, <2>1 DEF DiskInv
  <2> QED BY <2>1, <2>2
<1> QED BY <1>1, <1>2, <1>3, ContextsFollowTasks, PTL DEF Spec
=============================================================================
