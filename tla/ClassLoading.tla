---------------------------- MODULE ClassLoading ------------------------------
(* What the agent and the Instrumentor together promise the monitored JVM:     *)
(* loads of classes are served one after the other, each is served once and    *)
(* gets the class Byte Buddy's verdict asks for, and every load is served.     *)
CONSTANTS Classes, Loaders, IgnoredLoaders, Verdict

VARIABLES loads,   \* per class and loader: "unloaded", "pending", "original" or "instrumented"
          serving, \* the load being served: at most one
          started  \* the monitored JVM is initialized
vars == <<loads, serving, started>>

Init == /\ loads = [cl \in Classes \X Loaders |-> "unloaded"]
        /\ serving = {}
        /\ started = FALSE

Start == ~started /\ started' = TRUE /\ UNCHANGED <<loads, serving>>

Request(cl) ==
  /\ loads[cl] = "unloaded" /\ loads' = [loads EXCEPT ![cl] = "pending"]
  /\ UNCHANGED <<serving, started>>

\* Before the JVM is initialized, and for an ignored loader, a class stays as it is.
Skip(cl) ==
  /\ loads[cl] = "pending" /\ serving = {}
  /\ ~started \/ cl[2] \in IgnoredLoaders
  /\ loads' = [loads EXCEPT ![cl] = "original"]
  /\ UNCHANGED <<serving, started>>

Serve(cl) ==
  /\ loads[cl] = "pending" /\ serving = {}
  /\ started /\ cl[2] \notin IgnoredLoaders
  /\ serving' = {cl}
  /\ UNCHANGED <<loads, started>>

Answer(cl) ==
  /\ cl \in serving /\ serving' = {}
  /\ loads' = [loads EXCEPT ![cl] = IF Verdict[cl[1]] = "match" THEN "instrumented" ELSE "original"]
  /\ UNCHANGED started

Next == Start \/ \E cl \in Classes \X Loaders : Request(cl) \/ Skip(cl) \/ Serve(cl) \/ Answer(cl)

\* Requests to load are the application's; serving them is the promise.
Fairness == \A cl \in Classes \X Loaders : WF_vars(Skip(cl) \/ Serve(cl)) /\ WF_vars(Answer(cl))

Spec == Init /\ [][Next]_vars /\ Fairness
===============================================================================
