---------------------------- MODULE MCAgentServer -----------------------------
(* Instances of AgentServer for TLC: a main class that refers to a task, which *)
(* refers back and to a base class.  Task and base share an interceptor.       *)
EXTENDS AgentServer, TLC

CONSTANTS t1, t2, Main, Task, Base, H1, H2, A1, I1, I2

Three     == {Main, Task, Base}
ThreeRefs == (Main :> {Task}) @@ (Task :> {Main, Base}) @@ (Base :> {})
Pair      == {Main, Task}
PairRefs  == (Main :> {Task}) @@ (Task :> {Main})

MCAuxiliariesOf  == [c \in Classes |-> IF c = Task THEN {A1} ELSE {}]
MCInterceptorsOf == [c \in Classes |-> CASE c = Main -> {}
                                          [] c = Task -> {I1, I2}
                                          [] OTHER    -> {I1}]
MCVerdict        == [c \in Classes |-> IF c = Main THEN "ignore" ELSE "match"]
ErrorVerdict     == [c \in Classes |-> IF c = Base THEN "error" ELSE "match"]
Symmetry         == Permutations(Threads)
===============================================================================
