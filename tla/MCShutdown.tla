------------------------------ MODULE MCShutdown ------------------------------
EXTENDS Shutdown

Symmetry == Permutations(Connections) \cup Permutations(Ids)

(* As the view of MCHandlerLifecycle: what nothing reads any more is hidden. *)
View ==
    <<main, list, threadIds, alive, thread,
      IF main = "register" THEN {conn} ELSE {},
      IF main = "accept" THEN 1 ELSE iter,
      [h \in Handlers |-> IF h \in alive \/ thread[h] \in Existing
                          THEN <<id[h], h \in inherited>> ELSE << >>],
      [h \in Handlers |-> IF h \in alive THEN <<pthreadId[h], ready[h], interrupted[h]>> ELSE << >>],
      socket, processVars, pending /\ signal # "exit", signal, cancelAt,
      {h \in cancelled : thread[h] \in Existing}, loopVars, waits>>
=============================================================================
