-------------------------- MODULE MCHandlerLifecycle --------------------------
EXTENDS HandlerLifecycle

Symmetry == Permutations(Connections) \cup Permutations(Ids)

(* What no step and no property reads any more is hidden: the connection   *)
(* once it is registered, the position between two passes, the fields of   *)
(* destroyed handlers, the ids of threads that ended.                      *)
View ==
    <<main, list, threadIds, alive, thread,
      IF main = "register" THEN {conn} ELSE {},
      IF main = "accept" THEN 1 ELSE iter,
      [h \in Handlers |-> IF h \in alive \/ thread[h] \in Existing
                          THEN <<id[h], h \in inherited>> ELSE << >>],
      [h \in Handlers |-> IF h \in alive THEN <<pthreadId[h], ready[h], interrupted[h]>> ELSE << >>],
      socket, inherited = {}>>
=============================================================================
