------------------------------ MODULE SharedLog ------------------------------
(***************************************************************************)
(* What the proxy's cache promises the clients that ask for the same URL,  *)
(* with no threads, locks, wakeups or sockets in it.                       *)
(*                                                                         *)
(* There is one log for every URL.  It only grows at its end, and it is    *)
(* closed once.  Any number of readers follow a log, each from its first   *)
(* item and at its own pace.  A reader may be broken off at any time, but  *)
(* it may take its log for complete only when the log is closed and it was *)
(* given all of it.                                                        *)
(*                                                                         *)
(* Closing a log does not stop its publishers: the text that explains a    *)
(* failed fetch follows the close, and when two clients were both told to  *)
(* fetch, the slower fetch goes on.  A complete reader is not given what   *)
(* comes after.                                                            *)
(***************************************************************************)
EXTENDS Naturals, Sequences

CONSTANTS Readers, Topics, NoTopic, Messages

VARIABLES log,     \* what was published, per topic
          closed,  \* the topics whose end was announced, as a function
          topic,   \* what each reader follows
          out,     \* what each reader was given
          state    \* "idle", "reading", "complete" or "broken"

logVars == <<log, closed>>
readerVars == <<topic, out, state>>

Init == /\ log = [t \in Topics |-> << >>]
        /\ closed = [t \in Topics |-> FALSE]
        /\ topic = [r \in Readers |-> NoTopic]
        /\ out = [r \in Readers |-> << >>]
        /\ state = [r \in Readers |-> "idle"]

Publish(t, m) == /\ log' = [log EXCEPT ![t] = Append(@, m)]
                 /\ UNCHANGED <<closed, readerVars>>

Close(t) == /\ closed' = [closed EXCEPT ![t] = TRUE]
            /\ UNCHANGED <<log, readerVars>>

Subscribe(r, t) == /\ state[r] = "idle"
                   /\ topic' = [topic EXCEPT ![r] = t]
                   /\ state' = [state EXCEPT ![r] = "reading"]
                   /\ UNCHANGED <<logVars, out>>

(* Some of what the reader has not got yet, in order and without gaps. *)
Deliver(r) ==
    /\ state[r] = "reading"
    /\ \E n \in Len(out[r]) + 1 .. Len(log[topic[r]]) :
           out' = [out EXCEPT ![r] = SubSeq(log[topic[r]], 1, n)]
    /\ UNCHANGED <<logVars, topic, state>>

Complete(r) == /\ state[r] = "reading"
               /\ closed[topic[r]]
               /\ out[r] = log[topic[r]]
               /\ state' = [state EXCEPT ![r] = "complete"]
               /\ UNCHANGED <<logVars, topic, out>>

Break(r) == /\ state[r] \in {"idle", "reading"}
            /\ state' = [state EXCEPT ![r] = "broken"]
            /\ UNCHANGED <<logVars, topic, out>>

Next == \/ \E t \in Topics : Close(t) \/ \E m \in Messages : Publish(t, m)
        \/ \E r \in Readers : \/ \E t \in Topics : Subscribe(r, t)
                              \/ Deliver(r) \/ Complete(r) \/ Break(r)

Spec == Init /\ [][Next]_<<logVars, readerVars>>
=============================================================================
