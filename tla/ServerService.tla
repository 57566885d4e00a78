---------------------------- MODULE ServerService ----------------------------
(* What a server is to its clients: it is open or closed, and requests are    *)
(* served by one thread at a time. It opens only after the last thread has    *)
(* left, and a thread takes up service only while it is open; closing does    *)
(* not interrupt a request that is being served, it only keeps the thread     *)
(* from taking up the next one.                                               *)
CONSTANTS
  Server,   \* the threads that may serve
  NoOne     \* none of them

VARIABLES open, serving

Init == open = FALSE /\ serving = NoOne

Open == ~open /\ serving = NoOne /\ open' = TRUE /\ UNCHANGED serving

Close == open /\ open' = FALSE /\ UNCHANGED serving

Enter(t) == open /\ serving = NoOne /\ serving' = t /\ UNCHANGED open

Leave(t) == serving = t /\ serving' = NoOne /\ UNCHANGED open

Next ==
  \/ Open \/ Close
  \/ \E t \in Server : Enter(t) \/ Leave(t)

Safety == Init /\ [][Next]_<<open, serving>>

(* A thread does not serve one batch of requests for ever.                     *)
Fairness == WF_<<open, serving>>(\E t \in Server : Leave(t))

Spec == Safety /\ Fairness
===============================================================================
