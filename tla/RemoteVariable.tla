--------------------------- MODULE RemoteVariable ---------------------------
(* What get and set of a client promise about the variable behind a node. A    *)
(* call that succeeds happened at one moment between its start and its end. A  *)
(* call that fails may have happened; a write that failed may even happen      *)
(* later, but once at most, and before any later call of the same user on the  *)
(* same variable.                                                             *)
EXTENDS Naturals

CONSTANTS
  Users,      \* the threads that call get and set
  Variables,  \* the variables behind the nodes
  Values,     \* what they can hold
  Initial,    \* what they hold at first
  None        \* no call, no value

VARIABLES
  value,    \* value[v]: what the variable holds
  call,     \* call[u]: the call of u in progress, or None
  made,     \* made[u]: how many calls u has made
  outcome,  \* outcome[u]: what the last call of u returned, None if it failed
            \* or has not ended
  overdue   \* overdue[u][v]: the failed writes of u that may still happen, with
            \* their numbers among the calls of u

vars == <<value, call, made, outcome, overdue>>

Init ==
  /\ value = [v \in Variables |-> Initial]
  /\ call = [u \in Users |-> None]
  /\ made = [u \in Users |-> 0]
  /\ outcome = [u \in Users |-> None]
  /\ overdue = [u \in Users |-> [v \in Variables |-> {}]]

Invoke(u, v, kind, x) ==
  /\ call[u] = None
  /\ call' = [call EXCEPT ![u] = [at |-> v, kind |-> kind, value |-> x, done |-> FALSE]]
  /\ made' = [made EXCEPT ![u] = @ + 1]
  /\ outcome' = [outcome EXCEPT ![u] = None]
  /\ UNCHANGED <<value, overdue>>

InvokeAny(u, v) ==
  \/ Invoke(u, v, "get", None)
  \/ \E x \in Values : Invoke(u, v, "set", x)

(* The call happens, after what its user has asked of the variable before.     *)
Happen(u) ==
  /\ call[u] # None /\ ~call[u].done
  /\ overdue[u][call[u].at] = {}
  /\ \/ /\ call[u].kind = "set"
        /\ value' = [value EXCEPT ![call[u].at] = call[u].value]
        /\ call' = [call EXCEPT ![u].done = TRUE]
     \/ /\ call[u].kind = "get"
        /\ call' = [call EXCEPT ![u].done = TRUE, ![u].value = value[call[u].at]]
        /\ UNCHANGED value
  /\ UNCHANGED <<made, outcome, overdue>>

Succeed(u) ==
  /\ call[u] # None /\ call[u].done
  /\ outcome' = [outcome EXCEPT ![u] = call[u].value]
  /\ call' = [call EXCEPT ![u] = None]
  /\ UNCHANGED <<value, made, overdue>>

Fail(u) ==
  /\ call[u] # None
  /\ call' = [call EXCEPT ![u] = None]
  /\ outcome' = [outcome EXCEPT ![u] = None]
  /\ \/ UNCHANGED overdue
     \/ /\ call[u].kind = "set" /\ ~call[u].done
        /\ overdue' = [overdue EXCEPT ![u][call[u].at] =
                         @ \cup {[number |-> made[u], value |-> call[u].value]}]
  /\ UNCHANGED <<value, made>>

(* A failed write happens after all; those before it never will.               *)
HappenLate(u, v) ==
  \E w \in overdue[u][v] :
    /\ value' = [value EXCEPT ![v] = w.value]
    /\ overdue' = [overdue EXCEPT ![u][v] = {y \in @ : y.number > w.number}]
    /\ UNCHANGED <<call, made, outcome>>

(* Some of the failed writes to a variable never will.                         *)
Forget(v) ==
  /\ \A u \in Users : \A w \in Variables :
       IF w = v THEN overdue'[u][w] \subseteq overdue[u][w]
       ELSE overdue'[u][w] = overdue[u][w]
  /\ UNCHANGED <<value, call, made, outcome>>

Next ==
  \/ \E u \in Users : Happen(u) \/ Succeed(u) \/ Fail(u)
  \/ \E u \in Users : \E v \in Variables : InvokeAny(u, v) \/ HappenLate(u, v)
  \/ \E v \in Variables : Forget(v)

Spec == Init /\ [][Next]_vars
===============================================================================
