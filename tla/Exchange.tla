-------------------------------- MODULE Exchange --------------------------------
(* Clients and servers together: get and set of ua::client, the requests and   *)
(* answers on the way, the server whose callbacks hold the variable behind a   *)
(* node, connections that break, answers that come too late, servers that are  *)
(* stopped and started again, and callbacks that are clients themselves.       *)
(*                                                                            *)
(* A server is named like the one thread that serves it (ServerLifecycle). It  *)
(* has one variable; a thread has one ua::client for each server it uses.      *)
EXTENDS Naturals, Sequences, SequencesExt

CONSTANTS
  Apps,        \* application threads
  Servers,     \* servers, and the threads that serve them
  Values,      \* what a variable can hold
  Initial,     \* what it holds at first
  Uses,        \* Uses[p]: the servers thread p (if a server: its callbacks) uses
  MaxRequests, \* MaxRequests[p]: bound on the requests of thread p
  None         \* no request, no value

Users == Apps \cup Servers

ASSUME ThreadsAssumption == Apps \cap Servers = {}
ASSUME ValuesAssumption == Initial \in Values /\ None \notin Values
ASSUME UsesAssumption == Uses \in [Users -> SUBSET Servers]
ASSUME BoundAssumption == MaxRequests \in [Users -> Nat]

VARIABLES
  value,      \* value[s]: the variable of server s
  status,     \* status[s]: "down", "up" or "stopping": shutdown waits for the thread
  job,        \* job[s]: the request whose callback is running, or None
  connected,  \* the pairs <<p, s>> whose client_connected is set
  sessions,   \* the pairs <<p, s>> with a session that is alive
  queue,      \* queue[p][s]: requests on the way, in the order they were sent
  answers,    \* answers on the way
  request,    \* request[p]: the request whose answer p waits for, or None
  count,      \* count[p]: the requests p has made
  outcome,    \* outcome[p]: what the last operation of p returned, None if it threw
              \* or has not ended
  effect      \* effect[p]: None, or <<value>> once the callback for request[p] has
              \* done its work (a history variable)

link == <<connected, sessions, queue, answers>>
asking == <<request, count, outcome>>
vars == <<value, status, job, connected, sessions, queue, answers, request, count,
          outcome, effect>>

Ids == UNION {1..MaxRequests[p] : p \in Users}
Requests == [from : Users, at : Servers, id : Ids, kind : {"get", "set"},
             value : Values \cup {None}]
Answers == [to : Users, at : Servers, id : Ids, good : BOOLEAN,
            value : Values \cup {None}]
Jobs == [from : Users, id : Ids, kind : {"get", "set"}, value : Values \cup {None},
         ran : BOOLEAN]
Calls == [at : Servers, kind : {"get", "set"}, value : Values \cup {None}, done : BOOLEAN]

ASSUME NoneAssumption ==
  /\ None \notin Requests /\ None \notin Jobs /\ None \notin Calls
  /\ \A x \in Values : None # <<x>>

Init ==
  /\ value = [s \in Servers |-> Initial]
  /\ status = [s \in Servers |-> "down"]
  /\ job = [s \in Servers |-> None]
  /\ connected = {}
  /\ sessions = {}
  /\ queue = [p \in Users |-> [s \in Servers |-> <<>>]]
  /\ answers = {}
  /\ request = [p \in Users |-> None]
  /\ count = [p \in Users |-> 0]
  /\ outcome = [p \in Users |-> None]
  /\ effect = [p \in Users |-> None]

(* A thread is free to use a client; a server's is so inside a callback.        *)
Free(p) == request[p] = None /\ (p \in Servers => job[p] # None)

-------------------------------------------------------------------------------
(* The server's thread answers a new connection, and has by then taken what had  *)
(* arrived on an older one.                                                    *)
CanOpen(p, s) == status[s] = "up" /\ job[s] = None /\ queue[p][s] = <<>>

(* connect does nothing while the flag is set, be there a session or not.       *)
Connect(p, s) ==
  /\ Free(p) /\ s \in Uses[p]
  /\ <<p, s>> \notin connected
  /\ CanOpen(p, s)
  /\ connected' = connected \cup {<<p, s>>}
  /\ sessions' = sessions \cup {<<p, s>>}
  /\ UNCHANGED <<value, status, job, queue, answers, asking, effect>>

(* A connection that was lost is renewed by the library when the client is used. *)
Recover(p, s) ==
  /\ Free(p)
  /\ <<p, s>> \in connected \ sessions
  /\ CanOpen(p, s)
  /\ sessions' = sessions \cup {<<p, s>>}
  /\ UNCHANGED <<value, status, job, connected, queue, answers, asking, effect>>

(* The connection ends: the server gets some of what was on the way, the client *)
(* nothing.                                                                   *)
Cut(p, s) ==
  /\ sessions' = sessions \ {<<p, s>>}
  /\ \E arrived \in 0..Len(queue[p][s]) :
       queue' = [queue EXCEPT ![p][s] = SubSeq(@, 1, arrived)]
  /\ answers' = {a \in answers : ~(a.to = p /\ a.at = s)}

DisconnectClearsFlagOnly(p, s) ==
  /\ Free(p)
  /\ <<p, s>> \in connected
  /\ connected' = connected \ {<<p, s>>}
  /\ UNCHANGED <<value, status, job, sessions, queue, answers, asking, effect>>
Disconnect(p, s) ==
  /\ Free(p)
  /\ <<p, s>> \in connected
  /\ connected' = connected \ {<<p, s>>}
  /\ Cut(p, s)
  /\ UNCHANGED <<value, status, job, asking, effect>>

Lose(p, s) ==
  /\ <<p, s>> \in sessions
  /\ Cut(p, s)
  /\ UNCHANGED <<value, status, job, connected, asking, effect>>

-------------------------------------------------------------------------------
(* get<T> and set<T>, that is read and write: the request goes out if there is  *)
(* a session, and the thread waits.                                           *)
Ask(p, s, kind, x) ==
  /\ Free(p) /\ s \in Uses[p]
  /\ count[p] < MaxRequests[p]
  /\ LET r == [from |-> p, at |-> s, id |-> count[p] + 1, kind |-> kind, value |-> x] IN
     /\ request' = [request EXCEPT ![p] = r]
     /\ queue' = IF <<p, s>> \in sessions THEN [queue EXCEPT ![p][s] = Append(@, r)]
                 ELSE queue
  /\ count' = [count EXCEPT ![p] = @ + 1]
  /\ outcome' = [outcome EXCEPT ![p] = None]
  /\ UNCHANGED <<value, status, job, connected, sessions, answers, effect>>

Get(p, s) == Ask(p, s, "get", None)
Set(p, s) == \E x \in Values : Ask(p, s, "set", x)

(* The operation returns x, or throws (None).                                  *)
Return(p, x) ==
  /\ request' = [request EXCEPT ![p] = None]
  /\ outcome' = [outcome EXCEPT ![p] = x]
  /\ effect' = [effect EXCEPT ![p] = None]
  /\ UNCHANGED <<value, status, job, connected, sessions, queue, count>>

IsFor(a, p) == request[p] # None /\ a.to = p /\ a.at = request[p].at /\ a.id = request[p].id

(* read and write look at the status before they use the value.                *)
Receive(p) ==
  \E a \in answers :
    /\ IsFor(a, p)
    /\ answers' = answers \ {a}
    /\ Return(p, IF ~a.good THEN None
                 ELSE IF request[p].kind = "set" THEN request[p].value ELSE a.value)

(* An answer to a request that is not waited for any more is thrown away.      *)
Discard ==
  /\ \E a \in answers : ~IsFor(a, a.to) /\ answers' = answers \ {a}
  /\ UNCHANGED <<value, status, job, connected, sessions, queue, asking, effect>>

(* Nobody can answer any more: the service fails, read and write throw.        *)
ConnectionLost(p) ==
  /\ request[p] # None /\ <<p, request[p].at>> \notin sessions
  /\ Return(p, None)
  /\ UNCHANGED answers

(* config.timeout has passed; the request stays where it is.                   *)
TimedOut(p) ==
  /\ request[p] # None /\ <<p, request[p].at>> \in sessions
  /\ Return(p, None)
  /\ UNCHANGED answers

-------------------------------------------------------------------------------
(* The server's thread takes a request and looks up its callback.              *)
Serve(s, p) ==
  /\ status[s] = "up" /\ job[s] = None
  /\ queue[p][s] # <<>>
  /\ LET r == Head(queue[p][s]) IN
     job' = [job EXCEPT ![s] = [from |-> r.from, id |-> r.id, kind |-> r.kind,
                                value |-> r.value, ran |-> FALSE]]
  /\ queue' = [queue EXCEPT ![p][s] = Tail(@)]
  /\ UNCHANGED <<value, status, connected, sessions, answers, asking, effect>>

IsCurrent(s) ==
  LET p == job[s].from IN request[p] # None /\ request[p].at = s /\ request[p].id = job[s].id

(* The callback stores what the request brings, or fills the answer.           *)
CallbackRuns(s) ==
  /\ job[s] # None /\ ~job[s].ran /\ request[s] = None
  /\ LET x == IF job[s].kind = "set" THEN job[s].value ELSE value[s] IN
     /\ value' = [value EXCEPT ![s] = x]
     /\ job' = [job EXCEPT ![s].ran = TRUE, ![s].value = x]
     /\ effect' = IF IsCurrent(s) THEN [effect EXCEPT ![job[s].from] = <<x>>] ELSE effect
  /\ UNCHANGED <<status, link, asking>>

(* The handler's status goes back over the session, if it is still there.      *)
Answer(s, good) ==
  /\ answers' = answers \cup
       (IF <<job[s].from, s>> \in sessions
        THEN {[to |-> job[s].from, at |-> s, id |-> job[s].id, good |-> good,
               value |-> IF good THEN job[s].value ELSE None]}
        ELSE {})
  /\ job' = [job EXCEPT ![s] = None]
  /\ UNCHANGED <<value, status, connected, sessions, queue, asking, effect>>

CallbackReturns(s) == job[s] # None /\ job[s].ran /\ request[s] = None /\ Answer(s, TRUE)

(* The callback throws, before or after it has had its effect; the handler      *)
(* catches and returns a bad status.                                          *)
CallbackThrowsAnswersGood(s) == job[s] # None /\ request[s] = None /\ Answer(s, TRUE)
CallbackThrows(s) == job[s] # None /\ request[s] = None /\ Answer(s, FALSE)

-------------------------------------------------------------------------------
(* run_async, by an application thread.                                        *)
Start(s) ==
  /\ status[s] = "down"
  /\ status' = [status EXCEPT ![s] = "up"]
  /\ UNCHANGED <<value, job, link, asking, effect>>

(* shutdown, by an application thread or in a callback: the library closes the  *)
(* sessions, and whoever waits for an answer gets an error.                    *)
ShutdownKeepsSessions(s) ==
  /\ status[s] = "up"
  /\ status' = [status EXCEPT ![s] = "stopping"]
  /\ UNCHANGED <<value, job, link, asking, effect>>
Shutdown(s) ==
  /\ status[s] = "up"
  /\ status' = [status EXCEPT ![s] = "stopping"]
  /\ sessions' = {c \in sessions : c[2] # s}
  /\ queue' = [p \in Users |-> [queue[p] EXCEPT ![s] = <<>>]]
  /\ answers' = {a \in answers : a.at # s}
  /\ UNCHANGED <<value, job, connected, asking, effect>>

(* The thread has left its loop and is joined.                                 *)
Joined(s) ==
  /\ status[s] = "stopping" /\ job[s] = None
  /\ status' = [status EXCEPT ![s] = "down"]
  /\ UNCHANGED <<value, job, link, asking, effect>>

-------------------------------------------------------------------------------
Next ==
  \/ Discard
  \/ \E p \in Users : Receive(p) \/ ConnectionLost(p) \/ TimedOut(p)
  \/ \E p \in Users : \E s \in Servers :
       \/ Connect(p, s) \/ Disconnect(p, s) \/ Lose(p, s) \/ Recover(p, s)
       \/ Get(p, s) \/ Set(p, s) \/ Serve(s, p)
  \/ \E s \in Servers :
       \/ CallbackRuns(s) \/ CallbackReturns(s) \/ CallbackThrows(s)
       \/ Start(s) \/ Shutdown(s) \/ Joined(s)

(* The server's thread serves every connection that has something for it, its   *)
(* callbacks end, and the library hands an answer or the loss of a connection   *)
(* to the thread that waits. That a time-out passes is not assumed.            *)
Fairness ==
  /\ \A p \in Users : Uses[p] # {} => WF_vars(Receive(p)) /\ WF_vars(ConnectionLost(p))
  /\ \A s \in Servers : /\ \A p \in {q \in Users : s \in Uses[q]} : SF_vars(Serve(s, p))
                        /\ WF_vars(CallbackRuns(s))
                        /\ WF_vars(CallbackReturns(s) \/ CallbackThrows(s))
                        /\ WF_vars(Joined(s))

Spec == Init /\ [][Next]_vars /\ Fairness

-------------------------------------------------------------------------------
TypeOK ==
  /\ value \in [Servers -> Values]
  /\ status \in [Servers -> {"down", "up", "stopping"}]
  /\ job \in [Servers -> Jobs \cup {None}]
  /\ connected \subseteq Users \X Servers /\ sessions \subseteq connected
  /\ queue \in [Users -> [Servers -> Seq(Requests)]]
  /\ answers \subseteq Answers
  /\ request \in [Users -> Requests \cup {None}]
  /\ count \in [Users -> Nat] /\ \A p \in Users : count[p] <= MaxRequests[p]
  /\ outcome \in [Users -> Values \cup {None}]
  /\ effect \in [Users -> {None} \cup {<<x>> : x \in Values}]

(* Writes nobody waits for any more: at most one in a callback that has not had  *)
(* its effect, the others on the way.                                          *)
Waited(p, id) == request[p] # None /\ request[p].id = id
Late(p, r) == r.kind = "set" /\ ~Waited(p, r.id)
Pending(p, s) == job[s] # None /\ job[s].from = p /\ ~job[s].ran /\ Late(p, job[s])

Overdue(p, s) ==
  {[number |-> r.id, value |-> r.value] :
     r \in {q \in Range(queue[p][s]) : Late(p, q)} \cup {j \in {job[s]} : Pending(p, s)}}

CallOf(p) ==
  IF request[p] = None THEN None
  ELSE [at |-> request[p].at, kind |-> request[p].kind,
        value |-> IF effect[p] = None THEN request[p].value ELSE effect[p][1],
        done |-> effect[p] # None]

Remote == INSTANCE RemoteVariable WITH
  Variables <- Servers,
  made <- count,
  call <- [p \in Users |-> CallOf(p)],
  overdue <- [p \in Users |-> [s \in Servers |-> Overdue(p, s)]]

(* What get and set promise: an operation that returns has happened in between, *)
(* once, and what it returns is what the callback saw then; one that throws may *)
(* have happened, or happen later, but not after a later one of the same thread.*)
ImplementsRemote == Remote!Spec

(* Every get and set returns or throws, without any time-out, as long as the    *)
(* servers do not use each other in a circle: neither a callback that throws    *)
(* nor a server that is stopped leaves a client waiting.                       *)
OperationsEnd == \A p \in Users : request[p] # None ~> request[p] = None

(* shutdown returns, also while a callback waits for another server.           *)
StopsEnd == \A s \in Servers : status[s] = "stopping" ~> status[s] = "down"
===============================================================================
