--------------------------- MODULE ServerLifecycle ---------------------------
(* The life of one ua::server: construction, the run_* family, shutdown and    *)
(* destruction, as called by application threads and, from inside a callback, *)
(* by the thread that serves requests.                                        *)
(*                                                                            *)
(* A step is one access to the state the threads share: the volatile flag     *)
(* server_running, the pointer server_runner, or the UA_Server behind them.   *)
(* The UA_Server itself (start, iterate, stop) is a library; it is reduced to  *)
(* started or stopped and may refuse to start or to stop.                     *)
CONSTANTS
  Threads,        \* application threads
  Owner,          \* the one that constructs and destroys the server
  Runners,        \* the std::thread objects run_async can create
  Calls,          \* Calls[t]: the operations thread t uses
  CallbackCalls,  \* the operations a callback uses while it is being served
  Failures,       \* the failures that can happen: subset of "new", "start", "stop", "thread"
  None            \* the null pointer

Operations == {"run_async", "run", "run_sync_begin", "run_sync_end",
               "run_sync_step", "run_sync_loop", "shutdown", "destroy"}

ASSUME OwnerAssumption == Owner \in Threads
ASSUME ThreadsAssumption == Threads \cap Runners = {} /\ None \notin Threads \cup Runners
ASSUME CallsAssumption == /\ Calls \in [Threads -> SUBSET Operations]
                          /\ \A t \in Threads \ {Owner} : "destroy" \notin Calls[t]
ASSUME CallbackAssumption == CallbackCalls \subseteq {"run_sync_end", "shutdown"}
ASSUME FailuresAssumption == Failures \subseteq {"new", "start", "stop", "thread"}

Procs == Threads \cup Runners

VARIABLES
  alive,       \* the server object exists
  running,     \* server_running
  runner,      \* server_runner: a Runner or None
  lib,         \* the UA_Server: "stopped" or "started"
  spawned,     \* spawned[t]: the thread t has created and not yet stored in server_runner
  pc,          \* pc[p]: where p is in its operation
  op,          \* op[p]: the operation p executes, "none" outside
  outer,       \* outer[p]: the serving operation a callback on p was called from
  raised,      \* raised[t]: the last operation t called from the outside threw
  terminated   \* std::terminate has been called

object == <<alive, running, runner, lib>>
control == <<pc, op, outer, raised>>
vars == <<alive, running, runner, lib, spawned, pc, op, outer, raised, terminated>>

Locations == {"idle", "ended", "enter", "begin_check", "startup", "publish",
              "spawn", "assign", "loop_check", "iterate", "end_check", "end_clear",
              "stop", "join"}

Init ==
  /\ alive = FALSE
  /\ running = FALSE
  /\ runner = None
  /\ lib = "stopped"
  /\ spawned = [p \in Procs |-> None]
  /\ pc = [p \in Procs |-> IF p \in Threads THEN "idle" ELSE "ended"]
  /\ op = [p \in Procs |-> "none"]
  /\ outer = [p \in Procs |-> "none"]
  /\ raised = [p \in Procs |-> FALSE]
  /\ terminated = FALSE

-------------------------------------------------------------------------------
Goto(p, location) ==
  /\ pc' = [pc EXCEPT ![p] = location]
  /\ UNCHANGED <<op, outer, raised>>

(* Where a thread is outside every operation: an application thread is idle,   *)
(* a runner has not been created or its function has returned.                *)
Rest(p) == IF p \in Threads THEN "idle" ELSE "ended"

(* The operation of p returns or throws: to the caller, or, when a callback    *)
(* made the call, to the iterate it is being served by (the dispatch handlers *)
(* catch what the callback lets out).                                         *)
Finish(p, threw) ==
  /\ pc' = [pc EXCEPT ![p] = IF outer[p] = "none" THEN Rest(p) ELSE "iterate"]
  /\ op' = [op EXCEPT ![p] = outer[p]]
  /\ outer' = [outer EXCEPT ![p] = "none"]
  /\ raised' = [raised EXCEPT ![p] = threw /\ outer[p] = "none"]

(* An error inside the destructor, which is noexcept, ends the program.        *)
Fail(p) ==
  IF op[p] = "destroy"
  THEN terminated' = TRUE /\ UNCHANGED control
  ELSE Finish(p, TRUE) /\ UNCHANGED terminated

FirstLocation(f) ==
  CASE f \in {"run_async", "run"} -> "enter"
    [] f = "run_sync_begin" -> "begin_check"
    [] f \in {"run_sync_step", "run_sync_loop"} -> "loop_check"
    [] f \in {"run_sync_end", "shutdown", "destroy"} -> "end_check"

(* What follows a run_sync_begin that did not throw.                           *)
Begun(p) ==
  CASE op[p] = "run_async" -> Goto(p, "spawn")
    [] op[p] = "run" -> Goto(p, "loop_check")
    [] OTHER -> Finish(p, FALSE)

(* What follows a run_sync_end that did not throw.                             *)
Ended(p) ==
  IF op[p] = "run_sync_end" THEN Finish(p, FALSE) ELSE Goto(p, "join")

-------------------------------------------------------------------------------
(* The constructor: it throws when UA_ServerConfig_setMinimal fails.           *)
Construct(t) ==
  /\ ~alive
  /\ t = Owner
  /\ pc[t] = "idle"
  /\ \/ /\ alive' = TRUE
        /\ running' = FALSE
        /\ runner' = None
        /\ lib' = "stopped"
        /\ raised' = [raised EXCEPT ![t] = FALSE]
     \/ /\ "new" \in Failures
        /\ raised' = [raised EXCEPT ![t] = TRUE]
        /\ UNCHANGED object
  /\ UNCHANGED <<spawned, pc, op, outer, terminated>>

(* An application thread calls operation f. Destroying an object another       *)
(* application thread is using is the caller's mistake.                       *)
Call(t, f) ==
  /\ alive
  /\ pc[t] = "idle"
  /\ f \in Calls[t]
  /\ f = "destroy" => \A u \in Threads \ {t} : pc[u] = "idle"
  /\ pc' = [pc EXCEPT ![t] = FirstLocation(f)]
  /\ op' = [op EXCEPT ![t] = f]
  /\ UNCHANGED <<object, spawned, outer, raised, terminated>>

(* A getter, setter or method callback, served by p, calls operation f.        *)
CallbackCall(p, f) ==
  /\ pc[p] = "iterate"
  /\ outer[p] = "none"
  /\ f \in CallbackCalls
  /\ pc' = [pc EXCEPT ![p] = FirstLocation(f)]
  /\ op' = [op EXCEPT ![p] = f]
  /\ outer' = [outer EXCEPT ![p] = op[p]]
  /\ UNCHANGED <<object, spawned, raised, terminated>>

(* run_async and run: nothing to do when the server runs already. run_async    *)
(* first joins the thread of an earlier round, run does not.                  *)
EnterCheck(p) ==
  /\ pc[p] = "enter"
  /\ \/ running /\ Finish(p, FALSE)
     \/ ~running /\ Goto(p, IF op[p] = "run_async" THEN "join" ELSE "begin_check")
  /\ UNCHANGED <<object, spawned, terminated>>

BeginCheck(p) ==
  /\ pc[p] = "begin_check"
  /\ \/ running /\ Begun(p)
     \/ ~running /\ Goto(p, "startup")
  /\ UNCHANGED <<object, spawned, terminated>>

(* UA_Server_run_startup. A server that is started refuses to start.           *)
StartupHalfway(p) ==
  /\ pc[p] = "startup"
  /\ \/ /\ lib = "stopped"
        /\ lib' = "started"
        /\ Goto(p, "publish")
        /\ UNCHANGED running
     \/ /\ "start" \in Failures
        /\ lib' = "halfway"
        /\ running' = FALSE
        /\ Finish(p, TRUE)
  /\ UNCHANGED <<alive, runner, spawned, terminated>>
Startup(p) ==
  /\ pc[p] = "startup"
  /\ \/ /\ lib = "stopped"
        /\ lib' = "started"
        /\ Goto(p, "publish")
        /\ UNCHANGED running
     \/ /\ lib = "started" \/ "start" \in Failures
        /\ running' = FALSE
        /\ Finish(p, TRUE)
        /\ UNCHANGED lib
  /\ UNCHANGED <<alive, runner, spawned, terminated>>

(* server_running = (status == UA_STATUSCODE_GOOD)                             *)
Publish(p) ==
  /\ pc[p] = "publish"
  /\ running' = TRUE
  /\ Begun(p)
  /\ UNCHANGED <<alive, runner, lib, spawned, terminated>>

(* new std::thread: the thread enters run_sync_loop at once, before            *)
(* server_runner points to it. When no thread can be created the constructor  *)
(* throws and the flag keeps the value run_sync_begin gave it.                *)
Spawn(t) ==
  /\ pc[t] = "spawn"
  /\ \/ \E r \in Runners :
          /\ pc[r] = "ended"
          /\ r # runner /\ \A u \in Procs : r # spawned[u]
          /\ pc' = [pc EXCEPT ![r] = "loop_check", ![t] = "assign"]
          /\ op' = [op EXCEPT ![r] = "run_sync_loop"]
          /\ spawned' = [spawned EXCEPT ![t] = r]
          /\ UNCHANGED <<outer, raised>>
     \/ /\ "thread" \in Failures
        /\ Finish(t, TRUE)
        /\ UNCHANGED spawned
  /\ UNCHANGED <<object, terminated>>

(* server_runner = ...: replacing a std::thread that was not joined destroys   *)
(* it, and the destructor of a joinable std::thread terminates the program.   *)
Assign(t) ==
  /\ pc[t] = "assign"
  /\ IF runner = None
     THEN /\ runner' = spawned[t]
          /\ spawned' = [spawned EXCEPT ![t] = None]
          /\ Finish(t, FALSE)
          /\ UNCHANGED terminated
     ELSE /\ terminated' = TRUE
          /\ UNCHANGED <<runner, spawned, control>>
  /\ UNCHANGED <<alive, running, lib>>

(* if/while (server_running) before an iterate. A runner that leaves the loop  *)
(* stays joinable until somebody joins it.                                    *)
LoopCheckUnguarded(p) ==
  /\ pc[p] = "loop_check"
  /\ Goto(p, "iterate")
  /\ UNCHANGED <<object, spawned, terminated>>
LoopCheckInverted(p) ==
  /\ pc[p] = "loop_check"
  /\ \/ ~running /\ Goto(p, "iterate")
     \/ running /\ Finish(p, FALSE)
  /\ UNCHANGED <<object, spawned, terminated>>
LoopCheck(p) ==
  /\ pc[p] = "loop_check"
  /\ \/ running /\ Goto(p, "iterate")
     \/ ~running /\ Finish(p, FALSE)
  /\ UNCHANGED <<object, spawned, terminated>>

IterateReturn(p) ==
  /\ pc[p] = "iterate"
  /\ \/ op[p] = "run_sync_step" /\ Finish(p, FALSE)
     \/ op[p] # "run_sync_step" /\ Goto(p, "loop_check")
  /\ UNCHANGED <<object, spawned, terminated>>

EndCheckAlwaysStops(p) ==
  /\ pc[p] = "end_check"
  /\ Goto(p, "end_clear")
  /\ UNCHANGED <<object, spawned, terminated>>
EndCheck(p) ==
  /\ pc[p] = "end_check"
  /\ \/ running /\ Goto(p, "end_clear")
     \/ ~running /\ Ended(p)
  /\ UNCHANGED <<object, spawned, terminated>>

EndClearForgotten(p) ==
  /\ pc[p] = "end_clear"
  /\ Goto(p, "stop")
  /\ UNCHANGED <<object, spawned, terminated>>
EndClear(p) ==
  /\ pc[p] = "end_clear"
  /\ running' = FALSE
  /\ Goto(p, "stop")
  /\ UNCHANGED <<alive, runner, lib, spawned, terminated>>

(* UA_Server_run_shutdown. A server that is not started refuses to stop.       *)
Stop(p) ==
  /\ pc[p] = "stop"
  /\ \/ /\ lib = "started"
        /\ lib' = "stopped"
        /\ Ended(p)
        /\ UNCHANGED terminated
     \/ /\ lib = "stopped" \/ "stop" \in Failures
        /\ Fail(p)
        /\ UNCHANGED lib
  /\ UNCHANGED <<alive, running, runner, spawned>>

(* What follows the join block, runner pointing nowhere.                       *)
Joined(p) ==
  CASE op[p] = "run_async" -> Goto(p, "begin_check") /\ UNCHANGED alive
    [] op[p] = "destroy" -> Finish(p, FALSE) /\ alive' = FALSE
    [] OTHER -> Finish(p, FALSE) /\ UNCHANGED alive

(* if (server_runner != nullptr) { join; server_runner = nullptr; }            *)
(* A thread that joins itself gets a std::system_error.                       *)
JoinWithoutWaiting(p) ==
  /\ pc[p] = "join"
  /\ runner' = None
  /\ Joined(p)
  /\ UNCHANGED <<running, lib, spawned, terminated>>
JoinKeepsPointer(p) ==
  /\ pc[p] = "join"
  /\ \/ runner = None
     \/ runner # None /\ pc[runner] = "ended"
  /\ Joined(p)
  /\ UNCHANGED <<running, runner, lib, spawned, terminated>>
Join(p) ==
  /\ pc[p] = "join"
  /\ \/ runner = None /\ Joined(p) /\ UNCHANGED <<runner, terminated>>
     \/ runner = p /\ Fail(p) /\ UNCHANGED <<alive, runner>>
     \/ /\ runner \notin {None, p}
        /\ pc[runner] = "ended"
        /\ runner' = None
        /\ Joined(p)
        /\ UNCHANGED terminated
  /\ UNCHANGED <<running, lib, spawned>>

-------------------------------------------------------------------------------
(* The steps a thread owes once it is inside an operation.                     *)
Step(p) ==
  \/ EnterCheck(p) \/ BeginCheck(p) \/ Startup(p) \/ Publish(p)
  \/ Spawn(p) \/ Assign(p)
  \/ LoopCheck(p) \/ IterateReturn(p)
  \/ EndCheck(p) \/ EndClear(p) \/ Stop(p) \/ Join(p)

Gone == terminated /\ UNCHANGED vars

Next ==
  \/ /\ ~terminated
     /\ \/ \E t \in Threads : Construct(t)
        \/ \E t \in Threads : \E f \in Operations : Call(t, f)
        \/ \E p \in Procs : \E f \in CallbackCalls : CallbackCall(p, f)
        \/ \E p \in Procs : Step(p)
  \/ Gone

(* The operating system schedules every thread that can run, and an iterate    *)
(* returns: it serves what has arrived, or waits one timeout. What the        *)
(* application and the callbacks call is theirs to decide.                    *)
Fairness ==
  \A p \in Procs : /\ WF_vars(~terminated /\ Step(p))
                   /\ SF_vars(~terminated /\ IterateReturn(p))

Spec == Init /\ [][Next]_vars /\ Fairness

-------------------------------------------------------------------------------
TypeOK ==
  /\ alive \in BOOLEAN /\ running \in BOOLEAN /\ terminated \in BOOLEAN
  /\ runner \in Runners \cup {None}
  /\ lib \in {"stopped", "started"}
  /\ spawned \in [Procs -> Runners \cup {None}]
  /\ pc \in [Procs -> Locations]
  /\ op \in [Procs -> Operations \cup {"none"}]
  /\ outer \in [Procs -> Operations \cup {"none"}]
  /\ raised \in [Procs -> BOOLEAN]

(* p is inside UA_Server_run_iterate, perhaps in a callback it made.           *)
Serving(p) == pc[p] = "iterate" \/ outer[p] # "none"

(* p is in a loop of the server, or in a callback that its iterate has made.   *)
Looping(p) ==
  \/ op[p] \in {"run", "run_sync_loop"} /\ pc[p] \in {"loop_check", "iterate"}
  \/ outer[p] \in {"run", "run_sync_loop"}

(* The UA_Server is not made for two threads: whatever run_async, its runner,  *)
(* shutdown and callbacks interleave, at most one thread is inside iterate.   *)
OneLoop == \A p, q \in Procs : Serving(p) /\ Serving(q) => p = q

(* No thread is inside iterate, or stopping the UA_Server, while another one   *)
(* starts it (run_async joins the old runner before it starts anew).          *)
StartupAlone ==
  \A p, q \in Procs : pc[p] \in {"startup", "publish"} /\ p # q
                      => ~Serving(q) /\ pc[q] # "stop"

(* The flag never promises more than the library does: a server that says it   *)
(* runs is started, in every interleaving of starts, stops and loops.         *)
RunningImpliesStarted == running => lib = "started"

(* Once the destructor is through, no thread is inside the object: the runner  *)
(* it created no longer reads the flag or serves from freed memory.           *)
NoUseAfterDestroy == ~alive => \A p \in Procs : pc[p] = Rest(p)

(* A shutdown that returns normally leaves nothing behind: the flag is         *)
(* cleared, the runner joined, no thread loops, and the library is stopped    *)
(* unless a stop was refused earlier.                                         *)
ShutdownQuiesces ==
  [][\A t \in Threads :
       /\ op[t] = "shutdown" /\ outer[t] = "none"
       /\ op'[t] = "none" /\ ~raised'[t]
       => /\ ~running' /\ runner' = None
          /\ \A r \in Runners : pc'[r] = "ended"
          /\ "stop" \notin Failures => lib' = "stopped"]_vars

(* The destructor cannot fail as long as the library stops when it is told to  *)
(* and no callback stops the server at the same time.                         *)
NeverTerminates == ~terminated

(* shutdown, and the destructor, come back, or end the program: the loop they  *)
(* wait for sees the cleared flag.                                            *)
ShutdownReturns ==
  \A t \in Threads : op[t] \in {"shutdown", "destroy"} /\ outer[t] = "none"
                     ~> op[t] = "none" \/ terminated

(* A loop whose flag was cleared, by whichever thread, ends before anything    *)
(* can set the flag again.                                                    *)
StoppedLoopsEnd ==
  \A p \in Procs : ~running /\ Looping(p) ~> ~Looping(p) \/ terminated

(* A server that run_async reports as running gets served, unless somebody     *)
(* stops it first.                                                            *)
RunningIsServed ==
  running /\ runner # None ~> ~running \/ (\E p \in Procs : Serving(p)) \/ terminated

(* What the lifecycle promises its users, as a specification of its own: the   *)
(* flag is what clients see as open, and a thread inside iterate serves.      *)
ServingThread ==
  IF ~terminated /\ \E p \in Procs : Serving(p)
  THEN CHOOSE p \in Procs : Serving(p) ELSE None
Service == INSTANCE ServerService WITH
  Server <- Procs, NoOne <- None, open <- running, serving <- ServingThread
ImplementsService == Service!Spec
===============================================================================
