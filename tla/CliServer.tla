------------------------------ MODULE CliServer ------------------------------
(* UA::Server, the C++/CLI wrapper: it owns a ua::server, and instead of its   *)
(* run_async runs run_sync_loop on a managed thread of its own. Two pointers   *)
(* have to be put away in the right order, the native server and the thread.  *)
(*                                                                            *)
(* An application uses RunAsync, or has a thread of its own that blocks in     *)
(* Run; whoever controls the server shuts it down and disposes of it, and the  *)
(* callbacks may call Shutdown too, from inside the loop it is to end.         *)
CONSTANTS
  Threads,           \* the managed threads RunAsync can create
  Main,              \* the application's thread that calls Run
  DisposeRunning,    \* Dispose is called on a server that was not shut down
  Failures,          \* what may fail: the library's "start" and "stop", a "thread"
  None

ASSUME ConstantsAssumption ==
  /\ None \notin Threads \cup {Main} /\ Main \notin Threads
  /\ DisposeRunning \in BOOLEAN
  /\ Failures \subseteq {"start", "stop", "thread"}

Procs == Threads \cup {Main}

VARIABLES
  style,     \* how the application runs the server: "async" or "blocking"
  native,    \* the ua::server behind "server": "alive" or "deleted"
  pointer,   \* server # nullptr
  running,   \* server->running()
  lib,       \* the UA_Server: "stopped" or "started"
  thread,    \* the field "thread": a managed thread or None
  disposed,
  aborted,   \* the threads that somebody has called Abort for
  pc,        \* pc[t]: where the thread t is; "ended" also before it is created
  op,        \* where the application is in its call
  raised     \* the last call of the application threw

object == <<style, native, pointer, running, lib, thread, disposed>>
vars == <<style, native, pointer, running, lib, thread, disposed, aborted, pc, op, raised>>

Init ==
  /\ style \in {"async", "blocking"}
  /\ native = "alive"
  /\ pointer = TRUE
  /\ running = FALSE
  /\ lib = "stopped"
  /\ thread = None
  /\ disposed = FALSE
  /\ aborted = {}
  /\ pc = [t \in Procs |-> "ended"]
  /\ op = "idle"
  /\ raised = FALSE

-------------------------------------------------------------------------------
(* A thread has not ended as long as it may still enter the native server, and *)
(* is inside it from its first check of the flag on.                           *)
Inside(t) == pc[t] \in {"loop", "iterate", "stop", "join"}
Alive(t) == pc[t] = "ready" \/ Inside(t)

(* It is in a callback, or in the library, between two checks of the flag.     *)
InService(t) == pc[t] \in {"iterate", "stop", "join"}

(* Join(1000) may give up on a thread that is in a callback, or that goes on    *)
(* because the server has been started again; a new thread starts in time.     *)
Late(t) == InService(t) \/ (running /\ pc[t] = "loop")

-------------------------------------------------------------------------------
(* RunAsync: nothing to do while there is a thread or the server runs. The     *)
(* number of Threads bounds how many can be alive. RunAsyncPrep is             *)
(* run_sync_begin; its exception leaves RunAsync.                              *)
RunAsync ==
  /\ style = "async"
  /\ op = "idle" /\ pointer
  /\ thread = None /\ ~running
  /\ \E t \in Threads : pc[t] = "ended"
  /\ \/ /\ lib = "stopped"
        /\ lib' = "started" /\ running' = TRUE
        /\ op' = "start"
        /\ UNCHANGED raised
     \/ /\ lib = "started" \/ "start" \in Failures
        /\ raised' = TRUE
        /\ UNCHANGED <<running, lib, op>>
  /\ UNCHANGED <<style, native, pointer, thread, disposed, aborted, pc>>

(* The field is set before Thread::Start can fail: then the server is started,  *)
(* and the field holds a thread that was never started.                        *)
Start ==
  /\ op = "start"
  /\ \E t \in Threads :
       /\ pc[t] = "ended"
       /\ thread' = t
       /\ aborted' = aborted \ {t}
       /\ \/ pc' = [pc EXCEPT ![t] = "ready"] /\ raised' = FALSE
          \/ /\ "thread" \in Failures
             /\ pc' = [pc EXCEPT ![t] = "unstarted"] /\ raised' = TRUE
  /\ op' = "idle"
  /\ UNCHANGED <<style, native, pointer, running, lib, disposed>>

(* Run, once it has started the server (a start that fails changes nothing):     *)
(* the thread loops in native code. Nobody calls it on a server that is being   *)
(* disposed of.                                                               *)
Run ==
  /\ style = "blocking" /\ pc[Main] = "ended"
  /\ op \in {"idle", "shutdown", "shutdown: stop", "join"} /\ pointer
  /\ ~running /\ lib = "stopped"
  /\ lib' = "started" /\ running' = TRUE
  /\ pc' = [pc EXCEPT ![Main] = "loop"]
  /\ UNCHANGED <<style, native, pointer, thread, disposed, aborted, op, raised>>

(* RunAsyncLoop: the thread checks the pointer, then loops in native code. It   *)
(* throws, on a thread where nobody catches it, if the server is gone.         *)
LoopStart(t) ==
  /\ pc[t] = "ready"
  /\ pc' = [pc EXCEPT ![t] = IF disposed \/ ~pointer THEN "dead" ELSE "loop"]
  /\ UNCHANGED <<object, aborted, op, raised>>

(* while (server_running): read from freed memory, the flag is anything.       *)
LoopCheckMisses(t) ==
  /\ pc[t] = "loop"
  /\ pc' = [pc EXCEPT ![t] = "iterate"]
  /\ UNCHANGED <<object, aborted, op, raised>>
LoopCheck(t) ==
  /\ pc[t] = "loop"
  /\ \E flag \in BOOLEAN :
       /\ native = "alive" => (flag <=> running)
       /\ pc' = [pc EXCEPT ![t] = IF flag THEN "iterate" ELSE "ended"]
  /\ UNCHANGED <<object, aborted, op, raised>>

IterateReturn(t) ==
  /\ pc[t] = "iterate"
  /\ pc' = [pc EXCEPT ![t] = "loop"]
  /\ UNCHANGED <<object, aborted, op, raised>>

-------------------------------------------------------------------------------
(* A callback calls Shutdown. Its first half is the native shutdown: the flag    *)
(* is cleared, then the library stopped, which it may refuse; finally follows.  *)
ShutdownInside(t) ==
  /\ pc[t] = "iterate"
  /\ pointer
  /\ running' = FALSE
  /\ pc' = [pc EXCEPT ![t] = IF running THEN "stop" ELSE "join"]
  /\ UNCHANGED <<style, native, pointer, lib, thread, disposed, aborted, op, raised>>

StopInside(t) ==
  /\ pc[t] = "stop"
  /\ lib' \in {"stopped"} \cup IF "stop" \in Failures THEN {lib} ELSE {}
  /\ pc' = [pc EXCEPT ![t] = "join"]
  /\ UNCHANGED <<style, native, pointer, running, thread, disposed, aborted, op, raised>>

(* Its second half joins the thread of the field, which is as a rule the thread *)
(* of the callback itself: Join gives up after a second, Abort is for itself,  *)
(* and whether the field is cleared before the abort is thrown is left open.   *)
(* A thread that was never started cannot be joined: Join throws.              *)
JoinInside(t) ==
  /\ pc[t] = "join"
  /\ \/ /\ thread # None => pc[thread] \in {"ended", "dead"}
        /\ thread' = None /\ UNCHANGED aborted
     \/ /\ thread # None /\ pc[thread] = "unstarted"
        /\ UNCHANGED <<thread, aborted>>
     \/ /\ thread # None /\ Late(thread)
        /\ aborted' = aborted \cup {thread}
        /\ thread' \in {None} \cup IF thread = t THEN {t} ELSE {}
  /\ pc' = [pc EXCEPT ![t] = "iterate"]
  /\ UNCHANGED <<style, native, pointer, running, lib, disposed, op, raised>>

(* An abort is thrown in the managed code of a callback. If no handler below it *)
(* takes it for an exception of the callback, it ends the thread.              *)
AbortTakesEffect(t) ==
  /\ pc[t] = "iterate" /\ t \in aborted
  /\ pc' = [pc EXCEPT ![t] = "ended"]
  /\ UNCHANGED <<object, aborted, op, raised>>

-------------------------------------------------------------------------------
(* The application's Shutdown, and Dispose (~Server and !Server), begin with    *)
(* the native shutdown. A Dispose after one that threw finds no native server. *)
Shutdown ==
  /\ op = "idle" /\ pointer
  /\ op' = "shutdown"
  /\ UNCHANGED <<object, aborted, pc, raised>>

Dispose ==
  /\ op = "idle" /\ ~disposed
  /\ pc[Main] = "ended"
  /\ \/ DisposeRunning
     \/ ~running /\ (thread # None => pc[thread] = "unstarted")
  /\ op' = IF pointer THEN "dispose" ELSE "join last"
  /\ UNCHANGED <<object, aborted, pc, raised>>

(* run_sync_end: the flag is cleared, then the library stopped.                *)
Clear ==
  /\ op \in {"shutdown", "dispose"}
  /\ \/ running /\ op' = IF op = "shutdown" THEN "shutdown: stop" ELSE "dispose: stop"
     \/ ~running /\ op' = IF op = "shutdown" THEN "join" ELSE "delete"
  /\ running' = FALSE
  /\ raised' = FALSE
  /\ UNCHANGED <<style, native, pointer, lib, thread, disposed, aborted, pc>>

(* A failure reaches the application from Shutdown, after Join; Dispose        *)
(* swallows it. Either way the finally block follows.                         *)
StopSkipsJoin ==
  /\ op \in {"shutdown: stop", "dispose: stop"}
  /\ lib' = "stopped"
  /\ op' = IF op = "shutdown: stop" THEN "idle" ELSE "delete"
  /\ thread' = IF op = "shutdown: stop" THEN None ELSE thread
  /\ UNCHANGED <<style, native, pointer, running, disposed, aborted, pc, raised>>
Stop ==
  /\ op \in {"shutdown: stop", "dispose: stop"}
  /\ op' = IF op = "shutdown: stop" THEN "join" ELSE "delete"
  /\ \/ lib = "started" /\ lib' = "stopped" /\ UNCHANGED raised
     \/ /\ lib = "stopped" \/ "stop" \in Failures
        /\ raised' = (op = "shutdown: stop")
        /\ UNCHANGED lib
  /\ UNCHANGED <<style, native, pointer, running, thread, disposed, aborted, pc>>

(* delete server; server = nullptr. Only then does Dispose look at the thread. *)
DeleteStoresNull ==
  /\ op = "delete"
  /\ native' = "deleted"
  /\ pointer' = None
  /\ op' = "join last"
  /\ UNCHANGED <<style, running, lib, thread, disposed, aborted, pc, raised>>
Delete ==
  /\ op = "delete"
  /\ native' = "deleted"
  /\ pointer' = FALSE
  /\ op' = "join last"
  /\ UNCHANGED <<style, running, lib, thread, disposed, aborted, pc, raised>>

(* Join(1000) and, when it gives up, Abort.                                     *)
Join ==
  /\ op \in {"join", "join last"}
  /\ \/ /\ thread # None => pc[thread] \in {"ended", "dead"}
        /\ UNCHANGED aborted
     \/ /\ thread # None /\ Late(thread)
        /\ aborted' = aborted \cup {thread}
  /\ thread' = None
  /\ disposed' = (op = "join last")
  /\ op' = "idle"
  /\ UNCHANGED <<style, native, pointer, running, lib, pc, raised>>

(* A thread that was never started makes Join throw: Shutdown keeps the field,  *)
(* Dispose clears it and throws before the object is marked as disposed.       *)
JoinThrows ==
  /\ op \in {"join", "join last"}
  /\ thread # None /\ pc[thread] = "unstarted"
  /\ \/ op = "join" /\ UNCHANGED <<thread, pc>>
     \/ /\ op = "join last"
        /\ thread' = None /\ pc' = [pc EXCEPT ![thread] = "ended"]
  /\ op' = "idle"
  /\ raised' = TRUE
  /\ UNCHANGED <<style, native, pointer, running, lib, disposed, aborted>>

Step(t) ==
  LoopStart(t) \/ LoopCheck(t) \/ IterateReturn(t) \/ StopInside(t) \/ JoinInside(t)

Next ==
  \/ RunAsync \/ Run \/ Start \/ Shutdown \/ Dispose \/ Clear \/ Stop \/ Delete
  \/ Join \/ JoinThrows
  \/ \E t \in Procs : Step(t) \/ ShutdownInside(t) \/ AbortTakesEffect(t)
  \/ disposed /\ UNCHANGED vars

(* Every thread that can run does, an iterate returns, also if callbacks have   *)
(* called Shutdown any number of times before, and Join returns or gives up.   *)
Fairness ==
  /\ \A t \in Procs : WF_vars(Step(t)) /\ SF_vars(IterateReturn(t))
  /\ WF_vars(Start \/ Clear \/ Stop \/ Delete \/ Join \/ JoinThrows)

Spec == Init /\ [][Next]_vars /\ Fairness

-------------------------------------------------------------------------------
TypeOK ==
  /\ style \in {"async", "blocking"}
  /\ native \in {"alive", "deleted"} /\ lib \in {"stopped", "started"}
  /\ {pointer, running, disposed, raised} \subseteq BOOLEAN
  /\ thread \in Threads \cup {None} /\ aborted \subseteq Threads
  /\ pc \in [Procs -> {"unstarted", "ready", "loop", "iterate", "stop", "join",
                       "ended", "dead"}]
  /\ op \in {"idle", "start", "shutdown", "shutdown: stop", "join",
             "dispose", "dispose: stop", "delete", "join last"}

(* A thread that Abort has been called for, that the field no longer knows, and *)
(* that goes on all the same: nobody waits for it any more.                    *)
Abandoned(t) == t \in aborted /\ thread # t /\ Alive(t)

(* No thread is inside the native server once it is deleted, but for those that *)
(* Shutdown has given up.                                                      *)
NoStrayThread ==
  native = "deleted" => \A t \in Procs : Inside(t) => Abandoned(t)

ServingThread ==
  IF \E t \in Procs : InService(t) THEN CHOOSE t \in Procs : InService(t) ELSE None

Service == INSTANCE ServerService WITH
  Server <- Procs, NoOne <- None, open <- running, serving <- ServingThread

(* UA::Server serves like any server: one thread at a time, which takes up      *)
(* requests only while the server is running, and it opens again only after    *)
(* the last thread has left, across any rounds of RunAsync or Run, Shutdown by *)
(* the application and by callbacks, whatever the library refuses and whether  *)
(* or not the thread can be started, except while there is an abandoned thread.*)
ImplementsService ==
  /\ Service!Init
  /\ [][(\E t \in Threads : Abandoned(t)) \/ Service!Next]_<<running, ServingThread>>

(* No managed thread dies of an ObjectDisposedException nobody catches: none is *)
(* given up before it has looked at the pointer.                               *)
NoUnhandled == \A t \in Threads : pc[t] # "dead"

(* Shutdown comes back, and so does Dispose.                                   *)
ShutdownReturns == op \in {"shutdown", "dispose"} ~> op = "idle"

(* Whoever has stopped the server, a callback on the thread itself included,    *)
(* each thread ends unless the server is started again or deleted first.       *)
StoppedThreadsEnd ==
  \A t \in Procs :
    Alive(t) /\ ~running ~> ~Alive(t) \/ running \/ native = "deleted"
===============================================================================
