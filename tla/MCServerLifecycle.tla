-------------------------- MODULE MCServerLifecycle --------------------------
(* Instances of ServerLifecycle for TLC. *)
EXTENDS ServerLifecycle
CONSTANTS app, controller, r1, r2

(* One application thread, a runner for each round of run_async.               *)
OneThread == {app}
TwoRunners == {r1, r2}
AsyncCalls == [t \in {app} |-> {"run_async", "run_sync_end", "shutdown", "destroy"}]

(* run() blocks its caller, which may also drive the server by steps; another   *)
(* thread, or a callback, ends it.                                            *)
TwoThreads == {app, controller}
BlockingCalls == [t \in {app, controller} |->
  IF t = app THEN {"run", "run_sync_begin", "run_sync_step", "run_sync_loop", "run_sync_end",
                   "destroy"}
  ELSE {"shutdown"}]

NoCalls == {}
EveryCallback == {"run_sync_end", "shutdown"}
EveryFailure == {"new", "start", "stop", "thread"}
===============================================================================
