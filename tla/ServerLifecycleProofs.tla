------------------------ MODULE ServerLifecycleProofs ------------------------
(* Proofs about ServerLifecycle for a server that is used the way the README   *)
(* of the repository shows: one application thread starts it with run_async    *)
(* and ends it with shutdown, run_sync_end or the destructor, while callbacks  *)
(* stop it from the inside. Any number of runners, callbacks and failures.    *)
EXTENDS ServerLifecycle, TLAPS

AsyncUse ==
  /\ Threads = {Owner}
  /\ Calls[Owner] \subseteq {"run_async", "run_sync_end", "shutdown", "destroy"}

-------------------------------------------------------------------------------
(* The inductive invariant. *)

(* Where the owner can be in which operation. It never serves. *)
OwnerShape ==
  /\ outer[Owner] = "none"
  /\ \/ pc[Owner] = "idle" /\ op[Owner] = "none"
     \/ /\ pc[Owner] \in {"enter", "begin_check", "startup", "publish", "spawn", "assign"}
        /\ op[Owner] = "run_async"
     \/ pc[Owner] = "join" /\ op[Owner] \in {"run_async", "shutdown", "destroy"}
     \/ /\ pc[Owner] \in {"end_check", "end_clear", "stop"}
        /\ op[Owner] \in {"run_sync_end", "shutdown", "destroy"}

(* A runner loops, or is in a callback that stops the server, or is at rest. *)
RunnerShape ==
  \A r \in Runners :
    \/ pc[r] = "ended" /\ op[r] = "none" /\ outer[r] = "none"
    \/ pc[r] \in {"loop_check", "iterate"} /\ op[r] = "run_sync_loop" /\ outer[r] = "none"
    \/ /\ pc[r] \in {"end_check", "end_clear", "stop", "join"}
       /\ op[r] \in {"run_sync_end", "shutdown"}
       /\ outer[r] = "run_sync_loop"

(* Every runner that has not ended is the one server_runner points to, or the  *)
(* one run_async has created and is about to store there.                      *)
Owned ==
  /\ \A r \in Runners :
       pc[r] # "ended" => r = runner \/ (pc[Owner] = "assign" /\ r = spawned[Owner])
  /\ pc[Owner] \in {"begin_check", "startup", "publish", "spawn", "assign"} => runner = None

(* The flag is cleared before the library is told to stop. *)
Flags ==
  /\ running => lib = "started"
  /\ pc[Owner] = "publish" => lib = "started"
  /\ \A p \in Procs : pc[p] = "stop" => ~running
  /\ pc[Owner] \in {"join", "begin_check", "startup", "publish"} => ~running

(* A library that never refuses to stop is started only while somebody is       *)
(* about to say so, says so, or is about to stop it.                           *)
Stoppable ==
  "stop" \notin Failures /\ lib = "started"
    => running \/ pc[Owner] = "publish" \/ \E p \in Procs : pc[p] = "stop"

Buried == ~alive => pc[Owner] = "idle" /\ runner = None

IInv == TypeOK /\ OwnerShape /\ RunnerShape /\ Owned /\ Flags /\ Stoppable /\ Buried

-------------------------------------------------------------------------------
(* The two ways a thread moves keep the types. *)
ControlType ==
  /\ pc \in [Procs -> Locations]
  /\ op \in [Procs -> Operations \cup {"none"}]
  /\ outer \in [Procs -> Operations \cup {"none"}]
  /\ raised \in [Procs -> BOOLEAN]

LEMMA GotoType ==
  ASSUME ControlType, NEW p, NEW l \in Locations, Goto(p, l) PROVE ControlType'
  BY DEF ControlType, Goto

LEMMA FinishType ==
  ASSUME ControlType, NEW p \in Procs, NEW threw \in BOOLEAN, Finish(p, threw)
  PROVE ControlType'
<1> USE DEF ControlType, Finish
<1>1. pc' \in [Procs -> Locations]  BY DEF Rest, Locations
<1>2. op' \in [Procs -> Operations \cup {"none"}]  OBVIOUS
<1>3. outer' \in [Procs -> Operations \cup {"none"}]  OBVIOUS
<1>4. raised' \in [Procs -> BOOLEAN]
  <2>1. (threw /\ outer[p] = "none") \in BOOLEAN  OBVIOUS
  <2>2. QED  BY <2>1, Zenon
<1> QED  BY <1>1, <1>2, <1>3, <1>4

LEMMA InitIInv == ASSUME AsyncUse PROVE Init => IInv
<1> SUFFICES ASSUME Init PROVE IInv  OBVIOUS
<1> USE OwnerAssumption, ThreadsAssumption DEF AsyncUse, Init, Procs
<1>1. TypeOK
  <2>1. pc \in [Procs -> Locations]  BY DEF Locations
  <2> QED  BY <2>1 DEF TypeOK
<1>2. OwnerShape  BY DEF OwnerShape
<1>3. RunnerShape  BY DEF RunnerShape
<1>4. Owned  BY DEF Owned
<1>5. Flags  BY DEF Flags
<1>6. Buried /\ Stoppable  BY DEF Buried, Stoppable
<1> QED  BY <1>1, <1>2, <1>3, <1>4, <1>5, <1>6 DEF IInv

LEMMA TypeStep == ASSUME TypeOK, [Next]_vars PROVE TypeOK'
<1> USE GotoType, FinishType, OwnerAssumption, ThreadsAssumption
        DEF TypeOK, ControlType, object, control
<1>1. CASE UNCHANGED vars  BY <1>1 DEF vars
<1>2. ASSUME NEW t \in Threads, Construct(t) PROVE TypeOK'
  BY <1>2 DEF Construct, Procs
<1>3. ASSUME NEW t \in Threads, NEW f \in Operations, Call(t, f) PROVE TypeOK'
  BY <1>3 DEF Call, FirstLocation, Operations, Locations, Procs
<1>4. ASSUME NEW p \in Procs, NEW f \in CallbackCalls, CallbackCall(p, f) PROVE TypeOK'
  BY <1>4, CallbackAssumption DEF CallbackCall, FirstLocation, Operations, Locations
<1>5. ASSUME NEW p \in Procs, Step(p) PROVE TypeOK'
  <2> USE DEF Begun, Ended, Fail, Locations
  <2>1. CASE EnterCheck(p)  BY <2>1 DEF EnterCheck
  <2>2. CASE BeginCheck(p)  BY <2>2 DEF BeginCheck
  <2>3. CASE Startup(p)  BY <2>3 DEF Startup
  <2>4. CASE Publish(p)  BY <2>4 DEF Publish
  <2>5. CASE Spawn(p)
    <3>1. CASE Finish(p, TRUE) /\ UNCHANGED spawned  BY <2>5, <3>1 DEF Spawn
    <3>2. ASSUME NEW r \in Runners,
                 pc' = [pc EXCEPT ![r] = "loop_check", ![p] = "assign"],
                 op' = [op EXCEPT ![r] = "run_sync_loop"],
                 spawned' = [spawned EXCEPT ![p] = r],
                 UNCHANGED <<outer, raised>>
          PROVE  TypeOK'
      BY <2>5, <3>2 DEF Spawn, Operations
    <3> QED  BY <2>5, <3>1, <3>2 DEF Spawn
  <2>6. CASE Assign(p)  BY <2>6 DEF Assign
  <2>7. CASE LoopCheck(p)  BY <2>7 DEF LoopCheck
  <2>8. CASE IterateReturn(p)  BY <2>8 DEF IterateReturn
  <2>9. CASE EndCheck(p)  BY <2>9 DEF EndCheck
  <2>10. CASE EndClear(p)  BY <2>10 DEF EndClear
  <2>11. CASE Stop(p)  BY <2>11 DEF Stop
  <2>12. CASE Join(p)  BY <2>12 DEF Join, Joined
  <2> QED  BY <1>5, <2>1, <2>2, <2>3, <2>4, <2>5, <2>6, <2>7, <2>8, <2>9, <2>10, <2>11, <2>12 DEF Step
<1> QED  BY <1>1, <1>2, <1>3, <1>4, <1>5 DEF Next, Gone

-------------------------------------------------------------------------------
LEMMA People ==
  ASSUME AsyncUse
  PROVE  /\ Procs = {Owner} \cup Runners
         /\ Owner \notin Runners /\ None \notin Runners
         /\ Owner # None
         /\ Rest(Owner) = "idle" /\ \A r \in Runners : Rest(r) = "ended"
  BY OwnerAssumption, ThreadsAssumption DEF AsyncUse, Procs, Rest

(* A step of the owner: no runner moves but the one it creates or joins. *)
LEMMA OwnerStep == ASSUME AsyncUse, IInv, TypeOK', Step(Owner) PROVE IInv'
<1> USE People DEF IInv, OwnerShape, RunnerShape, Owned, Flags, Stoppable, Buried, TypeOK,
                   object, control, Goto, Finish, Fail, Begun, Ended
<1>1. CASE EnterCheck(Owner)  BY <1>1 DEF EnterCheck
<1>2. CASE BeginCheck(Owner)  BY <1>2 DEF BeginCheck
<1>3. CASE Startup(Owner)  BY <1>3 DEF Startup
<1>4. CASE Publish(Owner)  BY <1>4 DEF Publish
<1>5. CASE Spawn(Owner)  BY <1>5 DEF Spawn
<1>6. CASE Assign(Owner)  BY <1>6 DEF Assign
<1>7. CASE LoopCheck(Owner)  BY <1>7 DEF LoopCheck
<1>8. CASE IterateReturn(Owner)  BY <1>8 DEF IterateReturn
<1>9. CASE EndCheck(Owner)  BY <1>9 DEF EndCheck
<1>10. CASE EndClear(Owner)  BY <1>10 DEF EndClear
<1>11. CASE Stop(Owner)  BY <1>11 DEF Stop
<1>12. CASE Join(Owner)  BY <1>12 DEF Join, Joined
<1> QED  BY <1>1, <1>2, <1>3, <1>4, <1>5, <1>6, <1>7, <1>8, <1>9, <1>10, <1>11, <1>12 DEF Step

(* A step of a runner: it changes neither the owner nor server_runner. *)
LEMMA RunnerStep == ASSUME AsyncUse, IInv, TypeOK', NEW r \in Runners, Step(r) PROVE IInv'
<1> USE People DEF IInv, OwnerShape, RunnerShape, Owned, Flags, Stoppable, Buried, TypeOK,
                   object, control, Goto, Finish, Fail, Begun, Ended
<1>1. pc[r] \in {"loop_check", "iterate", "end_check", "end_clear", "stop", "join"}
  BY DEF Step, EnterCheck, BeginCheck, Startup, Publish, Spawn, Assign,
         LoopCheck, IterateReturn, EndCheck, EndClear, Stop, Join
<1>2. CASE LoopCheck(r)  BY <1>2 DEF LoopCheck
<1>3. CASE IterateReturn(r)  BY <1>3 DEF IterateReturn
<1>4. CASE EndCheck(r)  BY <1>4 DEF EndCheck
<1>5. CASE EndClear(r)  BY <1>5 DEF EndClear
<1>6. CASE Stop(r)  BY <1>6 DEF Stop
<1>7. CASE Join(r)  BY <1>7 DEF Join, Joined
<1> QED  BY <1>1, <1>2, <1>3, <1>4, <1>5, <1>6, <1>7
         DEF Step, EnterCheck, BeginCheck, Startup, Publish, Spawn, Assign

LEMMA IInvStep == ASSUME AsyncUse, IInv, [Next]_vars PROVE IInv'
<1>1. TypeOK'  BY TypeStep DEF IInv
<1> USE People DEF IInv, OwnerShape, RunnerShape, Owned, Flags, Stoppable, Buried, TypeOK, object
<1>2. CASE UNCHANGED vars  BY <1>2 DEF vars
<1>3. ASSUME NEW t \in Threads, Construct(t) PROVE IInv'  BY <1>1, <1>3 DEF Construct, AsyncUse
<1>4. ASSUME NEW t \in Threads, NEW f \in Operations, Call(t, f) PROVE IInv'
  <2>1. t = Owner /\ f \in {"run_async", "run_sync_end", "shutdown", "destroy"}
    BY <1>4 DEF AsyncUse, Call
  <2> QED  BY <1>1, <1>4, <2>1 DEF Call, FirstLocation
<1>5. ASSUME NEW p \in Procs, NEW f \in CallbackCalls, CallbackCall(p, f) PROVE IInv'
  BY <1>1, <1>5, CallbackAssumption DEF CallbackCall, FirstLocation
<1>6. ASSUME NEW p \in Procs, Step(p) PROVE IInv'
  <2>1. CASE p = Owner  BY <1>1, <1>6, <2>1, OwnerStep
  <2>2. CASE p \in Runners  BY <1>1, <1>6, <2>2, RunnerStep
  <2> QED  BY <2>1, <2>2
<1> QED  BY <1>2, <1>3, <1>4, <1>5, <1>6 DEF Next, Gone

LEMMA Inductive == ASSUME AsyncUse PROVE Spec => []IInv
<1>1. Init => IInv  BY InitIInv
<1>2. IInv /\ [Next]_vars => IInv'  BY IInvStep
<1> QED  BY <1>1, <1>2, PTL DEF Spec

-------------------------------------------------------------------------------
(* Every variable keeps its type, whoever calls what. *)
THEOREM TypeCorrect == Spec => []TypeOK
<1>1. Init => TypeOK
  <2>1. ASSUME Init PROVE pc \in [Procs -> Locations]  BY <2>1 DEF Init, Locations
  <2> QED  BY <2>1 DEF Init, TypeOK
<1>2. TypeOK /\ [Next]_vars => TypeOK'  BY TypeStep
<1> QED  BY <1>1, <1>2, PTL DEF Spec

(* Two runners never serve at once: run_async joins the previous one first. *)
THEOREM AsyncOneLoop == ASSUME AsyncUse PROVE Spec => []OneLoop
<1>1. IInv => OneLoop
  BY People DEF IInv, OwnerShape, RunnerShape, Owned, OneLoop, Serving
<1> QED  BY <1>1, Inductive, PTL

(* The library is started while no thread serves or stops it. *)
THEOREM AsyncStartupAlone == ASSUME AsyncUse PROVE Spec => []StartupAlone
<1>1. IInv => StartupAlone
  BY People DEF IInv, OwnerShape, RunnerShape, Owned, StartupAlone, Serving
<1> QED  BY <1>1, Inductive, PTL

(* A server whose flag is set is started. *)
THEOREM AsyncRunningImpliesStarted == ASSUME AsyncUse PROVE Spec => []RunningImpliesStarted
<1>1. IInv => RunningImpliesStarted  BY DEF IInv, Flags, RunningImpliesStarted
<1> QED  BY <1>1, Inductive, PTL

(* No thread is left inside a destroyed server. *)
THEOREM AsyncNoUseAfterDestroy == ASSUME AsyncUse PROVE Spec => []NoUseAfterDestroy
<1>1. IInv => NoUseAfterDestroy
  BY People DEF IInv, Owned, Buried, NoUseAfterDestroy
<1> QED  BY <1>1, Inductive, PTL

(* A shutdown that returns normally has cleared the flag, joined the runner and *)
(* stopped the library.                                                        *)
THEOREM AsyncShutdownQuiesces == ASSUME AsyncUse PROVE Spec => ShutdownQuiesces
<1> DEFINE Quiet == /\ ~running' /\ runner' = None
                    /\ \A r \in Runners : pc'[r] = "ended"
                    /\ "stop" \notin Failures => lib' = "stopped"
           Returns(t) == /\ op[t] = "shutdown" /\ outer[t] = "none"
                         /\ op'[t] = "none" /\ ~raised'[t]
<1>1. ASSUME IInv, IInv', [Next]_vars, NEW t \in Threads, Returns(t) PROVE Quiet
  <2>1. t = Owner /\ op[Owner] = "shutdown" /\ op'[Owner] = "none" /\ ~raised'[Owner]
    BY <1>1 DEF AsyncUse
  <2> USE <1>1, People DEF IInv, OwnerShape, RunnerShape
  <2>2. Join(Owner)
    <3> USE DEF TypeOK, object, control, Goto, Finish, Fail, Begun, Ended
    <3>1. op'[Owner] # op[Owner]  BY <2>1
    <3>2. ~UNCHANGED vars  BY <3>1 DEF vars
    <3>3. \A u \in Threads : ~Construct(u)  BY <3>1 DEF Construct
    <3>4. \A u \in Threads, f \in Operations : ~Call(u, f)  BY <2>1 DEF AsyncUse, Call
    <3>5. \A p \in Procs, f \in CallbackCalls : ~CallbackCall(p, f)
      BY <3>1 DEF CallbackCall
    <3>6. ASSUME NEW r \in Runners PROVE ~Step(r)
      BY <3>1 DEF Step, EnterCheck, BeginCheck, Startup, Publish, Spawn, Assign,
                  LoopCheck, IterateReturn, EndCheck, EndClear, Stop, Join, Joined
    <3>7. Step(Owner)  BY <1>1, <3>2, <3>3, <3>4, <3>5, <3>6 DEF Next, Gone
    <3> QED  BY <2>1, <3>7
             DEF Step, EnterCheck, BeginCheck, Startup, Publish, Spawn, Assign,
                 LoopCheck, IterateReturn, EndCheck, EndClear, Stop
  <2>3. /\ runner' = None /\ ~running' /\ lib' = lib
        /\ pc' = [pc EXCEPT ![Owner] = "idle"]
    BY <2>1, <2>2 DEF Join, Joined, Fail, Finish, Flags, Owned, TypeOK
  <2>4. \A r \in Runners : pc'[r] = "ended"
    BY <1>1, <2>3 DEF Owned, TypeOK
  <2>5. "stop" \notin Failures => lib' = "stopped"
    BY <1>1, <2>3, <2>4 DEF Stoppable, TypeOK
  <2> QED  BY <2>3, <2>4, <2>5
<1>2. IInv /\ IInv' /\ [Next]_vars =>
        [\A t \in Threads : Returns(t) => Quiet]_vars
  BY <1>1
<1> QED  BY <1>2, Inductive, PTL DEF Spec, ShutdownQuiesces

-------------------------------------------------------------------------------
(* The destructor and the assignment of a thread, the two places that can end    *)
(* the program, when the library stops as it is told and no callback stops the *)
(* server.                                                                    *)
Reliable == CallbackCalls = {} /\ "stop" \notin Failures

(* Only the owner stops the library, and only when it is started. *)
StopAccepted ==
  /\ ~terminated
  /\ \A r \in Runners : pc[r] \in {"ended", "loop_check", "iterate"}
  /\ pc[Owner] = "end_clear" => running
  /\ pc[Owner] = "stop" => lib = "started"

LEMMA StopAcceptedStep ==
  ASSUME AsyncUse, Reliable, IInv, StopAccepted, [Next]_vars PROVE StopAccepted'
<1> USE People DEF IInv, OwnerShape, RunnerShape, Owned, Flags, TypeOK, StopAccepted, object, control
<1>1. CASE UNCHANGED vars  BY <1>1 DEF vars
<1>2. ASSUME NEW t \in Threads, Construct(t) PROVE StopAccepted'
  BY <1>2 DEF Construct, AsyncUse
<1>3. ASSUME NEW t \in Threads, NEW f \in Operations, Call(t, f) PROVE StopAccepted'
  <2>1. t = Owner /\ f \in {"run_async", "run_sync_end", "shutdown", "destroy"}
    BY <1>3 DEF AsyncUse, Call
  <2> QED  BY <1>3, <2>1 DEF Call, FirstLocation
<1>4. ASSUME NEW p \in Procs, NEW f \in CallbackCalls, CallbackCall(p, f)
      PROVE  StopAccepted'
  BY DEF Reliable
<1>5. CASE Step(Owner)
  <2> USE DEF Goto, Finish, Fail, Begun, Ended, Reliable
  <2>1. CASE EnterCheck(Owner)  BY <2>1 DEF EnterCheck
  <2>2. CASE BeginCheck(Owner)  BY <2>2 DEF BeginCheck
  <2>3. CASE Startup(Owner)  BY <2>3 DEF Startup
  <2>4. CASE Publish(Owner)  BY <2>4 DEF Publish
  <2>5. CASE Spawn(Owner)  BY <2>5 DEF Spawn
  <2>6. CASE Assign(Owner)  BY <2>6 DEF Assign
  <2>7. CASE LoopCheck(Owner)  BY <2>7 DEF LoopCheck
  <2>8. CASE IterateReturn(Owner)  BY <2>8 DEF IterateReturn
  <2>9. CASE EndCheck(Owner)  BY <2>9 DEF EndCheck
  <2>10. CASE EndClear(Owner)  BY <2>10 DEF EndClear
  <2>11. CASE Stop(Owner)  BY <2>11 DEF Stop
  <2>12. CASE Join(Owner)  BY <2>12 DEF Join, Joined
  <2> QED  BY <1>5, <2>1, <2>2, <2>3, <2>4, <2>5, <2>6, <2>7, <2>8, <2>9, <2>10, <2>11, <2>12 DEF Step
<1>6. ASSUME NEW r \in Runners, Step(r) PROVE StopAccepted'
  <2> USE DEF Goto, Finish
  <2>1. LoopCheck(r) \/ IterateReturn(r)
    BY <1>6 DEF Step, EnterCheck, BeginCheck, Startup, Publish, Spawn, Assign,
                EndCheck, EndClear, Stop, Join
  <2>2. CASE LoopCheck(r)  BY <2>2 DEF LoopCheck
  <2>3. CASE IterateReturn(r)  BY <2>3 DEF IterateReturn
  <2> QED  BY <2>1, <2>2, <2>3
<1> QED  BY <1>1, <1>2, <1>3, <1>4, <1>5, <1>6 DEF Next, Gone

(* No std::thread is replaced before it is joined, and the destructor, which is  *)
(* noexcept, meets no error, whatever else fails: the constructor, the start   *)
(* of the library or the creation of the thread.                              *)
THEOREM AsyncNeverTerminates == ASSUME AsyncUse, Reliable PROVE Spec => []NeverTerminates
<1>1. Init => IInv  BY InitIInv
<1>2. Init => StopAccepted  BY People DEF Init, StopAccepted, AsyncUse
<1>3. IInv /\ [Next]_vars => IInv'  BY IInvStep
<1>4. IInv /\ StopAccepted /\ [Next]_vars => StopAccepted'  BY StopAcceptedStep
<1>5. StopAccepted => NeverTerminates  BY DEF StopAccepted, NeverTerminates
<1> QED  BY <1>1, <1>2, <1>3, <1>4, <1>5, PTL DEF Spec
===============================================================================
