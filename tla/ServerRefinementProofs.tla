------------------------ MODULE ServerRefinementProofs ------------------------
(* ServerLifecycle implements the safety part of ServerService when it is used  *)
(* the way ServerLifecycleProofs assumes, and when a thread serves by itself.  *)
EXTENDS ServerLifecycleProofs

LEMMA OneServes == ASSUME AsyncUse, IInv PROVE OneLoop
  BY People DEF IInv, OwnerShape, RunnerShape, Owned, OneLoop, Serving

(* The thread that serves is the serving thread of the abstract specification. *)
LEMMA ServingIs ==
  ASSUME OneLoop, ~terminated, NEW p \in Procs, Serving(p) PROVE ServingThread = p
<1>1. ServingThread = CHOOSE q \in Procs : Serving(q)  BY DEF ServingThread
<1>2. ServingThread \in Procs /\ Serving(ServingThread)  BY <1>1
<1> QED  BY <1>2 DEF OneLoop

LEMMA NobodyServes ==
  ASSUME terminated \/ \A p \in Procs : ~Serving(p) PROVE ServingThread = None
  BY DEF ServingThread

(* The same two facts about the state after a step. *)
LEMMA ServingIsNext ==
  ASSUME OneLoop', ~terminated', NEW p \in Procs, Serving(p)' PROVE ServingThread' = p
<1>1. ServingThread' = CHOOSE q \in Procs : Serving(q)'  BY DEF ServingThread
<1>2. ServingThread' \in Procs /\ \E q \in Procs : q = ServingThread' /\ Serving(q)'
  BY <1>1
<1> QED  BY <1>2 DEF OneLoop

LEMMA NobodyServesNext ==
  ASSUME terminated' \/ \A p \in Procs : ~Serving(p)' PROVE ServingThread' = None
  BY DEF ServingThread

(* When a step changes nobody's service, it does not change who serves; when   *)
(* one thread stops to serve, that is a Leave; when one begins, an Enter.     *)
LEMMA SameService ==
  ASSUME OneLoop, OneLoop', terminated' = terminated,
         \A p \in Procs : Serving(p)' <=> Serving(p)
  PROVE  ServingThread' = ServingThread
<1>1. CASE terminated \/ \A p \in Procs : ~Serving(p)
  BY <1>1, NobodyServes, NobodyServesNext
<1>2. CASE ~terminated /\ \E p \in Procs : Serving(p)
  <2>1. PICK p \in Procs : Serving(p)  BY <1>2
  <2> QED  BY <1>2, <2>1, ServingIs, ServingIsNext
<1> QED  BY <1>1, <1>2

LEMMA EndOfService ==
  ASSUME OneLoop, ~terminated, UNCHANGED running,
         terminated' \/ \A p \in Procs : ~Serving(p)'
  PROVE  [Service!Next]_<<running, ServingThread>>
<1>1. ServingThread' = None  BY NobodyServesNext
<1>2. CASE \A p \in Procs : ~Serving(p)  BY <1>1, <1>2, NobodyServes
<1>3. CASE \E p \in Procs : Serving(p)
  <2>1. PICK p \in Procs : Serving(p)  BY <1>3
  <2>2. Service!Leave(p)  BY <1>1, <2>1, ServingIs DEF Service!Leave
  <2> QED  BY <2>2 DEF Service!Next
<1> QED  BY <1>2, <1>3

(* Such a step may leave the flag alone, or clear it: a Close.                 *)
LEMMA QuietStep ==
  ASSUME TypeOK, OneLoop, OneLoop', terminated' = terminated,
         \A p \in Procs : Serving(p)' <=> Serving(p),
         running' \in {running, FALSE}
  PROVE  [Service!Next]_<<running, ServingThread>>
<1>1. ServingThread' = ServingThread  BY SameService
<1> QED  BY <1>1 DEF TypeOK, Service!Next, Service!Close

(* A step of the owner opens the service (Publish, when every runner has been   *)
(* joined), closes it, or ends the program.                                   *)
LEMMA OwnerRefines ==
  ASSUME AsyncUse, IInv, IInv', ~terminated, Step(Owner)
  PROVE  [Service!Next]_<<running, ServingThread>>
<1> USE People DEF TypeOK, IInv, OwnerShape, RunnerShape, Serving
<1>1. OneLoop /\ OneLoop'
  <2>1. OneLoop  BY OneServes
  <2>2. OneLoop'  BY DEF Owned, OneLoop
  <2> QED  BY <2>1, <2>2
<1>2. ~Serving(Owner) /\ ~Serving(Owner)'  OBVIOUS
<1>3. \A p \in Procs : Serving(p)' <=> Serving(p)
  <2>1. ASSUME NEW r \in Runners PROVE Serving(r)' <=> Serving(r)
    BY DEF Step, EnterCheck, BeginCheck, Startup, Publish, Spawn, Assign, LoopCheck,
           IterateReturn, EndCheck, EndClear, Stop, Join, Joined, Begun, Ended, Fail,
           Finish, Goto, object, control
  <2> QED  BY <1>2, <2>1
<1>4. CASE terminated' = terminated /\ running' \in {running, FALSE}
  BY <1>1, <1>3, <1>4, QuietStep
<1>5. CASE terminated' # terminated
  <2>1. terminated' /\ UNCHANGED running
    BY <1>5 DEF Step, EnterCheck, BeginCheck, Startup, Publish, Spawn, Assign, LoopCheck,
                IterateReturn, EndCheck, EndClear, Stop, Join, Fail, object
  <2> QED  BY <1>1, <2>1, EndOfService
<1>6. CASE terminated' = terminated /\ running' \notin {running, FALSE}
  <2>1. pc[Owner] = "publish" /\ ~running /\ running'
    BY <1>6 DEF Flags, Step, EnterCheck, BeginCheck, Startup, Publish, Spawn, Assign,
                LoopCheck, IterateReturn, EndCheck, EndClear, Stop, Join, object
  <2>2. \A p \in Procs : ~Serving(p)  BY <2>1 DEF Owned
  <2>3. ServingThread = None  BY <2>2, NobodyServes
  <2>4. ServingThread' = ServingThread  BY <1>1, <1>3, <1>6, SameService
  <2> QED  BY <2>1, <2>3, <2>4 DEF Service!Next, Service!Open
<1> QED  BY <1>4, <1>5, <1>6

(* A step of a runner takes up service while the flag is set, ends it, or stops *)
(* the server from inside without ending it.                                  *)
LEMMA RunnerRefines ==
  ASSUME AsyncUse, IInv, IInv', ~terminated, NEW r \in Runners, Step(r)
  PROVE  [Service!Next]_<<running, ServingThread>>
<1> USE People DEF TypeOK, IInv, OwnerShape, RunnerShape, Serving, Finish, Goto, object
<1>1. OneLoop /\ OneLoop'
  <2>1. OneLoop  BY OneServes
  <2>2. OneLoop'  BY DEF Owned, OneLoop
  <2> QED  BY <2>1, <2>2
<1>2. pc[r] \in {"loop_check", "iterate", "end_check", "end_clear", "stop", "join"}
  BY DEF Step, EnterCheck, BeginCheck, Startup, Publish, Spawn, Assign,
         LoopCheck, IterateReturn, EndCheck, EndClear, Stop, Join
<1>3. \A p \in Procs \ {r} : Serving(p)' <=> Serving(p)
  <2> SUFFICES ASSUME NEW p \in Procs, p # r PROVE pc'[p] = pc[p] /\ outer'[p] = outer[p]
    OBVIOUS
  <2> QED  BY <1>2 DEF Step, EnterCheck, BeginCheck, Startup, Publish, Spawn, Assign, LoopCheck,
                IterateReturn, EndCheck, EndClear, Stop, Join, Joined, Ended, Fail
<1>4. CASE LoopCheck(r) /\ running
  <2>1. /\ ~Serving(r) /\ Serving(r)'
        /\ UNCHANGED <<running, terminated>>
    BY <1>4 DEF LoopCheck
  <2>2. \A p \in Procs : ~Serving(p)  BY <1>1, <1>3, <2>1 DEF OneLoop
  <2>3. ServingThread = None  BY <2>2, NobodyServes
  <2>4. ServingThread' = r  BY <1>1, <2>1, ServingIsNext
  <2>5. Service!Enter(r)  BY <1>4, <2>1, <2>3, <2>4 DEF Service!Enter
  <2> QED  BY <2>5 DEF Service!Next
<1>5. CASE LoopCheck(r) /\ ~running
  <2>1. Serving(r)' <=> Serving(r)  BY <1>5 DEF LoopCheck, Rest
  <2>2. UNCHANGED <<running, terminated>>  BY <1>5 DEF LoopCheck
  <2> QED  BY <1>1, <1>3, <2>1, <2>2, QuietStep
<1>6. CASE IterateReturn(r)
  <2>1. Serving(r) /\ ~Serving(r)' /\ UNCHANGED <<running, terminated>>
    BY <1>6 DEF IterateReturn
  <2>2. \A p \in Procs : ~Serving(p)'  BY <1>1, <1>3, <2>1 DEF OneLoop
  <2> QED  BY <1>1, <2>1, <2>2, EndOfService
<1>7. CASE EndCheck(r) \/ EndClear(r) \/ Stop(r) \/ Join(r)
  <2>1. outer[r] = "run_sync_loop" /\ op[r] \in {"run_sync_end", "shutdown"}
    BY <1>7 DEF EndCheck, EndClear, Stop, Join
  <2>2. Serving(r) /\ Serving(r)'
    BY <1>7, <2>1 DEF EndCheck, EndClear, Stop, Join, Joined, Ended, Fail
  <2>3. terminated' = terminated /\ running' \in {running, FALSE}
    BY <1>7, <2>1 DEF EndCheck, EndClear, Stop, Join, Fail
  <2> QED  BY <1>1, <1>3, <2>2, <2>3, QuietStep
<1> QED  BY <1>2, <1>4, <1>5, <1>6, <1>7
         DEF Step, EnterCheck, BeginCheck, Startup, Publish, Spawn, Assign

LEMMA StepRefines ==
  ASSUME AsyncUse, IInv, IInv', [Next]_vars
  PROVE  [Service!Next]_<<running, ServingThread>>
<1> USE People DEF TypeOK, IInv, OwnerShape, RunnerShape, Serving, object
<1>1. OneLoop /\ OneLoop'
  <2>1. OneLoop  BY OneServes
  <2>2. OneLoop'  BY DEF Owned, OneLoop
  <2> QED  BY <2>1, <2>2
<1>2. CASE UNCHANGED vars
  <2>1. /\ \A p \in Procs : Serving(p)' <=> Serving(p)
        /\ UNCHANGED <<running, terminated>>
    BY <1>2 DEF vars
  <2> QED  BY <1>1, <2>1, QuietStep
<1>3. ASSUME NEW t \in Threads, Construct(t)
      PROVE  [Service!Next]_<<running, ServingThread>>
  <2>1. /\ \A p \in Procs : Serving(p)' <=> Serving(p)
        /\ terminated' = terminated /\ running' \in {running, FALSE}
    BY <1>3 DEF Construct
  <2> QED  BY <1>1, <2>1, QuietStep
<1>4. ASSUME NEW t \in Threads, NEW f \in Operations, Call(t, f)
      PROVE  [Service!Next]_<<running, ServingThread>>
  <2>1. t = Owner /\ ~Serving(Owner) /\ ~Serving(Owner)'  BY <1>4 DEF AsyncUse
  <2>2. /\ \A p \in Procs : Serving(p)' <=> Serving(p)
        /\ UNCHANGED <<running, terminated>>
    BY <1>4, <2>1 DEF Call
  <2> QED  BY <1>1, <2>2, QuietStep
<1>5. ASSUME NEW p \in Procs, NEW f \in CallbackCalls, CallbackCall(p, f)
      PROVE  [Service!Next]_<<running, ServingThread>>
  <2>1. p \in Runners /\ Serving(p) /\ Serving(p)'  BY <1>5 DEF CallbackCall
  <2>2. /\ \A q \in Procs : Serving(q)' <=> Serving(q)
        /\ UNCHANGED <<running, terminated>>
    BY <1>5, <2>1 DEF CallbackCall
  <2> QED  BY <1>1, <2>2, QuietStep
<1>6. ASSUME NEW p \in Procs, Step(p), ~terminated
      PROVE  [Service!Next]_<<running, ServingThread>>
  <2>1. CASE p = Owner  BY <1>6, <2>1, OwnerRefines
  <2>2. CASE p \in Runners  BY <1>6, <2>2, RunnerRefines
  <2> QED  BY <2>1, <2>2
<1> QED  BY <1>2, <1>3, <1>4, <1>5, <1>6 DEF Next, Gone

(* To its clients, a server that one thread runs with run_async opens only when *)
(* no runner is left, is served by one thread at a time, and lets that thread  *)
(* take up service only while the flag is set.                                *)
THEOREM AsyncServes == ASSUME AsyncUse PROVE Spec => Service!Safety
<1>1. Init => Service!Init
  <2> SUFFICES ASSUME Init PROVE Service!Init  OBVIOUS
  <2>1. \A p \in Procs : ~Serving(p)  BY People DEF Init, Serving
  <2> QED  BY <2>1, NobodyServes DEF Init, Service!Init
<1>2. IInv /\ IInv' /\ [Next]_vars => [Service!Next]_<<running, ServingThread>>
  BY StepRefines
<1> QED  BY <1>1, <1>2, Inductive, PTL DEF Spec, Service!Safety

-------------------------------------------------------------------------------
(* The blocking use: the owner serves by itself, in run or step by step, and    *)
(* other threads, and callbacks, stop it. Here the flag may be set over a       *)
(* library that a delayed stop has stopped; what clients see is right all the   *)
(* same.                                                                      *)
Stops == {"run_sync_end", "shutdown"}
Serves == {"run", "run_sync_step", "run_sync_loop"}

BlockingUse ==
  /\ Calls[Owner] \subseteq Operations \ {"run_async"}
  /\ \A t \in Threads \ {Owner} : Calls[t] \subseteq Stops

(* Where the owner can be in which operation, inside a callback or not. *)
DriverShape ==
  /\ outer[Owner] \in Serves \cup {"none"}
  /\ \/ pc[Owner] = "idle" /\ op[Owner] = "none" /\ outer[Owner] = "none"
     \/ /\ pc[Owner] \in {"enter", "begin_check", "startup", "publish"}
        /\ op[Owner] \in {"run", "run_sync_begin"} /\ outer[Owner] = "none"
     \/ /\ pc[Owner] \in {"loop_check", "iterate"}
        /\ op[Owner] \in Serves /\ outer[Owner] = "none"
     \/ /\ pc[Owner] \in {"end_check", "end_clear", "stop", "join"}
        /\ op[Owner] \in Stops \/ (op[Owner] = "destroy" /\ outer[Owner] = "none")

(* Nobody else is anywhere but in a stop. *)
OthersShape ==
  /\ \A t \in Threads \ {Owner} :
       /\ outer[t] = "none"
       /\ \/ pc[t] = "idle" /\ op[t] = "none"
          \/ pc[t] \in {"end_check", "end_clear", "stop", "join"} /\ op[t] \in Stops
  /\ \A r \in Runners : pc[r] = "ended" /\ op[r] = "none" /\ outer[r] = "none"
  /\ runner = None

BInv == TypeOK /\ DriverShape /\ OthersShape

LEMMA Crowd ==
  /\ Procs = Threads \cup Runners /\ Owner \in Threads /\ Owner \in Procs
  /\ \A t \in Threads : t # None /\ t \notin Runners /\ Rest(t) = "idle"
  BY OwnerAssumption, ThreadsAssumption DEF Procs, Rest

LEMMA InitBInv == Init => BInv
<1> SUFFICES ASSUME Init PROVE BInv  OBVIOUS
<1>1. TypeOK
  <2>1. pc \in [Procs -> Locations]  BY DEF Init, Locations
  <2> QED  BY <2>1 DEF Init, TypeOK
<1>2. DriverShape  BY Crowd DEF Init, DriverShape
<1>3. OthersShape  BY Crowd, ThreadsAssumption DEF Init, OthersShape, Procs
<1> QED  BY <1>1, <1>2, <1>3 DEF BInv

(* A step of the owner keeps the others where they are. *)
LEMMA DriverStep == ASSUME BInv, TypeOK', Step(Owner) PROVE BInv'
<1> USE Crowd DEF BInv, DriverShape, OthersShape, TypeOK, Stops, Serves,
                  object, control, Goto, Finish, Fail, Begun, Ended
<1>1. CASE EnterCheck(Owner)  BY <1>1 DEF EnterCheck
<1>2. CASE BeginCheck(Owner)  BY <1>2 DEF BeginCheck
<1>3. CASE Startup(Owner)  BY <1>3 DEF Startup
<1>4. CASE Publish(Owner)  BY <1>4 DEF Publish
<1>5. CASE Spawn(Owner) \/ Assign(Owner)  BY <1>5 DEF Spawn, Assign
<1>6. CASE LoopCheck(Owner)  BY <1>6 DEF LoopCheck
<1>7. CASE IterateReturn(Owner)  BY <1>7 DEF IterateReturn
<1>8. CASE EndCheck(Owner)  BY <1>8 DEF EndCheck
<1>9. CASE EndClear(Owner)  BY <1>9 DEF EndClear
<1>10. CASE Stop(Owner)  BY <1>10 DEF Stop
<1>11. CASE Join(Owner)  BY <1>11 DEF Join, Joined
<1> QED  BY <1>1, <1>2, <1>3, <1>4, <1>5, <1>6, <1>7, <1>8, <1>9, <1>10, <1>11 DEF Step

(* So does a step of another thread, which can only stop the server. *)
LEMMA OtherWhere ==
  ASSUME BInv, NEW p \in Procs, p # Owner, Step(p)
  PROVE  /\ p \in Threads /\ outer[p] = "none" /\ op[p] \in Stops
         /\ EndCheck(p) \/ EndClear(p) \/ Stop(p) \/ Join(p)
<1>1. p \in Threads \/ p \in Runners  BY Crowd
<1>2. pc[p] \notin {"idle", "ended", "enter", "begin_check", "startup", "publish", "spawn",
                    "assign", "loop_check", "iterate"}
        => EndCheck(p) \/ EndClear(p) \/ Stop(p) \/ Join(p)
  BY DEF Step, EnterCheck, BeginCheck, Startup, Publish, Spawn, Assign, LoopCheck,
         IterateReturn
<1>3. pc[p] \notin {"idle", "ended"}
  BY DEF Step, EnterCheck, BeginCheck, Startup, Publish, Spawn, Assign, LoopCheck,
         IterateReturn, EndCheck, EndClear, Stop, Join
<1> QED  BY <1>1, <1>2, <1>3 DEF BInv, OthersShape

LEMMA OtherStep ==
  ASSUME BInv, TypeOK', NEW p \in Procs, p # Owner, Step(p) PROVE BInv'
<1> USE Crowd DEF BInv, DriverShape, OthersShape, TypeOK, Stops,
                  object, control, Goto, Finish, Fail, Ended
<1>1. p \in Threads /\ outer[p] = "none" /\ op[p] \in Stops  BY OtherWhere
<1>2. CASE EndCheck(p)  BY <1>1, <1>2 DEF EndCheck
<1>3. CASE EndClear(p)  BY <1>1, <1>3 DEF EndClear
<1>4. CASE Stop(p)  BY <1>1, <1>4 DEF Stop
<1>5. CASE Join(p)  BY <1>1, <1>5 DEF Join, Joined
<1> QED  BY <1>2, <1>3, <1>4, <1>5, OtherWhere

LEMMA BInvStep == ASSUME BlockingUse, BInv, [Next]_vars PROVE BInv'
<1>1. TypeOK'  BY TypeStep DEF BInv
<1> USE Crowd DEF BInv, DriverShape, OthersShape, TypeOK, Stops, Serves, object
<1>2. CASE UNCHANGED vars  BY <1>1, <1>2 DEF vars
<1>3. ASSUME NEW t \in Threads, Construct(t) PROVE BInv'  BY <1>1, <1>3 DEF Construct
<1>4. ASSUME NEW t \in Threads, NEW f \in Operations, Call(t, f) PROVE BInv'
  <2>1. f # "run_async" /\ (t # Owner => f \in Stops)
    BY <1>4 DEF BlockingUse, Call
  <2> QED  BY <1>1, <1>4, <2>1 DEF Call, FirstLocation, Operations
<1>5. ASSUME NEW p \in Procs, NEW f \in CallbackCalls, CallbackCall(p, f) PROVE BInv'
  <2>1. p = Owner /\ f \in Stops  BY <1>5, CallbackAssumption DEF CallbackCall
  <2> QED  BY <1>1, <1>5, <2>1 DEF CallbackCall, FirstLocation
<1>6. ASSUME NEW p \in Procs, Step(p) PROVE BInv'
  BY <1>1, <1>6, DriverStep, OtherStep
<1> QED  BY <1>2, <1>3, <1>4, <1>5, <1>6 DEF Next, Gone

(* Only the owner ever serves. *)
LEMMA DriverServes ==
  /\ BInv => OneLoop /\ \A p \in Procs : Serving(p) => p = Owner
  /\ BInv' => OneLoop' /\ \A p \in Procs : Serving(p)' => p = Owner
<1>1. ASSUME BInv PROVE \A p \in Procs : Serving(p) => p = Owner
  BY <1>1, Crowd DEF BInv, OthersShape, Serving
<1>2. ASSUME BInv' PROVE \A p \in Procs : Serving(p)' => p = Owner
  BY <1>2, Crowd DEF BInv, OthersShape, Serving
<1> QED  BY <1>1, <1>2 DEF OneLoop

(* A step that neither begins nor ends the owner's service, nor sets the flag.  *)
LEMMA DriverQuiet ==
  ASSUME BInv, BInv', terminated' = terminated, Serving(Owner)' <=> Serving(Owner),
         running' \in {running, FALSE}
  PROVE  [Service!Next]_<<running, ServingThread>>
<1>1. \A p \in Procs : Serving(p)' <=> Serving(p)  BY DriverServes
<1> QED  BY <1>1, DriverServes, QuietStep DEF BInv

LEMMA DriverRefines ==
  ASSUME BInv, BInv', ~terminated, Step(Owner)
  PROVE  [Service!Next]_<<running, ServingThread>>
<1> DEFINE Goal == [Service!Next]_<<running, ServingThread>>
<1> USE Crowd DEF BInv, TypeOK, DriverShape, Serving, Serves, Stops, object, control,
                  Goto, Finish
<1>1. CASE EnterCheck(Owner)  BY <1>1, DriverQuiet DEF EnterCheck
<1>2. CASE BeginCheck(Owner)  BY <1>2, DriverQuiet DEF BeginCheck, Begun
<1>3. CASE Startup(Owner)  BY <1>3, DriverQuiet DEF Startup
<1>4. CASE Publish(Owner)
  <2>1. ~Serving(Owner) /\ ~Serving(Owner)' /\ running' /\ terminated' = terminated
    BY <1>4 DEF Publish, Begun
  <2>2. ServingThread = None /\ ServingThread' = None
    BY <2>1, DriverServes, NobodyServes, NobodyServesNext
  <2> QED  BY <2>1, <2>2 DEF Service!Next, Service!Open
<1>5. CASE Spawn(Owner) \/ Assign(Owner)  BY <1>5 DEF Spawn, Assign
<1>6. CASE LoopCheck(Owner) /\ running
  <2>1. ~Serving(Owner) /\ Serving(Owner)' /\ UNCHANGED <<running, terminated>>
    BY <1>6 DEF LoopCheck
  <2>2. ServingThread = None  BY <2>1, DriverServes, NobodyServes
  <2>3. ServingThread' = Owner  BY <2>1, DriverServes, ServingIsNext
  <2>4. Service!Enter(Owner)  BY <1>6, <2>1, <2>2, <2>3 DEF Service!Enter
  <2> QED  BY <2>4 DEF Service!Next
<1>7. CASE LoopCheck(Owner) /\ ~running  BY <1>7, DriverQuiet DEF LoopCheck
<1>8. CASE IterateReturn(Owner)
  <2>1. ~Serving(Owner)' /\ UNCHANGED <<running, terminated>>  BY <1>8 DEF IterateReturn
  <2>2. \A p \in Procs : ~Serving(p)'  BY <2>1, DriverServes
  <2> QED  BY <2>1, <2>2, DriverServes, EndOfService
<1>9. CASE EndCheck(Owner) \/ EndClear(Owner) \/ Stop(Owner) \/ Join(Owner)
  <2>1. UNCHANGED terminated \/ (terminated' /\ UNCHANGED running)
    BY <1>9 DEF EndCheck, EndClear, Stop, Join, Fail
  <2>2. running' \in {running, FALSE}
    BY <1>9 DEF EndCheck, EndClear, Stop, Join
  <2>3. Serving(Owner)' <=> Serving(Owner)
    BY <1>9 DEF EndCheck, EndClear, Stop, Join, Joined, Ended, Fail
  <2>4. CASE UNCHANGED terminated  BY <2>2, <2>3, <2>4, DriverQuiet
  <2>5. CASE terminated' /\ UNCHANGED running  BY <2>5, DriverServes, EndOfService
  <2> QED  BY <2>1, <2>4, <2>5
<1> QED  BY <1>1, <1>2, <1>3, <1>4, <1>5, <1>6, <1>7, <1>8, <1>9 DEF Step, LoopCheck

LEMMA OtherRefines ==
  ASSUME BInv, BInv', NEW p \in Procs, p # Owner, Step(p)
  PROVE  [Service!Next]_<<running, ServingThread>>
<1>1. /\ p \in Threads /\ outer[p] = "none" /\ op[p] \in Stops
      /\ EndCheck(p) \/ EndClear(p) \/ Stop(p) \/ Join(p)
  BY OtherWhere
<1>2. terminated' = terminated /\ running' \in {running, FALSE}
  BY <1>1 DEF EndCheck, EndClear, Stop, Join, Fail, Stops, object
<1>3. pc'[Owner] = pc[Owner] /\ outer'[Owner] = outer[Owner]
  BY <1>1, Crowd DEF EndCheck, EndClear, Stop, Join, Joined, Ended, Fail, Goto, Finish,
                     control, BInv, TypeOK
<1> QED  BY <1>2, <1>3, DriverQuiet DEF Serving

LEMMA BlockingRefines ==
  ASSUME BlockingUse, BInv, BInv', [Next]_vars
  PROVE  [Service!Next]_<<running, ServingThread>>
<1> USE Crowd DEF BInv, TypeOK, DriverShape, OthersShape, Serving, object
<1>1. CASE UNCHANGED vars  BY <1>1, DriverQuiet DEF vars
<1>2. ASSUME NEW t \in Threads, Construct(t)
      PROVE  [Service!Next]_<<running, ServingThread>>
  BY <1>2, DriverQuiet DEF Construct
<1>3. ASSUME NEW t \in Threads, NEW f \in Operations, Call(t, f)
      PROVE  [Service!Next]_<<running, ServingThread>>
  <2>1. Serving(Owner)' <=> Serving(Owner)
    BY <1>3 DEF Call, FirstLocation, Operations
  <2> QED  BY <1>3, <2>1, DriverQuiet DEF Call
<1>4. ASSUME NEW p \in Procs, NEW f \in CallbackCalls, CallbackCall(p, f)
      PROVE  [Service!Next]_<<running, ServingThread>>
  <2>1. p = Owner /\ Serving(Owner) /\ Serving(Owner)'
    BY <1>4, DriverServes DEF CallbackCall, Serves
  <2> QED  BY <1>4, <2>1, DriverQuiet DEF CallbackCall
<1>5. ASSUME NEW p \in Procs, Step(p), ~terminated
      PROVE  [Service!Next]_<<running, ServingThread>>
  BY <1>5, DriverRefines, OtherRefines
<1> QED  BY <1>1, <1>2, <1>3, <1>4, <1>5 DEF Next, Gone

(* A server that its owner runs itself opens only while the owner is not         *)
(* serving, and the owner takes up service only while the flag is set, however *)
(* many threads and callbacks stop it, and however late.                       *)
THEOREM BlockingServes == ASSUME BlockingUse PROVE Spec => Service!Safety
<1>1. Init => Service!Init
  <2> SUFFICES ASSUME Init PROVE Service!Init  OBVIOUS
  <2>1. \A p \in Procs : ~Serving(p)  BY Crowd DEF Init, Serving
  <2> QED  BY <2>1, NobodyServes DEF Init, Service!Init
<1>2. Init => BInv  BY InitBInv
<1>3. BInv /\ [Next]_vars => BInv'  BY BInvStep
<1>4. BInv /\ BInv' /\ [Next]_vars => [Service!Next]_<<running, ServingThread>>
  BY BlockingRefines
<1> QED  BY <1>1, <1>2, <1>3, <1>4, PTL DEF Spec, Service!Safety
===============================================================================
