--------------------------- MODULE CliServerProofs ---------------------------
(* Proofs about CliServer: the types always; the rest for an application that   *)
(* shuts a server down before it disposes of it. Any number of managed threads, *)
(* any failures, callbacks that take any time and call Shutdown themselves.    *)
EXTENDS CliServer, TLAPS

OrderlyUse == ~DisposeRunning

-------------------------------------------------------------------------------
(* The inductive invariant. *)

(* A managed thread that may still enter the native server is the one the field *)
(* points to, or one that Abort has been called for; one that has not looked at *)
(* the pointer yet is the one of the field. The application's own thread runs  *)
(* only where there are no managed threads.                                    *)
Owned ==
  /\ \A t \in Threads : Alive(t) => style = "async" /\ (thread = t \/ t \in aborted)
  /\ \A t \in Threads : pc[t] = "ready" => thread = t
  /\ thread # None => style = "async"
  /\ op = "start" => thread = None /\ style = "async" /\ pointer
  /\ pc[Main] # "ready" /\ (Alive(Main) => style = "blocking")

(* No thread is left in the field when the server is disposed of, and none     *)
(* comes after.                                                               *)
Ending == op \in {"dispose", "dispose: stop", "delete", "join last"} \/ ~pointer
Quiet ==
  /\ Ending => /\ \A t \in Threads : Alive(t) => thread # t
               /\ ~Alive(Main) /\ ~running
  /\ native = "deleted" \/ disposed \/ op = "join last" => ~pointer

NoneDead == \A t \in Procs : pc[t] # "dead"

IInv == TypeOK /\ Owned /\ Quiet /\ NoneDead

-------------------------------------------------------------------------------
LEMMA People ==
  /\ Procs = Threads \cup {Main} /\ Main \notin Threads
  /\ None \notin Threads /\ None # Main /\ None \notin Procs
  BY ConstantsAssumption DEF Procs

LEMMA InitIInv == Init => IInv
<1> SUFFICES ASSUME Init PROVE IInv  OBVIOUS
<1> USE People DEF Init
<1>1. TypeOK  BY DEF TypeOK
<1>2. Owned /\ Quiet /\ NoneDead
  BY DEF Owned, Alive, Inside, Quiet, Ending, NoneDead
<1> QED  BY <1>1, <1>2 DEF IInv

LEMMA TypeStep == ASSUME TypeOK, [Next]_vars PROVE TypeOK'
<1> USE People DEF TypeOK, object
<1>1. CASE UNCHANGED vars  BY <1>1 DEF vars
<1>2. CASE RunAsync  BY <1>2 DEF RunAsync
<1>3. CASE Run  BY <1>3 DEF Run
<1>4. CASE Start  BY <1>4 DEF Start
<1>5. CASE Shutdown \/ Dispose  BY <1>5 DEF Shutdown, Dispose
<1>6. CASE Clear  BY <1>6 DEF Clear
<1>7. CASE Stop
  <2>1. raised' \in BOOLEAN  BY <1>7, Zenon DEF Stop
  <2> QED  BY <1>7, <2>1 DEF Stop
<1>8. CASE Delete  BY <1>8 DEF Delete
<1>9. CASE Join
  <2>1. disposed' \in BOOLEAN  BY <1>9, Zenon DEF Join
  <2> QED  BY <1>9, <2>1 DEF Join
<1>10. CASE JoinThrows  BY <1>10 DEF JoinThrows
<1>11. ASSUME NEW t \in Procs, Step(t) \/ ShutdownInside(t) \/ AbortTakesEffect(t)
       PROVE  TypeOK'
  <2>1. CASE LoopStart(t)  BY <2>1 DEF LoopStart
  <2>2. CASE LoopCheck(t)  BY <2>2 DEF LoopCheck
  <2>3. CASE IterateReturn(t)  BY <2>3 DEF IterateReturn
  <2>4. CASE StopInside(t)  BY <2>4 DEF StopInside
  <2>5. CASE JoinInside(t)  BY <2>5 DEF JoinInside
  <2>6. CASE ShutdownInside(t)  BY <2>6 DEF ShutdownInside
  <2>7. CASE AbortTakesEffect(t)  BY <2>7 DEF AbortTakesEffect
  <2> QED  BY <1>11, <2>1, <2>2, <2>3, <2>4, <2>5, <2>6, <2>7 DEF Step
<1> QED
  BY <1>1, <1>2, <1>3, <1>4, <1>5, <1>6, <1>7, <1>8, <1>9, <1>10, <1>11 DEF Next

LEMMA IInvStep == ASSUME OrderlyUse, IInv, [Next]_vars PROVE IInv'
<1>1. TypeOK'  BY TypeStep DEF IInv
<1> USE People DEF IInv, TypeOK, Owned, Alive, Inside, Quiet, Ending, NoneDead,
                   OrderlyUse, object
<1>2. CASE UNCHANGED vars  BY <1>1, <1>2 DEF vars
<1>3. CASE RunAsync  BY <1>1, <1>3 DEF RunAsync
<1>4. CASE Run  BY <1>1, <1>4 DEF Run
<1>5. CASE Start  BY <1>1, <1>5 DEF Start
<1>6. CASE Shutdown  BY <1>1, <1>6 DEF Shutdown
<1>7. CASE Dispose  BY <1>1, <1>7 DEF Dispose
<1>8. CASE Clear  BY <1>1, <1>8 DEF Clear
<1>9. CASE Stop  BY <1>1, <1>9 DEF Stop
<1>10. CASE Delete  BY <1>1, <1>10 DEF Delete
<1>11. CASE Join
  <2>1. \A t \in Threads : pc[t] = "ready" => thread # t
    BY <1>11 DEF Join, Late, InService
  <2>2. \A t \in Threads : Alive(t) => t \in aborted'
    BY <1>11 DEF Join
  <2>3. Owned'  BY <1>11, <2>1, <2>2 DEF Join
  <2>4. Quiet' /\ NoneDead'  BY <1>11 DEF Join
  <2> QED  BY <1>1, <2>3, <2>4
<1>12. CASE JoinThrows
  <2>1. Owned'  BY <1>12 DEF JoinThrows
  <2>2. Quiet' /\ NoneDead'  BY <1>12 DEF JoinThrows
  <2> QED  BY <1>1, <2>1, <2>2
<1>13. ASSUME NEW t \in Procs, Step(t) \/ ShutdownInside(t) \/ AbortTakesEffect(t)
       PROVE  IInv'
  <2>1. CASE LoopStart(t)  BY <1>1, <2>1 DEF LoopStart
  <2>2. CASE LoopCheck(t)  BY <1>1, <2>2 DEF LoopCheck
  <2>3. CASE IterateReturn(t)  BY <1>1, <2>3 DEF IterateReturn
  <2>4. CASE StopInside(t)  BY <1>1, <2>4 DEF StopInside
  <2>5. CASE JoinInside(t)
    <3>1. \A s \in Threads : pc[s] = "ready" => thread' = s
      BY <2>5 DEF JoinInside, Late, InService
    <3>2. \A s \in Threads : Alive(s) => thread' = s \/ s \in aborted'
      BY <2>5 DEF JoinInside
    <3>3. \A s \in Procs : pc'[s] = IF s = t THEN "iterate" ELSE pc[s]
      BY <2>5 DEF JoinInside
    <3>4. thread' \in {None, thread} /\ pc[t] = "join"  BY <2>5 DEF JoinInside
    <3>5. Owned'  BY <2>5, <3>1, <3>2, <3>3, <3>4 DEF JoinInside
    <3>6. Quiet' /\ NoneDead'  BY <2>5, <3>3, <3>4 DEF JoinInside
    <3> QED  BY <1>1, <3>5, <3>6
  <2>6. CASE ShutdownInside(t)  BY <1>1, <2>6 DEF ShutdownInside
  <2>7. CASE AbortTakesEffect(t)  BY <1>1, <2>7 DEF AbortTakesEffect
  <2> QED  BY <1>13, <2>1, <2>2, <2>3, <2>4, <2>5, <2>6, <2>7 DEF Step
<1> QED
  BY <1>2, <1>3, <1>4, <1>5, <1>6, <1>7, <1>8, <1>9, <1>10, <1>11, <1>12, <1>13 DEF Next

LEMMA Inductive == ASSUME OrderlyUse PROVE Spec => []IInv
<1>1. Init => IInv  BY InitIInv
<1>2. IInv /\ [Next]_vars => IInv'  BY IInvStep
<1> QED  BY <1>1, <1>2, PTL DEF Spec

-------------------------------------------------------------------------------
(* Every field keeps its type, also when the server is disposed of while it     *)
(* runs.                                                                      *)
THEOREM TypeCorrect == Spec => []TypeOK
<1>1. Init => TypeOK  BY InitIInv DEF IInv
<1>2. TypeOK /\ [Next]_vars => TypeOK'  BY TypeStep
<1> QED  BY <1>1, <1>2, PTL DEF Spec

(* No thread is inside the native server after Dispose has deleted it, but for  *)
(* those that Join has given up on.                                            *)
THEOREM NeverStray == ASSUME OrderlyUse PROVE Spec => []NoStrayThread
<1>1. IInv => NoStrayThread
  BY People DEF IInv, Owned, Quiet, Ending, NoStrayThread, Abandoned, Alive
<1> QED  BY <1>1, Inductive, PTL

(* RunAsyncLoop never throws on its managed thread. *)
THEOREM NeverUnhandled == ASSUME OrderlyUse PROVE Spec => []NoUnhandled
<1>1. IInv => NoUnhandled  BY People DEF IInv, NoneDead, NoUnhandled
<1> QED  BY <1>1, Inductive, PTL

-------------------------------------------------------------------------------
(* The refinement, as long as no thread is abandoned: then at most one thread is *)
(* alive, so that the CHOOSE of the mapping has one candidate.                 *)
NoneAbandoned == \A t \in Threads : ~Abandoned(t)
OneServes == \A s, t \in Procs : InService(s) /\ InService(t) => s = t

LEMMA OneAlive ==
  ASSUME IInv, NoneAbandoned, NEW s \in Procs, NEW t \in Procs, Alive(s), Alive(t)
  PROVE  s = t
  BY People DEF IInv, Owned, NoneAbandoned, Abandoned

LEMMA ServiceIsAlive == \A t : InService(t) => Alive(t)
  BY DEF InService, Alive, Inside

LEMMA InvariantOneServes == ASSUME IInv, NoneAbandoned PROVE OneServes
  BY OneAlive, ServiceIsAlive DEF OneServes

(* A thread that is alive finds the server where it left it.                    *)
LEMMA Safe ==
  ASSUME IInv, NoneAbandoned, NEW t \in Procs, Alive(t)
  PROVE  native = "alive"
  BY People DEF IInv, TypeOK, Owned, Quiet, Ending, NoneAbandoned, Abandoned

(* When the field is empty, or there is a thread of the application, nobody     *)
(* else is alive.                                                             *)
LEMMA NobodyServes ==
  ASSUME IInv, NoneAbandoned, thread = None, ~Alive(Main)
  PROVE  \A t \in Procs : ~InService(t)
  BY People, ServiceIsAlive DEF IInv, Owned, NoneAbandoned, Abandoned

LEMMA ServingIs ==
  ASSUME OneServes, NEW t \in Procs, InService(t) PROVE ServingThread = t
<1>1. ServingThread = CHOOSE s \in Procs : InService(s)  BY DEF ServingThread
<1>2. ServingThread \in Procs /\ InService(ServingThread)  BY <1>1
<1> QED  BY <1>2 DEF OneServes

LEMMA ServingIsNext ==
  ASSUME OneServes', NEW t \in Procs, InService(t)' PROVE ServingThread' = t
<1>1. ServingThread' = CHOOSE s \in Procs : InService(s)'  BY DEF ServingThread
<1>2. ServingThread' \in Procs /\ \E s \in Procs : s = ServingThread' /\ InService(s)'
  BY <1>1
<1> QED  BY <1>2 DEF OneServes

LEMMA SameService ==
  ASSUME OneServes, \A t \in Procs : InService(t)' <=> InService(t)
  PROVE  ServingThread' = ServingThread
<1>1. CASE \A t \in Procs : ~InService(t)
  BY <1>1 DEF ServingThread
<1>2. CASE \E t \in Procs : InService(t)
  <2>1. PICK t \in Procs : InService(t)  BY <1>2
  <2>2. OneServes'  BY DEF OneServes
  <2> QED  BY <2>1, <2>2, ServingIs, ServingIsNext
<1> QED  BY <1>1, <1>2

(* A step that takes nobody in or out of service may only clear the flag, or    *)
(* set it when nobody serves.                                                  *)
LEMMA QuietStep ==
  ASSUME IInv, IInv', NoneAbandoned, \A t \in Procs : InService(t)' <=> InService(t),
         running' \in {running, FALSE} \/ \A t \in Procs : ~InService(t)
  PROVE  [Service!Next]_<<running, ServingThread>>
<1>1. ServingThread' = ServingThread
  BY InvariantOneServes, SameService
<1>2. running \in BOOLEAN /\ running' \in BOOLEAN  BY DEF IInv, TypeOK
<1>3. CASE running' \in {running, FALSE}
  BY <1>1, <1>2, <1>3 DEF Service!Next, Service!Close
<1>4. CASE \A t \in Procs : ~InService(t)
  <2>1. ServingThread = None  BY <1>4 DEF ServingThread
  <2> QED  BY <1>1, <1>2, <2>1 DEF Service!Next, Service!Open, Service!Close
<1> QED  BY <1>3, <1>4

(* A thread that serves stops serving, and nobody takes its place.              *)
LEMMA LeavingStep ==
  ASSUME IInv, NoneAbandoned, NEW t \in Procs, InService(t), ~InService(t)',
         \A s \in Procs : s # t => (InService(s)' <=> InService(s)), running' = running
  PROVE  Service!Next
<1>1. ServingThread = t  BY InvariantOneServes, ServingIs
<1>2. \A s \in Procs : ~InService(s)'  BY InvariantOneServes DEF OneServes
<1>3. ServingThread' = None  BY <1>2 DEF ServingThread
<1> QED  BY <1>1, <1>3 DEF Service!Next, Service!Leave

LEMMA StepRefines ==
  ASSUME OrderlyUse, IInv, IInv', [Next]_vars, NoneAbandoned
  PROVE  [Service!Next]_<<running, ServingThread>>
<1> DEFINE Goal == [Service!Next]_<<running, ServingThread>>
<1>1. CASE UNCHANGED vars
  <2>1. (\A t \in Procs : InService(t)' <=> InService(t)) /\ running' = running
    BY <1>1 DEF vars, InService
  <2> QED  BY <2>1, QuietStep
<1>2. CASE RunAsync
  <2>1. \A t \in Procs : ~InService(t)
    <3>1. thread = None /\ ~Alive(Main)  BY <1>2 DEF RunAsync, IInv, Owned
    <3> QED  BY <3>1, NobodyServes
  <2>2. \A t \in Procs : InService(t)' <=> InService(t)  BY <1>2 DEF RunAsync, InService
  <2> QED  BY <2>1, <2>2, QuietStep
<1>3. CASE Run
  <2>1. \A t \in Procs : ~InService(t)
    <3>1. thread = None /\ ~Alive(Main)  BY <1>3 DEF Run, IInv, Owned, Alive, Inside
    <3> QED  BY <3>1, NobodyServes
  <2>2. \A t \in Procs : InService(t)' <=> InService(t)
    BY <1>3, <2>1, People DEF Run, InService, IInv, TypeOK
  <2> QED  BY <2>1, <2>2, QuietStep
<1>4. CASE Start
  <2>1. \A t \in Procs : InService(t)' <=> InService(t)
    BY <1>4, People DEF Start, InService, IInv, TypeOK
  <2> QED  BY <1>4, <2>1, QuietStep DEF Start
<1>5. CASE Shutdown \/ Dispose \/ Clear \/ Stop \/ Delete \/ Join
  <2>1. \A t \in Procs : InService(t)' <=> InService(t)
    BY <1>5 DEF Shutdown, Dispose, Clear, Stop, Delete, Join, InService, object
  <2>2. running' \in {running, FALSE}
    BY <1>5 DEF Shutdown, Dispose, Clear, Stop, Delete, Join, object
  <2> QED  BY <2>1, <2>2, QuietStep
<1>6. CASE JoinThrows
  <2>1. \A t \in Procs : InService(t)' <=> InService(t)
    BY <1>6, People DEF JoinThrows, InService, IInv, TypeOK
  <2> QED  BY <1>6, <2>1, QuietStep DEF JoinThrows
<1>7. ASSUME NEW t \in Procs, Step(t) \/ ShutdownInside(t) \/ AbortTakesEffect(t)
      PROVE  Goal
  <2> USE DEF IInv, TypeOK
  <2>1. CASE LoopStart(t) \/ StopInside(t) \/ JoinInside(t) \/ ShutdownInside(t)
    <3>1. \A s \in Procs : InService(s)' <=> InService(s)
      BY <2>1 DEF LoopStart, StopInside, JoinInside, ShutdownInside, InService
    <3>2. running' \in {running, FALSE}
      BY <2>1 DEF LoopStart, StopInside, JoinInside, ShutdownInside, object
    <3> QED  BY <3>1, <3>2, QuietStep
  <2>2. CASE LoopCheck(t)
    <3>1. Alive(t) /\ native = "alive"  BY <2>2, Safe DEF LoopCheck, Alive, Inside
    <3>2. \A s \in Procs : ~InService(s)
      <4>1. ASSUME NEW s \in Procs, InService(s) PROVE FALSE
        <5>1. s = t  BY <3>1, <4>1, OneAlive, ServiceIsAlive
        <5> QED  BY <2>2, <4>1, <5>1 DEF LoopCheck, InService
      <4> QED  BY <4>1
    <3>3. CASE ~running
      <4>1. pc' = [pc EXCEPT ![t] = "ended"]  BY <2>2, <3>1, <3>3 DEF LoopCheck
      <4>2. \A s \in Procs : InService(s)' <=> InService(s)
        BY <3>2, <4>1 DEF InService
      <4> QED  BY <2>2, <4>2, QuietStep DEF LoopCheck, object
    <3>4. CASE running
      <4>1. pc' = [pc EXCEPT ![t] = "iterate"]  BY <2>2, <3>1, <3>4 DEF LoopCheck
      <4>2. InService(t)' /\ OneServes'
        BY <3>2, <4>1 DEF InService, OneServes
      <4>3. ServingThread = None /\ ServingThread' = t
        BY <3>2, <4>2, ServingIsNext DEF ServingThread
      <4> QED  BY <2>2, <3>4, <4>3 DEF LoopCheck, object, Service!Next, Service!Enter
    <3> QED  BY <3>3, <3>4
  <2>3. CASE IterateReturn(t) \/ AbortTakesEffect(t)
    <3>1. InService(t) /\ ~InService(t)' /\ running' = running
      BY <2>3 DEF IterateReturn, AbortTakesEffect, InService, object
    <3>2. \A s \in Procs : s # t => (InService(s)' <=> InService(s))
      BY <2>3 DEF IterateReturn, AbortTakesEffect, InService
    <3> QED  BY <3>1, <3>2, LeavingStep
  <2> QED  BY <1>7, <2>1, <2>2, <2>3 DEF Step
<1> QED  BY <1>1, <1>2, <1>3, <1>4, <1>5, <1>6, <1>7 DEF Next

(* To its clients, UA::Server serves as ServerService says, but while a thread   *)
(* is alive that Join has given up on: one thread at a time, taken up only     *)
(* while the server is open, and opened only when the last thread has left.    *)
THEOREM CliServes == ASSUME OrderlyUse PROVE Spec => ImplementsService
<1> DEFINE A == (\E t \in Threads : Abandoned(t)) \/ Service!Next
<1>1. Init => Service!Init
  <2> SUFFICES ASSUME Init PROVE Service!Init  OBVIOUS
  <2>1. \A t \in Procs : ~InService(t)  BY DEF Init, InService
  <2> QED  BY <2>1 DEF Init, Service!Init, ServingThread
<1>2. IInv /\ IInv' /\ [Next]_vars => [A]_<<running, ServingThread>>
  <2> SUFFICES ASSUME IInv, IInv', [Next]_vars, NoneAbandoned
               PROVE  [A]_<<running, ServingThread>>
    BY DEF NoneAbandoned
  <2> QED  BY StepRefines
<1> QED  BY <1>1, <1>2, Inductive, PTL DEF Spec, ImplementsService
===============================================================================
