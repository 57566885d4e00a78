----------------------------- MODULE ClientProofs -----------------------------
(* Proofs about Client, for any nesting of operations. The three invariants     *)
(* hold together: what an operation leaves on the heap is what its frame held. *)
EXTENDS Client, SequenceTheorems, TLAPS

Frames == [at : Locations, held : SUBSET Resources]

IInv == TypeOK /\ FlagMatchesSession /\ NoLeak

-------------------------------------------------------------------------------
(* The three ways the stack changes, and what they keep of its type. *)
LEMMA Shorter ==
  ASSUME NEW s \in Seq(Frames), s # <<>>
  PROVE  /\ Last(s) \in Frames /\ Last(s).held \subseteq Resources
         /\ Front(s) \in Seq(Frames) /\ Len(Front(s)) = Len(s) - 1
         /\ Len(s) \in Nat
<1>1. Len(s) \in Nat \ {0} /\ DOMAIN s = 1..Len(s)  BY EmptySeq, LenProperties
<1>2. \A i \in 1..Len(s)-1 : s[i] \in Frames  BY <1>1, ElementOfSeq
<1>3. Front(s) \in Seq(Frames) /\ Len(Front(s)) = Len(s) - 1
  BY <1>1, <1>2, SubSeqProperties DEF Front
<1>4. Last(s) \in Frames  BY <1>1, ElementOfSeq DEF Last
<1> QED  BY <1>1, <1>3, <1>4 DEF Frames

LEMMA PushType ==
  ASSUME TypeOK, NEW location \in Locations, NEW held \in SUBSET Resources,
         Push(location, held)
  PROVE  stack' \in Seq(Frames) /\ Len(stack') <= Depth
<1>1. [at |-> location, held |-> held] \in Frames /\ stack \in Seq(Frames)
  BY DEF Frames, TypeOK
<1> QED  BY <1>1, AppendProperties, LenProperties, DepthAssumption DEF Push

LEMMA MoveType ==
  ASSUME TypeOK, stack # <<>>, NEW location \in Locations, NEW held \in SUBSET Resources,
         Move(location, held)
  PROVE  stack' \in Seq(Frames) /\ Len(stack') <= Depth
<1>1. [at |-> location, held |-> held] \in Frames /\ stack \in Seq(Frames) /\ Len(stack) <= Depth
  BY DEF Frames, TypeOK
<1>2. Front(stack) \in Seq(Frames) /\ Len(Front(stack)) = Len(stack) - 1 /\ Len(stack) \in Nat
  BY <1>1, Shorter
<1> QED  BY <1>1, <1>2, AppendProperties, DepthAssumption DEF Move

LEMMA LeaveType ==
  ASSUME TypeOK, stack # <<>>, NEW kept \in SUBSET Resources, Leave(kept)
  PROVE  /\ stack' \in Seq(Frames) /\ Len(stack') <= Depth
         /\ leaked' \subseteq Resources
<1>1. stack \in Seq(Frames) /\ Len(stack) <= Depth  BY DEF Frames, TypeOK
<1>2. Front(stack) \in Seq(Frames) /\ Len(Front(stack)) = Len(stack) - 1 /\ Len(stack) \in Nat
  BY <1>1, Shorter
<1> QED  BY <1>1, <1>2, DepthAssumption DEF Leave, TypeOK

LEMMA TopHeld ==
  ASSUME TypeOK, stack # <<>> PROVE Top.held \subseteq Resources
  BY Shorter DEF Top, Frames, TypeOK

-------------------------------------------------------------------------------
LEMMA InitIInv == Init => IInv
<1> SUFFICES ASSUME Init PROVE IInv  OBVIOUS
<1>1. stack \in Seq(Frames) /\ Len(stack) = 0  BY EmptySeq DEF Init
<1>2. Len(stack) <= Depth  BY <1>1, DepthAssumption
<1>3. TypeOK  BY <1>1, <1>2 DEF Init, TypeOK, Frames
<1> QED  BY <1>3 DEF Init, IInv, FlagMatchesSession, NoLeak

LEMMA TypeStep == ASSUME TypeOK, [Next]_vars PROVE TypeOK'
<1> USE DEF TypeOK, ToUaNodeId, Resources
<1>1. CASE UNCHANGED vars  BY <1>1 DEF vars
<1>2. CASE Lose \/ Recover  BY <1>2 DEF Lose, Recover
<1>3. CASE Connect \/ Disconnect  BY <1>3 DEF Connect, Disconnect
<1>4. CASE Destroy  BY <1>4 DEF Destroy
<1>5. CASE ParseFails  BY <1>5 DEF ParseFails
<1>6. ASSUME NEW id \in {"path", "string"}, Read(id) \/ Write(id) \/ Call(id) PROVE TypeOK'
  <2>1. stack' \in Seq(Frames) /\ Len(stack') <= Depth
    <3>1. ASSUME NEW held \in SUBSET Resources, NEW location \in Locations, Push(location, held)
          PROVE  stack' \in Seq(Frames) /\ Len(stack') <= Depth
      BY <3>1, PushType
    <3> QED  BY <1>6, <3>1 DEF Read, Write, Call, Locations
  <2> QED  BY <1>6, <2>1 DEF Read, Write, Call, Frames
<1>7. CASE GetterReturns \/ Written \/ ResponseReturns
  <2>1. stack' \in Seq(Frames) /\ Len(stack') <= Depth /\ leaked' \subseteq Resources
    BY <1>7, LeaveType DEF GetterReturns, Written, ResponseReturns, At
  <2> QED  BY <1>7, <2>1 DEF GetterReturns, Written, ResponseReturns, Frames
<1>8. CASE SetterReturns \/ RequestReturns
  <2>1. stack' \in Seq(Frames) /\ Len(stack') <= Depth
    BY <1>8, MoveType DEF SetterReturns, RequestReturns, At, Locations
  <2> QED  BY <1>8, <2>1 DEF SetterReturns, RequestReturns, Frames
<1>9. CASE Counted
  <2>1. stack # <<>> /\ Top.held \subseteq Resources  BY <1>9, TopHeld DEF Counted, At
  <2>2. stack' \in Seq(Frames) /\ Len(stack') <= Depth /\ leaked' \subseteq Resources
    <3>1. CASE \E next \in {"request", "call"} : Move(next, {}) /\ UNCHANGED leaked
      BY <2>1, <3>1, MoveType DEF Locations
    <3>2. CASE Leave(Top.held)  BY <2>1, <3>2, LeaveType
    <3> QED  BY <1>9, <3>1, <3>2 DEF Counted
  <2> QED  BY <1>9, <2>2 DEF Counted, Frames
<1>10. CASE Called
  <2>1. stack # <<>> /\ Top.held \subseteq Resources  BY <1>10, TopHeld DEF Called, At
  <2>2. stack' \in Seq(Frames) /\ Len(stack') <= Depth /\ leaked' \subseteq Resources
    <3>1. CASE Move("response", Top.held \cup {"outputs"}) /\ UNCHANGED leaked
      <4>1. Top.held \cup {"outputs"} \in SUBSET Resources  BY <2>1
      <4> QED  BY <2>1, <3>1, <4>1, MoveType DEF Locations
    <3>2. CASE Leave({})  BY <2>1, <3>2, LeaveType
    <3> QED  BY <1>10, <3>1, <3>2 DEF Called
  <2> QED  BY <1>10, <2>2 DEF Called, Frames
<1>11. CASE CallbackThrows
  <2>1. stack # <<>> /\ Top.held \subseteq Resources  BY <1>11, TopHeld DEF CallbackThrows
  <2>2. PICK filled \in SUBSET Filled : Leave(Top.held \cup filled)
    BY <1>11 DEF CallbackThrows
  <2>3. Top.held \cup filled \in SUBSET Resources  BY <2>1 DEF Filled
  <2>4. stack' \in Seq(Frames) /\ Len(stack') <= Depth /\ leaked' \subseteq Resources
    BY <2>1, <2>2, <2>3, LeaveType
  <2> QED  BY <1>11, <2>4 DEF CallbackThrows, Frames
<1> QED
  BY <1>1, <1>2, <1>3, <1>4, <1>5, <1>6, <1>7, <1>8, <1>9, <1>10, <1>11 DEF Next

(* Only the four actions of the session touch the flag or the session, and a    *)
(* destroyed client does nothing any more.                                     *)
LEMMA FlagStep == ASSUME FlagMatchesSession, [Next]_vars PROVE FlagMatchesSession'
<1> USE DEF FlagMatchesSession
<1>1. CASE UNCHANGED vars  BY <1>1 DEF vars
<1>2. ASSUME alive, UNCHANGED <<connected, session, alive>> PROVE FlagMatchesSession'
  BY <1>2
<1>3. CASE Next /\ alive
  <2>1. CASE Lose  BY <1>3, <2>1, Zenon DEF Lose
  <2>2. CASE Recover  BY <1>3, <2>2, Zenon DEF Recover
  <2>3. CASE Connect  BY <1>2, <1>3, <2>3 DEF Connect
  <2>4. CASE Disconnect  BY <1>3, <2>4 DEF Disconnect
  <2>5. CASE Destroy  BY <1>2, <1>3, <2>5 DEF Destroy
  <2>6. CASE ParseFails \/ GetterReturns \/ SetterReturns \/ Written
    BY <1>2, <1>3, <2>6 DEF ParseFails, GetterReturns, SetterReturns, Written
  <2>7. CASE Counted \/ RequestReturns \/ Called \/ ResponseReturns \/ CallbackThrows
    BY <1>2, <1>3, <2>7
       DEF Counted, RequestReturns, Called, ResponseReturns, CallbackThrows
  <2>8. ASSUME NEW id \in {"path", "string"}, Read(id) \/ Write(id) \/ Call(id)
        PROVE  FlagMatchesSession'
    BY <1>2, <1>3, <2>8 DEF Read, Write, Call
  <2> QED
    BY <1>1, <1>3, <2>1, <2>2, <2>3, <2>4, <2>5, <2>6, <2>7, <2>8 DEF Next
<1> QED  BY <1>1, <1>3 DEF Next

(* An operation that ends well clears all it holds: only "faulted" keeps any.   *)
LEMMA LeakStep == ASSUME NoLeak, [Next]_vars PROVE NoLeak'
<1> USE DEF NoLeak
<1>1. ASSUME UNCHANGED <<leaked, faulted>> PROVE NoLeak'  BY <1>1
<1>2. ASSUME NEW id, ToUaNodeId(id), UNCHANGED faulted PROVE NoLeak'
  BY <1>2 DEF ToUaNodeId
<1>3. ASSUME Leave({}), UNCHANGED faulted PROVE NoLeak'  BY <1>3 DEF Leave
<1>4. ASSUME faulted' = TRUE PROVE NoLeak'  BY <1>4
<1>5. CASE UNCHANGED vars  BY <1>1, <1>5 DEF vars
<1>6. CASE Lose \/ Recover \/ Connect \/ Disconnect \/ Destroy
  BY <1>1, <1>6 DEF Lose, Recover, Connect, Disconnect, Destroy
<1>7. CASE ParseFails  BY <1>2, <1>7 DEF ParseFails
<1>8. ASSUME NEW id \in {"path", "string"}, Read(id) \/ Write(id) \/ Call(id) PROVE NoLeak'
  BY <1>2, <1>8 DEF Read, Write, Call
<1>9. CASE GetterReturns \/ Written \/ ResponseReturns
  BY <1>3, <1>9 DEF GetterReturns, Written, ResponseReturns
<1>10. CASE SetterReturns \/ RequestReturns
  BY <1>1, <1>10 DEF SetterReturns, RequestReturns
<1>11. CASE Counted  BY <1>1, <1>4, <1>11 DEF Counted
<1>12. CASE Called  BY <1>1, <1>3, <1>12 DEF Called
<1>13. CASE CallbackThrows  BY <1>4, <1>13 DEF CallbackThrows
<1> QED
  BY <1>5, <1>6, <1>7, <1>8, <1>9, <1>10, <1>11, <1>12, <1>13 DEF Next

LEMMA Inductive == Spec => []IInv
<1>1. Init => IInv  BY InitIInv
<1>2. IInv /\ [Next]_vars => IInv'  BY TypeStep, FlagStep, LeakStep DEF IInv
<1> QED  BY <1>1, <1>2, PTL DEF Spec

-------------------------------------------------------------------------------
(* The client's fields, the operations in progress and what they hold keep      *)
(* their types.                                                                *)
THEOREM TypeCorrect == Spec => []TypeOK
<1>1. IInv => TypeOK  BY DEF IInv
<1> QED  BY <1>1, Inductive, PTL

(* client_connected and the library's session never disagree, and a destroyed   *)
(* client leaves no session behind.                                            *)
THEOREM AlwaysFlagMatchesSession == Spec => []FlagMatchesSession
<1>1. IInv => FlagMatchesSession  BY DEF IInv
<1> QED  BY <1>1, Inductive, PTL

(* read, write and call free what they allocate on every way out but those of   *)
(* an exception, however deep they are nested.                                 *)
THEOREM AlwaysNoLeak == Spec => []NoLeak
<1>1. IInv => NoLeak  BY DEF IInv
<1> QED  BY <1>1, Inductive, PTL
===============================================================================
