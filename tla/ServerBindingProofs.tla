-------------------------- MODULE ServerBindingProofs --------------------------
(* Proofs about ServerBinding, for any set of add calls, any nesting and any    *)
(* number of log callbacks.                                                    *)
EXTENDS ServerBinding, SequenceTheorems, TLAPS

-------------------------------------------------------------------------------
(* The inductive invariant. *)

(* What is found under a string was added under that string. *)
Places ==
  /\ \A u \in Uids :
       /\ nodes[u] # Absent => Own(nodes[u]) = u
       /\ getters[u] \in Adds => Own(getters[u]) = u
       /\ setters[u] \in Adds => Own(setters[u]) = u
       /\ methods[u] \in Adds => Own(methods[u]) = u
  /\ \A i \in DOMAIN stack : stack[i].fn # Null => Own(stack[i].fn) = stack[i].uid

(* The callbacks that an add call has brought are under its string.            *)
Carries(add) ==
  /\ add.kind = "variable" => getters[Own(add)] = add /\ setters[Own(add)] = SetterOf(add)
  /\ add.kind = "method" => methods[Own(add)] = add

(* The maps are written before the library is asked, and stay so while it       *)
(* reads the new variable and while callbacks add other nodes.                 *)
BoundBeforeInsert ==
  \A i \in DOMAIN stack : stack[i].stage = "insert" => Carries(stack[i].fn)

(* What is called while an add call waits for the library is a read of the new  *)
(* variable, and what its getter adds has another string.                      *)
ReadAboveInsert ==
  \A i \in DOMAIN stack : stack[i].stage = "insert" /\ i < Len(stack) =>
    stack[i + 1].stage = "run" /\ stack[i + 1].uid = stack[i].uid

OneInsert ==
  \A i, j \in DOMAIN stack :
    stack[i].stage = "insert" /\ stack[j].stage = "insert" /\ stack[i].uid = stack[j].uid
      => i = j

IInv ==
  TypeOK /\ Places /\ BoundBeforeVisible /\ BoundBeforeInsert /\ ReadAboveInsert
    /\ OneInsert /\ PairedCallbacks

-------------------------------------------------------------------------------
(* The stack: what a call pushes and what the end of a call leaves.             *)
LEMMA Popped ==
  ASSUME NEW S, NEW s \in Seq(S), s # <<>>
  PROVE  /\ Last(s) \in S /\ Last(s) = s[Len(s)] /\ Len(s) \in DOMAIN s
         /\ Front(s) \in Seq(S) /\ Len(Front(s)) = Len(s) - 1
         /\ \A i \in DOMAIN Front(s) : i \in DOMAIN s /\ Front(s)[i] = s[i]
<1>1. Len(s) \in Nat \ {0} /\ DOMAIN s = 1..Len(s)  BY EmptySeq, LenProperties
<1>2. \A i \in 1..Len(s)-1 : s[i] \in S  BY <1>1, ElementOfSeq
<1>3. /\ Front(s) \in Seq(S) /\ Len(Front(s)) = Len(s) - 1
      /\ \A i \in 1..Len(s)-1 : Front(s)[i] = s[i]
  BY <1>1, <1>2, SubSeqProperties DEF Front
<1>4. DOMAIN Front(s) = 1..Len(s)-1  BY <1>3, LenProperties
<1> QED  BY <1>1, <1>3, <1>4, ElementOfSeq DEF Last

LEMMA Pushed ==
  ASSUME NEW S, NEW s \in Seq(S), NEW e \in S
  PROVE  /\ Append(s, e) \in Seq(S) /\ Len(Append(s, e)) = Len(s) + 1 /\ Len(s) \in Nat
         /\ Last(Append(s, e)) = e /\ DOMAIN s = 1..Len(s)
         /\ DOMAIN Append(s, e) = 1..(Len(s) + 1) /\ Append(s, e)[Len(s) + 1] = e
         /\ \A i \in DOMAIN s : i \in DOMAIN Append(s, e) /\ Append(s, e)[i] = s[i]
         /\ \A i \in DOMAIN Append(s, e) :
              (i \in DOMAIN s /\ Append(s, e)[i] = s[i]) \/ Append(s, e)[i] = e
<1>1. DOMAIN s = 1..Len(s) /\ Len(s) \in Nat  BY LenProperties
<1>2. /\ Append(s, e) \in Seq(S) /\ Len(Append(s, e)) = Len(s) + 1
      /\ \A i \in 1..Len(s) : Append(s, e)[i] = s[i]
      /\ Append(s, e)[Len(s) + 1] = e
  BY AppendProperties
<1>3. DOMAIN Append(s, e) = 1..(Len(s) + 1)  BY <1>2, LenProperties
<1> QED  BY <1>1, <1>2, <1>3 DEF Last

(* An add call has a string, and the two values that are no add call are not    *)
(* taken for one.                                                              *)
LEMMA AddFacts ==
  /\ \A add \in Adds : Own(add) \in Uids /\ add # Null /\ add # Absent
  /\ \A add \in Adds : SetterOf(add) \in {add, Null}
  /\ Null # Absent /\ Null \notin Adds /\ Absent \notin Adds
  BY AbsentAssumption DEF Uids, SetterOf

-------------------------------------------------------------------------------
LEMMA InitIInv == Init => IInv
<1> SUFFICES ASSUME Init PROVE IInv  OBVIOUS
<1> USE DEF Init
<1>1. stack \in Seq(Frames) /\ Len(stack) = 0 /\ DOMAIN stack = {}
  BY EmptySeq, LenProperties
<1>2. TypeOK
  <2>1. 0 \in 0..MaxLogs /\ 0 <= Depth  BY BoundsAssumption
  <2> QED  BY <1>1, <2>1 DEF TypeOK
<1>3. Places /\ BoundBeforeInsert /\ ReadAboveInsert /\ OneInsert
  BY <1>1, AddFacts DEF Places, BoundBeforeInsert, ReadAboveInsert, OneInsert
<1>4. BoundBeforeVisible /\ PairedCallbacks
  BY AddFacts DEF BoundBeforeVisible, PairedCallbacks
<1> QED  BY <1>2, <1>3, <1>4 DEF IInv

(* A step that leaves nodes, maps and stack alone. *)
LEMMA StillStep ==
  ASSUME IInv, UNCHANGED <<nodes, maps, stack, refused>>,
         logs' \in 0..MaxLogs, open' \in BOOLEAN, escaped' \in BOOLEAN
  PROVE  IInv'
<1> USE DEF IInv, maps
<1>1. TypeOK' /\ Places' /\ PairedCallbacks'  BY DEF TypeOK, Places, PairedCallbacks
<1>2. BoundBeforeVisible'  BY DEF BoundBeforeVisible, BelongsTo, InProgress
<1>3. BoundBeforeInsert' /\ ReadAboveInsert' /\ OneInsert'
  BY DEF BoundBeforeInsert, Carries, ReadAboveInsert, OneInsert
<1> QED  BY <1>1, <1>2, <1>3

(* A call may be pushed if it is the read of the variable that is being added,  *)
(* a request, or an add call of a string that no callback in progress serves.  *)
LEMMA PushOrder ==
  ASSUME TypeOK, ReadAboveInsert, OneInsert, NEW frame \in Frames,
         stack' = Append(stack, frame),
         \/ frame.stage = "run" /\ (InAdd => frame.uid = Top.uid)
         \/ /\ Idle \/ InCallback
            /\ \A i \in DOMAIN stack : stack[i].stage = "run" => stack[i].uid # frame.uid
  PROVE  ReadAboveInsert' /\ OneInsert'
<1>1. stack \in Seq(Frames)  BY DEF TypeOK
<1>2. /\ Len(stack') = Len(stack) + 1 /\ Len(stack) \in Nat
      /\ DOMAIN stack = 1..Len(stack) /\ DOMAIN stack' = 1..(Len(stack) + 1)
      /\ \A i \in DOMAIN stack : stack'[i] = stack[i]
      /\ stack'[Len(stack) + 1] = frame
  BY <1>1, Pushed
<1>3. ASSUME Len(stack) # 0 PROVE ~Idle /\ Top = stack[Len(stack)]
  BY <1>1, <1>3, EmptySeq DEF Idle, Top, Last
<1>4. ReadAboveInsert'
  <2> SUFFICES ASSUME NEW i \in DOMAIN stack', stack'[i].stage = "insert", i < Len(stack')
               PROVE  stack'[i + 1].stage = "run" /\ stack'[i + 1].uid = stack'[i].uid
    BY DEF ReadAboveInsert
  <2>1. i \in DOMAIN stack /\ stack'[i] = stack[i]  BY <1>2
  <2>2. CASE i < Len(stack)
    <3>1. i + 1 \in DOMAIN stack  BY <1>2, <2>1, <2>2
    <3> QED  BY <1>2, <2>1, <2>2, <3>1 DEF ReadAboveInsert
  <2>3. CASE i = Len(stack)
    <3>1. InAdd /\ Top = stack[i]  BY <1>2, <1>3, <2>1, <2>3 DEF InAdd
    <3> QED  BY <1>2, <2>1, <2>3, <3>1 DEF InAdd, InCallback
  <2> QED  BY <1>2, <2>1, <2>2, <2>3
<1>5. ASSUME frame.stage = "insert", NEW i \in DOMAIN stack, stack[i].stage = "insert"
      PROVE  stack[i].uid # frame.uid
  <2>1. i # Len(stack)
    BY <1>2, <1>3, <1>5 DEF InCallback
  <2>2. i + 1 \in DOMAIN stack /\ stack[i + 1].stage = "run" /\ stack[i + 1].uid = stack[i].uid
    BY <1>2, <1>5, <2>1 DEF ReadAboveInsert
  <2> QED  BY <1>5, <2>2
<1>6. OneInsert'
  BY <1>2, <1>5 DEF OneInsert
<1> QED  BY <1>4, <1>6

(* What belongs to a node after a step, as a statement about the state before.  *)
BelongsNext(fn, u) ==
  \/ fn = nodes'[u]
  \/ /\ fn \in Adds /\ Own(fn) = u
     /\ \/ fn \in refused'
        \/ \E i \in DOMAIN stack' : stack'[i].stage = "insert" /\ stack'[i].fn = fn

LEMMA VisibleNext ==
  ASSUME \A u \in Uids : nodes'[u] # Absent =>
           /\ nodes'[u].kind = "variable"
                => BelongsNext(getters'[u], u) /\ setters'[u] = SetterOf(getters'[u])
           /\ nodes'[u].kind = "method" => BelongsNext(methods'[u], u)
  PROVE  BoundBeforeVisible'
  BY DEF BoundBeforeVisible, BelongsTo, InProgress, BelongsNext

(* It still does if the address space and the refusals stay and calls are only  *)
(* added to the stack.                                                         *)
LEMMA StillBelongs ==
  ASSUME NEW fn, NEW u \in Uids, BelongsTo(fn, u), UNCHANGED nodes, UNCHANGED refused,
         \A i \in DOMAIN stack : i \in DOMAIN stack' /\ stack'[i] = stack[i]
  PROVE  BelongsNext(fn, u)
  BY DEF BelongsTo, BelongsNext, InProgress

(* An add call up to the library. *)
LEMMA AddStep == ASSUME IInv, NEW add \in Adds, AddCall(add) PROVE IInv'
<1> DEFINE frame == [stage |-> "insert", uid |-> Own(add), fn |-> add, what |-> "add"]
<1> USE AddFacts DEF IInv, AddCall
<1>1. frame \in Frames  BY DEF Frames
<1>2. stack \in Seq(Frames)  BY DEF TypeOK
<1>3. /\ stack' \in Seq(Frames) /\ Len(stack') = Len(stack) + 1
      /\ \A i \in DOMAIN stack : i \in DOMAIN stack' /\ stack'[i] = stack[i]
      /\ Len(stack) + 1 \in DOMAIN stack' /\ stack'[Len(stack) + 1] = frame
      /\ \A i \in DOMAIN stack' :
           (i \in DOMAIN stack /\ stack'[i] = stack[i]) \/ stack'[i] = frame
  BY <1>1, <1>2, Pushed
<1>4. TypeOK'
  <2>1. /\ getters' \in [Uids -> Variables \cup {Null, Absent}]
        /\ setters' \in [Uids -> Variables \cup {Null, Absent}]
        /\ methods' \in [Uids -> Methods \cup {Null, Absent}]
    BY DEF TypeOK, Bind, SetterOf, Variables, Methods
  <2>2. Len(stack') <= Depth
    BY <1>2, <1>3, BoundsAssumption, LenProperties
  <2> QED  BY <1>3, <2>1, <2>2 DEF TypeOK
<1>5. Places'
  <2>1. \A u \in Uids :
          /\ nodes'[u] # Absent => Own(nodes'[u]) = u
          /\ getters'[u] \in Adds => Own(getters'[u]) = u
          /\ setters'[u] \in Adds => Own(setters'[u]) = u
          /\ methods'[u] \in Adds => Own(methods'[u]) = u
    BY DEF Places, TypeOK, Bind
  <2>2. \A i \in DOMAIN stack' : stack'[i].fn # Null => Own(stack'[i].fn) = stack'[i].uid
    BY <1>3 DEF Places
  <2> QED  BY <2>1, <2>2 DEF Places
<1>6. ReadAboveInsert' /\ OneInsert'
  BY <1>1, PushOrder
<1>7. Carries(add)'
  BY DEF Carries, Bind, TypeOK
<1>8. BelongsNext(add, Own(add))
  BY <1>3 DEF BelongsNext
<1>9. BoundBeforeVisible'
  <2> SUFFICES ASSUME NEW u \in Uids, nodes[u] # Absent
               PROVE  /\ nodes[u].kind = "variable"
                           => BelongsNext(getters'[u], u) /\ setters'[u] = SetterOf(getters'[u])
                      /\ nodes[u].kind = "method" => BelongsNext(methods'[u], u)
    BY VisibleNext
  <2>1. /\ nodes[u].kind = "variable"
             => BelongsNext(getters[u], u) /\ setters[u] = SetterOf(getters[u])
        /\ nodes[u].kind = "method" => BelongsNext(methods[u], u)
    BY <1>3, StillBelongs DEF BoundBeforeVisible
  <2>2. \/ getters'[u] = getters[u] /\ setters'[u] = setters[u]
        \/ u = Own(add) /\ getters'[u] = add /\ setters'[u] = SetterOf(add)
    BY DEF Bind, TypeOK
  <2>3. methods'[u] = methods[u] \/ (u = Own(add) /\ methods'[u] = add)
    BY DEF Bind, TypeOK
  <2> QED  BY <1>8, <2>1, <2>2, <2>3
<1>10. BoundBeforeInsert'
  <2> SUFFICES ASSUME NEW i \in DOMAIN stack', stack'[i].stage = "insert",
                      NEW fn, fn = stack'[i].fn
               PROVE  Carries(fn)'
    BY DEF BoundBeforeInsert, Carries
  <2>1. CASE stack'[i] = frame  BY <2>1, <1>7 DEF Carries
  <2>2. CASE i \in DOMAIN stack /\ stack'[i] = stack[i] /\ stack'[i] # frame
    <3>1. stack[i] \in Frames  BY <1>2, <2>2, ElementOfSeq, LenProperties
    <3>2. stack[i].fn \in Adds /\ stack[i].uid = Own(stack[i].fn)
      BY <2>2, <3>1 DEF Frames, Places
    <3>3. stack[i].uid # Own(add)
      <4>1. i # Len(stack) + 1 /\ stack'[Len(stack) + 1].uid = Own(add)
        BY <1>3, <2>2
      <4>2. stack'[Len(stack) + 1].stage = "insert"  BY <1>3
      <4> QED  BY <1>3, <1>6, <2>2, <4>1, <4>2 DEF OneInsert
    <3>4. Carries(stack[i].fn)  BY <2>2 DEF BoundBeforeInsert
    <3>5. fn \in Adds /\ Own(fn) # Own(add) /\ Own(fn) \in Uids /\ Carries(fn)
      BY <2>2, <3>2, <3>3, <3>4 DEF Carries
    <3> QED  BY <3>5 DEF Carries, Bind, TypeOK
  <2> QED  BY <1>3, <2>1, <2>2
<1>11. PairedCallbacks'
  BY DEF PairedCallbacks, Bind, TypeOK
<1> QED  BY <1>4, <1>5, <1>6, <1>9, <1>10, <1>11

(* What the end of a call leaves on the stack was there before. *)
LEMMA PopFrames ==
  ASSUME TypeOK, ~Idle, stack' = Front(stack)
  PROVE  /\ stack' \in Seq(Frames) /\ Len(stack') <= Depth
         /\ Top \in Frames /\ Top = stack[Len(stack)] /\ Len(stack) \in DOMAIN stack
         /\ \A i \in DOMAIN stack' : i \in DOMAIN stack /\ stack'[i] = stack[i]
<1>1. stack \in Seq(Frames) /\ stack # <<>> /\ Len(stack) <= Depth  BY DEF TypeOK, Idle
<1>2. Len(stack') = Len(stack) - 1 /\ Len(stack) \in Nat  BY <1>1, Popped, LenProperties
<1> QED  BY <1>1, <1>2, Popped, BoundsAssumption DEF Top

(* The end of a call leaves the order of the others. *)
LEMMA PopOrder ==
  ASSUME TypeOK, ReadAboveInsert, OneInsert, ~Idle, stack' = Front(stack)
  PROVE  ReadAboveInsert' /\ OneInsert'
<1>1. stack \in Seq(Frames) /\ stack # <<>>  BY DEF TypeOK, Idle
<1>2. /\ Len(stack') = Len(stack) - 1 /\ Len(stack) \in Nat
      /\ DOMAIN stack = 1..Len(stack) /\ DOMAIN stack' = 1..(Len(stack) - 1)
      /\ \A i \in DOMAIN stack' : i \in DOMAIN stack /\ stack'[i] = stack[i]
  BY <1>1, Popped, LenProperties
<1>3. ReadAboveInsert'
  <2> SUFFICES ASSUME NEW i \in DOMAIN stack', stack'[i].stage = "insert", i < Len(stack')
               PROVE  stack'[i + 1].stage = "run" /\ stack'[i + 1].uid = stack'[i].uid
    BY DEF ReadAboveInsert
  <2>1. i + 1 \in DOMAIN stack' /\ i \in DOMAIN stack /\ i < Len(stack)  BY <1>2
  <2> QED  BY <1>2, <2>1 DEF ReadAboveInsert
<1>4. OneInsert'  BY <1>2 DEF OneInsert
<1> QED  BY <1>3, <1>4

(* The library's answer: a node becomes visible only now, with its callbacks    *)
(* bound.                                                                      *)
LEMMA InsertStep == ASSUME IInv, Insert PROVE IInv'
<1> USE AddFacts DEF IInv, Insert, InAdd
<1>1. /\ stack' \in Seq(Frames) /\ Len(stack') <= Depth
      /\ Top \in Frames /\ Top = stack[Len(stack)] /\ Len(stack) \in DOMAIN stack
      /\ \A i \in DOMAIN stack' : i \in DOMAIN stack /\ stack'[i] = stack[i]
  BY PopFrames
<1>2. Top.fn \in Adds /\ Top.uid \in Uids /\ Own(Top.fn) = Top.uid /\ Carries(Top.fn)
  <2>1. Top.fn \in Adds /\ Top.uid \in Uids  BY <1>1 DEF Frames
  <2>2. Own(Top.fn) = Top.uid  BY <1>1, <2>1 DEF Places
  <2>3. Carries(Top.fn)  BY <1>1 DEF BoundBeforeInsert
  <2> QED  BY <2>1, <2>2, <2>3
<1>3. \/ nodes' = [nodes EXCEPT ![Top.uid] = Top.fn] /\ nodes[Top.uid] = Absent /\ refused' = refused
      \/ /\ nodes' = nodes
         /\ refused' = refused \cup (IF nodes[Top.uid] = Absent THEN {} ELSE {Top.fn})
  OBVIOUS
<1>4. TypeOK'
  <2>1. nodes' \in [Uids -> Adds \cup {Absent}]  BY <1>2, <1>3 DEF TypeOK
  <2>2. refused' \subseteq Adds  BY <1>2, <1>3 DEF TypeOK
  <2> QED  BY <1>1, <2>1, <2>2 DEF TypeOK, maps
<1>5. Places'
  <2>1. \A u \in Uids : nodes'[u] # Absent => Own(nodes'[u]) = u
    BY <1>2, <1>3 DEF Places, TypeOK
  <2> QED  BY <1>1, <2>1 DEF Places, maps
<1>6. BoundBeforeVisible'
  <2>1. \A i \in DOMAIN stack : i \in DOMAIN stack' \/ stack[i] = Top
    BY <1>1, Popped, LenProperties DEF TypeOK, Idle
  <2>2. ASSUME NEW u \in Uids, NEW fn, BelongsTo(fn, u), nodes'[u] = nodes[u], nodes[u] # Absent
        PROVE  BelongsNext(fn, u)
    <3>1. CASE fn = nodes[u]  BY <2>2, <3>1 DEF BelongsNext
    <3>2. CASE fn \in Adds /\ Own(fn) = u /\ fn \in refused
      BY <1>3, <3>2 DEF BelongsNext
    <3>3. CASE fn \in Adds /\ Own(fn) = u /\ InProgress(fn)
      <4>1. PICK i \in DOMAIN stack : stack[i].stage = "insert" /\ stack[i].fn = fn
        BY <3>3 DEF InProgress
      <4>2. CASE i \in DOMAIN stack'
        <5>1. stack'[i] = stack[i]  BY <1>1, <4>2
        <5> QED  BY <3>3, <4>1, <4>2, <5>1 DEF BelongsNext
      <4>3. CASE stack[i] = Top
        <5>1. fn = Top.fn /\ u = Top.uid  BY <1>2, <3>3, <4>1, <4>3
        <5>2. fn \in refused'  BY <1>2, <1>3, <2>2, <5>1 DEF TypeOK
        <5> QED  BY <3>3, <5>2 DEF BelongsNext
      <4> QED  BY <2>1, <4>2, <4>3
    <3> QED  BY <2>2, <3>1, <3>2, <3>3 DEF BelongsTo
  <2>3. ASSUME NEW u \in Uids, nodes'[u] # Absent
        PROVE  /\ nodes'[u].kind = "variable"
                    => BelongsNext(getters[u], u) /\ setters[u] = SetterOf(getters[u])
               /\ nodes'[u].kind = "method" => BelongsNext(methods[u], u)
    <3>1. CASE nodes'[u] = nodes[u]
      BY <2>2, <2>3, <3>1 DEF BoundBeforeVisible
    <3>2. CASE u = Top.uid /\ nodes'[u] = Top.fn
      BY <1>2, <3>2 DEF Carries, BelongsNext
    <3> QED  BY <1>2, <1>3, <3>1, <3>2 DEF TypeOK
  <2> QED  BY <2>3, VisibleNext DEF maps
<1>7. BoundBeforeInsert'
  BY <1>1 DEF BoundBeforeInsert, Carries, maps
<1>8. PairedCallbacks'
  BY DEF PairedCallbacks, maps
<1>9. ReadAboveInsert' /\ OneInsert'  BY PopOrder
<1> QED  BY <1>4, <1>5, <1>6, <1>7, <1>8, <1>9

(* Dispatch keeps the invariant wherever it comes from: the entries operator[]  *)
(* might create are empty, and stand for no add call.                          *)
LEMMA DispatchStep ==
  ASSUME IInv, NEW what \in {"read", "write", "call"}, NEW u \in Uids, Dispatch(what, u),
         InAdd => u = Top.uid
  PROVE  IInv'
<1> DEFINE map == CASE what = "read" -> getters [] what = "write" -> setters
                    [] what = "call" -> methods
<1> DEFINE frame == [stage |-> "run", uid |-> u, what |-> what, fn |-> Lookup(map, u)]
<1> USE AddFacts DEF IInv, Dispatch
<1>1. /\ getters' = getters \/ getters' = Touched(getters, u)
      /\ setters' = setters \/ setters' = Touched(setters, u)
      /\ methods' = methods \/ methods' = Touched(methods, u)
  OBVIOUS
<1>2. /\ getters' \in [Uids -> Variables \cup {Null, Absent}]
      /\ setters' \in [Uids -> Variables \cup {Null, Absent}]
      /\ methods' \in [Uids -> Methods \cup {Null, Absent}]
  BY <1>1 DEF TypeOK, Touched, Lookup
<1>3. \A x \in Uids : /\ getters[x] \in Adds => getters'[x] = getters[x]
                      /\ methods[x] \in Adds => methods'[x] = methods[x]
                      /\ setters[x] # Absent => setters'[x] = setters[x]
                      /\ getters'[x] \in Adds => getters'[x] = getters[x]
                      /\ methods'[x] \in Adds => methods'[x] = methods[x]
                      /\ setters'[x] \in Adds => setters'[x] = setters[x]
  BY <1>1 DEF TypeOK, Touched, Lookup
<1>4. frame.fn \in Variables \cup Methods \cup {Null}
  BY DEF TypeOK, Lookup
<1>5. frame \in Frames  BY <1>4 DEF Frames
<1>6. stack \in Seq(Frames) /\ stack' = Append(stack, frame)  BY DEF TypeOK
<1>7. /\ stack' \in Seq(Frames) /\ Len(stack') = Len(stack) + 1
      /\ \A i \in DOMAIN stack : i \in DOMAIN stack' /\ stack'[i] = stack[i]
      /\ \A i \in DOMAIN stack' :
           (i \in DOMAIN stack /\ stack'[i] = stack[i]) \/ stack'[i] = frame
  BY <1>5, <1>6, Pushed
<1>8. TypeOK'
  <2>1. Len(stack') <= Depth  BY <1>6, <1>7, BoundsAssumption, LenProperties
  <2> QED  BY <1>2, <1>7, <2>1 DEF TypeOK
<1>9. Places'
  <2>1. frame.fn # Null => Own(frame.fn) = u
    BY <1>4 DEF Lookup, Places, TypeOK, Variables, Methods
  <2>2. \A i \in DOMAIN stack' : stack'[i].fn # Null => Own(stack'[i].fn) = stack'[i].uid
    BY <1>7, <2>1 DEF Places
  <2> QED  BY <1>3, <2>2 DEF Places
<1>10. BoundBeforeVisible'
  <2> SUFFICES ASSUME NEW x \in Uids, nodes[x] # Absent
               PROVE  /\ nodes[x].kind = "variable"
                           => /\ BelongsNext(getters'[x], x)
                              /\ setters'[x] = SetterOf(getters'[x])
                      /\ nodes[x].kind = "method" => BelongsNext(methods'[x], x)
    BY VisibleNext
  <2>1. ASSUME NEW fn, BelongsTo(fn, x) PROVE BelongsNext(fn, x) /\ fn \in Adds
    <3>1. fn \in Adds  BY <2>1 DEF BelongsTo, TypeOK
    <3> QED  BY <1>7, <2>1, <3>1, StillBelongs
  <2>2. CASE nodes[x].kind = "variable"
    <3>1. BelongsTo(getters[x], x) /\ setters[x] = SetterOf(getters[x])
      BY <2>2 DEF BoundBeforeVisible
    <3>2. getters[x] \in Adds /\ setters[x] # Absent  BY <2>1, <3>1
    <3>3. getters'[x] = getters[x] /\ setters'[x] = setters[x]  BY <1>3, <3>2
    <3> QED  BY <2>1, <2>2, <3>1, <3>3
  <2>3. CASE nodes[x].kind = "method"
    <3>1. BelongsTo(methods[x], x)  BY <2>3 DEF BoundBeforeVisible
    <3>2. methods'[x] = methods[x]  BY <1>3, <2>1, <3>1
    <3> QED  BY <2>1, <2>3, <3>1, <3>2
  <2> QED  BY <2>2, <2>3
<1>11. \A i \in DOMAIN stack :
         stack[i].stage = "insert" => stack[i].fn \in Adds
  BY <1>6, ElementOfSeq, LenProperties DEF Frames
<1>12. BoundBeforeInsert'
  <2> SUFFICES ASSUME NEW i \in DOMAIN stack, stack[i].stage = "insert"
               PROVE  Carries(stack[i].fn)'
    BY <1>7 DEF BoundBeforeInsert
  <2>1. Carries(stack[i].fn) /\ stack[i].fn \in Adds  BY <1>11 DEF BoundBeforeInsert
  <2>2. stack'[i] = stack[i]  BY <1>7
  <2> QED  BY <1>3, <2>1, <2>2 DEF Carries
<1>13. PairedCallbacks'
  BY <1>3 DEF PairedCallbacks
<1>14. ReadAboveInsert' /\ OneInsert'
  BY <1>5, <1>6, PushOrder
<1> QED  BY <1>8, <1>9, <1>10, <1>12, <1>13, <1>14

(* The handler answers, or the callback's exception goes on. *)
LEMMA AnswerStep ==
  ASSUME IInv, InCallback, Answer, UNCHANGED <<nodes, maps, logs, open, refused, escaped>>
  PROVE  IInv'
<1> USE AddFacts DEF IInv, InCallback, Answer, maps
<1>1. /\ stack' \in Seq(Frames) /\ Len(stack') <= Depth
      /\ \A i \in DOMAIN stack' : i \in DOMAIN stack /\ stack'[i] = stack[i]
  BY PopFrames
<1>2. TypeOK'  BY <1>1 DEF TypeOK
<1>3. Places'  BY <1>1 DEF Places
<1>4. BoundBeforeVisible'
  <2>1. \A i \in DOMAIN stack : i \in DOMAIN stack' \/ stack[i].stage = "run"
    BY Popped, LenProperties DEF TypeOK, Idle, Top
  <2>2. ASSUME NEW fn, NEW u \in Uids, BelongsTo(fn, u) PROVE BelongsNext(fn, u)
    <3>1. InProgress(fn) => \E i \in DOMAIN stack' : stack'[i].stage = "insert" /\ stack'[i].fn = fn
      BY <1>1, <2>1 DEF InProgress
    <3> QED  BY <2>2, <3>1 DEF BelongsTo, BelongsNext
  <2> QED  BY <2>2, VisibleNext DEF BoundBeforeVisible
<1>5. BoundBeforeInsert'  BY <1>1 DEF BoundBeforeInsert, Carries
<1>6. PairedCallbacks'  BY DEF PairedCallbacks
<1>7. ReadAboveInsert' /\ OneInsert'  BY PopOrder
<1> QED  BY <1>2, <1>3, <1>4, <1>5, <1>6, <1>7

LEMMA IInvStep == ASSUME IInv, [Next]_vars PROVE IInv'
<1>0. logs \in 0..MaxLogs /\ open \in BOOLEAN /\ escaped \in BOOLEAN  BY DEF IInv, TypeOK
<1>1. CASE UNCHANGED vars  BY <1>0, <1>1, StillStep DEF vars, maps
<1>2. CASE OpenClose
  <2>1. open' \in BOOLEAN  BY <1>2, Zenon DEF OpenClose
  <2> QED  BY <1>0, <1>2, <2>1, StillStep DEF OpenClose
<1>3. CASE AddLogCallback
  <2>1. logs' \in 0..MaxLogs  BY <1>0, <1>3, BoundsAssumption DEF AddLogCallback
  <2> QED  BY <1>0, <1>3, <2>1, StillStep DEF AddLogCallback
<1>4. ASSUME NEW add \in Adds, AddCall(add) PROVE IInv'  BY <1>4, AddStep
<1>5. CASE Insert  BY <1>5, InsertStep
<1>6. ASSUME NEW what \in {"read", "write", "call"}, NEW u \in Uids, Request(what, u) PROVE IInv'
  BY <1>6, DispatchStep DEF Request, InAdd
<1>7. CASE ReadWhileAdding
  <2>1. stack \in Seq(Frames) /\ stack # <<>>
    BY <1>7 DEF ReadWhileAdding, InAdd, Idle, IInv, TypeOK
  <2>2. Top \in Frames  BY <2>1, Popped DEF Top
  <2>3. Top.uid \in Uids  BY <2>2 DEF Frames
  <2> QED  BY <1>7, <2>3, DispatchStep DEF ReadWhileAdding
<1>8. CASE CallbackReturns  BY <1>8, AnswerStep DEF CallbackReturns
<1>9. CASE CallbackThrows
  <2>1. CASE Answer /\ UNCHANGED escaped  BY <1>9, <2>1, AnswerStep DEF CallbackThrows
  <2>2. CASE escaped' = TRUE /\ UNCHANGED stack
    BY <1>0, <1>9, <2>2, StillStep DEF CallbackThrows
  <2> QED  BY <1>9, <2>1, <2>2 DEF CallbackThrows
<1>10. CASE LogMessage  BY <1>0, <1>10, StillStep DEF LogMessage
<1> QED
  BY <1>1, <1>2, <1>3, <1>4, <1>5, <1>6, <1>7, <1>8, <1>9, <1>10 DEF Next

LEMMA Inductive == Spec => []IInv
<1>1. Init => IInv  BY InitIInv
<1>2. IInv /\ [Next]_vars => IInv'  BY IInvStep
<1> QED  BY <1>1, <1>2, PTL DEF Spec

-------------------------------------------------------------------------------
(* The maps, the address space and the stack of calls keep their types. *)
THEOREM TypeCorrect == Spec => []TypeOK
<1>1. IInv => TypeOK  BY DEF IInv
<1> QED  BY <1>1, Inductive, PTL

(* Whatever adds succeed or fail, in whatever nesting: a node that a client can *)
(* reach has its own callbacks, or those of a later add call for its string    *)
(* that was refused or is not answered yet.                                    *)
THEOREM AlwaysBoundBeforeVisible == Spec => []BoundBeforeVisible
<1>1. IInv => BoundBeforeVisible  BY DEF IInv
<1> QED  BY <1>1, Inductive, PTL

(* The getter and the setter of a variable never come from two add calls. *)
THEOREM AlwaysPairedCallbacks == Spec => []PairedCallbacks
<1>1. IInv => PairedCallbacks  BY DEF IInv
<1> QED  BY <1>1, Inductive, PTL

(* A handler that looks up a callback finds an entry: operator[] does not       *)
(* insert, for a client's request nor for the read the library makes of a      *)
(* variable that it is adding.                                                 *)
THEOREM AlwaysServingLeavesMaps == Spec => ServingLeavesMaps
<1>1. ASSUME IInv, NEW what \in {"read", "write", "call"}, NEW u \in Uids, Dispatch(what, u),
             what = "read" => getters[u] \in Adds,
             what = "write" => setters[u] # Absent,
             what = "call" => methods[u] \in Adds
      PROVE  UNCHANGED maps
  BY <1>1, AddFacts DEF Dispatch, Touched, Lookup, IInv, TypeOK, maps
<1>2. ASSUME IInv, NEW what \in {"read", "write", "call"}, NEW u \in Uids, Request(what, u)
      PROVE  UNCHANGED maps
  <2>1. nodes[u] # Absent /\ nodes[u] \in Adds  BY <1>2 DEF Request, Accepts, IInv, TypeOK
  <2>2. \A fn : BelongsTo(fn, u) => fn \in Adds  BY <2>1 DEF BelongsTo
  <2>3. \A fn \in Adds : SetterOf(fn) # Absent  BY AddFacts
  <2>4. /\ what = "read" => getters[u] \in Adds
        /\ what = "write" => setters[u] # Absent
        /\ what = "call" => methods[u] \in Adds
    BY <1>2, <2>1, <2>2, <2>3 DEF Request, Accepts, IInv, BoundBeforeVisible
  <2> QED  BY <1>1, <1>2, <2>4 DEF Request
<1>3. ASSUME IInv, ReadWhileAdding PROVE UNCHANGED maps
  <2>1. /\ Top \in Frames /\ Top = stack[Len(stack)] /\ Len(stack) \in DOMAIN stack
    BY <1>3, Popped DEF ReadWhileAdding, InAdd, Idle, Top, IInv, TypeOK
  <2>2. Top.uid \in Uids  BY <2>1 DEF Frames
  <2>3. getters[Top.uid] \in Adds
    <3>1. Top.fn \in Adds /\ Top.fn.kind = "variable"
      BY <1>3, <2>1 DEF ReadWhileAdding, InAdd, Frames
    <3>2. Own(Top.fn) = Top.uid  BY <1>3, <2>1, <3>1, AddFacts DEF IInv, Places
    <3>3. Carries(Top.fn)
      BY <1>3, <2>1 DEF ReadWhileAdding, InAdd, IInv, BoundBeforeInsert
    <3> QED  BY <3>1, <3>2, <3>3 DEF Carries
  <2> QED  BY <1>1, <1>3, <2>2, <2>3 DEF ReadWhileAdding
<1>4. ASSUME IInv, ~Idle, stack' = Front(stack) PROVE Len(stack') <= Len(stack)
  BY <1>4, Popped, LenProperties DEF Idle, IInv, TypeOK
<1>5. ASSUME IInv, NEW add \in Adds, AddCall(add) PROVE Last(stack').stage = "insert"
  <2> DEFINE frame == [stage |-> "insert", uid |-> Own(add), fn |-> add, what |-> "add"]
  <2>1. frame \in Frames /\ stack \in Seq(Frames)  BY AddFacts, <1>5 DEF Frames, IInv, TypeOK
  <2>2. Last(stack') = frame  BY <1>5, <2>1, Pushed DEF AddCall
  <2> QED  BY <2>2
<1>6. IInv /\ [Next]_vars
        => [Len(stack') > Len(stack) /\ Last(stack').stage = "run" => UNCHANGED maps]_vars
  <2> SUFFICES ASSUME IInv, Next, Len(stack') > Len(stack), Last(stack').stage = "run"
               PROVE  UNCHANGED maps
    OBVIOUS
  <2>1. Len(stack) \in Nat  BY LenProperties DEF IInv, TypeOK
  <2>2. stack' # stack  BY <2>1
  <2>3. ~(~Idle /\ stack' = Front(stack))
    <3>1. ASSUME ~Idle, stack' = Front(stack) PROVE FALSE
      <4>1. Len(stack') = Len(stack) - 1  BY <3>1, Popped DEF Idle, IInv, TypeOK
      <4> QED  BY <2>1, <4>1
    <3> QED  BY <3>1
  <2>4. ~Insert /\ ~CallbackReturns /\ ~CallbackThrows
    BY <2>2, <2>3 DEF Insert, InAdd, CallbackReturns, CallbackThrows, Answer, InCallback
  <2>5. ~OpenClose /\ ~AddLogCallback /\ ~LogMessage /\ ~UNCHANGED vars
    BY <2>2 DEF OpenClose, AddLogCallback, LogMessage, vars
  <2>6. ASSUME NEW add \in Adds PROVE ~AddCall(add)  BY <1>5
  <2>7. (\E what \in {"read", "write", "call"} : \E u \in Uids : Request(what, u)) \/ ReadWhileAdding
    BY <2>4, <2>5, <2>6 DEF Next
  <2>8. ASSUME NEW what \in {"read", "write", "call"}, NEW u \in Uids, Request(what, u)
        PROVE  UNCHANGED maps
    BY <1>2, <2>8
  <2>9. ASSUME ReadWhileAdding PROVE UNCHANGED maps  BY <1>3, <2>9
  <2> QED  BY <2>7, <2>8, <2>9
<1> QED  BY <1>6, Inductive, PTL DEF Spec, ServingLeavesMaps

(* No two places have the same string: so it is when no name contains a dot. *)
DistinctPlaces ==
  \A a, b \in Adds : Own(a) = Own(b) => a.path = b.path /\ a.name = b.name

(* The callback that serves a node was given for its path and its name. *)
THEOREM AlwaysOwnCallback == ASSUME DistinctPlaces PROVE Spec => []OwnCallback
<1>1. IInv => OwnCallback
  <2> SUFFICES ASSUME IInv, NEW i \in DOMAIN stack, stack[i].stage = "run",
                      stack[i].fn # Null, nodes[stack[i].uid] # Absent
               PROVE  /\ stack[i].fn.path = nodes[stack[i].uid].path
                      /\ stack[i].fn.name = nodes[stack[i].uid].name
    BY DEF OwnCallback
  <2>1. stack[i] \in Frames  BY ElementOfSeq, LenProperties DEF IInv, TypeOK
  <2>2. stack[i].uid \in Uids /\ stack[i].fn \in Adds
    BY <2>1 DEF Frames, Variables, Methods
  <2>3. nodes[stack[i].uid] \in Adds  BY <2>2 DEF IInv, TypeOK
  <2>4. Own(stack[i].fn) = Own(nodes[stack[i].uid])  BY <2>2 DEF IInv, Places
  <2> QED  BY <2>2, <2>3, <2>4 DEF DistinctPlaces
<1> QED  BY <1>1, Inductive, PTL
===============================================================================
