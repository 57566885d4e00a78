---------------------------- MODULE VariantProofs ----------------------------
(* Proofs about Variant, for any arrays and any values: that of the two ways in *)
(* which a view can be wrong, the index that C# loses and the root view of      *)
(* outputs that there are none of, each is the only reason for what it breaks. *)
EXTENDS Variant, SequenceTheorems, TLAPS

(* C# uses no other index than zero. *)
RootIndexOnly == Managed \subseteq {0}

(* No method answers without an output argument. *)
NoEmptyAnswer == \A t \in Targets : t.kind = "answer" => t.declared # <<>>

-------------------------------------------------------------------------------
(* The inductive invariants. *)

(* Each element holds what was last set at its index. *)
Matching ==
  \A i \in 1..Size : cells[i] = IF asked[i] = Empty THEN Empty ELSE Stored(asked[i])

(* Once sent, only an answer may be written to. *)
Sent == phase # "filling" => (writable <=> target.kind = "answer")

(* An array without elements is the outputs of a method, or cannot be written.  *)
EmptyIsConst == target.declared = <<>> /\ writable => target.kind = "answer"

-------------------------------------------------------------------------------
LEMMA SizeFacts ==
  ASSUME target \in Targets
  PROVE  /\ Size \in Nat /\ DOMAIN target.declared = 1..Size
         /\ \A i \in 1..Size : target.declared[i] \in Declarations
         /\ \A i \in Indices : i + 1 \in 1..Size /\ i < Size
         /\ \A i \in 0..Size : InRange(i) => i \in Indices /\ 0 \in Indices
         /\ \A j \in 1..Size : j - 1 \in Indices
<1>1. target.declared \in Seq(Declarations)  BY TargetsAssumption
<1>2. Size \in Nat /\ DOMAIN target.declared = 1..Size  BY <1>1, LenProperties DEF Size
<1>3. \A i \in 1..Size : target.declared[i] \in Declarations
  BY <1>1, <1>2, ElementOfSeq DEF Size
<1> QED  BY <1>2, <1>3 DEF Indices, InRange

(* The content of one item comes back through a view of its shape. *)
LEMMA LoadsStored ==
  ASSUME NEW v \in Values PROVE Loaded(Stored(v), v.shape) = Stored(v).items
<1>1. v.shape \in Shapes  BY ValuesAssumption
<1>2. CASE v.shape = "scalar"
  <2>1. DOMAIN v.items = 1..1
    <3>1. v.items = <<v.items[1]>>  BY <1>2, ValuesAssumption
    <3> QED  BY <3>1
  <2>2. Stored(v).items = <<Stored(v).items[1]>>
    <3>1. CASE v.type \in {"string", "wstring"}
      <4>1. Stored(v).items = [i \in 1..1 |-> UpToNul(v.items[i])]
        BY <2>1, <3>1 DEF Stored
      <4> QED  BY <4>1
    <3>2. CASE v.type \notin {"string", "wstring"}
      <4>1. Stored(v).items = v.items  BY <3>2 DEF Stored
      <4> QED  BY <1>2, <4>1, ValuesAssumption
    <3> QED  BY <3>1, <3>2
  <2> QED  BY <1>2, <2>2 DEF Loaded, LoadedScalar
<1>3. CASE v.shape = "vector"
  <2>1. Stored(v).shape = "vector"  BY <1>3 DEF Stored
  <2> QED  BY <1>3, <2>1 DEF Loaded, LoadedVector
<1> QED  BY <1>1, <1>2, <1>3 DEF Shapes

LEMMA InitType == Init => TypeOK
<1> SUFFICES ASSUME Init PROVE TypeOK  OBVIOUS
<1>1. DOMAIN target.declared = 1..Size  BY SizeFacts DEF Init
<1> QED  BY <1>1 DEF Init, TypeOK

LEMMA TypeStep == ASSUME TypeOK, [Next]_vars PROVE TypeOK'
<1> USE SizeFacts DEF TypeOK
<1>1. CASE UNCHANGED vars  BY <1>1 DEF vars, Size
<1>2. CASE Send
  <2>1. writable' \in BOOLEAN  BY <1>2, Zenon DEF Send
  <2> QED  BY <1>2, <2>1 DEF Send, Size
<1>3. ASSUME NEW i \in 0..Size, NEW j \in 0..Size, NEW v \in Values,
             Write(i, v), Ask(j, v), UNCHANGED <<target, writable, phase>>
      PROVE  TypeOK'
  <2>1. cells' \in [1..Size -> {Empty} \cup {Stored(w) : w \in Values}]
    BY <1>3 DEF Write
  <2>2. asked' \in [1..Size -> {Empty} \cup Values]  BY <1>3 DEF Ask
  <2>3. overrun' \in BOOLEAN  BY <1>3, Zenon DEF Write
  <2> QED  BY <1>3, <2>1, <2>2, <2>3 DEF Size
<1>4. 0 \in 0..Size  OBVIOUS
<1>5. ASSUME NEW i \in 0..Size, NEW v \in Values, Set(i, v) \/ ManagedSet(i, v)
      PROVE  TypeOK'
  BY <1>3, <1>4, <1>5 DEF Set, ManagedSet
<1>6. ASSUME NEW v \in Values, SetRoot(v) PROVE TypeOK'
  BY <1>3, <1>4, <1>6 DEF SetRoot
<1> QED  BY <1>1, <1>2, <1>5, <1>6 DEF Next

LEMMA MatchingStep ==
  ASSUME RootIndexOnly, TypeOK, Matching, [Next]_vars PROVE Matching'
<1> USE SizeFacts DEF TypeOK, Matching
<1>1. CASE UNCHANGED vars  BY <1>1 DEF vars, Size
<1>2. CASE Send  BY <1>2 DEF Send, Size
<1>3. ASSUME NEW i \in 0..Size, NEW v \in Values,
             Write(i, v), Ask(i, v), UNCHANGED target
      PROVE  Matching'
  <2>1. v # Empty  BY ValuesAssumption
  <2>2. CASE i \in Indices
    <3>1. cells' = [cells EXCEPT ![i + 1] = Stored(v)] /\ asked' = [asked EXCEPT ![i + 1] = v]
      BY <1>3, <2>2 DEF Write, Ask
    <3> QED  BY <1>3, <2>1, <3>1 DEF Size
  <2>3. CASE i \notin Indices  BY <1>3, <2>3 DEF Write, Ask, Size
  <2> QED  BY <2>2, <2>3
<1>4. ASSUME NEW i \in 0..Size, NEW v \in Values, Set(i, v) PROVE Matching'
  BY <1>3, <1>4 DEF Set
<1>5. ASSUME NEW i \in 0..Size, NEW v \in Values, i \in Managed, ManagedSet(i, v)
      PROVE  Matching'
  <2>1. i = 0  BY <1>5 DEF RootIndexOnly
  <2> QED  BY <1>3, <1>5, <2>1 DEF ManagedSet
<1>6. ASSUME NEW v \in Values, SetRoot(v) PROVE Matching'
  <2>1. 0 \in 0..Size  OBVIOUS
  <2> QED  BY <1>3, <1>6, <2>1 DEF SetRoot
<1> QED  BY <1>1, <1>2, <1>4, <1>5, <1>6 DEF Next

LEMMA SentStep == ASSUME Sent, [Next]_vars PROVE Sent'
<1> USE DEF Sent
<1>1. CASE UNCHANGED vars  BY <1>1 DEF vars
<1>2. CASE Send  BY <1>2 DEF Send
<1>3. ASSUME NEW i \in 0..Size, NEW v \in Values, Set(i, v) \/ ManagedSet(i, v) PROVE Sent'
  BY <1>3 DEF Set, ManagedSet
<1>4. ASSUME NEW v \in Values, SetRoot(v) PROVE Sent'  BY <1>4 DEF SetRoot
<1> QED  BY <1>1, <1>2, <1>3, <1>4 DEF Next

(* What the library lets through has the shape that was declared, but for a     *)
(* scalar written to a variable that is declared as vector.                    *)
LEMMA CompatibleShape ==
  ASSUME NEW t \in Targets, NEW i \in 0..(Len(t.declared) - 1), t.kind # "answer",
         NEW v \in Values, Compatible(Stored(v), Declared(t, i))
  PROVE  \/ v.shape = t.declared[i + 1].shape
         \/ t.kind = "written" /\ t.declared[i + 1].shape = "vector" /\ v.shape = "scalar"
<1> DEFINE d == t.declared[i + 1]
<1>1. d \in Declarations /\ i + 1 \in DOMAIN t.declared
  <2>1. t.declared \in Seq(Declarations)  BY TargetsAssumption
  <2>2. Len(t.declared) \in Nat /\ DOMAIN t.declared = 1..Len(t.declared)
    BY <2>1, LenProperties
  <2> QED  BY <2>1, <2>2, ElementOfSeq
<1>2. v.shape \in Shapes /\ d.shape \in Shapes  BY <1>1, ValuesAssumption DEF Declarations
<1>3. Stored(v).shape = v.shape  BY DEF Stored
<1>4. CASE t.kind = "written"
  <2>1. Declared(t, i).rank = ValueRank(d.shape)  BY <1>4 DEF Declared
  <2>2. d.shape = "scalar" => v.shape = "scalar"
    BY <1>3, <2>1 DEF Compatible, ValueRank
  <2> QED  BY <1>2, <1>4, <2>2 DEF Shapes
<1>5. CASE t.kind # "written"
  <2>1. d.shape = "scalar" <=> d.dimensions = <<>>  BY <1>1, <1>5, TargetsAssumption
  <2>2. Declared(t, i).rank = IF d.dimensions = <<>> THEN "scalar" ELSE "one dimension"
    BY <1>5 DEF Declared, Argument
  <2>3. d.dimensions = <<>> => v.shape = "scalar"
    BY <1>3, <2>2 DEF Compatible
  <2>4. d.dimensions # <<>> => v.shape = "vector"
    BY <1>3, <2>2 DEF Compatible
  <2> QED  BY <1>2, <2>1, <2>3, <2>4 DEF Shapes
<1> QED  BY <1>4, <1>5

LEMMA AskedAt ==
  ASSUME TypeOK, Matching, NEW i \in Indices, At(i) # Empty
  PROVE  asked[i + 1] \in Values /\ At(i) = Stored(asked[i + 1])
  BY SizeFacts DEF TypeOK, Matching, At

LEMMA DeliveredStep ==
  ASSUME TypeOK, Matching, Sent, Delivered, [Next]_vars PROVE Delivered'
<1>1. CASE UNCHANGED vars  BY <1>1 DEF vars, Delivered, Indices, Size, At
<1>2. CASE Send
  <2> SUFFICES ASSUME Accepted, target.kind # "answer", NEW i \in Indices
               PROVE  /\ asked[i + 1] # Empty
                      /\ \/ Loaded(At(i), target.declared[i + 1].shape)
                              = Stored(asked[i + 1]).items
                         \/ /\ target.kind = "written"
                            /\ target.declared[i + 1].shape = "vector"
                            /\ asked[i + 1].shape = "scalar"
    BY <1>2 DEF Send, Delivered, Indices, Size, At
  <2>1. Compatible(At(i), Declared(target, i))  BY DEF Accepted
  <2>2. asked[i + 1] \in Values /\ At(i) = Stored(asked[i + 1])
    BY <2>1, AskedAt DEF Compatible
  <2>3. \/ asked[i + 1].shape = target.declared[i + 1].shape
        \/ /\ target.kind = "written" /\ target.declared[i + 1].shape = "vector"
           /\ asked[i + 1].shape = "scalar"
    BY <2>1, <2>2, CompatibleShape DEF Indices, Size, TypeOK
  <2>4. asked[i + 1] # Empty  BY <2>2, ValuesAssumption
  <2> QED  BY <2>2, <2>3, <2>4, LoadsStored
<1>3. ASSUME writable, UNCHANGED <<target, phase>> PROVE Delivered'
  BY <1>3 DEF Sent, Delivered
<1>4. ASSUME NEW i \in 0..Size, NEW v \in Values, Set(i, v) \/ ManagedSet(i, v)
      PROVE  Delivered'
  BY <1>3, <1>4 DEF Set, ManagedSet
<1>5. ASSUME NEW v \in Values, SetRoot(v) PROVE Delivered'
  BY <1>3, <1>5 DEF SetRoot
<1> QED  BY <1>1, <1>2, <1>4, <1>5 DEF Next

IInv == TypeOK /\ Matching /\ Sent /\ Delivered

LEMMA Inductive == ASSUME RootIndexOnly PROVE Spec => []IInv
<1>1. Init => IInv
  <2> SUFFICES ASSUME Init PROVE IInv  OBVIOUS
  <2>1. TypeOK  BY InitType
  <2>2. Matching  BY <2>1, SizeFacts DEF Init, Matching, TypeOK
  <2> QED  BY <2>1, <2>2 DEF Init, IInv, Sent, Delivered
<1>2. IInv /\ [Next]_vars => IInv'
  BY TypeStep, MatchingStep, SentStep, DeliveredStep DEF IInv
<1> QED  BY <1>1, <1>2, PTL DEF Spec

-------------------------------------------------------------------------------
(* The array, what was asked for and the phases keep their types, however the   *)
(* views are used.                                                             *)
THEOREM TypeCorrect == Spec => []TypeOK
<1>1. Init => TypeOK  BY InitType
<1>2. TypeOK /\ [Next]_vars => TypeOK'  BY TypeStep
<1> QED  BY <1>1, <1>2, PTL DEF Spec

(* What was last set at an index is read back from it, in C++ and in C#, as     *)
(* long as C# keeps to the index zero.                                         *)
THEOREM AlwaysReadBack == ASSUME RootIndexOnly PROVE Spec => []ReadBack
<1>1. IInv => ReadBack
  <2> SUFFICES ASSUME IInv, NEW i \in Indices
               PROVE  IF asked[i + 1] = Empty THEN At(i) = Empty
                      ELSE /\ Loaded(At(i), asked[i + 1].shape) = Stored(asked[i + 1]).items
                           /\ i \in Managed => ManagedLoaded(i, asked[i + 1].shape)
                                                 = Stored(asked[i + 1]).items
    BY DEF ReadBack
  <2>1. CASE asked[i + 1] = Empty
    BY <2>1, SizeFacts DEF IInv, TypeOK, Matching, At
  <2>2. CASE asked[i + 1] # Empty
    <3>1. asked[i + 1] \in Values /\ At(i) = Stored(asked[i + 1])
      BY <2>2, SizeFacts DEF IInv, TypeOK, Matching, At
    <3>2. Loaded(At(i), asked[i + 1].shape) = Stored(asked[i + 1]).items
      BY <3>1, LoadsStored
    <3>3. i \in Managed => i = 0  BY DEF RootIndexOnly
    <3> QED  BY <2>2, <3>2, <3>3 DEF ManagedLoaded
  <2> QED  BY <2>1, <2>2
<1> QED  BY <1>1, Inductive, PTL

(* A call or write that the library accepts reaches the callback as the client  *)
(* set it.                                                                     *)
THEOREM AlwaysDelivered == ASSUME RootIndexOnly PROVE Spec => []Delivered
<1>1. IInv => Delivered  BY DEF IInv
<1> QED  BY <1>1, Inductive, PTL

(* No view touches memory behind its array, when every method has an output:     *)
(* also the root view, whose index no constructor compares with the size, that *)
(* of inputs that there are none of, and the views of C# with any index.       *)
THEOREM AlwaysInBounds == ASSUME NoEmptyAnswer PROVE Spec => []InBounds
<1> DEFINE I == TypeOK /\ EmptyIsConst /\ InBounds
<1>1. Init => I
  <2> SUFFICES ASSUME Init PROVE I  OBVIOUS
  <2>1. target.declared = <<>> /\ writable => target.kind = "answer"
    <3> SUFFICES ASSUME target.declared = <<>>, writable PROVE target.kind = "answer"  OBVIOUS
    <3>1. target \in Targets /\ target.kind # "inputs"
      <4>1. writable = ~(target.kind = "inputs" /\ target.declared = <<>>)  BY DEF Init
      <4> QED  BY <4>1 DEF Init
    <3>2. target.kind # "written"
      <4>1. target.kind = "written" => Len(target.declared) = 1  BY TargetsAssumption DEF Init
      <4>2. Len(target.declared) = 0  BY EmptySeq
      <4> QED  BY <4>1, <4>2
    <3> QED  BY <3>1, <3>2, TargetsAssumption
  <2> QED  BY <2>1, InitType, Zenon DEF Init, InBounds, EmptyIsConst
<1>2. I /\ [Next]_vars => I'
  <2> SUFFICES ASSUME I, [Next]_vars PROVE I'  OBVIOUS
  <2>1. TypeOK'  BY TypeStep
  <2> USE SizeFacts DEF InBounds
  <2>2. writable => 0 \in Indices
    <3>1. target \in Targets  BY DEF TypeOK
    <3>2. target.declared \in Seq(Declarations)  BY <3>1, TargetsAssumption
    <3>3. writable => target.declared # <<>>  BY <3>1 DEF EmptyIsConst, NoEmptyAnswer
    <3> QED  BY <3>1, <3>2, <3>3, EmptySeq DEF Size, Indices
  <2>3. ASSUME NEW i \in Indices, NEW v \in Values, Write(i, v),
               UNCHANGED <<target, writable, phase>>
        PROVE  EmptyIsConst' /\ InBounds'
    BY <2>3 DEF Write, EmptyIsConst
  <2>4. ASSUME NEW i \in 0..Size, NEW v \in Values, Set(i, v) \/ ManagedSet(i, v)
        PROVE  EmptyIsConst' /\ InBounds'
    BY <2>2, <2>3, <2>4 DEF Set, ManagedSet, TypeOK
  <2>5. ASSUME NEW v \in Values, SetRoot(v) PROVE EmptyIsConst' /\ InBounds'
    BY <2>2, <2>3, <2>5 DEF SetRoot
  <2>6. ASSUME UNCHANGED vars PROVE EmptyIsConst' /\ InBounds'
    BY <2>6, Zenon DEF vars, EmptyIsConst
  <2>7. ASSUME Send PROVE EmptyIsConst' /\ InBounds'
    <3>1. UNCHANGED <<target, overrun>> /\ (writable' => target.kind = "answer")
      BY <2>7, Zenon DEF Send
    <3> QED  BY <3>1, Zenon DEF EmptyIsConst
  <2> QED  BY <2>1, <2>4, <2>5, <2>6, <2>7 DEF Next
<1> QED  BY <1>1, <1>2, PTL DEF Spec

(* What has been sent to the server is not written to: every view that its       *)
(* callback is given was made from a const pointer, and no set gets past that. *)
THEOREM AlwaysConstStays == Spec => ConstStays
<1>1. Init => Sent  BY DEF Init, Sent
<1>2. Sent /\ [Next]_vars => Sent'  BY SentStep
<1>3. ASSUME Sent, [Next]_vars, phase # "filling", target.kind # "answer"
      PROVE  UNCHANGED cells
  <2>1. ~writable  BY <1>3 DEF Sent
  <2>2. \A i \in 0..Size : \A v \in Values : ~Set(i, v) /\ ~ManagedSet(i, v)
    BY <2>1 DEF Set, ManagedSet
  <2>3. \A v \in Values : ~SetRoot(v)  BY <2>1 DEF SetRoot
  <2>4. Send \/ UNCHANGED vars  BY <1>3, <2>2, <2>3 DEF Next
  <2> QED  BY <2>4 DEF Send, vars
<1>4. Sent /\ [Next]_vars
        => [phase # "filling" /\ target.kind # "answer" => UNCHANGED cells]_vars
  BY <1>3
<1> QED  BY <1>1, <1>2, <1>4, PTL DEF Spec, ConstStays
===============================================================================
