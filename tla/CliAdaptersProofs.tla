-------------------------- MODULE CliAdaptersProofs --------------------------
(* Proofs about CliAdapters, for any adapters and nodes: why a pointer that     *)
(* native code has never outlives its delegate.                                *)
EXTENDS CliAdapters, TLAPS

-------------------------------------------------------------------------------
(* The inductive invariant. *)

(* The handle of the log adapter is there from the beginning, and no handle is  *)
(* ever freed; what a handle roots is not collected, and the log adapter roots  *)
(* the wrapper.                                                                *)
Rooted ==
  /\ Log \in handles
  /\ \A a \in handles : objects[a] = "live"
  /\ objects[Wrapper] = "live"

(* Native code has pointers to adapters with a handle only. *)
Pinned ==
  /\ \A n \in Nodes : bound[n] # None => bound[n] \in handles
  /\ pointer # None => pointer \in handles

(* Only Dispose deletes the native object, and not during an operation. *)
Deleted == (native = "deleted" => disposed) /\ (disposed => ~active)

IInv == TypeOK /\ Rooted /\ Pinned /\ Deleted /\ NoWildCall

-------------------------------------------------------------------------------
LEMMA People ==
  /\ Log \in Objects /\ Wrapper \in Objects /\ Adapters \subseteq Objects
  /\ Log \notin Adapters /\ Wrapper \notin Adapters /\ None \notin Adapters
  /\ Log # Wrapper /\ None # Log /\ None # Wrapper
  BY ConstantsAssumption DEF Objects

LEMMA InitIInv == Init => IInv
<1> SUFFICES ASSUME Init PROVE IInv  OBVIOUS
<1> USE People DEF Init
<1>1. TypeOK  BY DEF TypeOK
<1>2. Rooted /\ Pinned /\ Deleted /\ NoWildCall
  BY DEF Rooted, Pinned, Deleted, NoWildCall
<1> QED  BY <1>1, <1>2 DEF IInv

(* An adapter is created for a callback or for none. *)
LEMMA CreateKeeps ==
  ASSUME IInv, NEW a \in Adapters, NEW given \in BOOLEAN, Create(a, given)
  PROVE  /\ objects' \in [Objects -> {"unused", "live", "collected"}]
         /\ handles' \subseteq Adapters \cup {Log} /\ handles \subseteq handles'
         /\ given => a \in handles'
         /\ Log \in handles' /\ objects'[Wrapper] = "live"
         /\ \A b \in handles' : objects'[b] = "live"
<1> USE People DEF IInv, TypeOK, Rooted
<1>1. objects' = [objects EXCEPT ![a] = "live"]  BY DEF Create
<1>2. CASE given
  <2>1. handles' = handles \cup {a}  BY <1>2 DEF Create
  <2> QED  BY <1>1, <1>2, <2>1
<1>3. CASE ~given
  <2>1. handles' = handles  BY <1>3 DEF Create
  <2> QED  BY <1>1, <1>3, <2>1
<1> QED  BY <1>2, <1>3

(* Nothing native code can call, nor the wrapper, is ever taken. *)
LEMMA LogKeepsWrapper == ASSUME IInv PROVE Reachable = handles \cup {Wrapper}
<1>1. handles \cap (captures \cup {Log}) # {}  BY DEF IInv, Rooted
<1> QED  BY <1>1 DEF Reachable

LEMMA CallableHaveHandles == ASSUME IInv PROVE Callable \subseteq handles
<1>1. CASE native = "deleted"  BY <1>1 DEF Callable
<1>2. CASE native # "deleted"  BY <1>2 DEF Callable, IInv, Rooted, Pinned
<1> QED  BY <1>1, <1>2

LEMMA IInvStep == ASSUME IInv, [Next]_vars PROVE IInv'
<1> USE People DEF IInv
<1>1. CASE UNCHANGED vars
  BY <1>1 DEF vars, TypeOK, Rooted, Pinned, Deleted, NoWildCall
<1>2. ASSUME NEW n \in Nodes, NEW a \in Adapters, NEW given \in BOOLEAN, Add(n, a, given)
      PROVE  IInv'
  <2> USE <1>2 DEF Add
  <2>1. /\ objects' \in [Objects -> {"unused", "live", "collected"}]
        /\ handles' \subseteq Adapters \cup {Log} /\ handles \subseteq handles'
        /\ given => a \in handles'
        /\ Rooted'
    BY CreateKeeps DEF Rooted
  <2>2. bound' = [bound EXCEPT ![n] = IF given THEN a ELSE None]  OBVIOUS
  <2>3. TypeOK'  BY <2>1, <2>2 DEF TypeOK
  <2>4. Pinned'  BY <2>1, <2>2 DEF TypeOK, Pinned
  <2> QED  BY <2>1, <2>3, <2>4 DEF Deleted, NoWildCall
<1>3. ASSUME NEW a \in Adapters, NEW given \in BOOLEAN, Begin(a, given) PROVE IInv'
  <2> USE <1>3 DEF Begin
  <2>1. /\ objects' \in [Objects -> {"unused", "live", "collected"}]
        /\ handles' \subseteq Adapters \cup {Log} /\ handles \subseteq handles'
        /\ given => a \in handles'
        /\ Rooted'
    BY CreateKeeps DEF Rooted
  <2>2. pointer' = IF given THEN a ELSE None  OBVIOUS
  <2>3. TypeOK'  BY <2>1, <2>2 DEF TypeOK
  <2>4. Pinned'  BY <2>1, <2>2 DEF Pinned
  <2>5. Deleted'  BY DEF Usable, Deleted
  <2> QED  BY <2>1, <2>3, <2>4, <2>5 DEF NoWildCall
<1>4. CASE End
  <2>1. ~wild'  BY <1>4 DEF End, Deleted, NoWildCall
  <2> QED  BY <1>4, <2>1 DEF End, TypeOK, Rooted, Pinned, Deleted, NoWildCall
<1>5. ASSUME NEW a \in Adapters \cup {Log}, NativeCall(a) PROVE IInv'
  <2>1. objects[a] = "live"  BY <1>5, CallableHaveHandles DEF NativeCall, Rooted
  <2>2. ~wild'  BY <1>5, <2>1 DEF NativeCall, NoWildCall
  <2> QED  BY <1>5, <2>2 DEF NativeCall, TypeOK, Rooted, Pinned, Deleted, NoWildCall
<1>6. CASE Drop
  BY <1>6 DEF Drop, TypeOK, Rooted, Pinned, Deleted, NoWildCall
<1>7. CASE Dispose
  BY <1>7 DEF Dispose, Usable, TypeOK, Rooted, Pinned, Deleted, NoWildCall
<1>8. ASSUME NEW o \in Objects, Collect(o) PROVE IInv'
  <2>1. o \notin handles /\ o # Wrapper  BY <1>8, LogKeepsWrapper DEF Collect
  <2> QED  BY <1>8, <2>1 DEF Collect, TypeOK, Rooted, Pinned, Deleted, NoWildCall
<1> QED
  BY <1>1, <1>2, <1>3, <1>4, <1>5, <1>6, <1>7, <1>8 DEF Next

LEMMA Inductive == Spec => []IInv
<1>1. Init => IInv  BY InitIInv
<1>2. IInv /\ [Next]_vars => IInv'  BY IInvStep
<1> QED  BY <1>1, <1>2, PTL DEF Spec

-------------------------------------------------------------------------------
(* The managed objects, the handles and the native pointers keep their types. *)
THEOREM TypeCorrect == Spec => []TypeOK
<1>1. IInv => TypeOK  BY DEF IInv
<1> QED  BY <1>1, Inductive, PTL

(* Whenever the collector runs, native code never calls a collected delegate,   *)
(* and no operation goes on in a deleted native object.                        *)
THEOREM NeverWild == Spec => []NoWildCall
<1>1. IInv => NoWildCall  BY DEF IInv
<1> QED  BY <1>1, Inductive, PTL

(* The finalizer of a wrapper that was not disposed of never runs: its native   *)
(* object ends with Dispose.                                                   *)
THEOREM OnlyDisposeEnds == Spec => EndedByDispose
<1>1. ASSUME IInv, [Next]_vars, native' # native PROVE disposed' /\ ~disposed
  <2>1. \A o \in Objects : ~(Collect(o) /\ o = Wrapper)
    BY <1>1, LogKeepsWrapper DEF Collect
  <2>2. \A o \in Objects : ~Collect(o)  BY <1>1, <2>1 DEF Collect
  <2>3. ~End /\ ~Drop /\ ~UNCHANGED vars  BY <1>1 DEF End, Drop, vars
  <2>4. \A a \in Adapters \cup {Log} : ~NativeCall(a)  BY <1>1 DEF NativeCall
  <2>5. \A a \in Adapters, given \in BOOLEAN :
          ~Begin(a, given) /\ \A n \in Nodes : ~Add(n, a, given)
    BY <1>1 DEF Begin, Add
  <2>6. Dispose  BY <1>1, <2>2, <2>3, <2>4, <2>5 DEF Next
  <2> QED  BY <2>6 DEF Dispose, Usable
<1>2. IInv /\ [Next]_vars => [native' # native => disposed' /\ ~disposed]_vars
  BY <1>1
<1> QED  BY <1>2, Inductive, PTL DEF Spec, EndedByDispose
===============================================================================
