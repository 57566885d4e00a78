------------------------------- MODULE Variant -------------------------------
(* ua::variant and UA::Variant, the views through which callbacks read and     *)
(* write values: an array of UA_Variant, a view being an index into it; and    *)
(* ua::argument and ua::convert, which tell the library the types that are     *)
(* expected there. One side fills the array through a view, it is sent, and    *)
(* the other side reads it: the inputs of a call, a value that is written, or  *)
(* what a callback answers. Numeric types behave alike and are "int" and       *)
(* "double" here; a string is a sequence of characters, "nul" being zero.      *)
EXTENDS Naturals, Sequences, SequencesExt

CONSTANTS
  Targets, \* what is filled: its kind, and the C++ type each place is declared with
  Values,  \* values set: C++ type, shape and items (one for a scalar)
  Managed, \* the indices at which values are also set from C#, through UA::Variant
  Empty    \* a UA_Variant without content

Types == {"int", "double", "string", "wstring"}
Shapes == {"scalar", "vector"}

Declarations == [type : Types, shape : Shapes, dimensions : Seq(Nat)]

ASSUME TargetsAssumption == \A t \in Targets :
  /\ t.kind \in {"inputs", "written", "answer"}
  /\ t.declared \in Seq(Declarations)
  /\ t.kind = "written" => Len(t.declared) = 1
  /\ t.kind # "written" =>
       \A i \in DOMAIN t.declared :
         LET d == t.declared[i] IN d.shape = "scalar" <=> d.dimensions = <<>>
ASSUME ValuesAssumption == \A v \in Values :
  /\ v # Empty
  /\ v.type \in Types /\ v.shape \in Shapes
  /\ v.shape = "scalar" => v.items = <<v.items[1]>>

VARIABLES
  target,   \* what is being filled
  cells,    \* the UA_Variant array; its first element is cells[1]
  writable, \* variant_writable of the view: a pointer that is not null
  asked,    \* the value last set at an index
  phase,    \* "filling", "delivered" or "refused"
  overrun   \* a view has touched memory behind the array

vars == <<target, cells, writable, asked, phase, overrun>>

Size == Len(target.declared)
Indices == 0..(Size - 1)
At(i) == cells[i + 1]

-------------------------------------------------------------------------------
(* Type and rank in the address space of what is declared as T.                 *)
DataType(type) == IF type = "wstring" THEN "string" ELSE type
ValueRank(shape) == IF shape = "scalar" THEN "scalar" ELSE "scalar or one dimension"

ArgumentAlwaysScalar(d) ==
  [type |-> DataType(d.type), dimensions |-> <<>>, rank |-> "scalar"]
Argument(d) ==
  [type |-> DataType(d.type), dimensions |-> d.dimensions,
   rank |-> IF d.dimensions = <<>> THEN "scalar" ELSE "one dimension"]

Declared(t, i) ==
  LET d == t.declared[i + 1] IN
  IF t.kind = "written"
  THEN [type |-> DataType(d.type), rank |-> ValueRank(d.shape), dimensions |-> <<>>]
  ELSE Argument(d)

(* The library compares what a client sends with what was declared.            *)
Compatible(cell, d) ==
  /\ cell # Empty /\ cell.type = d.type
  /\ d.rank = "scalar" => cell.shape = "scalar"
  /\ d.rank = "one dimension" =>
       /\ cell.shape = "vector" /\ Len(d.dimensions) = 1
       /\ Len(cell.items) <= d.dimensions[1] \/ d.dimensions[1] = 0

(* What a client sends is compared; what a callback answers is not.             *)
Accepted ==
  target.kind # "answer" => \A i \in Indices : Compatible(At(i), Declared(target, i))

-------------------------------------------------------------------------------
(* A string is passed on as a C string: it ends at its first zero character.   *)
UpToNul(text) ==
  LET nuls == {i \in DOMAIN text : text[i] = "nul"} IN
  IF nuls = {} THEN text ELSE SubSeq(text, 1, Min(nuls) - 1)

(* set<T>: the content of the UA_Variant. *)
Stored(v) ==
  [type |-> DataType(v.type), shape |-> v.shape,
   items |-> IF v.type \in {"string", "wstring"}
             THEN [i \in DOMAIN v.items |-> UpToNul(v.items[i])] ELSE v.items]

(* get<T>: T gives the shape, the content of the UA_Variant is not checked. A  *)
(* vector takes arrayLength items, and the arrayLength of a scalar is zero.    *)
LoadedScalar(cell) == <<cell.items[1]>>
LoadedVector(cell) == IF cell.shape = "scalar" THEN <<>> ELSE cell.items
Loaded(cell, shape) == IF shape = "scalar" THEN LoadedScalar(cell) ELSE LoadedVector(cell)

(* Who fills the array has a mutable view. The client's inputs are a            *)
(* std::vector, and an empty one has no data: its view is not writable. The    *)
(* server's outputs are an array of the library, whose pointer is never null.  *)
Init ==
  /\ target \in Targets
  /\ cells = [i \in DOMAIN target.declared |-> Empty]
  /\ writable = ~(target.kind = "inputs" /\ target.declared = <<>>)
  /\ asked = cells
  /\ phase = "filling"
  /\ overrun = FALSE

(* The content of element i is replaced, or that of the memory behind the array. *)
WriteUnconverted(i, v) ==
  /\ cells' = IF i \in Indices THEN [cells EXCEPT ![i + 1] = v] ELSE cells
  /\ overrun' = (overrun \/ i \notin Indices)
Write(i, v) ==
  /\ cells' = IF i \in Indices THEN [cells EXCEPT ![i + 1] = Stored(v)] ELSE cells
  /\ overrun' = (overrun \/ i \notin Indices)

Ask(i, v) == asked' = IF i \in Indices THEN [asked EXCEPT ![i + 1] = v] ELSE asked

(* view[i].set<T>(v) in C++: operator[] throws for an index out of bounds, and   *)
(* set for a view that is not writable.                                       *)
InRangeOffByOne(i) == i <= Size
InRange(i) == i < Size

SetAtRoot(i, v) ==
  /\ writable
  /\ InRange(i)
  /\ Write(0, v) /\ Ask(i, v)
  /\ UNCHANGED <<target, writable, phase>>
Set(i, v) ==
  /\ writable
  /\ InRange(i)
  /\ Write(i, v) /\ Ask(i, v)
  /\ UNCHANGED <<target, writable, phase>>

(* view.set<T>(v): the view that a callback is given has index 0, which its      *)
(* constructor does not compare with the size.                                *)
SetRoot(v) ==
  /\ writable
  /\ Write(0, v) /\ Ask(0, v)
  /\ UNCHANGED <<target, writable, phase>>

(* view[i].Get<T>() and view[i].Set<T>(v) in C#: the indexer carries the index  *)
(* along, but both make a ua::variant of the whole array, whose index is zero.  *)
ManagedLoaded(i, shape) == Loaded(At(0), shape)

ManagedSet(i, v) ==
  /\ writable
  /\ InRange(i)
  /\ Write(0, v) /\ Ask(i, v)
  /\ UNCHANGED <<target, writable, phase>>

(* The array is sent. Inputs and written values reach the handler's callback as *)
(* const; the client's view of an answer is made from a UA_Variant*.            *)
SendMutable ==
  /\ phase = "filling"
  /\ phase' = IF Accepted THEN "delivered" ELSE "refused"
  /\ UNCHANGED <<target, cells, asked, overrun, writable>>
Send ==
  /\ phase = "filling"
  /\ phase' = IF Accepted THEN "delivered" ELSE "refused"
  /\ writable' = (target.kind = "answer")
  /\ UNCHANGED <<target, cells, asked, overrun>>

Next ==
  \/ \E i \in 0..Size : \E v \in Values :
       \/ Set(i, v)
       \/ i \in Managed /\ ManagedSet(i, v)
  \/ \E v \in Values : SetRoot(v)
  \/ Send

Spec == Init /\ [][Next]_vars

-------------------------------------------------------------------------------
TypeOK ==
  /\ target \in Targets
  /\ cells \in [1..Size -> {Empty} \cup {Stored(v) : v \in Values}]
  /\ asked \in [1..Size -> {Empty} \cup Values]
  /\ writable \in BOOLEAN /\ overrun \in BOOLEAN
  /\ phase \in {"filling", "delivered", "refused"}

(* What was set at an index, in any order and as often as one likes, in C++ or   *)
(* (at index zero) in C#, is read back from that index in both by a get of the  *)
(* same type (a string up to its first zero character), and an index that was  *)
(* not set stays empty.                                                        *)
ReadBack ==
  \A i \in Indices :
    LET a == asked[i + 1] IN
    IF a = Empty THEN At(i) = Empty
    ELSE /\ Loaded(At(i), a.shape) = Stored(a).items
         /\ i \in Managed => ManagedLoaded(i, a.shape) = Stored(a).items

(* What a call or a write has brought to the server stays as it was sent, also   *)
(* when its callback calls set on the views it is given.                       *)
ConstStays == [][phase # "filling" /\ target.kind # "answer" => UNCHANGED cells]_vars

(* A call or a write that the server accepts reaches the callback whole: read    *)
(* with the type each argument or variable was declared with, every value is    *)
(* what the client set. The one exception is a scalar written to a variable     *)
(* declared as vector: its rank lets scalars in, and they are read as nothing.  *)
Delivered ==
  phase = "delivered" /\ target.kind # "answer" =>
    \A i \in Indices :
      LET shape == target.declared[i + 1].shape
          a == asked[i + 1]
      IN /\ a # Empty
         /\ \/ Loaded(At(i), shape) = Stored(a).items
            \/ target.kind = "written" /\ shape = "vector" /\ a.shape = "scalar"

(* No view reaches memory outside its array: "Specified variant index is out of  *)
(* bounds!", says the exception.                                              *)
InBounds == ~overrun

(* C++ and C# agree: setting an argument in C# does what setting it in C++     *)
(* does.                                                                      *)
Uniform == [][\A i \in Indices : \A v \in Values : ManagedSet(i, v) => Set(i, v)]_vars
===============================================================================
