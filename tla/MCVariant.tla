------------------------------ MODULE MCVariant ------------------------------
(* Instances of Variant for TLC: numbers and strings of both kinds, scalars and *)
(* vectors, an empty vector, and strings with a zero character inside; methods *)
(* with three inputs and without any, with two outputs and without any, and     *)
(* variables.                                                                 *)
EXTENDS Variant

AValue(type, shape, items) == [type |-> type, shape |-> shape, items |-> items]

SomeValues ==
  {AValue("int", "scalar", <<1>>), AValue("double", "vector", <<1, 2>>),
   AValue("double", "vector", <<>>), AValue("double", "scalar", <<3>>),
   AValue("string", "scalar", << <<"c", "nul", "c">> >>),
   AValue("wstring", "vector", << <<"c">>, <<>> >>)}

Scalar(type) == [type |-> type, shape |-> "scalar", dimensions |-> <<>>]
Vector(type, dimension) == [type |-> type, shape |-> "vector", dimensions |-> <<dimension>>]

ATarget(kind, declared) == [kind |-> kind, declared |-> declared]

Inputs == ATarget("inputs", <<Scalar("int"), Vector("double", 2), Scalar("wstring")>>)
Outputs == ATarget("answer", <<Vector("string", 2), Scalar("double")>>)
Variables == {ATarget("written", <<t>>) :
                t \in {Scalar("double"), Vector("double", 0), Vector("string", 0)}}

SomeTargets == {Inputs, ATarget("inputs", <<>>), Outputs} \cup Variables
WithEmptyAnswer == SomeTargets \cup {ATarget("answer", <<>>)}

(* C# used without an index, and with any.                                     *)
RootOnly == {0}
AnyIndex == 0..2
===============================================================================
