--------------------------- MODULE MCServerBinding ---------------------------
(* Instances of ServerBinding for TLC: two containers, the same variable name  *)
(* in both, one variable added with a setter, without one and with an empty  *)
(* one, and a method.                                                         *)
EXTENDS ServerBinding

F == <<"f">>
G == <<"g">>
X == <<"x">>
M == <<"m">>

AnAdd(kind, path, name, setter) ==
  [kind |-> kind, path |-> path, name |-> name, setter |-> setter]

PlainAdds ==
  {AnAdd("folder", <<>>, F, "none"), AnAdd("object", <<F>>, G, "none"),
   AnAdd("variable", <<F>>, X, "none"), AnAdd("variable", <<F>>, X, "given"),
   AnAdd("variable", <<F, G>>, X, "given"), AnAdd("variable", <<F>>, X, "empty"),
   AnAdd("variable", <<>>, X, "none"),
   AnAdd("method", <<F>>, M, "none")}
===============================================================================
