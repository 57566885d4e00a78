----------------------------- MODULE CliAdapters -----------------------------
(* How UA::Server and UA::Client keep the managed callbacks alive that native  *)
(* code calls. A callback is handed over as a plain function pointer; the      *)
(* garbage collector does not see it. An adapter therefore allocates a         *)
(* GCHandle for the delegate behind the pointer. Nobody ever disposes of an    *)
(* adapter: the handle stays.                                                  *)
(*                                                                            *)
(* An adapter and its delegate refer to each other and are one object here.    *)
(* The adapter of the log callback refers to the wrapper (LogCallback is one   *)
(* of its methods); another one does when the application's callback uses it.  *)
(* The collector may take whatever is not reachable, also while a method of    *)
(* it is inside native code: the wrappers do not use GC::KeepAlive.            *)
CONSTANTS
  Adapters,  \* the adapters of variables, methods and client operations
  Nodes,     \* the strings nodes are added under
  Log,       \* the adapter of the log callback
  Wrapper,   \* the UA::Server or UA::Client
  None

ASSUME ConstantsAssumption ==
  /\ {Log, Wrapper, None} \cap Adapters = {}
  /\ Log # Wrapper /\ None \notin {Log, Wrapper}

Objects == Adapters \cup {Log, Wrapper}

VARIABLES
  kind,       \* the wrapper is a "server" or a "client"
  held,       \* the application has a reference to the wrapper
  disposed,
  native,     \* the ua::server or ua::client: "alive" or "deleted"
  objects,    \* what became of the managed objects: "unused", "live" or "collected"
  handles,    \* the adapters whose GCHandle is allocated
  captures,   \* the adapters whose callback uses the wrapper
  bound,      \* bound[n]: the adapter the native map of a server has for a node
  active,     \* an operation of a client is in progress
  pointer,    \* the adapter whose pointer that operation was given
  wild        \* native code has called a collected delegate, or a native operation
              \* has gone on in a deleted object

vars == <<kind, held, disposed, native, objects, handles, captures, bound,
          active, pointer, wild>>

(* The constructor has given the log adapter to the native object.             *)
InitUnpinned ==
  /\ kind \in {"server", "client"}
  /\ held = TRUE
  /\ disposed = FALSE
  /\ native = "alive"
  /\ objects = [o \in Objects |-> IF o \in Adapters THEN "unused" ELSE "live"]
  /\ handles = {}
  /\ captures \in SUBSET Adapters
  /\ bound = [n \in Nodes |-> None]
  /\ active = FALSE
  /\ pointer = None
  /\ wild = FALSE
Init ==
  /\ kind \in {"server", "client"}
  /\ held = TRUE
  /\ disposed = FALSE
  /\ native = "alive"
  /\ objects = [o \in Objects |-> IF o \in Adapters THEN "unused" ELSE "live"]
  /\ handles = {Log}
  /\ captures \in SUBSET Adapters
  /\ bound = [n \in Nodes |-> None]
  /\ active = FALSE
  /\ pointer = None
  /\ wild = FALSE

-------------------------------------------------------------------------------
(* The constructor of an adapter: a delegate for the callback, a GCHandle for  *)
(* the delegate, and a pointer; none of them when the callback is null.        *)
CreateUnpinned(a, given) ==
  /\ objects[a] = "unused"
  /\ objects' = [objects EXCEPT ![a] = "live"]
  /\ UNCHANGED handles
Create(a, given) ==
  /\ objects[a] = "unused"
  /\ objects' = [objects EXCEPT ![a] = "live"]
  /\ handles' = IF given THEN handles \cup {a} ELSE handles

Usable == held /\ ~disposed /\ ~active

(* AddVariable, AddMethod. The native map keeps the pointer, whatever the      *)
(* library answers; an earlier one for the same node is replaced.              *)
Add(n, a, given) ==
  /\ kind = "server"
  /\ Usable
  /\ Create(a, given)
  /\ bound' = [bound EXCEPT ![n] = IF given THEN a ELSE None]
  /\ UNCHANGED <<kind, held, disposed, native, captures, active, pointer, wild>>

(* Get, Set, Read, Write, Call: the pointer is used until the native operation *)
(* returns.                                                                    *)
Begin(a, given) ==
  /\ kind = "client"
  /\ Usable
  /\ Create(a, given)
  /\ active' = TRUE
  /\ pointer' = IF given THEN a ELSE None
  /\ UNCHANGED <<kind, held, disposed, native, captures, bound, wild>>

End ==
  /\ active
  /\ active' = FALSE
  /\ pointer' = None
  /\ wild' = (wild \/ native = "deleted")
  /\ UNCHANGED <<kind, held, disposed, native, objects, handles, captures, bound>>

(* The pointers native code has, as long as its object exists.                 *)
Callable ==
  IF native = "deleted" THEN {}
  ELSE ({Log, pointer} \cup {bound[n] : n \in Nodes}) \ {None}

(* Native code calls back: a client reads or writes a node, the operation in   *)
(* progress asks for its arguments, the library logs.                          *)
NativeCall(a) ==
  /\ a \in Callable
  /\ wild' = (wild \/ objects[a] = "collected")
  /\ UNCHANGED <<kind, held, disposed, native, objects, handles, captures, bound,
                 active, pointer>>

(* The application gives its reference up: also in the middle of an operation, *)
(* when it was the last use of the variable.                                   *)
Drop ==
  /\ held
  /\ held' = FALSE
  /\ UNCHANGED <<kind, disposed, native, objects, handles, captures, bound,
                 active, pointer, wild>>

(* Dispose deletes the native object, and its maps. Disposing of a wrapper in  *)
(* one of its own callbacks is the application's mistake.                      *)
DisposeStoresNull ==
  /\ Usable
  /\ disposed' = TRUE
  /\ native' = None
  /\ bound' = [n \in Nodes |-> None]
  /\ UNCHANGED <<kind, held, objects, handles, captures, active, pointer, wild>>
Dispose ==
  /\ Usable
  /\ disposed' = TRUE
  /\ native' = "deleted"
  /\ bound' = [n \in Nodes |-> None]
  /\ UNCHANGED <<kind, held, objects, handles, captures, active, pointer, wild>>

-------------------------------------------------------------------------------
(* What the collector finds: what a handle roots, and the wrapper from the      *)
(* application's variable or through a callback that is rooted.                *)
Reachable ==
  handles \cup
  {o \in {Wrapper} : held \/ handles \cap (captures \cup {Log}) # {}}

(* It may take anything else. The finalizer of the wrapper, !Server or !Client, *)
(* deletes the native object.                                                 *)
Collect(o) ==
  /\ objects[o] = "live"
  /\ o \notin Reachable
  /\ objects' = [objects EXCEPT ![o] = "collected"]
  /\ native' = IF o = Wrapper THEN "deleted" ELSE native
  /\ UNCHANGED <<kind, held, disposed, handles, captures, bound, active, pointer, wild>>

Next ==
  \/ \E a \in Adapters : \E given \in BOOLEAN :
       (\E n \in Nodes : Add(n, a, given)) \/ Begin(a, given)
  \/ End
  \/ \E a \in Adapters \cup {Log} : NativeCall(a)
  \/ Drop \/ Dispose
  \/ \E o \in Objects : Collect(o)
  \/ disposed /\ UNCHANGED vars

Spec == Init /\ [][Next]_vars

-------------------------------------------------------------------------------
TypeOK ==
  /\ kind \in {"server", "client"} /\ native \in {"alive", "deleted"}
  /\ {held, disposed, active, wild} \subseteq BOOLEAN
  /\ objects \in [Objects -> {"unused", "live", "collected"}]
  /\ handles \subseteq Adapters \cup {Log} /\ captures \subseteq Adapters
  /\ bound \in [Nodes -> Adapters \cup {None}]
  /\ pointer \in Adapters \cup {None}

(* Whenever the collector runs, before the first request for a node, between    *)
(* two of them or in the middle of a client's operation: native code never     *)
(* calls a collected delegate, and an operation never continues in a deleted   *)
(* native object.                                                             *)
NoWildCall == ~wild

(* Only Dispose ends the native object. A server that the application has no    *)
(* variable for any more goes on serving, an operation that was the last use   *)
(* of its client is not cut short by the finalizer: the log callback keeps the *)
(* wrapper alive.                                                             *)
EndedByDispose == [][native' # native => disposed' /\ ~disposed]_vars
===============================================================================
