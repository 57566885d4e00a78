---------------------------- MODULE ServerBinding ----------------------------
(* The address space of a ua::server and the three maps that bind its nodes    *)
(* to callbacks: how add_folder, add_object, add_variable and add_method fill  *)
(* them, and how the dispatch handlers use them when a client reads, writes   *)
(* or calls.                                                                  *)
(*                                                                            *)
(* A node is addressed by a string, the names along its path joined by dots.  *)
(* A name is a sequence of segments (the parts between its dots), so that the *)
(* string is the concatenation of the segments.                               *)
(*                                                                            *)
(* The application adds nodes before it opens the server, or between two steps *)
(* when it drives the server itself; callbacks add nodes too. Calls nest: an   *)
(* add can make the library read the new variable, a callback can add nodes.  *)
(* "stack" is the stack of the one thread that is active.                      *)
EXTENDS Naturals, Sequences, SequencesExt

CONSTANTS
  Adds,       \* the add calls used: records of kind, path, name, setter
  Depth,      \* bound on the nesting of calls
  MaxLogs,    \* bound on the log callbacks registered
  LogThrows,  \* a log callback may throw
  Null,       \* an empty std::function
  Absent      \* no node, no entry in a map

Kinds == {"folder", "object", "variable", "method"}

(* The overload of add_variable: without a setter, with one, or with an empty   *)
(* one, which is what UA::Server::AddVariable passes when it has none.          *)
Setters == {"none", "given", "empty"}

(* ua::uid: the names of the path and the name, joined by the delimiter. *)
UidNameOnly(path, name) == name
Uid(path, name) == FlattenSeq(path) \o name

Own(add) == Uid(add.path, add.name)
Parent(add) == FlattenSeq(add.path)
Uids == {Own(add) : add \in Adds}

ASSUME AddsAssumption ==
  \A add \in Adds : add.kind \in Kinds /\ add.setter \in Setters
ASSUME AbsentAssumption == Null \notin Adds /\ Absent \notin Adds /\ Null # Absent
ASSUME BoundsAssumption == Depth \in Nat /\ MaxLogs \in Nat /\ LogThrows \in BOOLEAN

VARIABLES
  nodes,    \* the address space: the add call each node came from
  getters,  \* server_variable_getter_callbacks: the add call that brought the callback
  setters,  \* server_variable_setter_callbacks
  methods,  \* server_method_callbacks
  logs,     \* the number of server_log_callbacks
  open,     \* the server is running
  stack,    \* the calls in progress, innermost last
  refused,  \* the add calls that came too late: their string was visible already
  escaped   \* an exception has left a handler, into the C library

maps == <<getters, setters, methods>>
vars == <<nodes, getters, setters, methods, logs, open, stack, refused, escaped>>

Init ==
  /\ nodes = [u \in Uids |-> Absent]
  /\ getters = [u \in Uids |-> Absent]
  /\ setters = [u \in Uids |-> Absent]
  /\ methods = [u \in Uids |-> Absent]
  /\ logs = 0
  /\ open = FALSE
  /\ stack = <<>>
  /\ refused = {}
  /\ escaped = FALSE

Idle == stack = <<>>
Top == Last(stack)
InCallback == ~Idle /\ Top.stage = "run"
InAdd == ~Idle /\ Top.stage = "insert"

-------------------------------------------------------------------------------
(* run_sync_begin and run_sync_end, seen from here.                            *)
OpenClose ==
  /\ Idle
  /\ open' = ~open
  /\ UNCHANGED <<nodes, maps, logs, stack, refused, escaped>>

AddLogCallback ==
  /\ logs < MaxLogs
  /\ Idle
  /\ logs' = logs + 1
  /\ UNCHANGED <<nodes, maps, open, stack, refused, escaped>>

SetterOf(add) == IF add.setter = "given" THEN add ELSE Null

(* An add call up to the library: the maps are written first. The overload     *)
(* without a setter empties the setter of an earlier add with the same string. *)
BindAtParent(add) ==
  LET at == Parent(add) IN
  /\ getters' = IF add.kind = "variable" THEN [getters EXCEPT ![at] = add] ELSE getters
  /\ setters' = IF add.kind = "variable"
                THEN [setters EXCEPT ![at] = SetterOf(add)]
                ELSE setters
  /\ methods' = IF add.kind = "method" THEN [methods EXCEPT ![at] = add] ELSE methods
BindKeepsSetter(add) ==
  /\ getters' = IF add.kind = "variable" THEN [getters EXCEPT ![Own(add)] = add] ELSE getters
  /\ setters' = IF add.kind = "variable" /\ add.setter = "given"
                THEN [setters EXCEPT ![Own(add)] = add] ELSE setters
  /\ methods' = IF add.kind = "method" THEN [methods EXCEPT ![Own(add)] = add] ELSE methods
BindMethodAsGetter(add) ==
  /\ getters' = IF add.kind \in {"variable", "method"}
                THEN [getters EXCEPT ![Own(add)] = add] ELSE getters
  /\ setters' = IF add.kind = "variable"
                THEN [setters EXCEPT ![Own(add)] = SetterOf(add)]
                ELSE setters
  /\ UNCHANGED methods
Bind(add) ==
  /\ getters' = IF add.kind = "variable" THEN [getters EXCEPT ![Own(add)] = add] ELSE getters
  /\ setters' = IF add.kind = "variable"
                THEN [setters EXCEPT ![Own(add)] = SetterOf(add)]
                ELSE setters
  /\ methods' = IF add.kind = "method" THEN [methods EXCEPT ![Own(add)] = add] ELSE methods

(* A callback that adds its own node again would destroy the function it is     *)
(* executed from: that is the application's mistake.                          *)
AddCall(add) ==
  /\ Idle \/ InCallback
  /\ \A i \in DOMAIN stack : stack[i].stage = "run" => stack[i].uid # Own(add)
  /\ Len(stack) < Depth
  /\ Bind(add)
  /\ stack' = Append(stack, [stage |-> "insert", uid |-> Own(add), fn |-> add, what |-> "add"])
  /\ UNCHANGED <<nodes, logs, open, refused, escaped>>

(* The library's answer. It refuses a string that is taken and a parent that   *)
(* does not exist: only folders and objects can be added to the root, since    *)
(* variables and methods without a path name the node "" as their parent. It   *)
(* may refuse for reasons of its own. The add call then throws server_error,  *)
(* and the maps keep what was written.                                        *)
HasParent(add) ==
  IF add.path = <<>> THEN add.kind \in {"folder", "object"}
  ELSE Parent(add) \in Uids /\ nodes[Parent(add)] # Absent

Insert ==
  /\ InAdd
  /\ \/ /\ nodes[Top.uid] = Absent
        /\ HasParent(Top.fn)
        /\ nodes' = [nodes EXCEPT ![Top.uid] = Top.fn]
        /\ UNCHANGED refused
     \/ /\ refused' = refused \cup (IF nodes[Top.uid] = Absent THEN {} ELSE {Top.fn})
        /\ UNCHANGED nodes
  /\ stack' = Front(stack)
  /\ UNCHANGED <<maps, logs, open, escaped>>

-------------------------------------------------------------------------------
(* callbacks[node]: an entry that is missing is created, empty.                *)
Lookup(map, uid) == IF map[uid] = Absent THEN Null ELSE map[uid]
Touched(map, uid) == [map EXCEPT ![uid] = Lookup(map, uid)]

Dispatch(what, uid) ==
  /\ Len(stack) < Depth
  /\ getters' = IF what = "read" THEN Touched(getters, uid) ELSE getters
  /\ setters' = IF what = "write" THEN Touched(setters, uid) ELSE setters
  /\ methods' = IF what = "call" THEN Touched(methods, uid) ELSE methods
  /\ stack' = Append(stack,
       [stage |-> "run", uid |-> uid, what |-> what,
        fn |-> Lookup(CASE what = "read" -> getters [] what = "write" -> setters
                        [] what = "call" -> methods, uid)])
  /\ UNCHANGED <<nodes, logs, open, refused, escaped>>

(* What the library lets through: every variable can be read, one that was     *)
(* added with a setter, be it an empty one, written, and a method called.      *)
Accepts(what, node) ==
  /\ node # Absent
  /\ \/ what = "read" /\ node.kind = "variable"
     \/ what = "write" /\ node.kind = "variable" /\ node.setter # "none"
     \/ what = "call" /\ node.kind = "method"

(* A request of a client.                                                      *)
Request(what, uid) ==
  /\ open /\ Idle
  /\ Accepts(what, nodes[uid])
  /\ Dispatch(what, uid)

(* The library reads a variable it is about to add, to check its type.         *)
ReadWhileAdding ==
  /\ InAdd
  /\ Top.fn.kind = "variable"
  /\ Dispatch("read", Top.uid)

(* The handler answers the library: good, or with an error.                    *)
Answer == stack' = Front(stack)

CallbackReturns ==
  /\ InCallback
  /\ Top.fn # Null
  /\ Answer
  /\ UNCHANGED <<nodes, maps, logs, open, refused, escaped>>

(* The callback throws, or is empty (std::bad_function_call). The handler      *)
(* catches everything and tells the log callbacks, outside of any try block.  *)
CallbackThrows ==
  /\ InCallback
  /\ \/ Answer /\ UNCHANGED escaped
     \/ /\ logs > 0 /\ LogThrows
        /\ escaped' = TRUE
        /\ UNCHANGED stack
  /\ UNCHANGED <<nodes, maps, logs, open, refused>>

(* log_callback_handler, which the library calls from wherever it logs, lets   *)
(* an exception of a log callback through.                                    *)
LogMessage ==
  /\ logs > 0 /\ LogThrows
  /\ escaped' = TRUE
  /\ UNCHANGED <<nodes, maps, logs, open, stack, refused>>

Next ==
  \/ /\ ~escaped
     /\ \/ OpenClose \/ AddLogCallback
        \/ \E add \in Adds : AddCall(add)
        \/ Insert
        \/ \E what \in {"read", "write", "call"} : \E uid \in Uids : Request(what, uid)
        \/ ReadWhileAdding
        \/ CallbackReturns \/ CallbackThrows \/ LogMessage
  \/ escaped /\ UNCHANGED vars

Spec == Init /\ [][Next]_vars

-------------------------------------------------------------------------------
Variables == {add \in Adds : add.kind = "variable"}
Methods == {add \in Adds : add.kind = "method"}

Frames ==
  [stage : {"insert"}, what : {"add"}, uid : Uids, fn : Adds]
    \cup [stage : {"run"}, what : {"read", "write", "call"}, uid : Uids,
          fn : Variables \cup Methods \cup {Null}]

TypeOK ==
  /\ nodes \in [Uids -> Adds \cup {Absent}]
  /\ getters \in [Uids -> Variables \cup {Null, Absent}]
  /\ setters \in [Uids -> Variables \cup {Null, Absent}]
  /\ methods \in [Uids -> Methods \cup {Null, Absent}]
  /\ logs \in 0..MaxLogs
  /\ open \in BOOLEAN /\ escaped \in BOOLEAN
  /\ stack \in Seq(Frames) /\ Len(stack) <= Depth
  /\ refused \subseteq Adds

(* The callbacks a handler finds for a node that a client can reach are the     *)
(* node's own, or those of a later add call for the same string: one that the  *)
(* library has refused, whose callbacks stay bound all the same, or one that is *)
(* still being answered. Whatever adds succeed, fail or nest, it never finds    *)
(* none, nor those of another string, nor a setter that is not its getter's.   *)
InProgress(add) == \E i \in DOMAIN stack : stack[i].stage = "insert" /\ stack[i].fn = add
BelongsTo(fn, u) ==
  fn = nodes[u] \/ (fn \in Adds /\ Own(fn) = u /\ (fn \in refused \/ InProgress(fn)))

BoundBeforeVisible ==
  \A u \in Uids : nodes[u] # Absent =>
    /\ nodes[u].kind = "variable"
         => BelongsTo(getters[u], u) /\ setters[u] = SetterOf(getters[u])
    /\ nodes[u].kind = "method" => BelongsTo(methods[u], u)

(* The getter and the setter of a variable come from the same add call: a      *)
(* repeated add, even one that fails, never leaves the getter of one call      *)
(* beside the setter of another.                                              *)
PairedCallbacks ==
  \A u \in Uids : getters[u] \in Adds =>
    setters[u] = SetterOf(getters[u])

(* While a request is served, the callback that runs was given for the path    *)
(* and the name of the node that was asked for. (When no name contains a dot;  *)
(* otherwise two places can have the same string.)                            *)
OwnCallback ==
  \A i \in DOMAIN stack :
    LET f == stack[i] IN
    f.stage = "run" /\ f.fn # Null /\ nodes[f.uid] # Absent
      => f.fn.path = nodes[f.uid].path /\ f.fn.name = nodes[f.uid].name

(* Serving a request only reads the maps: operator[] never inserts, although   *)
(* it would for a node without an entry.                                      *)
ServingLeavesMaps ==
  [][Len(stack') > Len(stack) /\ Last(stack').stage = "run" => UNCHANGED maps]_vars
===============================================================================
