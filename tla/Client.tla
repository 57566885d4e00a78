-------------------------------- MODULE Client --------------------------------
(* A ua::client: the flag client_connected beside the session the library      *)
(* holds, and the read, write and call operations with the heap objects they   *)
(* allocate, on every way out: the library answers with an error, a callback   *)
(* throws, a browse finds nothing.                                            *)
(*                                                                            *)
(* The client is used by one thread; its callbacks may use the client again,   *)
(* so "stack" holds the operations in progress.                                *)
EXTENDS Naturals, Sequences, SequencesExt

CONSTANT Depth  \* bound on the nesting of operations

ASSUME DepthAssumption == Depth \in Nat

Resources == {"node", "request", "response", "inputs", "outputs", "input", "output"}

VARIABLES
  connected,  \* client_connected
  session,    \* the library's session: "none", "active" or "lost"
  stack,      \* operations in progress: where they are and what they hold on the heap
  leaked,     \* what operations left on the heap
  faulted,    \* a callback has thrown, or an argument list could not be read
  alive,      \* the client object exists
  terminated  \* its destructor let an exception out

vars == <<connected, session, stack, leaked, faulted, alive, terminated>>

(* Where an operation can be, in the order of the code. *)
Locations == {"browsed", "request", "call", "response", "getter", "setter", "write"}
CallbackLocations == {"request", "response", "getter", "setter"}

Init ==
  /\ connected = FALSE
  /\ session = "none"
  /\ stack = <<>>
  /\ leaked = {}
  /\ faulted = FALSE
  /\ alive = TRUE
  /\ terminated = FALSE

Top == Last(stack)
At(location) == stack # <<>> /\ Top.at = location

(* The application may use the client: outside every operation, or in one of   *)
(* its callbacks.                                                             *)
Ready == alive /\ (stack # <<>> => Top.at \in CallbackLocations)

Push(location, held) ==
  /\ Len(stack) < Depth
  /\ stack' = Append(stack, [at |-> location, held |-> held])

Move(location, held) == stack' = Append(Front(stack), [at |-> location, held |-> held])

(* The innermost operation ends, having cleared what it holds but for "kept".  *)
Leave(kept) ==
  /\ stack' = Front(stack)
  /\ leaked' = leaked \cup kept

-------------------------------------------------------------------------------
(* The library's side. A service works over an active session only, and may    *)
(* fail then as well; the connection can break and, the library retrying on    *)
(* its own, come back.                                                        *)
Lose ==
  /\ session = "active"
  /\ session' = "lost"
  /\ UNCHANGED <<connected, stack, leaked, faulted, alive, terminated>>

Recover ==
  /\ session = "lost"
  /\ session' = "active"
  /\ UNCHANGED <<connected, stack, leaked, faulted, alive, terminated>>

ServiceGood == session = "active"

-------------------------------------------------------------------------------
Connect ==
  /\ Ready
  /\ ~connected
  /\ \/ connected' = TRUE /\ session' = "active"
     \/ UNCHANGED <<connected, session>>
  /\ UNCHANGED <<stack, leaked, faulted, alive, terminated>>

(* The flag is cleared whatever the library answers; it may answer with an     *)
(* error once the connection is lost, but the session is closed.              *)
DisconnectHalfway ==
  /\ Ready
  /\ connected
  /\ session' = "closing"
  /\ connected' = FALSE
  /\ UNCHANGED <<stack, leaked, faulted, alive, terminated>>
DisconnectKeepsFlag ==
  /\ Ready
  /\ connected
  /\ session' = "none"
  /\ connected' = (session = "lost")
  /\ UNCHANGED <<stack, leaked, faulted, alive, terminated>>
Disconnect ==
  /\ Ready
  /\ connected
  /\ session' = "none"
  /\ connected' = FALSE
  /\ UNCHANGED <<stack, leaked, faulted, alive, terminated>>

(* The destructor disconnects; the exception disconnect may throw ends the     *)
(* program.                                                                   *)
Destroy ==
  /\ alive /\ stack = <<>>
  /\ \/ /\ alive' = FALSE
        /\ session' = "none"
        /\ connected' = FALSE
        /\ UNCHANGED terminated
     \/ /\ connected /\ session = "lost"
        /\ terminated' = TRUE
        /\ UNCHANGED <<alive, connected, session>>
  /\ UNCHANGED <<stack, leaked, faulted>>

-------------------------------------------------------------------------------
(* read, write and call take a path and a name, or the string of a node id. The  *)
(* UA_NodeId made of such a string is cleared, but its memory is never freed.   *)
ToUaNodeId(id) == leaked' = IF id = "string" THEN leaked \cup {"node"} ELSE leaked

(* The string is no node id: to_ua_node_id throws before the operation begins.  *)
ParseFails ==
  /\ Ready
  /\ ToUaNodeId("string")
  /\ UNCHANGED <<connected, session, stack, faulted, alive, terminated>>

(* read: the value arrives, the getter looks at it, the value is cleared.      *)
Read(id) ==
  /\ Ready
  /\ ToUaNodeId(id)
  /\ ServiceGood
  /\ Push("getter", {"output"})
  /\ UNCHANGED <<connected, session, faulted, alive, terminated>>

GetterReturns ==
  /\ At("getter")
  /\ Leave({})
  /\ UNCHANGED <<connected, session, faulted, alive, terminated>>

(* write: the setter fills the value, which is sent and cleared.               *)
Write(id) ==
  /\ Ready
  /\ ToUaNodeId(id)
  /\ Push("setter", {})
  /\ UNCHANGED <<connected, session, faulted, alive, terminated>>

SetterReturns ==
  /\ At("setter")
  /\ Move("write", {"input"})
  /\ UNCHANGED <<connected, session, leaked, faulted, alive, terminated>>

Written ==
  /\ At("write")
  /\ Leave({})
  /\ UNCHANGED <<connected, session, faulted, alive, terminated>>

(* call, get_method_nargs: the answer to the browse, or an empty one when the  *)
(* service failed: the status is not looked at.                               *)
Call(id) ==
  /\ Ready
  /\ ToUaNodeId(id)
  /\ Push("browsed", {"request", "response"})
  /\ UNCHANGED <<connected, session, faulted, alive, terminated>>

(* An argument list that cannot be read throws before request and response     *)
(* are cleared; otherwise the request callback, when there is one, fills the   *)
(* inputs.                                                                    *)
Counted ==
  /\ At("browsed")
  /\ \/ /\ \E next \in {"request", "call"} : Move(next, {})
        /\ UNCHANGED <<leaked, faulted>>
     \/ /\ Leave(Top.held)
        /\ faulted' = TRUE
  /\ UNCHANGED <<connected, session, alive, terminated>>

RequestReturns ==
  /\ At("request")
  /\ Move("call", {"inputs"})
  /\ UNCHANGED <<connected, session, leaked, faulted, alive, terminated>>

CalledForgetsInputs ==
  /\ At("call")
  /\ \/ /\ ServiceGood
        /\ Move("response", Top.held \cup {"outputs"})
        /\ UNCHANGED leaked
     \/ Leave(Top.held)
  /\ UNCHANGED <<connected, session, faulted, alive, terminated>>
Called ==
  /\ At("call")
  /\ \/ /\ ServiceGood
        /\ Move("response", Top.held \cup {"outputs"})
        /\ UNCHANGED leaked
     \/ Leave({})
  /\ UNCHANGED <<connected, session, faulted, alive, terminated>>

ResponseReturns ==
  /\ At("response")
  /\ Leave({})
  /\ UNCHANGED <<connected, session, faulted, alive, terminated>>

(* A callback throws, or lets an exception of a nested operation through: no   *)
(* operation guards its clean-up against that. A setter or request callback    *)
(* may have filled its variants already.                                      *)
Filled == CASE Top.at = "setter" -> {"input"} [] Top.at = "request" -> {"inputs"} [] OTHER -> {}

CallbackThrows ==
  /\ stack # <<>> /\ Top.at \in CallbackLocations
  /\ \E filled \in SUBSET Filled : Leave(Top.held \cup filled)
  /\ faulted' = TRUE
  /\ UNCHANGED <<connected, session, alive, terminated>>

-------------------------------------------------------------------------------
Next ==
  \/ /\ alive /\ ~terminated
     /\ \/ Lose \/ Recover
        \/ Connect \/ Disconnect \/ Destroy
        \/ ParseFails
        \/ \E id \in {"path", "string"} : Read(id) \/ Write(id) \/ Call(id)
        \/ GetterReturns
        \/ SetterReturns \/ Written
        \/ Counted \/ RequestReturns \/ Called \/ ResponseReturns
        \/ CallbackThrows
  \/ (~alive \/ terminated) /\ UNCHANGED vars

Spec == Init /\ [][Next]_vars

-------------------------------------------------------------------------------
TypeOK ==
  /\ connected \in BOOLEAN /\ alive \in BOOLEAN /\ terminated \in BOOLEAN
  /\ session \in {"none", "active", "lost"}
  /\ stack \in Seq([at : Locations, held : SUBSET Resources]) /\ Len(stack) <= Depth
  /\ leaked \subseteq Resources /\ faulted \in BOOLEAN

(* The flag and the library agree on whether there is something to close: a    *)
(* session nobody will disconnect is never left behind, not even by a client    *)
(* that is destroyed, and disconnect is never sent without a session.          *)
FlagMatchesSession ==
  /\ connected <=> session # "none"
  /\ ~alive => ~connected /\ stack = <<>>

(* However the services fail and the operations nest, nothing is left on the   *)
(* heap until a callback throws or an argument list cannot be read; but for the *)
(* node ids made of strings.                                                  *)
NoLeak == leaked \subseteq {"node"} \/ faulted
===============================================================================
