# A TLA+ verification of reopen62541

reopen62541 wraps the C library open62541 (an OPC UA stack) for C++ and, on top
of that, for C#. This directory holds TLA+ modules translated from its source,
TLC configurations that check them on small instances, and TLAPS proofs of what
matters most. Paths below are relative to `src/src/` of the repository.

## 1. Inventory

| component | source | state it keeps | operations |
|---|---|---|---|
| server lifecycle | `reopen62541/server.{h,cpp}` | `server_running` (volatile flag), `server_runner` (pointer to a `std::thread`), the `UA_Server` behind `server_instance` | constructor, `run_async`, `run`, `run_sync_begin/end/step/loop`, `shutdown`, destructor |
| server address space and dispatch | `reopen62541/server.cpp` | the nodes in the `UA_Server`; three maps from node strings to getters, setters, methods; a vector of log callbacks | `add_folder`, `add_object`, `add_variable` (two overloads), `add_method`, `add_log_callback`; the handlers the library calls for read, write, call and log |
| uid | `reopen62541/uid.h` | the delimiter | joins path and name |
| client | `reopen62541/client.{h,cpp}` | `client_connected`, the `UA_Client` with its session, log callbacks | `connect`, `disconnect`, `sync`, `read`/`get`, `write`/`set`, `call`, `get_method_nargs` |
| variant | `reopen62541/variant.h` | a pointer to a `UA_Variant` array (writable or only readable), its size, an index | indexing, `get<T>`, `set<T>` |
| argument, convert, strings, exception | `reopen62541/*.h` | none, but for the pool of strings | stateless helpers |
| UA::Server | `reopen62541-cli/Server.{h,cpp}` | pointer to the native server, a managed thread, `disposed` | `RunAsync`, `Run`, `Shutdown`, `Dispose`, the `Add*` wrappers, a log event |
| UA::Client | `reopen62541-cli/Client.{h,cpp}` | pointer to the native client, `disposed` | wrappers of the client's operations |
| UA::Variant | `reopen62541-cli/Variant.{h,cpp}` | as variant | indexer, `Get<T>`, `Set<T>` |
| UA::Argument | `reopen62541-cli/Argument.{h,cpp}` | none that changes | becomes a `ua::argument` |
| adapters | `reopen62541-cli/Adapters/*` | a delegate kept alive by a `GCHandle` | turn a delegate into a `std::function` |
| calculators, tests | `examples/*`, `tests/*` | | programs that use the library |

How they interact. The application calls the server's operations from its own
threads. The library calls the handlers from inside `UA_Server_run_iterate`, that
is, on the thread that is in `run_sync_loop` or `run_sync_step`; a handler finds
the callback in a map and calls it with variants over the arguments; the
callback may call operations of the server again. `run_async` puts
`run_sync_loop` on a thread; `shutdown` clears the flag and joins that thread.
The client is used by one thread; its callbacks run between the service call
and the clean-up. A client and a server meet only through requests and answers:
`get` and `set` end in the callbacks of the server's node, on the server's
thread, which may itself wait for another server. The C# classes own a native
object each. `UA::Server` does not use `run_async`: it runs `run_sync_loop` on a managed thread, so that the native
`shutdown` has nothing to join.

What is hard here:

* the flag is read and written by several threads without a lock, and the
  pointer to the runner is written after the runner has begun to run;
* every failure of the library becomes an exception, in the middle of an
  operation, and some operations are destructors;
* callbacks re-enter the object they are called from: a callback may stop the
  server it is served by, add nodes, disconnect the client, or ask another server;
* a request may be lost, answered too late, or reach the server after the client
  has given it up, and a server may be stopped while it is asked;
* the library keeps nodes and the code keeps maps: two stores, written one after
  the other, with a failure possible in between;
* `UA::Server` has to put away a thread and a native object in the right order,
  with a join that gives up, and a callback may start to put them away on the
  very thread that is to end.

What makes each component correct:

* lifecycle: one thread at a time serves, that is, is inside `UA_Server_run_iterate`
  (the owner may be in `UA_Server_run_shutdown` beside it); the flag never
  promises more than the library does; shutdown returns and leaves nothing
  behind; nobody is inside the object after its destruction;
* dispatch: a handler finds a node's own callbacks, or those of a later add call
  for the same string, getter and setter of one call; looking them up changes
  nothing;
* client: the flag agrees with the session; every way out clears what was
  allocated;
* client and server together: a `get` or `set` that returns happened once,
  between its call and its return, one that throws perhaps, and perhaps late;
  every one ends, and so does `shutdown`;
* variant: what is set at an index is read at that index, on either side of the
  connection, other arguments and inputs stay as they are, no view leaves its
  array; C# does what C++ does;
* `UA::Server`: no thread uses the native server after its deletion, at most one
  thread serves, unless a join was given up; a stopped thread ends.

`PROJECT.json` lists the hazards one by one, at their lines.

## 2. Modules

| module | models | composed with |
|---|---|---|
| `ServerService` | abstract specification: a server is open or closed, one thread at a time serves, it opens only after the last one has left | |
| `RemoteVariable` | abstract specification: what `get` and `set` promise about the variable behind a node | |
| `ServerLifecycle` | `ua::server`'s lifecycle, one step per access to shared state | implements `ServerService` |
| `ServerLifecycleProofs` | invariants of `ServerLifecycle`, proved | extends it |
| `ServerRefinementProofs` | the safety part of `ServerService`, proved of `ServerLifecycle` | extends `ServerLifecycleProofs` |
| `ServerBinding` | nodes, maps, dispatch, log handlers, and `uid` | |
| `Client` | `ua::client` | |
| `Exchange` | `get` and `set` of clients, connections, the handlers of servers, their start and shutdown | composes clients and servers, implements `RemoteVariable` |
| `Variant` | `ua::variant`, `UA::Variant`, `ua::argument`, and the types of `ua::convert` | |
| `CliServer` | `UA::Server` over the native lifecycle | implements `ServerService` |
| `CliAdapters` | the callback adapters of `UA::Server` and `UA::Client`, and the garbage collector | |
| `ServerBindingProofs`, `ClientProofs`, `VariantProofs`, `CliAdaptersProofs` | proofs about the invariants and action properties of the module they are named after | each extends its module |
| `CliServerProofs` | the invariants of `CliServer`, and the safety part of `ServerService` | extends `CliServer` |
| `ExchangeProofs` | the types of `Exchange` and its refinement of `RemoteVariable` | extends `Exchange` |
| `MC*` | the instances TLC checks | |

### ServerLifecycle

`alive`, `running`, `runner` are the object, `server_running`, `server_runner`;
`lib` is the `UA_Server`, started or stopped; `pc[p]` and `op[p]` say where a
thread is in which operation, `outer[p]` that a callback made the call (and which
serving operation it returns to); `spawned` is the temporary in
`server_runner = shared_ptr(new thread(..))`; `raised` and `terminated` are how
calls end.

| code | actions |
|---|---|
| constructor | `Construct` |
| calls from outside, from a callback | `Call`, `CallbackCall` |
| early return of `run_async` and `run` | `EnterCheck` |
| `run_sync_begin` | `BeginCheck`, `Startup`, `Publish` |
| `new std::thread`, the assignment | `Spawn`, `Assign` |
| `run_sync_step`, `run_sync_loop` | `LoopCheck`, `IterateReturn` |
| `run_sync_end` | `EndCheck`, `EndClear`, `Stop` |
| join block of `run_async` and `shutdown` | `Join` |

What follows an operation that is part of another one (`run_sync_begin` in
`run_async`, `run_sync_end` in `shutdown`) is in `Begun`, `Ended`, `Joined`.
`Failures` says which failures can happen: the constructor, a start, a stop, the
creation of a thread. A library that is started refuses to start, one that is
stopped refuses to stop. An exception of a nested call ends in the handler
(`Finish`), one of the destructor ends the program (`Fail`). The volatile flag is
taken as a shared variable whose accesses take effect one at a time.

### ServerBinding

`nodes`, `getters`, `setters`, `methods` map strings to the add call they come
from, so that a callback is known by the call that brought it; `stack` is the
call stack of the one active thread: an add call between its writes to the maps
and the library's answer (`AddCall`, `Insert`), a callback that is running
(`Dispatch` from `Request` or from `ReadWhileAdding`, then `CallbackReturns` or
`CallbackThrows`). A name is a sequence of segments, the parts between its dots:
so `Uid` joins exactly as the code does, collisions included. `setter` tells the
overloads of `add_variable` apart: none, one, or the empty one that
`UA::Server::AddVariable` passes when it has only a getter, which makes the node
writable and its writes fail in the handler. The library is
external: it refuses a string that is taken or a parent that does not exist, and
may refuse for its own reasons. A refused add call has written the maps all the
same: `refused` records those that came when their string was visible, so that
`BoundBeforeVisible` can say exactly whose callbacks a handler may find besides
the node's own. The application adds nodes before it opens the server, between
two steps when it drives the server itself, and from callbacks; what is left out
is a callback that adds its own node again, and so replaces the function it is
executed from.

### Client

`connected` is the flag, `session` the library's view; `stack` holds the
operations in progress, where they are and what they hold on the heap; what an
operation does not clear goes to `leaked`; `faulted` records that a callback has
thrown or an argument list could not be read, the two cases in which the code
leaks. The connection can be lost and renewed at any time; services fail then,
and may fail anyway. An operation names its node by path and name or by the
string of a node id (`ToUaNodeId`); the latter leaks each time ("node").

### Exchange

A server is named like the thread that serves it and has one variable, `value`;
`status` is its lifecycle, of which `ServerLifecycle` has the details; `job` is the
request whose callback runs. `connected` and `sessions` are the two sides of a
connection, `queue` and `answers` what is on the way, `request` what a thread
waits for. `effect` is a history variable: what the callback has done for the
request that is waited for.

| code | actions |
|---|---|
| `connect`, `disconnect` | `Connect`, `Disconnect` |
| `get`/`read`, `set`/`write` | `Get`, `Set`, then `Receive`, `ConnectionLost` or `TimedOut` |
| the handlers | `Serve`, `CallbackRuns`, `CallbackReturns`, `CallbackThrows` |
| `run_async`, `shutdown` | `Start`; `Shutdown`, `Joined` |
| the network | `Lose`, `Recover`, `Discard` |

A callback may throw before or after it has had its effect, and may use clients
of other servers while it runs; the server then serves nobody else. A connection
that ends leaves a prefix of what was on the way to the server, so a request can be served
whose sender has given up. What is taken for granted of the library: requests of
one connection are served in order, answers carry the number of their request,
and a new connection of the same client is served after what had arrived on the
old one (the server's thread itself answers the connect). `Start` is one step,
since nobody can connect earlier.

`RemoteVariable` has none of this. A call happens at one moment between `Invoke`
and `Succeed`; a call that fails may have happened, and a failed write may still
be `overdue`: it happens late or never (`HappenLate`, `Forget`), but before any
later call of the same thread on that variable. `made` numbers the calls of a
thread, and an overdue write carries its number, so that of two of them the
older one cannot happen after the younger. The mapping takes `made` from `count`
and reads `overdue` off the queues: the writes on the way that nobody waits for,
and the one whose callback has not had its effect (`Pending`).

### Variant

`cells` is the `UA_Variant` array, `target` what it is for (the inputs of a call,
the answer of a callback, a value that is written) and the C++ type each place
was declared with; `writable` says whether the view was made from a mutable
pointer that is not null (the data of an empty `std::vector`, as of a client's
inputs when there are none, is), `asked` what was last set where, `overrun` that a view has touched
memory behind the array. `Declared` is the type and rank the library is told by
`ua::argument` and `ua::convert`; `Send` passes the array to the other side if it
is `Accepted` (the library compares what clients send, not what callbacks
answer). `Set` and `SetRoot` are C++, with and without an index, `ManagedSet`
and `ManagedLoaded` C#; `Managed` says at which indices C# is used. There are
two numeric types; the other ones behave alike. What is assumed of the arrays
and the values (`TargetsAssumption`, `ValuesAssumption`) is what their C++ types
say: an argument has a type and a shape, a scalar is one item.

### CliServer

`native` and `pointer` are the native object and the field `server`, `thread`
and `disposed` the fields; `running` and `lib` are the native server's; `pc[t]`
is a thread, managed or, with `style` "blocking", the application's own in `Run`;
`op` is where the controlling thread is in its call. Reading the flag from freed
memory can give anything.

| code | actions |
|---|---|
| `RunAsync` | `RunAsync` (with `RunAsyncPrep`), `Start` |
| `RunAsyncLoop`, `run_sync_loop` | `LoopStart`, `LoopCheck`, `IterateReturn` |
| `Run` | `Run`, then `LoopCheck`, `IterateReturn` |
| `Shutdown`, by the application | `Shutdown`, `Clear`, `Stop`, `Join` or `JoinThrows` |
| `Shutdown`, by a callback | `ShutdownInside`, `StopInside`, `JoinInside` |
| `~Server`, `!Server` | `Dispose`, `Clear`, `Stop`, `Delete`, `Join` or `JoinThrows` |
| `Thread::Abort` | recorded in `aborted`, `AbortTakesEffect` |

`Failures` says what may fail: a start or a stop of the library, the start of a
thread. After the last the field holds a thread that was never started
("unstarted"), which cannot be joined. A callback that calls `Shutdown` runs the
whole of it on the thread it is to end: it clears the flag, stops the library,
waits a second for its own thread, aborts it and clears the field, perhaps, for
the abort may be thrown before. The abort ends the thread, or a handler below the
callback takes it for an exception of the callback and the loop goes on to its
check of the flag. `Join` gives up only on a thread that is `Late`: in a callback,
or looping on because somebody has started the server again. A thread that was
given up and that the field no longer knows is `Abandoned`: it goes on until its
callback returns, and nobody waits for it. That is how the code works, and the
properties speak of all other threads and of all times without one.

### CliAdapters

`objects` says what became of the wrapper and of each adapter, `handles` which
adapters have a `GCHandle`; `bound` and `pointer` are the function pointers in
native hands, in the maps of a server or in the operation of a client; `captures`
are the adapters whose callback uses the wrapper; `held` is the application's
variable. `Collect` takes anything that is not reachable, also in the middle of an
operation, since a method that does not use `this` any more does not keep it
alive. `wild` records a call into a collected delegate, or an operation that goes
on in a deleted native object. One operation of a client is in progress at a time.

## 3. Runs

| run | instance | states | shows |
|---|---|---|---|
| `lifecycle_async` | one application thread, two runners; all failures; callbacks that call `run_sync_end` or `shutdown` | 1036 | one loop at a time, start in isolation, shutdown leaves nothing behind and returns, loops end, a running server is served, `ServerService` is implemented |
| `lifecycle_reliable` | as before without failures and callbacks | 115 | the destructor cannot end the program; after `shutdown` the library is stopped |
| `lifecycle_blocking` | a thread in `run` or stepping, a controller that shuts down; all failures; callbacks that stop | 1648 | loops end, `ServerService`, also with two stops at once |
| `binding` | eight add calls: two containers, one name in both, one variable with, without and with an empty setter, one without parent, a method; nesting 3 | 1356000 | handlers find a node's own callbacks or those of a later add call for its string, paired; serving leaves the maps alone |
| `client` | nesting 3, everything fails or throws, both ways to name a node | 55572 | flag and session agree; nothing but node ids is leaked before something throws |
| `exchange` | an application with two requests, a server whose callbacks make one request to a second server; two values | 70218 | `RemoteVariable` is implemented; every operation and every shutdown ends |
| `variant_root` | methods with three inputs, with none, with two outputs, three variables; six values of four types; C# at index 0 | 828 | read back what was set, on both sides; no overrun; what the server has received stays as it was sent |
| `variant_managed` | the same, C# at any index | violation | C# sets argument 0 whatever the index |
| `variant_empty` | the same and a method without outputs | violation | the view of no outputs writes behind the array |
| `adapters` | three adapters, two nodes, a server or a client | 7568 | native code never calls a collected delegate, only `Dispose` ends a native object |
| `cli_shutdown` | three managed threads or one in `Run`, shut down before disposed; all failures; callbacks that call `Shutdown`; joins that give up | 12708 | but for abandoned threads, none is inside the deleted server and `ServerService` is implemented; `Shutdown` returns, stopped threads end |
| `cli_dispose` | disposed while running | violation | the thread does |

Bounds. Two runners are enough because `run_async` joins before it spawns, so that
at most one runner is not at rest; a second one exists to let the model go wrong
(the proofs hold for any number). `Depth` bounds nested calls: with 3 a
callback can run inside an add call that a callback made. `MaxLogs` is 1: the
handlers only tell whether there is a log callback. Three arguments are a first,
a middle and a last index; the values are a scalar and a vector, an empty one,
strings with a zero character and empty strings, each accepted by one declared
type and refused by another. In `exchange` two requests of one thread are what it
takes for a late request or answer to meet a newer one, and a chain of two
servers for a shutdown to meet a callback that waits; `MaxRequests` is the bound
on the counter of requests, which no property needs to be larger: a third
request meets what a second one does. Three managed threads let one be abandoned while
another one runs and a third is created. No other counter grows.

Three adapters let one be replaced for a node and another one serve the other
node; they are a bound on how many are ever created.

Deadlock is checked except in the `variant` runs, where a view that is not
writable has no step. A terminated program, an escaped exception, a destroyed
client and a disposed wrapper stutter explicitly.

Fairness. `ServerLifecycle` assumes that the operating system schedules every
thread that can take a step, and that an iterate returns (it serves what has
arrived or waits for one timeout), also when callbacks keep calling operations
from inside it: hence strong fairness there. Calls are not fair: nobody has to
call anything. `CliServer` assumes the same, and that `Join` returns or gives up;
strong fairness is for its `IterateReturn` alone, which a `Shutdown` of the
callback disables for a while. In `Exchange` the
server's thread serves each connection that has something for it again and again
(strong: while a callback runs or the server is stopping it cannot), a callback
ends, the library hands an answer or the loss of a connection to whoever waits,
and a stopping thread is joined. That a time-out passes, that connections hold or
break, and that anybody makes a request is not assumed: operations end without
the time-out. The other modules only state safety.

Liveness is about `shutdown` and the destructor returning (`ShutdownReturns`; a
program that is terminated counts as ended), about loops ending after a stop
(`StoppedLoopsEnd`, which counts a loop as going on while a callback it made
is in a call of its own, a join of its own thread for instance, and
`StoppedThreadsEnd` for the managed threads), about a running server being served (`RunningIsServed`), and
in `exchange` about operations and shutdowns that involve two servers
(`OperationsEnd`, `StopsEnd`). The latter hold because servers use each other
without a circle: with one, only the client's time-out ends the wait.

Three runs refute what the repository says of itself (`findings`): the C# indexer
is lost by `Set` and `Get`; the view of a method's outputs, when there are none, is
not checked against their number (the client's view of no inputs is not either,
but has a null pointer, and `set` throws); disposing of a running server deletes it under its thread. One thing
that holds for `run_async` and not beyond: with two threads that stop a server run by
`run` or by steps, a stop that was delayed until the server runs again stops the
library under the new flag, so `RunningImpliesStarted` is a property of
`lifecycle_async` only.

## 4. Proofs

Each `*Proofs` module has an inductive invariant `IInv`, lemmas that show that
`Init` establishes it and each action preserves it, and the theorems that follow.
All hold for any values of the constants that satisfy the assumptions of the
modules: any number of threads, servers, adapters or add calls, any nesting, any
arrays, and all failures. Where a theorem has a hypothesis of its own, it is a
use of the code without which the property is false; the table says which.

| module | theorems | hypothesis |
|---|---|---|
| `ServerLifecycleProofs` | `TypeCorrect` | |
| | `AsyncOneLoop`, `AsyncStartupAlone`, `AsyncRunningImpliesStarted`, `AsyncNoUseAfterDestroy`, `AsyncShutdownQuiesces` | `AsyncUse` |
| | `AsyncNeverTerminates` | `AsyncUse`, `Reliable` |
| `ServerRefinementProofs` | `AsyncServes`: `Spec => Service!Safety` | `AsyncUse` |
| | `BlockingServes`: `Spec => Service!Safety` | `BlockingUse` |
| `ServerBindingProofs` | `TypeCorrect`, `AlwaysBoundBeforeVisible`, `AlwaysPairedCallbacks`, `AlwaysServingLeavesMaps` | |
| | `AlwaysOwnCallback` | `DistinctPlaces` |
| `ClientProofs` | `TypeCorrect`, `AlwaysFlagMatchesSession`, `AlwaysNoLeak` | |
| `ExchangeProofs` | `TypeCorrect`, `KeepsPromise`: `Spec => ImplementsRemote` | |
| `VariantProofs` | `TypeCorrect`, `AlwaysConstStays` | |
| | `AlwaysReadBack`, `AlwaysDelivered` | `RootIndexOnly` |
| | `AlwaysInBounds` | `NoEmptyAnswer` |
| `CliAdaptersProofs` | `TypeCorrect`, `NeverWild`, `OnlyDisposeEnds` | |
| `CliServerProofs` | `TypeCorrect` | |
| | `NeverStray`, `NeverUnhandled`, `CliServes`: `Spec => ImplementsService` | `OrderlyUse` |

### ServerLifecycle

`AsyncUse`: one thread owns the object and uses `run_async`, `run_sync_end`,
`shutdown` and destruction; callbacks may stop the server. With a thread in `run`
beside `run_async` the code does let two threads iterate (see the hazards).
`Reliable`: no callback stops the server, and the library can always be stopped;
otherwise a stop can be
refused in the destructor, which is `noexcept`.

`IInv` strengthens `TypeOK` by what the code relies on
without saying so. `OwnerShape` and `RunnerShape` say which operation goes with
which location. `Owned` says that a runner that is not at rest is the one
`server_runner` points to or the one about to be stored there, and that there is
none when the owner starts the library: the reason for the join at the head of
`run_async`, and the heart of `OneLoop`. `Flags` relates the flag and the
library: started while the flag is set, and while somebody is between start and
store. `Stoppable` says that when stops do not fail, a started library has the
flag set or somebody on the way to stop it. `Buried` says that nobody is inside a
destroyed object. `OwnerStep` and `RunnerStep` prove that each step preserves it,
one step per action; `People` reduces the processes to the owner and the runners.
`AsyncShutdownQuiesces` is an action property and uses `IInv` in both states.
`AsyncNeverTerminates` adds `StopAccepted`: whoever is about to stop the library
finds it started, because nobody else clears the flag in between.

`AsyncServes` rests on `IInv` in both states too. `ServingThread` is a CHOOSE; with
`OneLoop` it is the one thread that serves (`ServingIs`). A step that changes
nobody's service is a stutter or a `Close` (`QuietStep`), the step after which
nobody serves, or which ends the program, is a `Leave` (`EndOfService`),
`Publish` is the `Open`, and a runner's `LoopCheck` the `Enter`.

`BlockingServes` says the same of the other use, `BlockingUse`: the owner serves by
itself, in `run` or step by step, and any number of other threads, and callbacks,
stop it. Its invariant is only about who can be where (`DriverShape`,
`OthersShape`). It does not relate the flag and the library, which can disagree
there (section 3), and `ServerService` does not need them to: a loop reads the
flag before each iterate, and only the thread that serves sets it.

### ServerBinding

`BoundBeforeVisible` says whose callbacks a handler can find, and is not inductive:
a node appears after the library has read the new variable and while callbacks
have added other nodes, possibly under the same string. `BoundBeforeInsert` says
of every add call on the stack between its writes to the maps and the library's
answer that its callbacks are the ones under its string: nothing is ever taken
out of a map, and no other call for that string comes in between. For that the
order of the stack matters: on top of such a call stands a read of its variable
(`ReadAboveInsert`), whose getter adds other strings only, so that no two calls
for one string are waiting (`OneInsert`). `Places` says that what is found
under a string was added under that string. `PairedCallbacks` holds because both
maps are written in one go by an add call, and by nothing else; that the
`operator[]` of a handler does not write them is `AlwaysServingLeavesMaps`, which
needs `BoundBeforeVisible` for requests and `BoundBeforeInsert` for the read the
library makes of a variable that it is adding. `DistinctPlaces` says that two
add calls with one string have the same path and name. So it is when no name
contains a dot; that this follows is an induction over the segments of a path,
which the provers cannot do; the run `binding`, whose names have no dots,
checks the property as it stands.

### Client

The three invariants are proved together. `NoLeak` needs the types of the frames
on the stack: what an operation leaves behind is what its frame held and the
operation did not clear. What `FlagMatchesSession` turns on is that each
operation that ends a session also clears the flag, on every way out, with
`disconnect` called in the middle of another operation.

### Exchange

`KeepsPromise` is the whole of `RemoteVariable`: its initial state, and a step or
a stutter for each step. `IInv` is about the numbers of requests. `QueueOK`: what
is in a queue is as it was sent, in the order of its numbers, younger than what
the server is working on for the same thread, and has had no effect. `JobOK`: the
callback that runs is that of the request its client waits for, and `effect` says
what it has done, or that of one nobody waits for any more. `AnswerOK`: a good
answer to the request that is waited for reports what its callback has done; it
is why an answer that comes late cannot pass for that to a newer request.
`RequestOK` ties `effect` and the number to the request.

The refinement is proved an action at a time. `Ask` is `InvokeAny`. `Receive`
of a good answer is `Succeed`, every other return is `Fail`, and leaves an overdue
write behind if the request is still on its way (`ReturnOverdue`). `CallbackRuns`
is `Happen` if the request is waited for: by the order of the queue, nothing older
of that thread is overdue then. It is `HappenLate` for a write nobody waits for, and
a stutter for such a read. When connections end, servers stop or callbacks throw,
overdue writes are forgotten (`LossShrinks`); everything else is a stutter.
Nothing is assumed about who uses whom: circles, which make operations depend on
the time-out, do not touch the promise.

### Variant

`Matching` says that each element holds what was last set at its index, `Sent`
that the view of what was sent is not writable unless it is an answer. The two
findings are the hypotheses: `RootIndexOnly` (C# uses no index but zero, because
`Set` and `Get` lose it) and `NoEmptyAnswer` (no method without outputs, whose
view would not be checked; `EmptyIsConst` says that no other empty array can be
written). `AlwaysConstStays` follows from `Sent`: the choice of a const or a
mutable view when the handler makes it. So the theorems say that there is no third way to
lose a value or to leave an array. `LoadsStored` is the lemma about the
conversions: what `get` reads is what `set` has stored, for a scalar and for a
vector.

### CliAdapters

What makes `NoWildCall` true is less than one would think: `Rooted` (a handle is
never freed, and the log adapter, whose callback uses the wrapper, has one from
the constructor on) and `Pinned` (native code holds pointers to adapters with a
handle only). It follows that the collector never takes the wrapper, which is
`OnlyDisposeEnds`. The leak listed among the hazards is the price.

### CliServer

`OrderlyUse`: a server is shut down before it is disposed of. Without it
`NoStrayThread` fails (run `cli_dispose`). Callbacks may take any time, call
`Shutdown` themselves, and everything may fail. `Owned` says that a managed thread
that has not ended is the one in the field `thread` or one that `Abort` was called
for, and that a thread that has not looked at the pointer yet is always the
former; `Quiet` that the field knows of no live thread once disposal has begun.
So what is inside a deleted server was given up (`NeverStray`), and no thread
finds the server gone when it starts (`NeverUnhandled`). The refinement goes as
that of `ServerLifecycle`: where no thread is abandoned, `Owned` leaves one thread
that can serve, and `Start` needs none to be left. Steps taken while a thread is
abandoned are not claimed to be those of a service: then two threads can serve
at once.

### What only TLC checks

* liveness: `ShutdownReturns`, `StoppedLoopsEnd`, `StoppedThreadsEnd`, `RunningIsServed`,
  `OperationsEnd`, `StopsEnd`, and the fairness of `ServerService`: TLAPS has no
  proof rule for ENABLED here;
* that strings are distinct when no name contains a dot (induction over
  sequences);
* `ServerService` and `RemoteVariable` themselves: they are what is promised.

## 5. What is not modelled

* `ua::client::sync`, which returns at once when the client is connected and
  otherwise iterates an unconnected one: it changes nothing the modules keep;
* the client's log handler, which is the server's over another vector, and the log
  event of `UA::Server` (its adapter is in `CliAdapters`); `Connect`,
  `Disconnect` and `Sync` of `UA::Client`, which forward to `ua::client` and
  translate its exceptions;
* the UTF-8 conversion of wide strings (taken as exact), names and descriptions of
  arguments and nodes; `Convert.h` of the C# side, which does for C# types what
  `convert.h` does; `Log.h`; `exception.h`; the pool of `strings.h`, whose C
  strings live as long as their owner;
* method calls in `Exchange`: a call is a request like a read with two arrays of
  arguments, which `Variant` and `Client` have;
* data races on the maps and on `server_runner` by application threads, which
  the interface does not exclude: listed as hazards;
* a `Dispose` of `UA::Server` by a callback, which deletes the native server under
  the loop that made the callback; a `Shutdown` of the application beside one of
  a callback is modelled, but each join block reads `thread` once (in the code a
  field cleared by the other one between the check and the join is a null
  reference, which `Shutdown` would throw);
* what a log callback throws: it gets out of the handlers wherever it is called,
  after which `ServerBinding` stops;
* destruction order of members and the memory behind the string pool;
* the calculators and tests, which are users of the code; open62541, which is
  not part of the repository and appears only as what the code sees of it.

## 6. Plan

1. Done: lifecycle, its abstract specification and its first theorems; dispatch;
   client; variants, arguments and types; `UA::Server` and its refinement of
   `ServerService`; callback adapters; clients and servers together
   (`Exchange`) with its abstract specification.
2. Done: the theorems of section 4.
3. Names with dots in `ServerBinding` as a run of its own; the calculators' main
   loops (a signal or a key ends the program).
