---------------------------- MODULE ExchangeProofs ----------------------------
(* Proofs about Exchange, for any threads, servers and uses of each other: get  *)
(* and set keep their promise, RemoteVariable, whatever connections break,     *)
(* time-outs pass, callbacks throw and servers are stopped.                    *)
EXTENDS Exchange, SequenceTheorems, TLAPS

-------------------------------------------------------------------------------
(* The inductive invariant. *)

(* A request on the way goes from its sender to its server, unchanged; it has   *)
(* had no effect; and it is older than what was sent after it, and younger     *)
(* than the one being served.                                                  *)
QueueItem(p, s, r) ==
  /\ r.from = p /\ r.at = s /\ r.id <= count[p]
  /\ r.kind = "set" => r.value \in Values
  /\ Waited(p, r.id) => r = request[p] /\ effect[p] = None
  /\ job[s] # None /\ job[s].from = p => job[s].id < r.id
QueueOK ==
  \A p \in Users : \A s \in Servers :
    LET q == queue[p][s] IN
    /\ \A i \in DOMAIN q : QueueItem(p, s, q[i])
    /\ \A i, j \in DOMAIN q : i < j => q[i].id < q[j].id

(* The callback runs for the request its client waits for, or for one nobody    *)
(* waits for; in the first case the effect is what the callback has done.      *)
JobMatches(j, s, r, e) ==
  /\ r.at = s /\ r.kind = j.kind
  /\ ~j.ran => e = None /\ j.value = r.value
  /\ j.ran => e = <<j.value>>
  /\ j.ran /\ j.kind = "set" => j.value = r.value
JobOK ==
  \A s \in Servers : job[s] # None =>
    LET j == job[s] IN
    /\ j.id <= count[j.from]
    /\ j.kind = "set" \/ j.ran => j.value \in Values
    /\ Waited(j.from, j.id) => JobMatches(j, s, request[j.from], effect[j.from])

(* A good answer to the request that is waited for reports its effect. *)
AnswerOK ==
  \A a \in answers :
    /\ a.id <= count[a.to]
    /\ a.good => a.value \in Values
    /\ a.good /\ Waited(a.to, a.id) =>
         effect[a.to] =
           <<IF request[a.to].kind = "set" THEN request[a.to].value ELSE a.value>>

RequestOK ==
  \A p \in Users :
    /\ request[p] = None => effect[p] = None
    /\ request[p] # None =>
         /\ request[p].from = p /\ request[p].id = count[p]
         /\ request[p].kind = "set" =>
              /\ request[p].value \in Values
              /\ effect[p] # None => effect[p] = <<request[p].value>>

IInv == TypeOK /\ QueueOK /\ JobOK /\ AnswerOK /\ RequestOK

-------------------------------------------------------------------------------
(* Sequences: what is left of a queue that is cut, or whose head is taken. *)
Part(part, whole) ==
  \E k \in Nat : \A i \in DOMAIN part : i + k \in DOMAIN whole /\ part[i] = whole[i + k]

LEMMA WholePart == ASSUME NEW S, NEW q \in Seq(S) PROVE Part(q, q)
<1>1. DOMAIN q = 1..Len(q) /\ Len(q) \in Nat  BY LenProperties
<1>2. \A i \in DOMAIN q : i + 0 \in DOMAIN q /\ q[i] = q[i + 0]  BY <1>1
<1> QED  BY <1>2 DEF Part

LEMMA EmptyPart ==
  ASSUME NEW S, NEW q \in Seq(S) PROVE <<>> \in Seq(S) /\ Part(<<>>, q)
<1>1. <<>> \in Seq(S) /\ DOMAIN <<>> = {}  BY EmptySeq
<1>2. \A i \in DOMAIN <<>> : i + 0 \in DOMAIN q /\ (<<>>)[i] = q[i + 0]  BY <1>1
<1> QED  BY <1>1, <1>2 DEF Part

LEMMA PrefixPart ==
  ASSUME NEW S, NEW q \in Seq(S), NEW n \in 0..Len(q)
  PROVE  SubSeq(q, 1, n) \in Seq(S) /\ Part(SubSeq(q, 1, n), q)
<1>1. DOMAIN q = 1..Len(q) /\ Len(q) \in Nat /\ n \in Nat /\ n <= Len(q)  BY LenProperties
<1>2. \A i \in 1..n : q[i] \in S  BY <1>1, ElementOfSeq
<1>3. /\ SubSeq(q, 1, n) \in Seq(S) /\ Len(SubSeq(q, 1, n)) = n
      /\ \A i \in 1..n : SubSeq(q, 1, n)[i] = q[i]
  BY <1>1, <1>2, SubSeqProperties
<1>4. DOMAIN SubSeq(q, 1, n) = 1..n  BY <1>3, LenProperties
<1>5. \A i \in DOMAIN SubSeq(q, 1, n) :
        i + 0 \in DOMAIN q /\ SubSeq(q, 1, n)[i] = q[i + 0]
  BY <1>1, <1>3, <1>4
<1> QED  BY <1>3, <1>5 DEF Part

LEMMA TailPart ==
  ASSUME NEW S, NEW q \in Seq(S), q # <<>>
  PROVE  /\ Tail(q) \in Seq(S) /\ Head(q) = q[1] /\ 1 \in DOMAIN q /\ q[1] \in S
         /\ \A i \in DOMAIN Tail(q) : i \in Nat \ {0} /\ i + 1 \in DOMAIN q /\ Tail(q)[i] = q[i + 1]
         /\ \A i \in DOMAIN q : i # 1 => i - 1 \in DOMAIN Tail(q) /\ Tail(q)[i - 1] = q[i]
<1>1. DOMAIN q = 1..Len(q) /\ Len(q) \in Nat \ {0}  BY LenProperties, EmptySeq
<1>2. /\ Tail(q) \in Seq(S) /\ Len(Tail(q)) = Len(q) - 1 /\ Head(q) = q[1]
      /\ \A i \in 1..Len(q) - 1 : Tail(q)[i] = q[i + 1]
  BY <1>1, HeadTailProperties
<1>3. DOMAIN Tail(q) = 1..(Len(q) - 1)  BY <1>2, LenProperties
<1>4. q[1] \in S  BY <1>1, ElementOfSeq
<1>5. \A i \in 1..Len(q) : i # 1 => i - 1 \in 1..(Len(q) - 1) /\ (i - 1) + 1 = i  BY <1>1
<1> QED  BY <1>1, <1>2, <1>3, <1>4, <1>5

LEMMA AppendPart ==
  ASSUME NEW S, NEW q \in Seq(S), NEW r \in S
  PROVE  /\ Append(q, r) \in Seq(S) /\ Len(q) \in Nat /\ DOMAIN q = 1..Len(q)
         /\ DOMAIN Append(q, r) = 1..(Len(q) + 1)
         /\ \A i \in DOMAIN q : Append(q, r)[i] = q[i]
         /\ Append(q, r)[Len(q) + 1] = r
<1>1. DOMAIN q = 1..Len(q) /\ Len(q) \in Nat  BY LenProperties
<1>2. /\ Append(q, r) \in Seq(S) /\ Len(Append(q, r)) = Len(q) + 1
      /\ \A i \in 1..Len(q) : Append(q, r)[i] = q[i]
      /\ Append(q, r)[Len(q) + 1] = r
  BY AppendProperties
<1>3. DOMAIN Append(q, r) = 1..(Len(q) + 1)  BY <1>2, LenProperties
<1> QED  BY <1>1, <1>2, <1>3

-------------------------------------------------------------------------------
LEMMA Constants ==
  /\ None \notin Requests /\ None \notin Jobs /\ None \notin Calls /\ None \notin Values
  /\ \A x \in Values : None # <<x>>
  /\ Ids \subseteq Nat /\ Servers \subseteq Users
  /\ \A p \in Users, n \in Nat : n < MaxRequests[p] => n + 1 \in Ids
<1>1. \A p \in Users : MaxRequests[p] \in Nat  BY BoundAssumption
<1>2. \A p \in Users, n \in Nat : n < MaxRequests[p] => n + 1 \in 1..MaxRequests[p]
  BY <1>1
<1> QED  BY <1>1, <1>2, NoneAssumption, ValuesAssumption DEF Ids, Users

(* The queues after a connection has ended. *)
LEMMA CutKeeps ==
  ASSUME TypeOK, NEW p \in Users, NEW s \in Servers, Cut(p, s)
  PROVE  /\ queue' \in [Users -> [Servers -> Seq(Requests)]]
         /\ \A u \in Users, w \in Servers : Part(queue'[u][w], queue[u][w])
         /\ \A u \in Users, w \in Servers : w # s => queue'[u][w] = queue[u][w]
<1>1. PICK n \in 0..Len(queue[p][s]) : queue' = [queue EXCEPT ![p][s] = SubSeq(@, 1, n)]
  BY DEF Cut
<1>2. \A u \in Users, w \in Servers : queue[u][w] \in Seq(Requests)  BY DEF TypeOK
<1>3. /\ SubSeq(queue[p][s], 1, n) \in Seq(Requests)
      /\ Part(SubSeq(queue[p][s], 1, n), queue[p][s])
  BY <1>2, PrefixPart
<1>4. \A u \in Users, w \in Servers :
        queue'[u][w] = IF u = p /\ w = s THEN SubSeq(queue[p][s], 1, n) ELSE queue[u][w]
  BY <1>1 DEF TypeOK
<1>5. queue' \in [Users -> [Servers -> Seq(Requests)]]  BY <1>1, <1>3 DEF TypeOK
<1>6. \A u \in Users, w \in Servers : Part(queue'[u][w], queue[u][w])
  BY <1>2, <1>3, <1>4, WholePart
<1> QED  BY <1>4, <1>5, <1>6

LEMMA ShutdownKeeps ==
  ASSUME TypeOK, NEW s \in Servers, Shutdown(s)
  PROVE  /\ queue' \in [Users -> [Servers -> Seq(Requests)]]
         /\ \A u \in Users, w \in Servers : Part(queue'[u][w], queue[u][w])
         /\ \A u \in Users, w \in Servers : w # s => queue'[u][w] = queue[u][w]
<1>1. queue' = [p \in Users |-> [queue[p] EXCEPT ![s] = <<>>]]  BY DEF Shutdown
<1>2. \A u \in Users, w \in Servers : queue[u][w] \in Seq(Requests)  BY DEF TypeOK
<1>3. \A u \in Users, w \in Servers : queue'[u][w] = IF w = s THEN <<>> ELSE queue[u][w]
  BY <1>1 DEF TypeOK
<1>4. <<>> \in Seq(Requests)  BY EmptySeq
<1>5. queue' \in [Users -> [Servers -> Seq(Requests)]]  BY <1>1, <1>4 DEF TypeOK
<1>6. \A u \in Users, w \in Servers : Part(queue'[u][w], queue[u][w])
  BY <1>2, <1>3, WholePart, EmptyPart
<1> QED  BY <1>3, <1>5, <1>6

-------------------------------------------------------------------------------
LEMMA InitIInv == Init => IInv
<1> SUFFICES ASSUME Init PROVE IInv  OBVIOUS
<1> USE Constants DEF Init
<1>1. <<>> \in Seq(Requests) /\ DOMAIN <<>> = {}  BY EmptySeq
<1>2. TypeOK
  <2>1. \A p \in Users : 0 <= MaxRequests[p]  BY BoundAssumption
  <2> QED  BY <1>1, <2>1, ValuesAssumption DEF TypeOK
<1>3. QueueOK  BY <1>1 DEF QueueOK
<1>4. JobOK /\ AnswerOK /\ RequestOK  BY DEF JobOK, AnswerOK, RequestOK
<1> QED  BY <1>2, <1>3, <1>4 DEF IInv

LEMMA ReturnType ==
  ASSUME TypeOK, NEW p \in Users, NEW x \in Values \cup {None}, Return(p, x),
         answers' \subseteq answers
  PROVE  TypeOK'
<1>1. request' \in [Users -> Requests \cup {None}]  BY DEF Return, TypeOK
<1>2. outcome' \in [Users -> Values \cup {None}]  BY DEF Return, TypeOK
<1>3. effect' \in [Users -> {None} \cup {<<y>> : y \in Values}]  BY DEF Return, TypeOK
<1> QED  BY <1>1, <1>2, <1>3 DEF Return, TypeOK

LEMMA AskType ==
  ASSUME TypeOK, NEW p \in Users, NEW s \in Servers, NEW kind \in {"get", "set"},
         NEW x \in Values \cup {None}, Ask(p, s, kind, x)
  PROVE  TypeOK'
<1> DEFINE r == [from |-> p, at |-> s, id |-> count[p] + 1, kind |-> kind, value |-> x]
<1>1. count[p] \in Nat /\ count[p] < MaxRequests[p] /\ MaxRequests[p] \in Nat
  BY BoundAssumption DEF Ask, TypeOK
<1>2. r \in Requests  BY <1>1, Constants DEF Requests
<1>3. request' = [request EXCEPT ![p] = r]  BY DEF Ask
<1>4. request' \in [Users -> Requests \cup {None}]  BY <1>2, <1>3 DEF TypeOK
<1>5. queue' \in [Users -> [Servers -> Seq(Requests)]]
  <2>1. queue[p][s] \in Seq(Requests)  BY DEF TypeOK
  <2>2. Append(queue[p][s], r) \in Seq(Requests)  BY <1>2, <2>1, AppendPart
  <2>3. queue \in [Users -> [Servers -> Seq(Requests)]]  BY DEF TypeOK
  <2>4. \/ queue' = [queue EXCEPT ![p][s] = Append(queue[p][s], r)]
        \/ queue' = queue
    BY DEF Ask
  <2> DEFINE longer == Append(queue[p][s], r)
  <2> HIDE DEF longer
  <2>5. CASE queue' = [queue EXCEPT ![p][s] = longer]
    <3>1. longer \in Seq(Requests)  BY <2>2 DEF longer
    <3>2. [queue[p] EXCEPT ![s] = longer] \in [Servers -> Seq(Requests)]  BY <2>3, <3>1
    <3> QED  BY <2>3, <2>5, <3>2
  <2> QED  BY <2>3, <2>4, <2>5 DEF longer
<1>6. count' \in [Users -> Nat] /\ \A u \in Users : count'[u] <= MaxRequests[u]
  <2>1. count' = [count EXCEPT ![p] = @ + 1]  BY DEF Ask
  <2>2. count[p] + 1 \in Nat /\ count[p] + 1 <= MaxRequests[p]  BY <1>1
  <2> QED  BY <2>1, <2>2 DEF TypeOK
<1>7. outcome' \in [Users -> Values \cup {None}]  BY DEF Ask, TypeOK
<1> QED  BY <1>4, <1>5, <1>6, <1>7 DEF Ask, TypeOK

LEMMA ServeType ==
  ASSUME TypeOK, NEW s \in Servers, NEW p \in Users, Serve(s, p)
  PROVE  TypeOK'
<1> DEFINE r == Head(queue[p][s])
<1>1. queue[p][s] \in Seq(Requests) /\ queue[p][s] # <<>>  BY DEF TypeOK, Serve
<1>2. Tail(queue[p][s]) \in Seq(Requests) /\ r \in Requests  BY <1>1, TailPart
<1>3. job' = [job EXCEPT ![s] = [from |-> r.from, id |-> r.id, kind |-> r.kind,
                                 value |-> r.value, ran |-> FALSE]]
  BY DEF Serve
<1>4. job' \in [Servers -> Jobs \cup {None}]  BY <1>2, <1>3 DEF TypeOK, Requests, Jobs
<1>5. queue' \in [Users -> [Servers -> Seq(Requests)]]  BY <1>2 DEF TypeOK, Serve
<1> QED  BY <1>4, <1>5 DEF TypeOK, Serve, asking

(* What a callback stores or fills in is a value. *)
LEMMA RunType ==
  ASSUME TypeOK, JobOK, NEW s \in Servers, CallbackRuns(s)
  PROVE  TypeOK'
<1> DEFINE x == IF job[s].kind = "set" THEN job[s].value ELSE value[s]
<1>1. job[s] \in Jobs  BY DEF CallbackRuns, TypeOK
<1>2. x \in Values  BY DEF CallbackRuns, JobOK, TypeOK
<1>3. value' \in [Servers -> Values]  BY <1>2 DEF CallbackRuns, TypeOK
<1>4. job' = [job EXCEPT ![s].ran = TRUE, ![s].value = x]  BY DEF CallbackRuns
<1>5. job' \in [Servers -> Jobs \cup {None}]  BY <1>1, <1>2, <1>4 DEF TypeOK, Jobs
<1>6. effect' = [effect EXCEPT ![job[s].from] = <<x>>] \/ effect' = effect
  BY DEF CallbackRuns
<1>7. effect' \in [Users -> {None} \cup {<<y>> : y \in Values}]
  <2>1. <<x>> \in {<<y>> : y \in Values}  BY <1>2
  <2>2. effect \in [Users -> {None} \cup {<<y>> : y \in Values}]  BY DEF TypeOK
  <2> HIDE DEF x
  <2> QED  BY <1>6, <2>1, <2>2
<1> QED  BY <1>3, <1>5, <1>7 DEF CallbackRuns, TypeOK, link, asking

LEMMA AnswerType ==
  ASSUME TypeOK, NEW s \in Servers, NEW good \in BOOLEAN, job[s] # None, Answer(s, good)
  PROVE  TypeOK'
<1> DEFINE a == [to |-> job[s].from, at |-> s, id |-> job[s].id, good |-> good,
                 value |-> IF good THEN job[s].value ELSE None]
<1>1. job[s] \in Jobs  BY DEF TypeOK
<1>2. a \in Answers  BY <1>1 DEF Answers, Jobs
<1>3. answers' \subseteq answers \cup {a}  BY DEF Answer
<1>4. job' \in [Servers -> Jobs \cup {None}]  BY DEF Answer, TypeOK
<1> QED  BY <1>2, <1>3, <1>4 DEF Answer, TypeOK, asking

LEMMA TypeStep == ASSUME TypeOK, JobOK, RequestOK, [Next]_vars PROVE TypeOK'
<1>1. CASE UNCHANGED vars  BY <1>1 DEF vars, TypeOK
<1>2. CASE Discard  BY <1>2 DEF Discard, TypeOK, asking
<1>3. ASSUME NEW p \in Users, Receive(p) \/ ConnectionLost(p) \/ TimedOut(p) PROVE TypeOK'
  <2>1. CASE Receive(p)
    <3>1. PICK a \in answers :
            /\ IsFor(a, p) /\ answers' = answers \ {a}
            /\ Return(p, IF ~a.good THEN None
                         ELSE IF request[p].kind = "set" THEN request[p].value ELSE a.value)
      BY <2>1 DEF Receive
    <3>2. a.value \in Values \cup {None}  BY DEF TypeOK, Answers
    <3>3. request[p].kind = "set" => request[p].value \in Values
      BY <3>1 DEF RequestOK, IsFor
    <3> QED  BY <3>1, <3>2, <3>3, ReturnType
  <2>2. CASE ConnectionLost(p) \/ TimedOut(p)
    BY <2>2, ReturnType DEF ConnectionLost, TimedOut
  <2> QED  BY <1>3, <2>1, <2>2
<1>4. ASSUME NEW p \in Users, NEW s \in Servers,
             \/ Connect(p, s) \/ Disconnect(p, s) \/ Lose(p, s) \/ Recover(p, s)
             \/ Get(p, s) \/ Set(p, s) \/ Serve(s, p)
      PROVE  TypeOK'
  <2>1. CASE Connect(p, s)  BY <2>1 DEF Connect, TypeOK, asking
  <2>7. CASE Recover(p, s)  BY <2>7 DEF Recover, TypeOK, link, asking
  <2>2. CASE Disconnect(p, s)
    <3>1. Cut(p, s)  BY <2>2 DEF Disconnect
    <3> QED  BY <2>2, <3>1, CutKeeps DEF Disconnect, Cut, TypeOK, asking
  <2>3. CASE Lose(p, s)
    <3>1. Cut(p, s)  BY <2>3 DEF Lose
    <3> QED  BY <2>3, <3>1, CutKeeps DEF Lose, Cut, TypeOK, asking
  <2>4. CASE Get(p, s)  BY <2>4, AskType DEF Get
  <2>5. CASE Set(p, s)  BY <2>5, AskType DEF Set
  <2>6. CASE Serve(s, p)  BY <2>6, ServeType
  <2> QED  BY <1>4, <2>1, <2>2, <2>3, <2>4, <2>5, <2>6, <2>7
<1>5. ASSUME NEW s \in Servers,
             \/ CallbackRuns(s) \/ CallbackReturns(s) \/ CallbackThrows(s)
             \/ Start(s) \/ Shutdown(s) \/ Joined(s)
      PROVE  TypeOK'
  <2>1. CASE CallbackRuns(s)  BY <2>1, RunType
  <2>2. CASE CallbackReturns(s)  BY <2>2, AnswerType DEF CallbackReturns
  <2>3. CASE CallbackThrows(s)  BY <2>3, AnswerType DEF CallbackThrows
  <2>4. CASE Start(s)  BY <2>4 DEF Start, TypeOK, link, asking
  <2>5. CASE Shutdown(s)  BY <2>5, ShutdownKeeps DEF Shutdown, TypeOK, asking
  <2>6. CASE Joined(s)  BY <2>6 DEF Joined, TypeOK, link, asking
  <2> QED  BY <1>5, <2>1, <2>2, <2>3, <2>4, <2>5, <2>6
<1> QED  BY <1>1, <1>2, <1>3, <1>4, <1>5 DEF Next

-------------------------------------------------------------------------------
(* The other parts of the invariant, kind of step by kind of step. *)
LEMMA QueueNat ==
  ASSUME TypeOK, NEW p \in Users, NEW s \in Servers
  PROVE  /\ queue[p][s] \in Seq(Requests)
         /\ DOMAIN queue[p][s] = 1..Len(queue[p][s]) /\ Len(queue[p][s]) \in Nat
         /\ \A i \in DOMAIN queue[p][s] : i \in Nat /\ queue[p][s][i] \in Requests
                                          /\ queue[p][s][i].id \in Nat
<1>1. queue[p][s] \in Seq(Requests)  BY DEF TypeOK
<1>2. DOMAIN queue[p][s] = 1..Len(queue[p][s]) /\ Len(queue[p][s]) \in Nat
  BY <1>1, LenProperties
<1>3. \A i \in DOMAIN queue[p][s] : queue[p][s][i] \in Requests
  BY <1>1, <1>2, ElementOfSeq
<1>4. \A r \in Requests : r.id \in Nat  BY Constants DEF Requests
<1> QED  BY <1>1, <1>2, <1>3, <1>4

(* Requests on the way and answers get lost, callbacks end: nothing else that    *)
(* the invariant speaks of changes.                                            *)
LEMMA LossKeeps ==
  ASSUME IInv, TypeOK', UNCHANGED <<job, request, count, effect>>,
         \A u \in Users, w \in Servers : Part(queue'[u][w], queue[u][w]),
         answers' \subseteq answers
  PROVE  IInv'
<1>1. QueueOK'
  <2> SUFFICES ASSUME NEW p \in Users, NEW s \in Servers
               PROVE  /\ \A i \in DOMAIN queue'[p][s] : QueueItem(p, s, queue[p][s][i])'
                      /\ \A i, j \in DOMAIN queue'[p][s] :
                           i < j => queue'[p][s][i].id < queue'[p][s][j].id
    BY DEF QueueOK
  <2>1. PICK k \in Nat : \A i \in DOMAIN queue'[p][s] :
          i + k \in DOMAIN queue[p][s] /\ queue'[p][s][i] = queue[p][s][i + k]
    BY DEF Part
  <2>2. \A i \in DOMAIN queue'[p][s] : i \in Nat
    <3>1. queue'[p][s] \in Seq(Requests)  BY DEF TypeOK
    <3> QED  BY <3>1, LenProperties
  <2>3. \A i \in DOMAIN queue'[p][s] : QueueItem(p, s, queue[p][s][i])'
    BY <2>1 DEF IInv, QueueOK, QueueItem, Waited
  <2>4. ASSUME NEW i \in DOMAIN queue'[p][s], NEW j \in DOMAIN queue'[p][s], i < j
        PROVE  queue'[p][s][i].id < queue'[p][s][j].id
    <3>1. i + k < j + k  BY <2>2, <2>4
    <3> QED  BY <2>1, <3>1 DEF IInv, QueueOK
  <2> QED  BY <2>3, <2>4
<1>2. JobOK'  BY DEF IInv, JobOK, Waited, JobMatches
<1>3. AnswerOK'  BY DEF IInv, AnswerOK, Waited
<1>4. RequestOK'  BY DEF IInv, RequestOK
<1> QED  BY <1>1, <1>2, <1>3, <1>4 DEF IInv

(* An operation ends: nobody waits for its request any more. *)
LEMMA ReturnKeeps ==
  ASSUME IInv, TypeOK', NEW p \in Users, NEW x, Return(p, x), answers' \subseteq answers
  PROVE  IInv'
<1> USE DEF IInv, Return
<1>1. /\ request'[p] = None /\ effect'[p] = None
      /\ \A u \in Users : u # p => request'[u] = request[u] /\ effect'[u] = effect[u]
  BY DEF TypeOK
<1>2. \A u \in Users : \A id : Waited(u, id)' => u # p /\ Waited(u, id)
  BY <1>1 DEF Waited
<1>3. QueueOK'
  <2>1. ASSUME NEW u \in Users, NEW s \in Servers, NEW r, QueueItem(u, s, r)
        PROVE  QueueItem(u, s, r)'
    BY <1>1, <1>2, <2>1 DEF QueueItem
  <2> QED  BY <2>1 DEF QueueOK
<1>4. JobOK'
  <2>1. \A s \in Servers : job[s] # None => job[s].from \in Users  BY DEF TypeOK, Jobs
  <2> QED  BY <1>1, <1>2, <2>1 DEF JobOK, JobMatches
<1>5. AnswerOK'
  <2>1. \A a \in answers : a.to \in Users  BY DEF TypeOK, Answers
  <2> QED  BY <1>1, <1>2, <2>1 DEF AnswerOK
<1>6. RequestOK'  BY <1>1 DEF RequestOK
<1> QED  BY <1>3, <1>4, <1>5, <1>6

(* The queues after a request has been made. *)
LEMMA AskQueue ==
  ASSUME TypeOK, NEW p \in Users, NEW s \in Servers, NEW kind, NEW x,
         Ask(p, s, kind, x), request'[p] \in Requests, NEW u \in Users, NEW w \in Servers
  PROVE  /\ \A i \in DOMAIN queue'[u][w] :
              \/ i \in DOMAIN queue[u][w] /\ queue'[u][w][i] = queue[u][w][i]
              \/ /\ u = p /\ w = s /\ i = Len(queue[p][s]) + 1
                 /\ queue'[u][w][i] = request'[p]
         /\ \A i \in DOMAIN queue[u][w] :
              i \in DOMAIN queue'[u][w] /\ queue'[u][w][i] = queue[u][w][i]
<1> DEFINE r == request'[p]
<1>1. queue' = queue \/ queue' = [queue EXCEPT ![p][s] = Append(queue[p][s], r)]
  BY DEF Ask, TypeOK
<1>2. queue[p][s] \in Seq(Requests)  BY DEF TypeOK
<1>3. CASE queue' = queue  BY <1>3
<1>4. CASE queue' = [queue EXCEPT ![p][s] = Append(queue[p][s], r)]
  <2>1. CASE u = p /\ w = s
    <3>1. queue'[u][w] = Append(queue[p][s], r)  BY <1>4, <2>1 DEF TypeOK
    <3>2. /\ DOMAIN queue[p][s] = 1..Len(queue[p][s]) /\ Len(queue[p][s]) \in Nat
          /\ DOMAIN Append(queue[p][s], r) = 1..(Len(queue[p][s]) + 1)
          /\ \A i \in DOMAIN queue[p][s] : Append(queue[p][s], r)[i] = queue[p][s][i]
          /\ Append(queue[p][s], r)[Len(queue[p][s]) + 1] = r
      BY <1>2, AppendPart
    <3> HIDE DEF r
    <3>3. \A i \in 1..(Len(queue[p][s]) + 1) :
            i \in 1..Len(queue[p][s]) \/ i = Len(queue[p][s]) + 1
      BY <3>2
    <3>4. \A i \in 1..Len(queue[p][s]) : i \in 1..(Len(queue[p][s]) + 1)  BY <3>2
    <3> QED  BY <2>1, <3>1, <3>2, <3>3, <3>4 DEF r
  <2>2. CASE ~(u = p /\ w = s)
    <3>1. queue'[u][w] = queue[u][w]  BY <1>4, <2>2 DEF TypeOK
    <3> QED  BY <3>1
  <2> QED  BY <2>1, <2>2
<1> QED  BY <1>1, <1>3, <1>4

(* A new request has a number that nothing on the way has. *)
LEMMA AskKeeps ==
  ASSUME IInv, TypeOK', NEW p \in Users, NEW s \in Servers, NEW kind \in {"get", "set"},
         NEW x \in Values \cup {None}, kind = "set" => x \in Values, Ask(p, s, kind, x)
  PROVE  IInv'
<1> DEFINE r == [from |-> p, at |-> s, id |-> count[p] + 1, kind |-> kind, value |-> x]
<1> USE DEF IInv
<1>1. /\ request'[p] = r /\ request[p] = None /\ effect[p] = None /\ effect' = effect
      /\ job' = job /\ answers' = answers
      /\ \A u \in Users : u # p => request'[u] = request[u] /\ count'[u] = count[u]
      /\ count'[p] = count[p] + 1 /\ count[p] \in Nat
  BY DEF Ask, Free, TypeOK, RequestOK
<1>2. r # None /\ r.id = count[p] + 1
  <2>1. count[p] + 1 \in Ids  BY <1>1, Constants DEF Ask
  <2>2. r \in Requests  BY <2>1, Constants DEF Requests
  <2> QED  BY <2>2, Constants
<1> HIDE DEF r
<1>3. \A u \in Users, id \in Nat : id <= count[u] /\ Waited(u, id)' => u # p /\ Waited(u, id)
  BY <1>1, <1>2 DEF Waited
<1>4. ASSUME NEW u \in Users, NEW w \in Servers, NEW i \in DOMAIN queue'[u][w]
      PROVE  \/ i \in DOMAIN queue[u][w] /\ queue'[u][w][i] = queue[u][w][i]
             \/ /\ u = p /\ w = s /\ i = Len(queue[p][s]) + 1
                /\ queue'[u][w][i] = r
  <2>1. request'[p] \in Requests  BY <1>1, <1>2 DEF TypeOK
  <2> QED  BY <1>1, <2>1, AskQueue
<1>5. \A u \in Users, w \in Servers : \A i \in DOMAIN queue[u][w] :
        /\ queue[u][w][i].id \in Nat /\ i \in Nat
        /\ i < Len(queue[u][w]) + 1
  BY QueueNat
<1>6. QueueOK'
  <2>1. ASSUME NEW u \in Users, NEW w \in Servers, NEW i \in DOMAIN queue'[u][w]
        PROVE  QueueItem(u, w, queue[u][w][i])'
    <3>1. CASE i \in DOMAIN queue[u][w] /\ queue'[u][w][i] = queue[u][w][i]
      <4>1. QueueItem(u, w, queue[u][w][i]) /\ queue[u][w][i].id \in Nat
        BY <1>5, <3>1 DEF QueueOK
      <4>2. queue[u][w][i].id <= count'[u]  BY <1>1, <4>1 DEF QueueItem
      <4>3. Waited(u, queue[u][w][i].id)' => u # p /\ Waited(u, queue[u][w][i].id)
        BY <1>3, <3>1, <4>1 DEF QueueItem, Waited
      <4> QED  BY <1>1, <3>1, <4>1, <4>2, <4>3 DEF QueueItem
    <3>2. CASE u = p /\ w = s /\ queue'[u][w][i] = r
      <4>1. job[s] # None /\ job[s].from = p => job[s].id < count[p] + 1
        <5>1. job[s] # None => job[s].id \in Nat  BY Constants DEF TypeOK, Jobs
        <5> QED  BY <1>1, <5>1 DEF JobOK
      <4>2. /\ r.from = p /\ r.at = s /\ r.id = count[p] + 1
            /\ r.kind = "set" => r.value \in Values
        BY DEF r
      <4> QED  BY <1>1, <3>2, <4>1, <4>2 DEF QueueItem
    <3> QED  BY <1>4, <3>1, <3>2
  <2>2. ASSUME NEW u \in Users, NEW w \in Servers,
               NEW i \in DOMAIN queue'[u][w], NEW j \in DOMAIN queue'[u][w], i < j
        PROVE  queue'[u][w][i].id < queue'[u][w][j].id
    <3>1. i \in DOMAIN queue[u][w] /\ queue'[u][w][i] = queue[u][w][i]
      <4>1. Len(queue[p][s]) \in Nat  BY QueueNat
      <4> QED  BY <1>4, <1>5, <2>2, <4>1
    <3>2. CASE j \in DOMAIN queue[u][w] /\ queue'[u][w][j] = queue[u][w][j]
      BY <2>2, <3>1, <3>2 DEF QueueOK
    <3>3. CASE u = p /\ w = s /\ queue'[u][w][j] = r
      <4>1. queue[p][s][i].id <= count[p] /\ queue[p][s][i].id \in Nat
        BY <1>5, <3>1, <3>3 DEF QueueOK, QueueItem
      <4> QED  BY <1>1, <1>2, <3>1, <3>3, <4>1
    <3> QED  BY <1>4, <3>2, <3>3
  <2> QED  BY <2>1, <2>2 DEF QueueOK
<1>7. JobOK'
  <2> SUFFICES ASSUME NEW w \in Servers, job[w] # None
               PROVE  /\ job[w].id <= count'[job[w].from]
                      /\ job[w].kind = "set" \/ job[w].ran => job[w].value \in Values
                      /\ Waited(job[w].from, job[w].id)' =>
                           JobMatches(job[w], w, request'[job[w].from], effect[job[w].from])
    BY <1>1 DEF JobOK, Waited
  <2>1. job[w].from \in Users /\ job[w].id \in Nat  BY Constants DEF TypeOK, Jobs
  <2>2. job[w].id <= count[job[w].from]  BY DEF JobOK
  <2>3. job[w].id <= count'[job[w].from]  BY <1>1, <2>1, <2>2
  <2>4. Waited(job[w].from, job[w].id)' =>
          job[w].from # p /\ Waited(job[w].from, job[w].id)
    BY <1>1, <1>3, <2>1, <2>2 DEF Waited
  <2> QED  BY <1>1, <2>1, <2>3, <2>4 DEF JobOK
<1>8. AnswerOK'
  <2> SUFFICES ASSUME NEW a \in answers
               PROVE  /\ a.id <= count'[a.to] /\ (a.good => a.value \in Values)
                      /\ a.good /\ Waited(a.to, a.id)' =>
                           effect[a.to] = <<IF request'[a.to].kind = "set"
                                            THEN request'[a.to].value ELSE a.value>>
    BY <1>1 DEF AnswerOK, Waited
  <2>1. a.to \in Users /\ a.id \in Nat  BY Constants DEF TypeOK, Answers
  <2>2. a.id <= count[a.to]  BY DEF AnswerOK
  <2>3. a.id <= count'[a.to]  BY <1>1, <2>1, <2>2
  <2>4. Waited(a.to, a.id)' => a.to # p /\ Waited(a.to, a.id)  BY <1>3, <2>1, <2>2
  <2> QED  BY <1>1, <2>1, <2>3, <2>4 DEF AnswerOK
<1>9. RequestOK'
  <2>1. r.from = p /\ r.kind = kind /\ r.value = x  BY DEF r
  <2> QED  BY <1>1, <1>2, <2>1 DEF RequestOK
<1> QED  BY <1>6, <1>7, <1>8, <1>9

(* The oldest request of a connection goes from its queue into the job. *)
LEMMA ServeKeeps ==
  ASSUME IInv, TypeOK', NEW s \in Servers, NEW p \in Users, Serve(s, p)
  PROVE  IInv'
<1> DEFINE q == queue[p][s]
<1> DEFINE r == q[1]
<1> DEFINE j == [from |-> r.from, id |-> r.id, kind |-> r.kind, value |-> r.value, ran |-> FALSE]
<1> USE DEF IInv
<1>1. q \in Seq(Requests) /\ q # <<>>  BY QueueNat DEF Serve
<1>2. /\ Head(q) = r /\ 1 \in DOMAIN q
      /\ \A i \in DOMAIN Tail(q) : i \in Nat \ {0} /\ i + 1 \in DOMAIN q /\ Tail(q)[i] = q[i + 1]
  BY <1>1, TailPart
<1>3. job' = [job EXCEPT ![s] = j] /\ queue' = [queue EXCEPT ![p][s] = Tail(q)]
  BY <1>2 DEF Serve
<1>4. /\ QueueItem(p, s, r) /\ \A i \in DOMAIN q : 1 < i => r.id < q[i].id
  BY <1>2 DEF QueueOK
<1>5. j.from = p /\ j.id = r.id /\ j.kind = r.kind /\ j.value = r.value /\ ~j.ran
  BY <1>4 DEF QueueItem
<1>6. /\ job'[s] = j /\ \A w \in Servers : w # s => job'[w] = job[w]
      /\ queue'[p][s] = Tail(q)
      /\ \A u \in Users, w \in Servers : ~(u = p /\ w = s) => queue'[u][w] = queue[u][w]
      /\ UNCHANGED <<request, count, effect, answers>>
  BY <1>3 DEF TypeOK, Serve, asking
<1> HIDE DEF j, r, q
<1>7. QueueOK'
  <2>1. ASSUME NEW u \in Users, NEW w \in Servers, ~(u = p /\ w = s)
        PROVE  /\ \A i \in DOMAIN queue'[u][w] : QueueItem(u, w, queue[u][w][i])'
               /\ \A i, k \in DOMAIN queue'[u][w] :
                    i < k => queue'[u][w][i].id < queue'[u][w][k].id
    <3>1. queue'[u][w] = queue[u][w]  BY <1>6, <2>1
    <3>2. job'[w] # None /\ job'[w].from = u => job[w] = job'[w]
      BY <1>5, <1>6, <2>1
    <3> QED  BY <1>6, <3>1, <3>2 DEF QueueOK, QueueItem, Waited
  <2>2. ASSUME NEW e, QueueItem(p, s, e), r.id < e.id
        PROVE  QueueItem(p, s, e)'
    BY <1>5, <1>6, <2>2 DEF QueueItem, Waited
  <2>3. ASSUME NEW i \in DOMAIN Tail(q)
        PROVE  /\ Tail(q)[i] = q[i + 1] /\ i + 1 \in DOMAIN q
               /\ QueueItem(p, s, q[i + 1]) /\ r.id < q[i + 1].id
    <3>1. Tail(q)[i] = q[i + 1] /\ i + 1 \in DOMAIN q /\ 1 < i + 1  BY <1>2
    <3> QED  BY <1>4, <3>1 DEF QueueOK, q
  <2>4. \A i \in DOMAIN queue'[p][s] : QueueItem(p, s, queue[p][s][i])'
    <3> SUFFICES ASSUME NEW i \in DOMAIN Tail(q) PROVE QueueItem(p, s, queue[p][s][i])'
      BY <1>6
    <3> DEFINE e == q[i + 1]
    <3>1. QueueItem(p, s, e) /\ r.id < e.id /\ queue'[p][s][i] = e  BY <1>6, <2>3
    <3> HIDE DEF e
    <3> QED  BY <2>2, <3>1 DEF QueueItem
  <2>5. \A i, k \in DOMAIN Tail(q) : i < k => Tail(q)[i].id < Tail(q)[k].id
    <3> SUFFICES ASSUME NEW i \in DOMAIN Tail(q), NEW k \in DOMAIN Tail(q), i < k
                 PROVE  Tail(q)[i].id < Tail(q)[k].id
      OBVIOUS
    <3>1. i + 1 < k + 1  BY <1>2
    <3> QED  BY <2>3, <3>1 DEF QueueOK, q
  <2> QED  BY <1>6, <2>1, <2>4, <2>5 DEF QueueOK
<1>8. JobOK'
  <2>1. ASSUME NEW w \in Servers, w # s, job'[w] # None
        PROVE  /\ job'[w].id <= count'[job'[w].from]
               /\ job'[w].kind = "set" \/ job'[w].ran => job'[w].value \in Values
               /\ Waited(job[w].from, job[w].id)' =>
                    JobMatches(job'[w], w, request'[job'[w].from], effect'[job'[w].from])
    BY <1>6, <2>1 DEF JobOK, Waited
  <2>2. /\ j.id <= count'[p]
        /\ j.kind = "set" \/ j.ran => j.value \in Values
        /\ request'[p] # None /\ request'[p].id = j.id =>
             JobMatches(j, s, request'[p], effect'[p])
    BY <1>4, <1>5, <1>6 DEF QueueItem, Waited, JobMatches
  <2> QED  BY <1>5, <1>6, <2>1, <2>2 DEF JobOK, Waited
<1>9. AnswerOK' /\ RequestOK'  BY <1>6 DEF AnswerOK, RequestOK, Waited
<1> QED  BY <1>7, <1>8, <1>9

(* A callback runs for the request that is waited for, or for one nobody waits   *)
(* for.                                                                       *)
LEMMA RunFacts ==
  ASSUME IInv, NEW s \in Servers, CallbackRuns(s), NEW j, j = job[s], NEW p, p = j.from
  PROVE  /\ j \in Jobs /\ j # None /\ ~j.ran /\ p \in Users
         /\ j.id \in Nat /\ j.id <= count[p]
         /\ Waited(p, j.id) <=> IsCurrent(s)
         /\ IsCurrent(s) =>
              /\ JobMatches(j, s, request[p], effect[p]) /\ effect[p] = None
              /\ effect' = [effect EXCEPT ![p] = <<value'[s]>>]
         /\ ~IsCurrent(s) => effect' = effect
         /\ UNCHANGED <<queue, answers, request, count, outcome>>
         /\ value'[s] = (IF j.kind = "set" THEN j.value ELSE value[s])
         /\ value' = [value EXCEPT ![s] = value'[s]] /\ value'[s] \in Values
         /\ job'[s].from = p /\ job'[s].id = j.id /\ job'[s].kind = j.kind
         /\ job'[s].value = value'[s] /\ job'[s].ran /\ job'[s] # None
         /\ \A w \in Servers : w # s => job'[w] = job[w]
<1> USE DEF IInv
<1> DEFINE x == IF j.kind = "set" THEN j.value ELSE value[s]
<1>1. j \in Jobs /\ j # None /\ ~j.ran /\ p \in Users /\ j.id \in Nat
  BY Constants DEF CallbackRuns, TypeOK, Jobs
<1>2. x \in Values  BY <1>1 DEF JobOK, TypeOK
<1>3. /\ job' = [job EXCEPT ![s].ran = TRUE, ![s].value = x]
      /\ value' = [value EXCEPT ![s] = x]
      /\ effect' = IF IsCurrent(s) THEN [effect EXCEPT ![p] = <<x>>] ELSE effect
      /\ UNCHANGED <<queue, answers, request, count, outcome>>
  BY DEF CallbackRuns, link, asking
<1>4. /\ job'[s].from = p /\ job'[s].id = j.id /\ job'[s].kind = j.kind
      /\ job'[s].value = x /\ job'[s].ran /\ job'[s] # None
      /\ \A w \in Servers : w # s => job'[w] = job[w]
  <2>1. job' = [job EXCEPT ![s] = [job[s] EXCEPT !.ran = TRUE, !.value = x]]
    BY <1>3 DEF TypeOK
  <2>2. job'[s] = [j EXCEPT !.ran = TRUE, !.value = x]  BY <2>1 DEF TypeOK
  <2> HIDE DEF x
  <2>3. /\ job'[s].from = p /\ job'[s].id = j.id /\ job'[s].kind = j.kind
        /\ job'[s].value = x /\ job'[s].ran
    BY <1>1, <2>2 DEF Jobs
  <2>4. job'[s] \in Jobs  BY <1>1, <1>2, <2>2 DEF Jobs
  <2>5. \A w \in Servers : w # s => job'[w] = job[w]  BY <2>1 DEF TypeOK
  <2> QED  BY <2>3, <2>4, <2>5, Constants
<1>5. Waited(p, j.id) => JobMatches(j, s, request[p], effect[p])
  BY <1>1 DEF JobOK
<1>6. Waited(p, j.id) <=> IsCurrent(s)
  BY <1>5 DEF Waited, IsCurrent, JobMatches
<1>7. j.id <= count[p]  BY <1>1 DEF JobOK
<1>8. IsCurrent(s) => effect[p] = None  BY <1>1, <1>5, <1>6 DEF JobMatches
<1>9. value'[s] = x  BY <1>3 DEF TypeOK
<1>10. x = (IF j.kind = "set" THEN j.value ELSE value[s])  OBVIOUS
<1> HIDE DEF x
<1>11. IsCurrent(s) => effect' = [effect EXCEPT ![p] = <<value'[s]>>]  BY <1>3, <1>9
<1>12. value' = [value EXCEPT ![s] = value'[s]]  BY <1>3, <1>9
<1>13. ~IsCurrent(s) => effect' = effect  BY <1>3
<1> QED
  BY <1>1, <1>2, <1>3, <1>4, <1>5, <1>6, <1>7, <1>8, <1>9, <1>10, <1>11, <1>12, <1>13

(* The callback for the request that is waited for has its effect: until now    *)
(* there was none, and nothing else on the way can have another.               *)
LEMMA RunKeeps ==
  ASSUME IInv, TypeOK', NEW s \in Servers, CallbackRuns(s)
  PROVE  IInv'
<1> DEFINE j == job[s]
<1> DEFINE p == j.from
<1> DEFINE x == value'[s]
<1> USE DEF IInv
<1>1. j \in Jobs /\ j # None /\ ~j.ran /\ p \in Users /\ j.id \in Nat  BY RunFacts
<1>2. x \in Values  BY RunFacts
<1>3. UNCHANGED <<queue, answers, request, count>>  BY RunFacts
<1>4. /\ job'[s].from = p /\ job'[s].id = j.id /\ job'[s].kind = j.kind
      /\ job'[s].value = x /\ job'[s].ran /\ job'[s] # None
      /\ \A w \in Servers : w # s => job'[w] = job[w]
  BY RunFacts
<1>5. Waited(p, j.id) => JobMatches(j, s, request[p], effect[p])  BY RunFacts
<1>6. /\ \A u \in Users : u # p => effect'[u] = effect[u]
      /\ Waited(p, j.id) => effect'[p] = <<x>> /\ effect[p] = None
      /\ ~Waited(p, j.id) => effect' = effect
  BY RunFacts DEF TypeOK
<1>7. j.kind = "set" => x = j.value  BY RunFacts
<1>8. j.id <= count[p]  BY RunFacts
<1> HIDE DEF j, p, x
<1>9. QueueOK'
  <2>1. ASSUME NEW u \in Users, NEW w \in Servers, NEW r \in Requests, QueueItem(u, w, r)
        PROVE  QueueItem(u, w, r)'
    <3>1. Waited(u, r.id)' => Waited(u, r.id)  BY <1>3 DEF Waited
    <3>2. Waited(u, r.id) /\ u = p /\ Waited(p, j.id) => FALSE
      <4> SUFFICES ASSUME Waited(u, r.id), u = p, Waited(p, j.id) PROVE FALSE  OBVIOUS
      <4>1. r = request[p] /\ r.at = w  BY <2>1 DEF QueueItem
      <4>2. request[p].at = s /\ request[p].id = j.id  BY <1>5 DEF JobMatches, Waited
      <4>3. job[s].id < r.id  BY <1>1, <2>1, <4>1, <4>2 DEF QueueItem, j, p
      <4> QED  BY <1>1, <4>1, <4>2, <4>3 DEF j
    <3>3. Waited(u, r.id) => effect'[u] = effect[u]  BY <1>6, <3>2
    <3>4. job'[w] # None /\ job'[w].from = u => job[w] # None /\ job[w].from = u /\ job'[w].id = job[w].id
      BY <1>1, <1>4 DEF j, p
    <3> QED  BY <1>3, <2>1, <3>1, <3>3, <3>4 DEF QueueItem
  <2>2. \A u \in Users, w \in Servers : \A i \in DOMAIN queue[u][w] : queue[u][w][i] \in Requests
    BY QueueNat
  <2>3. queue' = queue  BY <1>3
  <2>4. \A u \in Users, w \in Servers : \A i \in DOMAIN queue[u][w] :
          QueueItem(u, w, queue[u][w][i])'
    BY <2>1, <2>2, <2>3 DEF QueueOK
  <2> QED  BY <2>3, <2>4 DEF QueueOK
<1>10. JobOK'
  <2>1. ASSUME NEW w \in Servers, w # s, job'[w] # None
        PROVE  /\ job'[w].id <= count'[job'[w].from]
               /\ job'[w].kind = "set" \/ job'[w].ran => job'[w].value \in Values
               /\ Waited(job[w].from, job[w].id)' =>
                    JobMatches(job'[w], w, request'[job'[w].from], effect'[job'[w].from])
    <3>1. job'[w] = job[w] /\ job[w] # None /\ job[w].from \in Users
      BY <1>4, <2>1 DEF TypeOK, Jobs
    <3>2. Waited(job[w].from, job[w].id)' =>
            JobMatches(job[w], w, request[job[w].from], effect[job[w].from])
      BY <1>3, <3>1 DEF JobOK, Waited
    <3>3. Waited(job[w].from, job[w].id)' => effect'[job[w].from] = effect[job[w].from]
      BY <1>5, <1>6, <2>1, <3>1, <3>2 DEF JobMatches
    <3> QED  BY <1>3, <3>1, <3>2, <3>3 DEF JobOK
  <2>2. /\ job'[s].id <= count'[p] /\ job'[s].value \in Values
        /\ Waited(p, j.id) => JobMatches(job'[s], s, request'[p], effect'[p])
    BY <1>2, <1>3, <1>4, <1>5, <1>6, <1>7, <1>8, <1>1 DEF JobMatches
  <2>3. request' = request  BY <1>3
  <2> QED  BY <1>4, <2>1, <2>2, <2>3 DEF JobOK, Waited
<1>11. AnswerOK'
  <2> SUFFICES ASSUME NEW a \in answers, a.good, Waited(a.to, a.id)
               PROVE  effect'[a.to] = effect[a.to]
    BY <1>3 DEF AnswerOK, Waited
  <2>1. a.to \in Users /\ a.value \in Values \cup {None}  BY DEF TypeOK, Answers
  <2>2. effect[a.to] = <<IF request[a.to].kind = "set" THEN request[a.to].value ELSE a.value>>
    BY DEF AnswerOK
  <2>3. IF request[a.to].kind = "set" THEN request[a.to].value \in Values
        ELSE a.value \in Values
    BY <2>1 DEF AnswerOK, RequestOK, Waited
  <2>4. effect[a.to] # None  BY <2>2, <2>3, NoneAssumption
  <2> QED  BY <1>6, <2>1, <2>4
<1>12. RequestOK'
  <2>1. Waited(p, j.id) => request[p] # None /\ request[p].kind = j.kind
                           /\ (j.kind = "set" => j.value = request[p].value)
    BY <1>1, <1>5 DEF Waited, JobMatches, j
  <2> QED  BY <1>1, <1>3, <1>6, <1>7, <2>1 DEF RequestOK, Waited
<1> QED  BY <1>9, <1>10, <1>11, <1>12

(* The callback ends: what it did is what the answer reports, if it is good. *)
LEMMA AnswerKeeps ==
  ASSUME IInv, TypeOK', NEW s \in Servers, NEW good \in BOOLEAN,
         job[s] # None, good => job[s].ran, Answer(s, good)
  PROVE  IInv'
<1> USE DEF IInv
<1> DEFINE j == job[s]
<1> DEFINE b == [to |-> j.from, at |-> s, id |-> j.id, good |-> good,
                 value |-> IF good THEN j.value ELSE None]
<1>1. j \in Jobs /\ j # None  BY DEF TypeOK
<1>2. /\ job'[s] = None /\ \A w \in Servers : w # s => job'[w] = job[w]
      /\ UNCHANGED <<queue, request, count, effect>>
  BY DEF Answer, TypeOK, asking
<1>3. answers' \subseteq answers \cup {b}  BY DEF Answer
<1>4. /\ b.to = j.from /\ b.id = j.id
      /\ b.good <=> good
      /\ b.good => b.value = j.value
  OBVIOUS
<1> HIDE DEF b
<1>5. QueueOK'
  <2>1. ASSUME NEW u \in Users, NEW w \in Servers, NEW r, QueueItem(u, w, r)
        PROVE  QueueItem(u, w, r)'
    <3>1. job'[w] # None /\ job'[w].from = u => job[w] = job'[w]  BY <1>2
    <3> QED  BY <1>2, <2>1, <3>1 DEF QueueItem, Waited
  <2> QED  BY <1>2, <2>1 DEF QueueOK
<1>6. JobOK'
  <2>1. \A w \in Servers : job'[w] # None => w # s /\ job'[w] = job[w]  BY <1>2
  <2> QED  BY <1>2, <2>1 DEF JobOK, Waited
<1>7. AnswerOK'
  <2>1. ASSUME b.good
        PROVE  /\ b.value \in Values
               /\ Waited(b.to, b.id) =>
                    effect[b.to] = <<IF request[b.to].kind = "set" THEN request[b.to].value
                                     ELSE b.value>>
    <3>1. j.ran /\ j.value \in Values  BY <1>1, <1>4, <2>1 DEF JobOK
    <3>2. Waited(j.from, j.id) => JobMatches(j, s, request[j.from], effect[j.from])
      BY <1>1 DEF JobOK
    <3>3. ASSUME Waited(j.from, j.id)
          PROVE  /\ effect[j.from] = <<j.value>>
                 /\ request[j.from].kind = "set" => j.value = request[j.from].value
      BY <3>1, <3>2, <3>3 DEF JobMatches
    <3> HIDE DEF j
    <3> QED  BY <1>4, <2>1, <3>1, <3>3
  <2>2. b.id <= count[b.to]  BY <1>1, <1>4 DEF JobOK
  <2> HIDE DEF j
  <2> QED  BY <1>2, <1>3, <2>1, <2>2 DEF AnswerOK, Waited
<1>8. RequestOK'  BY <1>2 DEF RequestOK
<1> QED  BY <1>5, <1>6, <1>7, <1>8

(* A step that leaves the queues, or only takes from them. *)
LEMMA StillKeeps ==
  ASSUME IInv, TypeOK', UNCHANGED <<job, queue, request, count, effect>>,
         answers' \subseteq answers
  PROVE  IInv'
<1>1. \A u \in Users, w \in Servers : Part(queue'[u][w], queue[u][w])
  BY WholePart, QueueNat DEF IInv
<1> QED  BY <1>1, LossKeeps

LEMMA IInvStep == IInv /\ [Next]_vars => IInv'
<1> SUFFICES ASSUME IInv, [Next]_vars PROVE IInv'  OBVIOUS
<1>1. TypeOK'  BY TypeStep DEF IInv
<1>2. CASE UNCHANGED vars  BY <1>1, <1>2, StillKeeps DEF vars
<1>3. CASE Discard  BY <1>1, <1>3, StillKeeps DEF Discard, asking
<1>4. ASSUME NEW p \in Users, Receive(p) \/ ConnectionLost(p) \/ TimedOut(p) PROVE IInv'
  <2>1. CASE Receive(p)  BY <1>1, <2>1, ReturnKeeps DEF Receive
  <2>2. CASE ConnectionLost(p) \/ TimedOut(p)
    BY <1>1, <2>2, ReturnKeeps DEF ConnectionLost, TimedOut
  <2> QED  BY <1>4, <2>1, <2>2
<1>5. ASSUME NEW p \in Users, NEW s \in Servers,
             \/ Connect(p, s) \/ Disconnect(p, s) \/ Lose(p, s) \/ Recover(p, s)
             \/ Get(p, s) \/ Set(p, s) \/ Serve(s, p)
      PROVE  IInv'
  <2>1. CASE Connect(p, s) \/ Recover(p, s)
    BY <1>1, <2>1, StillKeeps DEF Connect, Recover, asking
  <2>2. CASE Disconnect(p, s) \/ Lose(p, s)
    <3>1. Cut(p, s) /\ UNCHANGED <<job, request, count, effect>>
      BY <2>2 DEF Disconnect, Lose, asking
    <3>2. answers' \subseteq answers  BY <3>1 DEF Cut
    <3>3. \A u \in Users, w \in Servers : Part(queue'[u][w], queue[u][w])
      BY <3>1, CutKeeps DEF IInv
    <3> QED  BY <1>1, <3>1, <3>2, <3>3, LossKeeps
  <2>3. CASE Get(p, s)  BY <1>1, <2>3, AskKeeps DEF Get
  <2>4. CASE Set(p, s)  BY <1>1, <2>4, AskKeeps DEF Set
  <2>5. CASE Serve(s, p)  BY <1>1, <2>5, ServeKeeps
  <2> QED  BY <1>5, <2>1, <2>2, <2>3, <2>4, <2>5
<1>6. ASSUME NEW s \in Servers,
             \/ CallbackRuns(s) \/ CallbackReturns(s) \/ CallbackThrows(s)
             \/ Start(s) \/ Shutdown(s) \/ Joined(s)
      PROVE  IInv'
  <2>1. CASE CallbackRuns(s)  BY <1>1, <2>1, RunKeeps
  <2>2. CASE CallbackReturns(s)  BY <1>1, <2>2, AnswerKeeps DEF CallbackReturns
  <2>3. CASE CallbackThrows(s)  BY <1>1, <2>3, AnswerKeeps DEF CallbackThrows
  <2>4. CASE Start(s) \/ Joined(s)
    BY <1>1, <2>4, StillKeeps DEF Start, Joined, link, asking
  <2>5. CASE Shutdown(s)
    <3>1. \A u \in Users, w \in Servers : Part(queue'[u][w], queue[u][w])
      BY <2>5, ShutdownKeeps DEF IInv
    <3> QED  BY <1>1, <2>5, <3>1, LossKeeps DEF Shutdown, asking
  <2> QED  BY <1>6, <2>1, <2>2, <2>3, <2>4, <2>5
<1> QED  BY <1>2, <1>3, <1>4, <1>5, <1>6 DEF Next

LEMMA Inductive == Spec => []IInv
<1> QED  BY InitIInv, IInvStep, PTL DEF Spec

-------------------------------------------------------------------------------
(* The state is well formed whatever breaks or is stopped: no answer is sent     *)
(* without what the callback has made of the request, and a client waits for   *)
(* a request it has made.                                                     *)
THEOREM TypeCorrect == Spec => []TypeOK
<1>1. IInv => TypeOK  BY DEF IInv
<1> QED  BY Inductive, <1>1, PTL

-------------------------------------------------------------------------------
(* The mapping to RemoteVariable. *)
CallNow == [p \in Users |-> CallOf(p)]
OverdueNow == [p \in Users |-> [s \in Servers |-> Overdue(p, s)]]

Write(r) == [number |-> r.id, value |-> r.value]
IsOverdue(y, p, s) ==
  \/ \E i \in DOMAIN queue[p][s] : Late(p, queue[p][s][i]) /\ y = Write(queue[p][s][i])
  \/ Pending(p, s) /\ y = Write(job[s])

LEMMA OverdueMembers ==
  ASSUME NEW p, NEW s
  PROVE  /\ \A y : y \in Overdue(p, s) <=> IsOverdue(y, p, s)
         /\ \A y : (y \in Overdue(p, s))' <=> IsOverdue(y, p, s)'
<1>1. ASSUME NEW y PROVE y \in Overdue(p, s) <=> IsOverdue(y, p, s)
  BY DEF Overdue, IsOverdue, Write, Range
<1>2. ASSUME NEW y PROVE (y \in Overdue(p, s))' <=> IsOverdue(y, p, s)'
  BY DEF Overdue, IsOverdue, Write, Range
<1> QED  BY <1>1, <1>2

LEMMA CallsStay == ASSUME UNCHANGED <<request, effect>> PROVE CallNow' = CallNow
<1> QED  BY DEF CallNow, CallOf

LEMMA CallsChange ==
  ASSUME NEW p \in Users,
         \A u \in Users : u # p => request'[u] = request[u] /\ effect'[u] = effect[u]
  PROVE  CallNow' = [CallNow EXCEPT ![p] = CallOf(p)']
<1>1. \A u \in Users : u # p => CallOf(u)' = CallOf(u)  BY DEF CallOf
<1>2. CallNow' = [u \in Users |-> CallOf(u)']  BY DEF CallNow
<1>3. [CallNow EXCEPT ![p] = CallOf(p)'] = [u \in Users |-> CallOf(u)']
  BY <1>1 DEF CallNow
<1> QED  BY <1>2, <1>3

LEMMA OverdueStays ==
  ASSUME \A u \in Users, w \in Servers : Overdue(u, w)' = Overdue(u, w)
  PROVE  OverdueNow' = OverdueNow
<1> QED  BY DEF OverdueNow

LEMMA OverdueChange ==
  ASSUME NEW p \in Users, NEW s \in Servers,
         \A u \in Users, w \in Servers : ~(u = p /\ w = s) => Overdue(u, w)' = Overdue(u, w)
  PROVE  OverdueNow' = [OverdueNow EXCEPT ![p][s] = Overdue(p, s)']
<1>1. OverdueNow' = [u \in Users |-> [w \in Servers |-> Overdue(u, w)']]  BY DEF OverdueNow
<1>2. \A u \in Users : u # p =>
        [w \in Servers |-> Overdue(u, w)'] = [w \in Servers |-> Overdue(u, w)]
  OBVIOUS
<1>3. [w \in Servers |-> Overdue(p, w)'] =
        [[w \in Servers |-> Overdue(p, w)] EXCEPT ![s] = Overdue(p, s)']
  OBVIOUS
<1> QED  BY <1>1, <1>2, <1>3 DEF OverdueNow

-------------------------------------------------------------------------------
(* What happens to the writes that are overdue. *)
LEMMA LossShrinks ==
  ASSUME UNCHANGED request, NEW p \in Users, NEW s \in Servers,
         Part(queue'[p][s], queue[p][s]), job'[s] = job[s] \/ job'[s] = None
  PROVE  Overdue(p, s)' \subseteq Overdue(p, s)
<1> SUFFICES ASSUME NEW y, IsOverdue(y, p, s)' PROVE IsOverdue(y, p, s)
  BY OverdueMembers
<1>1. CASE \E i \in DOMAIN queue'[p][s] :
             Late(p, queue[p][s][i])' /\ y = Write(queue'[p][s][i])
  BY <1>1 DEF Part, IsOverdue, Late, Waited
<1>2. CASE Pending(p, s)' /\ y = Write(job'[s])
  BY <1>2 DEF Pending, IsOverdue, Late, Waited
<1> QED  BY <1>1, <1>2 DEF IsOverdue, Write

LEMMA ServeShrinks ==
  ASSUME IInv, NEW s \in Servers, NEW p \in Users, Serve(s, p), NEW u \in Users
  PROVE  /\ Overdue(u, s)' \subseteq Overdue(u, s)
         /\ \A w \in Servers : w # s => Overdue(u, w)' = Overdue(u, w)
<1> DEFINE q == queue[p][s]
<1> DEFINE r == q[1]
<1> DEFINE j == [from |-> r.from, id |-> r.id, kind |-> r.kind, value |-> r.value, ran |-> FALSE]
<1>1. q \in Seq(Requests) /\ q # <<>>  BY QueueNat DEF Serve, IInv
<1>2. /\ Head(q) = r /\ 1 \in DOMAIN q
      /\ \A i \in DOMAIN Tail(q) : i + 1 \in DOMAIN q /\ Tail(q)[i] = q[i + 1]
  BY <1>1, TailPart
<1>3. job' = [job EXCEPT ![s] = j] /\ queue' = [queue EXCEPT ![p][s] = Tail(q)]
  BY <1>2 DEF Serve
<1>4. /\ job[s] = None /\ job'[s] = j /\ request' = request
      /\ \A w \in Servers : w # s => job'[w] = job[w] /\ queue'[u][w] = queue[u][w]
      /\ queue'[p][s] = Tail(q)
      /\ u # p => queue'[u][s] = queue[u][s]
  BY <1>3 DEF IInv, TypeOK, Serve, asking
<1>5. j.id = r.id /\ j.kind = r.kind /\ j.value = r.value /\ j.from = p
  BY <1>2 DEF IInv, QueueOK, QueueItem
<1> HIDE DEF r, j
<1>6. Overdue(u, s)' \subseteq Overdue(u, s)
  <2> SUFFICES ASSUME NEW y, IsOverdue(y, u, s)' PROVE IsOverdue(y, u, s)
    BY OverdueMembers
  <2>1. CASE Pending(u, s)' /\ y = Write(job'[s])
    <3>1. u = p /\ Late(p, r) /\ y = Write(r)
      BY <1>4, <1>5, <2>1 DEF Pending, Late, Waited, Write
    <3> QED  BY <1>2, <3>1 DEF IsOverdue, r
  <2>2. CASE \E i \in DOMAIN queue'[u][s] :
               Late(u, queue[u][s][i])' /\ y = Write(queue'[u][s][i])
    <3>1. CASE u = p
      <4>1. PICK i \in DOMAIN Tail(q) : Late(p, Tail(q)[i]) /\ y = Write(Tail(q)[i])
        BY <1>4, <2>2, <3>1 DEF Late, Waited
      <4>2. Late(p, q[i + 1]) /\ y = Write(q[i + 1]) /\ i + 1 \in DOMAIN q
        BY <1>2, <4>1
      <4> QED  BY <3>1, <4>2 DEF IsOverdue
    <3>2. CASE u # p  BY <1>4, <2>2, <3>2 DEF IsOverdue, Late, Waited
    <3> QED  BY <3>1, <3>2
  <2> QED  BY <2>1, <2>2 DEF IsOverdue, Write
<1>7. ASSUME NEW w \in Servers, w # s PROVE Overdue(u, w)' = Overdue(u, w)
  BY <1>4, <1>7 DEF Overdue, Pending, Late, Waited
<1> QED  BY <1>6, <1>7

(* The user stops waiting: if the server still has its write, and has not done   *)
(* it yet, it is overdue from now on.                                         *)
StillThere(p) ==
  LET r == request[p] IN
  /\ r.kind = "set"
  /\ \/ \E i \in DOMAIN queue[p][r.at] : queue[p][r.at][i].id = r.id
     \/ /\ job[r.at] # None /\ job[r.at].from = p
        /\ job[r.at].id = r.id /\ ~job[r.at].ran

LEMMA ReturnOverdue ==
  ASSUME IInv, NEW p \in Users, request[p] # None, UNCHANGED <<queue, job>>,
         request' = [request EXCEPT ![p] = None], NEW u \in Users, NEW w \in Servers
  PROVE  /\ ~(u = p /\ w = request[p].at /\ StillThere(p)) => Overdue(u, w)' = Overdue(u, w)
         /\ StillThere(p) => request[p].kind = "set" /\ effect[p] = None
         /\ u = p /\ w = request[p].at /\ StillThere(p) =>
              Overdue(u, w)' = Overdue(u, w) \cup {Write(request[p])}
<1> USE DEF IInv
<1> DEFINE r == request[p]
<1>0. PICK v \in Servers : v = r.at  BY DEF TypeOK, Requests
<1>1. /\ r \in Requests /\ v = r.at /\ v \in Servers /\ r.id = count[p] /\ r.id \in Nat
      /\ request'[p] = None /\ \A o \in Users : o # p => request'[o] = request[o]
  BY <1>0, Constants DEF TypeOK, Requests, RequestOK
<1>2. ASSUME NEW id PROVE Waited(u, id)' <=> u # p /\ Waited(u, id)
  BY <1>1 DEF Waited
<1>3. \A s \in Servers : \A i \in DOMAIN queue[p][s] :
        queue[p][s][i].id = r.id => s = v /\ queue[p][s][i] = r /\ effect[p] = None
  BY <1>1 DEF QueueOK, QueueItem, Waited
<1>4. \A s \in Servers :
        job[s] # None /\ job[s].from = p /\ job[s].id = r.id =>
          /\ s = v /\ job[s].kind = r.kind
          /\ ~job[s].ran => job[s].value = r.value /\ effect[p] = None
  BY <1>1 DEF JobOK, JobMatches, Waited
<1>5. ASSUME NEW y
      PROVE  IsOverdue(y, u, w)' <=>
               \/ IsOverdue(y, u, w)
               \/ u = p /\ w = v /\ StillThere(p) /\ y = Write(r)
  <2> HIDE DEF r, IInv
  <2>1. ASSUME NEW i \in DOMAIN queue[u][w], y = Write(queue[u][w][i])
        PROVE  Late(u, queue[u][w][i])' =>
                 \/ IsOverdue(y, u, w)
                 \/ u = p /\ w = v /\ StillThere(p) /\ y = Write(r)
    <3> SUFFICES ASSUME Late(u, queue[u][w][i])', ~Late(u, queue[u][w][i])
                 PROVE  u = p /\ w = v /\ StillThere(p) /\ y = Write(r)
      BY <2>1 DEF IsOverdue
    <3>1. u = p /\ queue[u][w][i].id = r.id /\ queue[u][w][i].kind = "set"
      BY <1>1, <1>2 DEF Late, Waited, r
    <3>2. w = v /\ queue[p][w][i] = r  BY <1>3, <3>1
    <3> QED  BY <1>1, <2>1, <3>1, <3>2 DEF StillThere, r
  <2>2. ASSUME y = Write(job[w])
        PROVE  Pending(u, w)' =>
                 \/ IsOverdue(y, u, w)
                 \/ u = p /\ w = v /\ StillThere(p) /\ y = Write(r)
    <3> SUFFICES ASSUME Pending(u, w)', ~Pending(u, w)
                 PROVE  u = p /\ w = v /\ StillThere(p) /\ y = Write(r)
      BY <2>2 DEF IsOverdue
    <3>1. /\ u = p /\ job[w].id = r.id /\ job[w].kind = "set"
          /\ job[w] # None /\ job[w].from = p /\ ~job[w].ran
      BY <1>1, <1>2 DEF Pending, Late, Waited, r
    <3>2. w = v /\ r.kind = "set" /\ job[w].value = r.value  BY <1>4, <3>1
    <3>3. StillThere(p)  BY <1>1, <3>1, <3>2 DEF StillThere, r
    <3> QED  BY <2>2, <3>1, <3>2, <3>3 DEF Write
  <2>3. IsOverdue(y, u, w) => IsOverdue(y, u, w)'
    BY <1>2 DEF IsOverdue, Late, Pending, Write
  <2>4. ASSUME u = p, w = v, StillThere(p), y = Write(r) PROVE IsOverdue(y, u, w)'
    <3>1. r.kind = "set"  BY <2>4 DEF StillThere, r
    <3>2. CASE \E i \in DOMAIN queue[p][v] : queue[p][v][i].id = r.id
      <4>1. PICK i \in DOMAIN queue[p][v] : queue[p][v][i] = r
        BY <1>1, <1>3, <3>2
      <4>2. queue' = queue /\ queue'[p][v][i].kind = "set" /\ ~Waited(p, queue[p][v][i].id)'
        BY <1>1, <1>2, <2>4, <3>1, <4>1
      <4> QED  BY <2>4, <4>1, <4>2 DEF IsOverdue, Late
    <3>3. CASE /\ job[v] # None /\ job[v].from = p /\ job[v].id = r.id /\ ~job[v].ran
      <4>1. job[v].kind = "set" /\ job[v].value = r.value  BY <1>1, <1>4, <3>1, <3>3
      <4>2. job' = job /\ ~Waited(p, job[v].id)'  BY <1>1, <1>2, <2>4
      <4>3. Pending(p, v)' /\ y = Write(job'[v])
        BY <2>4, <3>3, <4>1, <4>2 DEF Pending, Late, Write
      <4> QED  BY <2>4, <4>3 DEF IsOverdue
    <3> QED  BY <1>1, <2>4, <3>2, <3>3 DEF StillThere, r
  <2>5. IsOverdue(y, u, w)' =>
          \/ IsOverdue(y, u, w)
          \/ u = p /\ w = v /\ StillThere(p) /\ y = Write(r)
    BY <2>1, <2>2 DEF IsOverdue
  <2> QED  BY <2>3, <2>4, <2>5
<1>6. StillThere(p) => r.kind = "set" /\ effect[p] = None
  BY <1>1, <1>3, <1>4 DEF StillThere
<1> HIDE DEF r
<1>7. ASSUME NEW y
      PROVE  (y \in Overdue(u, w))' <=>
               \/ y \in Overdue(u, w)
               \/ u = p /\ w = v /\ StillThere(p) /\ y = Write(r)
  BY <1>5, OverdueMembers
<1>8. ~(u = p /\ w = v /\ StillThere(p)) => Overdue(u, w)' = Overdue(u, w)
  BY <1>7
<1>9. u = p /\ w = v /\ StillThere(p) => Overdue(u, w)' = Overdue(u, w) \cup {Write(r)}
  BY <1>7
<1> QED  BY <1>1, <1>6, <1>8, <1>9 DEF r

(* A new request is waited for, and nothing becomes overdue. *)
LEMMA AskOverdue ==
  ASSUME IInv, IInv', NEW p \in Users, NEW s \in Servers,
         NEW kind \in {"get", "set"}, NEW x \in Values \cup {None}, Ask(p, s, kind, x),
         NEW u \in Users, NEW w \in Servers
  PROVE  Overdue(u, w)' = Overdue(u, w)
<1>1. /\ request[p] = None /\ request'[p] # None /\ request'[p] \in Requests
      /\ request'[p].id = count[p] + 1 /\ count[p] \in Nat
      /\ \A v \in Users : v # p => request'[v] = request[v]
      /\ job' = job
  <2>1. request'[p] = [from |-> p, at |-> s, id |-> count[p] + 1, kind |-> kind, value |-> x]
    BY DEF Ask, IInv, TypeOK
  <2>2. count[p] \in Nat /\ count[p] < MaxRequests[p]  BY DEF Ask, IInv, TypeOK
  <2>3. request'[p] \in Requests  BY <2>1, <2>2, Constants DEF Requests
  <2> QED  BY <2>1, <2>2, <2>3, Constants DEF Ask, Free, IInv, TypeOK
<1>2. ASSUME NEW id \in Nat, id <= count[u] PROVE Waited(u, id)' <=> Waited(u, id)
  BY <1>1, <1>2 DEF Waited
<1>3. \A i \in DOMAIN queue[u][w] :
        queue[u][w][i].id \in Nat /\ queue[u][w][i].id <= count[u]
  BY QueueNat DEF IInv, QueueOK, QueueItem
<1>4. /\ \A i \in DOMAIN queue'[u][w] :
           \/ i \in DOMAIN queue[u][w] /\ queue'[u][w][i] = queue[u][w][i]
           \/ u = p /\ queue'[u][w][i] = request'[p]
      /\ \A i \in DOMAIN queue[u][w] :
           i \in DOMAIN queue'[u][w] /\ queue'[u][w][i] = queue[u][w][i]
  BY <1>1, AskQueue DEF IInv
<1>5. Pending(u, w)' <=> Pending(u, w)
  <2>1. job[w] # None => job[w].id \in Nat /\ job[w].id <= count[job[w].from]
    BY Constants DEF IInv, TypeOK, JobOK, Jobs
  <2> QED  BY <1>1, <1>2, <2>1 DEF Pending, Late
<1>6. ASSUME NEW y, NEW i \in DOMAIN queue'[u][w], Late(u, queue[u][w][i])',
             y = Write(queue'[u][w][i])
      PROVE  IsOverdue(y, u, w)
  <2>1. CASE i \in DOMAIN queue[u][w] /\ queue'[u][w][i] = queue[u][w][i]
    BY <1>2, <1>3, <1>6, <2>1 DEF Late, Waited, IsOverdue
  <2>2. CASE u = p /\ queue'[u][w][i] = request'[p]
    BY <1>1, <1>6, <2>2 DEF Late, Waited
  <2> QED  BY <1>4, <2>1, <2>2
<1>7. ASSUME NEW y, NEW i \in DOMAIN queue[u][w], Late(u, queue[u][w][i]),
             y = Write(queue[u][w][i])
      PROVE  IsOverdue(y, u, w)'
  <2>1. i \in DOMAIN queue'[u][w] /\ queue'[u][w][i] = queue[u][w][i]  BY <1>4
  <2>2. Late(u, queue[u][w][i])'  BY <1>2, <1>3, <1>7, <2>1 DEF Late, Waited
  <2> QED  BY <1>7, <2>1, <2>2 DEF IsOverdue, Write
<1>8. ASSUME NEW y PROVE IsOverdue(y, u, w)' <=> IsOverdue(y, u, w)
  BY <1>1, <1>5, <1>6, <1>7 DEF IsOverdue, Write
<1>9. \A y : (y \in Overdue(u, w))' <=> y \in Overdue(u, w)  BY <1>8, OverdueMembers
<1> QED  BY <1>9

(* When a callback has its effect, its request is not overdue any more: the      *)
(* others are younger.                                                        *)
LEMMA RunOverdue ==
  ASSUME IInv, NEW s \in Servers, CallbackRuns(s), NEW j, j = job[s], NEW p, p = j.from
  PROVE  /\ \A u \in Users, w \in Servers :
              ~(u = p /\ w = s) => Overdue(u, w)' = Overdue(u, w)
         /\ IsCurrent(s) => Overdue(p, s) = {} /\ Overdue(p, s)' = {}
         /\ ~IsCurrent(s) /\ j.kind = "get" => Overdue(p, s)' = Overdue(p, s)
         /\ ~IsCurrent(s) /\ j.kind = "set" =>
              /\ Write(j) \in Overdue(p, s)
              /\ Overdue(p, s)' = {y \in Overdue(p, s) : y.number > j.id}
<1>1. /\ j.id \in Nat /\ j.id <= count[p] /\ count[p] \in Nat /\ p \in Users
      /\ queue' = queue /\ request' = request
      /\ Waited(p, j.id) <=> IsCurrent(s)
      /\ ~j.ran /\ j # None /\ job'[s].ran
      /\ \A w \in Servers : w # s => job'[w] = job[w]
  BY RunFacts DEF IInv, TypeOK
<1>2. ASSUME NEW u, NEW w, NEW i
      PROVE  Late(u, queue[u][w][i])' <=> Late(u, queue[u][w][i])
  BY <1>1 DEF Late, Waited
<1>3. ASSUME NEW u \in Users
      PROVE  /\ ~Pending(u, s)'
             /\ Pending(u, s) <=> u = p /\ j.kind = "set" /\ ~IsCurrent(s)
  BY <1>1 DEF Pending, Late
<1>4. ASSUME NEW u \in Users, NEW w \in Servers, w # s
      PROVE  Pending(u, w)' <=> Pending(u, w)
  BY <1>1, <1>4 DEF Pending, Late, Waited
<1>5. ASSUME NEW i \in DOMAIN queue[p][s]
      PROVE  /\ queue[p][s][i].id \in Nat /\ queue[p][s][i].id <= count[p]
             /\ j.id < queue[p][s][i].id
  BY <1>1, QueueNat DEF IInv, QueueOK, QueueItem
<1>6. IsCurrent(s) => DOMAIN queue[p][s] = {}
  <2>1. IsCurrent(s) => j.id = count[p]  BY <1>1 DEF IInv, RequestOK, Waited
  <2> QED  BY <1>1, <1>5, <2>1
<1>7. ASSUME NEW u \in Users, NEW w \in Servers, ~(u = p /\ w = s), NEW y
      PROVE  IsOverdue(y, u, w)' <=> IsOverdue(y, u, w)
  BY <1>1, <1>2, <1>3, <1>4, <1>7 DEF IsOverdue, Write
<1>8. ASSUME NEW y
      PROVE  IsOverdue(y, p, s) <=>
               \/ IsOverdue(y, p, s)'
               \/ j.kind = "set" /\ ~IsCurrent(s) /\ y = Write(j)
  BY <1>1, <1>2, <1>3 DEF IsOverdue, Write
<1>9. ASSUME NEW y, IsOverdue(y, p, s)'
      PROVE  ~IsCurrent(s) /\ y.number \in Nat /\ j.id < y.number
  <2>1. ~Pending(p, s)'  BY <1>1, <1>3
  <2>2. PICK i \in DOMAIN queue'[p][s] : y = Write(queue'[p][s][i])
    BY <1>9, <2>1 DEF IsOverdue, Write
  <2>3. i \in DOMAIN queue[p][s] /\ y = Write(queue[p][s][i])  BY <1>1, <2>2
  <2>4. y.number = queue[p][s][i].id  BY <2>3 DEF Write
  <2> QED  BY <1>5, <1>6, <2>3, <2>4
<1>10. Write(j).number = j.id  BY DEF Write
<1>11. ASSUME NEW u \in Users, NEW w \in Servers, ~(u = p /\ w = s)
       PROVE  Overdue(u, w)' = Overdue(u, w)
  <2>1. \A y : (y \in Overdue(u, w))' <=> y \in Overdue(u, w)
    BY <1>7, <1>11, OverdueMembers
  <2> QED  BY <2>1
<1>12. \A y : y \in Overdue(p, s) <=>
                \/ (y \in Overdue(p, s))'
                \/ j.kind = "set" /\ ~IsCurrent(s) /\ y = Write(j)
  BY <1>8, OverdueMembers
<1>13. \A y : (y \in Overdue(p, s))' => ~IsCurrent(s) /\ y.number \in Nat /\ j.id < y.number
  BY <1>9, OverdueMembers
<1>14. IsCurrent(s) => Overdue(p, s) = {} /\ Overdue(p, s)' = {}  BY <1>12, <1>13
<1>15. ~IsCurrent(s) /\ j.kind = "get" => Overdue(p, s)' = Overdue(p, s)  BY <1>12
<1>16. ASSUME ~IsCurrent(s), j.kind = "set"
       PROVE  /\ Write(j) \in Overdue(p, s)
              /\ Overdue(p, s)' = {y \in Overdue(p, s) : y.number > j.id}
  <2>1. Write(j) \in Overdue(p, s)  BY <1>12, <1>16
  <2>2. ASSUME NEW y
        PROVE  (y \in Overdue(p, s))' <=> y \in Overdue(p, s) /\ y.number > j.id
    <3>1. y = Write(j) => ~(y.number > j.id)  BY <1>1, <1>10
    <3>2. y \in Overdue(p, s) /\ y.number > j.id => (y \in Overdue(p, s))'
      BY <1>12, <3>1
    <3>3. (y \in Overdue(p, s))' => y \in Overdue(p, s) /\ y.number > j.id
      BY <1>1, <1>12, <1>13
    <3> QED  BY <3>2, <3>3
  <2> QED  BY <2>1, <2>2
<1> QED  BY <1>11, <1>14, <1>15, <1>16

-------------------------------------------------------------------------------
(* Every step is a step of RemoteVariable, or none.                            *)
RemoteStep == [Remote!Next]_(Remote!vars)

LEMMA RemoteInit == Init => Remote!Init
<1> SUFFICES ASSUME Init PROVE Remote!Init  OBVIOUS
<1>1. CallNow = [p \in Users |-> None]  BY DEF Init, CallNow, CallOf
<1>2. ASSUME NEW p \in Users, NEW s \in Servers PROVE Overdue(p, s) = {}
  <2>1. queue[p][s] = <<>> /\ job[s] = None  BY DEF Init
  <2>2. DOMAIN queue[p][s] = {}  BY <2>1, EmptySeq
  <2>3. \A y : ~IsOverdue(y, p, s)  BY <2>1, <2>2 DEF IsOverdue, Pending
  <2> QED  BY <2>3, OverdueMembers
<1>3. OverdueNow = [p \in Users |-> [s \in Servers |-> {}]]  BY <1>2 DEF OverdueNow
<1> QED  BY <1>1, <1>3 DEF Init, Remote!Init, CallNow, OverdueNow

(* Nothing changes but what is overdue of one variable. *)
LEMMA QuietStep ==
  ASSUME UNCHANGED <<value, request, count, outcome, effect>>, NEW s \in Servers,
         \A u \in Users : Overdue(u, s)' \subseteq Overdue(u, s),
         \A u \in Users, w \in Servers : w # s => Overdue(u, w)' = Overdue(u, w)
  PROVE  RemoteStep
<1>1. CallNow' = CallNow  BY CallsStay
<1>2. \A u \in Users : \A w \in Servers :
        OverdueNow'[u][w] = Overdue(u, w)' /\ OverdueNow[u][w] = Overdue(u, w)
  BY DEF OverdueNow
<1>3. \A u \in Users : \A w \in Servers :
        IF w = s THEN OverdueNow'[u][w] \subseteq OverdueNow[u][w]
        ELSE OverdueNow'[u][w] = OverdueNow[u][w]
  BY <1>2
<1>4. Remote!Forget(s)  BY <1>1, <1>3 DEF Remote!Forget, CallNow, OverdueNow
<1> QED  BY <1>4 DEF RemoteStep, Remote!Next

LEMMA StillStep ==
  ASSUME UNCHANGED <<value, request, count, outcome, effect, queue, job>>
  PROVE  RemoteStep
<1>1. CallNow' = CallNow  BY CallsStay
<1>2. OverdueNow' = OverdueNow  BY DEF OverdueNow, Overdue, Pending, Late, Waited
<1> QED  BY <1>1, <1>2 DEF RemoteStep, Remote!vars, CallNow, OverdueNow

LEMMA AskStep ==
  ASSUME IInv, IInv', NEW p \in Users, NEW s \in Servers,
         NEW kind \in {"get", "set"}, NEW x \in Values \cup {None}, Ask(p, s, kind, x),
         kind = "get" => x = None, kind = "set" => x \in Values
  PROVE  RemoteStep
<1>1. OverdueNow' = OverdueNow  BY AskOverdue, OverdueStays
<1> DEFINE r == [from |-> p, at |-> s, id |-> count[p] + 1, kind |-> kind, value |-> x]
<1>2. /\ request[p] = None /\ request' = [request EXCEPT ![p] = r] /\ effect' = effect
      /\ effect[p] = None
  BY DEF Ask, Free, IInv, RequestOK
<1>3. /\ request'[p] = r /\ request'[p] # None
      /\ \A u \in Users : u # p => request'[u] = request[u]
  <2>1. count[p] \in Nat /\ count[p] < MaxRequests[p]  BY DEF Ask, IInv, TypeOK
  <2>2. r \in Requests  BY <2>1, Constants DEF Requests
  <2> HIDE DEF r
  <2> QED  BY <1>2, <2>2, Constants DEF IInv, TypeOK
<1>4. CallOf(p)' = [at |-> s, kind |-> kind, value |-> x, done |-> FALSE]
  <2>1. /\ request'[p].at = s /\ request'[p].kind = kind /\ request'[p].value = x
        /\ effect'[p] = None
    BY <1>2, <1>3
  <2>2. (effect'[p] # None) = FALSE  BY <2>1
  <2>3. CallOf(p)' = [at |-> request'[p].at, kind |-> request'[p].kind,
                      value |-> request'[p].value, done |-> effect'[p] # None]
    BY <1>3, <2>1 DEF CallOf
  <2> QED  BY <2>1, <2>2, <2>3
<1>5. CallNow' = [CallNow EXCEPT ![p] = [at |-> s, kind |-> kind, value |-> x, done |-> FALSE]]
  BY <1>2, <1>3, <1>4, CallsChange
<1>6. CallNow[p] = None  BY <1>2 DEF CallNow, CallOf
<1>7. Remote!Invoke(p, s, kind, x)
  BY <1>1, <1>5, <1>6 DEF Ask, Remote!Invoke, CallNow, OverdueNow
<1>8. Remote!InvokeAny(p, s)  BY <1>7 DEF Remote!InvokeAny
<1> QED  BY <1>8 DEF RemoteStep, Remote!Next

(* An operation returns what the callback has made of it, or throws. *)
LEMMA ReturnStep ==
  ASSUME IInv, NEW p \in Users, NEW x \in Values \cup {None}, request[p] # None,
         Return(p, x), UNCHANGED <<job, queue>>, x = None \/ effect[p] = <<x>>
  PROVE  RemoteStep
<1>0. PICK v \in Servers : v = request[p].at  BY DEF IInv, TypeOK, Requests
<1>1. /\ request' = [request EXCEPT ![p] = None]
      /\ outcome' = [outcome EXCEPT ![p] = x]
      /\ effect' = [effect EXCEPT ![p] = None]
      /\ UNCHANGED <<value, count>>
  BY DEF Return
<1>2. /\ request'[p] = None
      /\ \A u \in Users : u # p => request'[u] = request[u] /\ effect'[u] = effect[u]
  BY <1>1 DEF IInv, TypeOK
<1>3. CallNow' = [CallNow EXCEPT ![p] = None]
  <2>1. CallOf(p)' = None  BY <1>2 DEF CallOf
  <2> QED  BY <1>2, <2>1, CallsChange
<1>4. CallNow[p] = [at |-> v, kind |-> request[p].kind,
                    value |-> IF effect[p] = None THEN request[p].value ELSE effect[p][1],
                    done |-> effect[p] # None]
  BY <1>0 DEF CallNow, CallOf
<1>5. CallNow[p] # None
  <2>1. request[p] \in Requests  BY DEF IInv, TypeOK
  <2>2. effect[p] = None \/ \E y \in Values : effect[p] = <<y>>  BY DEF IInv, TypeOK
  <2>3. CallNow[p] \in Calls
    <3>1. CASE effect[p] = None  BY <1>4, <2>1, <3>1 DEF Requests, Calls
    <3>2. CASE \E y \in Values : effect[p] = <<y>>
      <4>1. effect[p] # None /\ effect[p][1] \in Values  BY <3>2, Constants
      <4> QED  BY <1>4, <2>1, <4>1 DEF Requests, Calls
    <3> QED  BY <2>2, <3>1, <3>2
  <2> QED  BY <2>3, Constants
<1>6. CallNow[p].at = v /\ CallNow[p].kind = request[p].kind
  BY <1>4
<1>7. effect[p] = None =>
        x = None /\ ~CallNow[p].done /\ CallNow[p].value = request[p].value
  <2>1. x # None => <<x>> # None  BY Constants
  <2>2. CallNow[p].done = (effect[p] # None)  BY <1>4
  <2>3. effect[p] = None => CallNow[p].value = request[p].value  BY <1>4
  <2> QED  BY <2>1, <2>2, <2>3
<1>8. effect[p] # None => CallNow[p].done /\ CallNow[p].value = effect[p][1]
  <2>1. CallNow[p].done = (effect[p] # None)  BY <1>4
  <2>2. effect[p] # None => CallNow[p].value = effect[p][1]  BY <1>4
  <2> QED  BY <2>1, <2>2
<1>9. \A u \in Users, w \in Servers : ~(u = p /\ w = v) => Overdue(u, w)' = Overdue(u, w)
  BY <1>0, <1>1, ReturnOverdue
<1>10. /\ ~StillThere(p) => Overdue(p, v)' = Overdue(p, v)
       /\ StillThere(p) =>
            /\ request[p].kind = "set" /\ effect[p] = None
            /\ Overdue(p, v)' = Overdue(p, v) \cup {Write(request[p])}
  BY <1>0, <1>1, ReturnOverdue
<1>11. OverdueNow' = [OverdueNow EXCEPT ![p][v] = Overdue(p, v)']
  BY <1>9, OverdueChange
<1>12. OverdueNow[p][v] = Overdue(p, v)  BY DEF OverdueNow
<1>13. ~StillThere(p) => OverdueNow' = OverdueNow
  BY <1>9, <1>10, OverdueStays
<1>14. CASE StillThere(p)
  <2>1. request[p].id = count[p]  BY DEF IInv, RequestOK
  <2>2. Write(request[p]) = [number |-> count[p], value |-> CallNow[p].value]
    BY <1>7, <1>10, <1>14, <2>1 DEF Write
  <2>3. OverdueNow' = [OverdueNow EXCEPT ![p][CallNow[p].at] =
                         @ \cup {[number |-> count[p], value |-> CallNow[p].value]}]
    <3>1. [OverdueNow EXCEPT ![p][v] =
             @ \cup {[number |-> count[p], value |-> CallNow[p].value]}] =
          [OverdueNow EXCEPT ![p][v] =
             OverdueNow[p][v] \cup {[number |-> count[p], value |-> CallNow[p].value]}]
      BY DEF OverdueNow
    <3> QED  BY <1>6, <1>10, <1>11, <1>12, <1>14, <2>2, <3>1
  <2>4. Remote!Fail(p)
    BY <1>1, <1>3, <1>5, <1>6, <1>7, <1>10, <1>14, <2>3
       DEF Remote!Fail, CallNow, OverdueNow
  <2> QED  BY <2>4 DEF RemoteStep, Remote!Next
<1>15. CASE ~StillThere(p) /\ x = None
  <2>1. Remote!Fail(p)
    BY <1>1, <1>3, <1>5, <1>13, <1>15 DEF Remote!Fail, CallNow, OverdueNow
  <2> QED  BY <2>1 DEF RemoteStep, Remote!Next
<1>16. CASE x # None
  <2>1. effect[p] = <<x>> /\ effect[p] # None  BY <1>16, Constants
  <2>2. CallNow[p].done /\ CallNow[p].value = x  BY <1>8, <2>1
  <2>3. Remote!Succeed(p)
    BY <1>1, <1>3, <1>5, <1>10, <1>13, <2>1, <2>2 DEF Remote!Succeed, CallNow, OverdueNow
  <2> QED  BY <2>3 DEF RemoteStep, Remote!Next
<1> QED  BY <1>7, <1>10, <1>14, <1>15, <1>16

(* The callback has its effect: the call that is waited for happens, or a write  *)
(* that is overdue does, or a read whose answer nobody will look at.          *)
LEMMA RunStep ==
  ASSUME IInv, IInv', NEW s \in Servers, CallbackRuns(s)
  PROVE  RemoteStep
<1>1. PICK j \in Jobs : j = job[s]  BY RunFacts DEF IInv, TypeOK, CallbackRuns
<1>2. PICK p \in Users : p = j.from  BY DEF Jobs
<1>3. /\ j.kind \in {"get", "set"}
      /\ UNCHANGED <<request, count, outcome>>
      /\ value' = [value EXCEPT ![s] = value'[s]] /\ value'[s] \in Values
      /\ value'[s] = (IF j.kind = "set" THEN j.value ELSE value[s])
  BY <1>1, <1>2, RunFacts DEF Jobs
<1>4. \A u \in Users, w \in Servers : ~(u = p /\ w = s) => Overdue(u, w)' = Overdue(u, w)
  BY <1>1, <1>2, RunOverdue
<1>5. OverdueNow[p][s] = Overdue(p, s)  BY DEF OverdueNow
<1>6. j.kind = "get" => value' = value  BY <1>3 DEF IInv, TypeOK
<1>7. CASE IsCurrent(s)
  <2>1. /\ JobMatches(j, s, request[p], effect[p]) /\ effect[p] = None /\ ~j.ran
        /\ effect' = [effect EXCEPT ![p] = <<value'[s]>>]
        /\ Overdue(p, s) = {} /\ Overdue(p, s)' = {}
    BY <1>1, <1>2, <1>7, RunFacts, RunOverdue
  <2>2. OverdueNow' = OverdueNow  BY <1>4, <2>1, OverdueStays
  <2>3. /\ request[p] # None /\ request[p].at = s /\ request[p].kind = j.kind
        /\ request[p].value = j.value
    BY <1>1, <1>2, <1>7, <2>1 DEF IsCurrent, JobMatches
  <2>4. /\ effect'[p] = <<value'[s]>> /\ effect'[p] # None
        /\ \A u \in Users : u # p => effect'[u] = effect[u]
    BY <1>3, <2>1, Constants DEF IInv, TypeOK
  <2>5. CallNow[p] = [at |-> s, kind |-> j.kind, value |-> j.value, done |-> FALSE]
    <3>1. (effect[p] # None) = FALSE  BY <2>1
    <3>2. CallNow[p] = [at |-> request[p].at, kind |-> request[p].kind,
                        value |-> request[p].value, done |-> effect[p] # None]
      BY <2>1, <2>3 DEF CallNow, CallOf
    <3> QED  BY <2>3, <3>1, <3>2
  <2>6. CallOf(p)' = [at |-> s, kind |-> j.kind, value |-> value'[s], done |-> TRUE]
    <3>1. (effect'[p] # None) = TRUE  BY <2>4
    <3>2. CallOf(p)' = [at |-> request[p].at, kind |-> request[p].kind,
                        value |-> effect'[p][1], done |-> effect'[p] # None]
      BY <1>3, <2>3, <2>4 DEF CallOf
    <3>3. effect'[p][1] = value'[s]  BY <2>4
    <3> QED  BY <2>3, <3>1, <3>2, <3>3
  <2>7. CallNow' = [CallNow EXCEPT ![p] = CallOf(p)']
    BY <1>3, <2>4, CallsChange
  <2>8. CallNow[p] # None
    <3>1. CallNow[p] \in Calls  BY <1>1, <2>5 DEF Calls, Jobs
    <3> QED  BY <3>1, Constants
  <2>9. /\ CallNow[p].at = s /\ CallNow[p].kind = j.kind /\ CallNow[p].value = j.value
        /\ ~CallNow[p].done
    BY <2>5
  <2>10. OverdueNow[p][CallNow[p].at] = {}  BY <1>5, <2>1, <2>9
  <2>11. CASE j.kind = "set"
    <3>1. value'[s] = j.value  BY <1>3, <2>11
    <3>2. [CallNow[p] EXCEPT !.done = TRUE] = CallOf(p)'
      <4>1. [CallNow[p] EXCEPT !.done = TRUE] =
              [at |-> s, kind |-> j.kind, value |-> j.value, done |-> TRUE]
        <5> DEFINE true == TRUE
        <5> HIDE DEF true
        <5>1. [CallNow[p] EXCEPT !.done = true] =
                [at |-> s, kind |-> j.kind, value |-> j.value, done |-> true]
          BY <2>5, SMT
        <5> QED  BY <5>1, Zenon DEF true
      <4> QED  BY <2>6, <3>1, <4>1
    <3>3. CallNow' = [CallNow EXCEPT ![p].done = TRUE]
      BY <2>7, <3>2 DEF CallNow
    <3>4. value' = [value EXCEPT ![CallNow[p].at] = CallNow[p].value]
      BY <1>3, <2>9, <3>1
    <3>5. Remote!Happen(p)
      BY <1>3, <2>2, <2>8, <2>9, <2>10, <2>11, <3>3, <3>4
         DEF Remote!Happen, CallNow, OverdueNow
    <3> QED  BY <3>5 DEF RemoteStep, Remote!Next
  <2>12. CASE j.kind = "get"
    <3>1. value'[s] = value[s] /\ value' = value  BY <1>3, <1>6, <2>12
    <3>2. [CallNow[p] EXCEPT !.done = TRUE, !.value = value[s]] = CallOf(p)'
      <4>1. [CallNow[p] EXCEPT !.done = TRUE, !.value = value[s]] =
              [at |-> s, kind |-> j.kind, value |-> value[s], done |-> TRUE]
        <5> DEFINE true == TRUE
        <5> DEFINE c == [CallNow[p] EXCEPT !.done = true]
        <5> HIDE DEF true
        <5>1. [CallNow[p] EXCEPT !.done = true, !.value = value[s]] =
                [c EXCEPT !.value = value[s]]
          BY Zenon
        <5>2. c = [at |-> s, kind |-> j.kind, value |-> j.value, done |-> true]
          BY <2>5, SMT
        <5> HIDE DEF c
        <5>3. [c EXCEPT !.value = value[s]] =
                [at |-> s, kind |-> j.kind, value |-> value[s], done |-> true]
          BY <5>2, SMT
        <5>4. [CallNow[p] EXCEPT !.done = true, !.value = value[s]] =
                [at |-> s, kind |-> j.kind, value |-> value[s], done |-> true]
          BY <5>1, <5>3, Zenon
        <5> QED  BY <5>4, Zenon DEF true
      <4> QED  BY <2>6, <3>1, <4>1
    <3>3. CallNow' = [CallNow EXCEPT ![p].done = TRUE, ![p].value = value[CallNow[p].at]]
      BY <2>7, <2>9, <3>2 DEF CallNow
    <3>4. Remote!Happen(p)
      BY <1>3, <2>2, <2>8, <2>9, <2>10, <2>12, <3>1, <3>3
         DEF Remote!Happen, CallNow, OverdueNow
    <3> QED  BY <3>4 DEF RemoteStep, Remote!Next
  <2> QED  BY <1>3, <2>11, <2>12
<1>8. CASE ~IsCurrent(s)
  <2>1. effect' = effect  BY <1>1, <1>2, <1>8, RunFacts
  <2>2. CallNow' = CallNow  BY <1>3, <2>1, CallsStay
  <2>3. CASE j.kind = "get"
    <3>1. Overdue(p, s)' = Overdue(p, s)  BY <1>1, <1>2, <1>8, <2>3, RunOverdue
    <3>2. OverdueNow' = OverdueNow  BY <1>4, <3>1, OverdueStays
    <3> QED  BY <1>3, <1>6, <2>2, <2>3, <3>2 DEF RemoteStep, Remote!vars, CallNow, OverdueNow
  <2>4. CASE j.kind = "set"
    <3>1. /\ Write(j) \in Overdue(p, s)
          /\ Overdue(p, s)' = {y \in Overdue(p, s) : y.number > j.id}
      BY <1>1, <1>2, <1>8, <2>4, RunOverdue
    <3>2. Write(j).number = j.id /\ Write(j).value = j.value  BY DEF Write
    <3>3. OverdueNow' = [OverdueNow EXCEPT ![p][s] = Overdue(p, s)']
      BY <1>4, OverdueChange
    <3>4. OverdueNow' = [OverdueNow EXCEPT ![p][s] = {y \in @ : y.number > Write(j).number}]
      <4>1. Overdue(p, s)' = {y \in OverdueNow[p][s] : y.number > Write(j).number}
        BY <1>5, <3>1, <3>2
      <4> QED  BY <3>3, <4>1 DEF OverdueNow
    <3>5. value' = [value EXCEPT ![s] = Write(j).value]  BY <1>3, <2>4, <3>2
    <3>6. Write(j) \in OverdueNow[p][s]  BY <1>5, <3>1
    <3> DEFINE w == Write(j)
    <3> HIDE DEF w
    <3>7. Remote!HappenLate(p, s)
      BY <1>3, <2>2, <3>4, <3>5, <3>6 DEF w, Remote!HappenLate, CallNow, OverdueNow
    <3> QED  BY <3>7 DEF RemoteStep, Remote!Next
  <2> QED  BY <1>3, <2>3, <2>4
<1> QED  BY <1>7, <1>8

(* A connection that ends, and a server that stops, may take writes with them    *)
(* that are overdue of one variable.                                          *)
LEMMA LossStep ==
  ASSUME NEW s \in Servers, UNCHANGED <<value, request, count, outcome, effect, job>>,
         \A u \in Users, w \in Servers : Part(queue'[u][w], queue[u][w]),
         \A u \in Users, w \in Servers : w # s => queue'[u][w] = queue[u][w]
  PROVE  RemoteStep
<1>1. \A u \in Users : Overdue(u, s)' \subseteq Overdue(u, s)  BY LossShrinks
<1>2. ASSUME NEW u \in Users, NEW w \in Servers, w # s
      PROVE  Overdue(u, w)' = Overdue(u, w)
  BY <1>2 DEF Overdue, Pending, Late, Waited
<1> QED  BY <1>1, <1>2, QuietStep

LEMMA NextRefines == IInv /\ IInv' /\ [Next]_vars => RemoteStep
<1> SUFFICES ASSUME IInv, IInv', [Next]_vars PROVE RemoteStep  OBVIOUS
<1>1. CASE UNCHANGED vars  BY <1>1, StillStep DEF vars
<1>2. CASE Discard  BY <1>2, StillStep DEF Discard, asking
<1>3. ASSUME NEW p \in Users, Receive(p) \/ ConnectionLost(p) \/ TimedOut(p)
      PROVE  RemoteStep
  <2>1. CASE Receive(p)
    <3> DEFINE x(a) == IF ~a.good THEN None
                       ELSE IF request[p].kind = "set" THEN request[p].value ELSE a.value
    <3>1. PICK a \in answers : IsFor(a, p) /\ Return(p, x(a))  BY <2>1 DEF Receive
    <3>2. a.to = p /\ Waited(p, a.id) /\ request[p] # None
      BY <3>1 DEF IsFor, Waited
    <3>3. x(a) = None \/ effect[p] = <<x(a)>>
      BY <3>1, <3>2 DEF IInv, AnswerOK
    <3>4. x(a) \in Values \cup {None}
      BY <3>1, <3>2 DEF IInv, AnswerOK, RequestOK
    <3>5. UNCHANGED <<job, queue>>  BY <3>1 DEF Return
    <3> HIDE DEF x
    <3> QED  BY <3>1, <3>2, <3>3, <3>4, <3>5, ReturnStep
  <2>2. CASE ConnectionLost(p) \/ TimedOut(p)
    <3>1. request[p] # None /\ Return(p, None) /\ UNCHANGED <<job, queue>>
      BY <2>2 DEF ConnectionLost, TimedOut, Return
    <3> QED  BY <3>1, ReturnStep
  <2> QED  BY <1>3, <2>1, <2>2
<1>4. ASSUME NEW p \in Users, NEW s \in Servers,
             \/ Connect(p, s) \/ Disconnect(p, s) \/ Lose(p, s) \/ Recover(p, s)
             \/ Get(p, s) \/ Set(p, s) \/ Serve(s, p)
      PROVE  RemoteStep
  <2>1. CASE Connect(p, s) \/ Recover(p, s)
    BY <2>1, StillStep DEF Connect, Recover, asking
  <2>2. CASE Disconnect(p, s) \/ Lose(p, s)
    <3>1. Cut(p, s) /\ UNCHANGED <<value, request, count, outcome, effect, job>>
      BY <2>2 DEF Disconnect, Lose, asking
    <3> QED  BY <3>1, CutKeeps, LossStep DEF IInv
  <2>3. CASE Get(p, s)
    <3>1. Ask(p, s, "get", None)  BY <2>3 DEF Get
    <3> QED  BY <3>1, AskStep
  <2>4. CASE Set(p, s)  BY <2>4, AskStep DEF Set
  <2>5. CASE Serve(s, p)
    <3>1. UNCHANGED <<value, request, count, outcome, effect>>
      BY <2>5 DEF Serve, asking
    <3>2. \A u \in Users :
            /\ Overdue(u, s)' \subseteq Overdue(u, s)
            /\ \A w \in Servers : w # s => Overdue(u, w)' = Overdue(u, w)
      BY <2>5, ServeShrinks
    <3> QED  BY <3>1, <3>2, QuietStep
  <2> QED  BY <1>4, <2>1, <2>2, <2>3, <2>4, <2>5
<1>5. ASSUME NEW s \in Servers,
             \/ CallbackRuns(s) \/ CallbackReturns(s) \/ CallbackThrows(s)
             \/ Start(s) \/ Shutdown(s) \/ Joined(s)
      PROVE  RemoteStep
  <2>1. CASE CallbackRuns(s)  BY <2>1, RunStep
  <2>2. CASE CallbackReturns(s) \/ CallbackThrows(s)
    <3>1. /\ UNCHANGED <<value, request, count, outcome, effect, queue>>
          /\ job'[s] = None /\ \A w \in Servers : w # s => job'[w] = job[w]
      BY <2>2 DEF CallbackReturns, CallbackThrows, Answer, asking, IInv, TypeOK
    <3>2. ASSUME NEW u \in Users PROVE Overdue(u, s)' \subseteq Overdue(u, s)
      <4>1. Part(queue'[u][s], queue[u][s])  BY <3>1, QueueNat, WholePart DEF IInv
      <4> QED  BY <3>1, <4>1, LossShrinks
    <3>3. ASSUME NEW u \in Users, NEW w \in Servers, w # s
          PROVE  Overdue(u, w)' = Overdue(u, w)
      BY <3>1, <3>3 DEF Overdue, Pending, Late, Waited
    <3> QED  BY <3>1, <3>2, <3>3, QuietStep
  <2>3. CASE Start(s) \/ Joined(s)  BY <2>3, StillStep DEF Start, Joined, link, asking
  <2>4. CASE Shutdown(s)
    <3>1. UNCHANGED <<value, request, count, outcome, effect, job>>
      BY <2>4 DEF Shutdown, asking
    <3> QED  BY <2>4, <3>1, ShutdownKeeps, LossStep DEF IInv
  <2> QED  BY <1>5, <2>1, <2>2, <2>3, <2>4
<1> QED  BY <1>1, <1>2, <1>3, <1>4, <1>5 DEF Next

(* get and set keep their promise: an operation that returns has happened, once, *)
(* while its caller waited, and what it returns is what the callback saw then; *)
(* one that throws happens at most once more, and never after a later one of   *)
(* the same thread on the same variable.                                      *)
THEOREM KeepsPromise == Spec => ImplementsRemote
<1>1. Init => Remote!Init  BY RemoteInit
<1>2. IInv /\ IInv' /\ [Next]_vars => [Remote!Next]_(Remote!vars)
  BY NextRefines DEF RemoteStep
<1> QED  BY Inductive, <1>1, <1>2, PTL DEF Spec, ImplementsRemote, Remote!Spec
===============================================================================
