--------------------------- MODULE McpStdioProofs ---------------------------
(***************************************************************************)
(* Proofs about McpStdio, for any number of calls, crashes, restarts and   *)
(* callers whose calls do not overlap (OneAtATime).  A single caller       *)
(* guarantees that (OneCallerAtATime); the client has no lock that would,  *)
(* which is the finding about OwnAnswer.                                   *)
(***************************************************************************)
EXTENDS McpStdio, SequenceTheorems, TLAPS

\* At most one thread is inside the client.
OneAtATime ==
  \A c, d \in Callers : cl[c].pc # "idle" /\ cl[d].pc # "idle" => c = d

-----------------------------------------------------------------------------
(* The inductive invariant *)

Server == [ alive : BOOLEAN, in : Seq(Requests), out : Seq(Requests) ]

Caller == [ pc : { "idle", "start", "spawn", "write", "read", "reading", "closing" },
            request : 0..MaxCalls, reads : 0..Len(servers), answer : 0..MaxCalls ]

Typed ==
  /\ servers \in Seq(Server) /\ process \in 0..Len(servers)
  /\ cl \in [ Callers -> Caller ]
  /\ calls \in 0..MaxCalls /\ crashes \in 0..MaxCrashes

\* A thread that calls a tool has a request, which the server can be sent.
HasRequest ==
  \A c \in Callers : cl[c].pc \in { "start", "spawn", "write", "read", "reading" } =>
                       cl[c].request \in Requests

EmptyPipes(v) == v.in = <<>> /\ v.out = <<>>

\* Request q, or its answer, is all there is in the pipes.
Carries(v, q) == \/ v.in = << q >> /\ v.out = <<>>
                 \/ v.in = <<>> /\ v.out = << q >>

\* Whatever became of a server, it never had more than one line in its pipes.
OneLine == \A s \in DOMAIN servers :
             EmptyPipes(servers[s]) \/ \E q \in Requests : Carries(servers[s], q)

AwaitsAnswer(c) == cl[c].pc \in { "read", "reading" }

\* A thread that waits for an answer waits for the one of its own request ...
Waiting ==
  \A c \in Callers : AwaitsAnswer(c) =>
    /\ process # 0 /\ Carries(servers[process], cl[c].request)
    /\ cl[c].pc = "reading" => cl[c].reads = process

\* ... and if none waits there is nothing to read.
Quiet ==
  (\A c \in Callers : ~ AwaitsAnswer(c)) /\ Running => EmptyPipes(servers[process])

\* A server is only spawned, and one is only forgotten, when none is alive.
NoneAlive ==
  \A c \in Callers : cl[c].pc \in { "spawn", "closing" } =>
    \A s \in DOMAIN servers : ~ servers[s].alive

IInv == /\ Typed /\ HasRequest /\ OneLine /\ Waiting /\ Quiet /\ NoneAlive
        /\ OneServer /\ OwnAnswer

LEMMA IInvInit == Init => IInv
<1> SUFFICES ASSUME Init PROVE IInv
  OBVIOUS
<1>1. servers = <<>> /\ Len(servers) = 0 /\ DOMAIN servers = {} /\ process = 0
  BY DEF Init
<1>2. Typed
  BY <1>1, McpAssumption DEF Init, Typed, Caller, Idle
<1> QED
  BY <1>1, <1>2 DEF Init, Idle, IInv, HasRequest, OneLine, Waiting, AwaitsAnswer, Quiet,
                   Running, NoneAlive, OneServer, OwnAnswer

-----------------------------------------------------------------------------
(* Pipes *)

LEMMA Lines ==
  ASSUME NEW q
  PROVE  /\ <<>> \o << q >> = << q >>
         /\ Tail(<< q >>) = <<>> /\ Head(<< q >>) = q /\ Append(<<>>, q) = << q >>
  OBVIOUS

\* One line, or none, is in the order of the calls.
LEMMA OneLineIncreasing ==
  ASSUME NEW v \in Server, EmptyPipes(v) \/ \E q \in Requests : Carries(v, q)
  PROVE  Increasing(v.out \o v.in)
<1>1. v.in \in Seq(Requests) /\ v.out \in Seq(Requests)
  BY DEF Server
<1>2. Increasing(<<>>)
  BY DEF Increasing
<1>3. ASSUME NEW q PROVE Increasing(<< q >>)
  BY DEF Increasing
<1>4. CASE EmptyPipes(v)
  BY <1>1, <1>2, <1>4, ConcatEmptySeq DEF EmptyPipes
<1>5. ASSUME NEW q \in Requests, Carries(v, q) PROVE Increasing(v.out \o v.in)
  <2>1. v.out \o v.in = << q >>
    BY <1>1, <1>5, ConcatEmptySeq DEF Carries
  <2> QED
    BY <1>3, <2>1
<1> QED
  BY <1>4, <1>5

LEMMA IInvTypeOK == IInv => TypeOK
<1> SUFFICES ASSUME IInv PROVE TypeOK
  OBVIOUS
<1>1. ASSUME NEW s \in DOMAIN servers
      PROVE  /\ servers[s] \in Server /\ Increasing(servers[s].out \o servers[s].in)
  BY OneLineIncreasing DEF IInv, Typed, OneLine
<1> QED
  BY <1>1 DEF IInv, Typed, TypeOK, Server, Caller

-----------------------------------------------------------------------------
(* One step per action *)

\* What a step that only moves a thread has to respect.
LEMMA MoveStep ==
  ASSUME IInv, OneAtATime, NEW c \in Callers, NEW label,
         cl[c].pc # "idle", Goto(c, label), UNCHANGED << process, servers >>, Bounds,
         label \in { "idle", "spawn", "write" },
         AwaitsAnswer(c) => label = "idle" /\ ~ Running,
         label \in { "spawn", "write" } => cl[c].pc = "start",
         label = "spawn" => ~ Running
  PROVE  IInv'
<1> USE DEF IInv
<1>1. /\ cl' = [cl EXCEPT ![c].pc = label] /\ servers' = servers /\ process' = process
      /\ calls' = calls /\ crashes' = crashes
  BY DEF Goto, Bounds
<1>2. \A d \in Callers : d # c => cl[d].pc = "idle" /\ cl'[d] = cl[d]
  BY <1>1 DEF OneAtATime, Typed
<1>3. /\ cl'[c].pc = label /\ cl'[c].request = cl[c].request
      /\ cl'[c].answer = cl[c].answer
  BY <1>1 DEF Typed, Caller
<1>4. Typed'
  BY <1>1 DEF Typed, Caller
<1>5. HasRequest' /\ OwnAnswer'
  BY <1>1, <1>2, <1>3 DEF HasRequest, OwnAnswer
<1>6. OneLine' /\ OneServer'
  BY <1>1 DEF OneLine, OneServer
<1>7. \A d \in Callers : ~ AwaitsAnswer(d)'
  BY <1>2, <1>3 DEF AwaitsAnswer
<1>8. Waiting'
  BY <1>7 DEF Waiting
<1>9. Running => EmptyPipes(servers[process])
  <2>1. CASE AwaitsAnswer(c)
    BY <2>1 DEF AwaitsAnswer
  <2>2. CASE ~ AwaitsAnswer(c)
    BY <1>2, <2>2 DEF AwaitsAnswer, Quiet
  <2> QED
    BY <2>1, <2>2
<1>10. Quiet'
  BY <1>1, <1>9 DEF Quiet, Running, EmptyPipes
<1>11. NoneAlive'
  BY <1>1, <1>2, <1>3 DEF NoneAlive, OneServer, Running, Typed
<1> QED
  BY <1>4, <1>5, <1>6, <1>8, <1>10, <1>11

LEMMA CallStep ==
  ASSUME IInv, OneAtATime', NEW c \in Callers, Call(c)
  PROVE  IInv'
<1> USE DEF IInv
<1>1. /\ cl' = [cl EXCEPT ![c] = [ pc |-> "start", request |-> calls', reads |-> 0,
                                   answer |-> 0 ]]
      /\ calls' = calls + 1 /\ calls < MaxCalls
      /\ servers' = servers /\ process' = process /\ crashes' = crashes
  BY DEF Call
<1>2. calls' \in Requests /\ calls' \in 0..MaxCalls
  BY <1>1, McpAssumption DEF Typed, Requests
<1>3. \A d \in Callers : d # c => cl[d].pc = "idle" /\ cl'[d] = cl[d]
  BY <1>1 DEF OneAtATime, Typed
<1>4. cl[c].pc = "idle"
  BY DEF Call
<1>5. cl'[c].pc = "start" /\ cl'[c].request = calls' /\ cl'[c].answer = 0
  BY <1>1 DEF Typed
<1>6. Typed'
  <2>1. [ pc |-> "start", request |-> calls', reads |-> 0, answer |-> 0 ] \in Caller'
    <3>1. 0 \in 0..Len(servers') /\ 0 \in 0..MaxCalls
      BY <1>1, McpAssumption DEF Typed
    <3> QED
      BY <1>2, <3>1 DEF Caller
  <2>2. Caller' = Caller
    BY <1>1 DEF Caller
  <2>3. cl' \in [ Callers -> Caller' ]
    BY <1>1, <2>1, <2>2 DEF Typed
  <2> QED
    BY <1>1, <1>2, <2>3 DEF Typed
<1>7. HasRequest' /\ OwnAnswer'
  BY <1>1, <1>2, <1>3, <1>5 DEF HasRequest, OwnAnswer
<1>8. OneLine' /\ OneServer'
  BY <1>1 DEF OneLine, OneServer
<1>9. Waiting' /\ NoneAlive'
  BY <1>1, <1>3, <1>5 DEF Waiting, NoneAlive, AwaitsAnswer
<1>10. Quiet'
  BY <1>1, <1>3, <1>4 DEF Quiet, AwaitsAnswer, Running, EmptyPipes
<1> QED
  BY <1>6, <1>7, <1>8, <1>9, <1>10

LEMMA SpawnStep ==
  ASSUME IInv, OneAtATime, NEW c \in Callers, Spawn(c)
  PROVE  IInv'
<1> USE DEF IInv
<1>1. /\ cl[c].pc = "spawn" /\ cl' = [cl EXCEPT ![c].pc = "write"]
      /\ servers' = Append(servers, Fresh) /\ process' = Len(servers) + 1
      /\ calls' = calls /\ crashes' = crashes
  BY DEF Spawn, Goto, Bounds
<1>2. \A d \in Callers : d # c => cl[d].pc = "idle" /\ cl'[d] = cl[d]
  BY <1>1 DEF OneAtATime, Typed
<1>3. /\ cl'[c].pc = "write" /\ cl'[c].request = cl[c].request
      /\ cl'[c].answer = cl[c].answer
  BY <1>1 DEF Typed, Caller
<1>4. Fresh \in Server /\ EmptyPipes(Fresh)
  BY DEF Fresh, Server, EmptyPipes
<1>5. /\ servers' \in Seq(Server) /\ Len(servers') = Len(servers) + 1
      /\ servers'[Len(servers) + 1] = Fresh
      /\ \A s \in DOMAIN servers : servers'[s] = servers[s]
      /\ DOMAIN servers' = 1..(Len(servers) + 1)
  BY <1>1, <1>4, AppendProperties DEF Typed
<1>6. Typed'
  <2>1. Len(servers) \in Nat
    BY DEF Typed
  <2>2. Caller \subseteq Caller'
    BY <1>5, <2>1 DEF Caller
  <2>3. [ cl[c] EXCEPT !.pc = "write" ] \in Caller
    BY DEF Typed, Caller
  <2>4. cl' \in [ Callers -> Caller' ]
    BY <1>1, <2>2, <2>3 DEF Typed
  <2>5. process' \in 0..Len(servers')
    BY <1>1, <1>5, <2>1
  <2> QED
    BY <1>1, <1>5, <2>4, <2>5 DEF Typed
<1>7. HasRequest' /\ OwnAnswer'
  BY <1>1, <1>2, <1>3 DEF HasRequest, OwnAnswer
<1>8. OneLine'
  BY <1>4, <1>5 DEF OneLine, Typed
<1>9. OneServer'
  BY <1>1, <1>5 DEF OneServer, NoneAlive, Typed
<1>10. Waiting' /\ Quiet' /\ NoneAlive'
  BY <1>1, <1>2, <1>3, <1>4, <1>5 DEF Waiting, Quiet, NoneAlive, AwaitsAnswer, Running
<1> QED
  BY <1>6, <1>7, <1>8, <1>9, <1>10

LEMMA WriteStep ==
  ASSUME IInv, OneAtATime, NEW c \in Callers, Write(c)
  PROVE  IInv'
<1> USE DEF IInv
<1> DEFINE q == cl[c].request
           v == [ servers[process] EXCEPT !.in = << q >> ]
<1>1. cl[c].pc = "write" /\ Running /\ process' = process /\ Bounds /\ Goto(c, "read")
  BY DEF Write
<1>2. \A d \in Callers : d # c => cl[d].pc = "idle"
  BY <1>1 DEF OneAtATime
<1>3. EmptyPipes(servers[process]) /\ process \in DOMAIN servers /\ q \in Requests
  BY <1>1, <1>2 DEF Quiet, AwaitsAnswer, Running, Typed, HasRequest
<1>4. servers' = [servers EXCEPT ![process] = v]
  <2>1. servers[process].in \o << q >> = << q >>
    BY <1>3, Lines DEF EmptyPipes
  <2> QED
    BY <2>1 DEF Write, Line
<1>5. v \in Server /\ Carries(v, q) /\ v.alive = servers[process].alive
  <2>1. servers[process] \in Server
    BY <1>3 DEF Typed
  <2>2. << q >> \in Seq(Requests)
    BY <1>3
  <2>3. v \in Server
    BY <2>1, <2>2 DEF Server
  <2>4. v.in = << q >> /\ v.out = servers[process].out
        /\ v.alive = servers[process].alive
    BY <2>1 DEF Server
  <2> QED
    BY <1>3, <2>3, <2>4 DEF Carries, EmptyPipes
<1> HIDE DEF v
<1>6. /\ servers' \in Seq(Server) /\ DOMAIN servers' = DOMAIN servers
      /\ Len(servers') = Len(servers) /\ servers'[process] = v
      /\ \A s \in DOMAIN servers : s # process => servers'[s] = servers[s]
  BY <1>3, <1>4, <1>5 DEF Typed
<1>7. /\ cl' = [cl EXCEPT ![c].pc = "read"] /\ cl'[c].pc = "read"
      /\ cl'[c].request = q /\ cl'[c].answer = cl[c].answer
      /\ \A d \in Callers : d # c => cl'[d] = cl[d]
  BY <1>1 DEF Goto, Typed, Caller
<1>8. Typed'
  BY <1>1, <1>6, <1>7 DEF Typed, Caller, Bounds
<1>9. HasRequest' /\ OwnAnswer'
  BY <1>2, <1>3, <1>7 DEF HasRequest, OwnAnswer
<1>10. OneLine' /\ OneServer'
  BY <1>1, <1>3, <1>5, <1>6 DEF OneLine, OneServer, EmptyPipes, Carries
<1>11. Waiting' /\ Quiet' /\ NoneAlive'
  BY <1>1, <1>2, <1>3, <1>5, <1>6, <1>7
     DEF Waiting, Quiet, NoneAlive, AwaitsAnswer, Running, Carries
<1> QED
  BY <1>8, <1>9, <1>10, <1>11

LEMMA AwaitStep ==
  ASSUME IInv, OneAtATime, NEW c \in Callers, Await(c)
  PROVE  IInv'
<1> USE DEF IInv
<1>1. cl[c].pc = "read" /\ process # 0 /\ Carries(servers[process], cl[c].request)
  BY DEF Await, Waiting, AwaitsAnswer
<1>2. /\ cl' = [cl EXCEPT ![c].pc = "reading", ![c].reads = process]
      /\ process' = process /\ servers' = servers /\ calls' = calls /\ crashes' = crashes
  BY <1>1 DEF Await, Bounds
<1>3. \A d \in Callers : d # c => cl[d].pc = "idle" /\ cl'[d] = cl[d]
  BY <1>1, <1>2 DEF OneAtATime, Typed
<1>4. /\ cl'[c].pc = "reading" /\ cl'[c].request = cl[c].request
      /\ cl'[c].answer = cl[c].answer /\ cl'[c].reads = process
  BY <1>2 DEF Typed, Caller
<1>5. Typed'
  BY <1>1, <1>2 DEF Typed, Caller
<1>6. HasRequest' /\ OwnAnswer'
  BY <1>1, <1>3, <1>4 DEF HasRequest, OwnAnswer
<1>7. OneLine' /\ OneServer'
  BY <1>2 DEF OneLine, OneServer
<1>8. Waiting' /\ Quiet' /\ NoneAlive'
  BY <1>1, <1>2, <1>3, <1>4 DEF Waiting, Quiet, NoneAlive, AwaitsAnswer, Carries
<1> QED
  BY <1>5, <1>6, <1>7, <1>8

LEMMA ReadLineStep ==
  ASSUME IInv, OneAtATime, NEW c \in Callers, ReadLine(c)
  PROVE  IInv'
<1> USE DEF IInv
<1> DEFINE q == cl[c].request
           v == [ servers[process] EXCEPT !.out = <<>> ]
<1>1. cl[c].pc = "reading" /\ cl[c].reads = process /\ process \in DOMAIN servers
      /\ Carries(servers[process], q) /\ q \in Requests
  BY DEF ReadLine, Waiting, AwaitsAnswer, Typed, HasRequest
<1>2. \A d \in Callers : d # c => cl[d].pc = "idle"
  BY <1>1 DEF OneAtATime
<1>3. servers[process].out = << q >> /\ servers[process].in = <<>>
  BY <1>1 DEF ReadLine, Carries
<1>4. servers' = [servers EXCEPT ![process] = v]
  BY <1>1, <1>3, Lines DEF ReadLine
<1>5. v \in Server /\ EmptyPipes(v) /\ v.alive = servers[process].alive
  <2>1. servers[process] \in Server
    BY <1>1 DEF Typed
  <2>2. v \in Server
    <3>1. <<>> \in Seq(Requests)
      OBVIOUS
    <3> QED
      BY <2>1, <3>1 DEF Server
  <2>3. v.out = <<>> /\ v.in = servers[process].in /\ v.alive = servers[process].alive
    BY <2>1 DEF Server
  <2> QED
    BY <1>3, <2>2, <2>3 DEF EmptyPipes
<1> HIDE DEF v
<1>6. /\ servers' \in Seq(Server) /\ DOMAIN servers' = DOMAIN servers
      /\ Len(servers') = Len(servers) /\ servers'[process] = v
      /\ \A s \in DOMAIN servers : s # process => servers'[s] = servers[s]
  BY <1>1, <1>4, <1>5 DEF Typed
<1>7. /\ cl' = [cl EXCEPT ![c].pc = "idle", ![c].answer = q]
      /\ process' = process /\ calls' = calls /\ crashes' = crashes
  BY <1>1, <1>3, Lines DEF ReadLine, Bounds
<1>8. /\ cl'[c].pc = "idle" /\ cl'[c].request = q /\ cl'[c].answer = q
      /\ \A d \in Callers : d # c => cl'[d] = cl[d]
  BY <1>7 DEF Typed, Caller
<1>9. Typed'
  <2>1. [ cl[c] EXCEPT !.pc = "idle", !.answer = q ] \in Caller
    BY DEF Typed, Caller
  <2>2. Caller' = Caller
    BY <1>6 DEF Caller
  <2>3. cl' = [cl EXCEPT ![c] = [ cl[c] EXCEPT !.pc = "idle", !.answer = q ]]
    BY <1>7
  <2>4. cl' \in [ Callers -> Caller' ]
    BY <2>1, <2>2, <2>3 DEF Typed
  <2> QED
    BY <1>6, <1>7, <2>4 DEF Typed
<1>10. HasRequest' /\ OwnAnswer'
  BY <1>2, <1>8 DEF HasRequest, OwnAnswer
<1>11. OneLine' /\ OneServer'
  BY <1>1, <1>5, <1>6, <1>7 DEF OneLine, OneServer, EmptyPipes, Carries
<1>12. Waiting' /\ Quiet' /\ NoneAlive'
  BY <1>2, <1>5, <1>6, <1>7, <1>8
     DEF Waiting, Quiet, NoneAlive, AwaitsAnswer, Running, EmptyPipes
<1> QED
  BY <1>9, <1>10, <1>11, <1>12

LEMMA CloseStep ==
  ASSUME IInv, OneAtATime', NEW c \in Callers, Close(c)
  PROVE  IInv'
<1> USE DEF IInv
<1> DEFINE v == [ servers[process] EXCEPT !.alive = FALSE ]
<1>1. /\ cl[c].pc = "idle" /\ process # 0 /\ process \in DOMAIN servers
      /\ servers' = [servers EXCEPT ![process] = v]
      /\ cl' = [cl EXCEPT ![c].pc = "closing"] /\ process' = process /\ crashes' = crashes
  BY DEF Close, Goto, Typed
<1>2. calls' \in 0..MaxCalls
  BY McpAssumption DEF Close, Typed
<1>3. /\ cl'[c].pc = "closing" /\ cl'[c].request = cl[c].request
      /\ cl'[c].answer = cl[c].answer
      /\ \A d \in Callers : d # c => cl[d].pc = "idle" /\ cl'[d] = cl[d]
  BY <1>1 DEF OneAtATime, Typed, Caller
<1>4. servers[process] \in Server
  BY <1>1 DEF Typed
<1>5. /\ v \in Server /\ v.alive = FALSE
      /\ v.in = servers[process].in /\ v.out = servers[process].out
  BY <1>4 DEF Server
<1> HIDE DEF v
<1>6. /\ servers' \in Seq(Server) /\ DOMAIN servers' = DOMAIN servers
      /\ Len(servers') = Len(servers) /\ servers'[process] = v
      /\ \A s \in DOMAIN servers : s # process => servers'[s] = servers[s]
  BY <1>1, <1>5 DEF Typed
<1>7. Typed'
  BY <1>1, <1>2, <1>6 DEF Typed, Caller
<1>8. HasRequest' /\ OwnAnswer'
  BY <1>3 DEF HasRequest, OwnAnswer
<1>9. OneLine'
  BY <1>1, <1>5, <1>6 DEF OneLine, EmptyPipes, Carries
<1>10. \A s \in DOMAIN servers' : ~ servers'[s].alive
  BY <1>5, <1>6 DEF OneServer
<1>11. OneServer' /\ NoneAlive'
  BY <1>10 DEF OneServer, NoneAlive
<1>12. Waiting' /\ Quiet'
  BY <1>1, <1>3, <1>5, <1>6 DEF Waiting, Quiet, AwaitsAnswer, Running
<1> QED
  BY <1>7, <1>8, <1>9, <1>11, <1>12

LEMMA ForgetStep ==
  ASSUME IInv, OneAtATime, NEW c \in Callers, Forget(c)
  PROVE  IInv'
<1> USE DEF IInv
<1>1. /\ cl[c].pc = "closing" /\ cl' = [cl EXCEPT ![c].pc = "idle"]
      /\ process' = 0 /\ servers' = servers /\ calls' = calls /\ crashes' = crashes
  BY DEF Forget, Goto, Bounds
<1>2. /\ cl'[c].pc = "idle" /\ cl'[c].request = cl[c].request
      /\ cl'[c].answer = cl[c].answer
      /\ \A d \in Callers : d # c => cl[d].pc = "idle" /\ cl'[d] = cl[d]
  BY <1>1 DEF OneAtATime, Typed, Caller
<1>3. Typed'
  <2>1. Caller' = Caller /\ Len(servers) \in Nat
    BY <1>1 DEF Caller, Typed
  <2>2. cl' \in [ Callers -> Caller ]
    BY <1>1 DEF Typed, Caller
  <2> QED
    BY <1>1, <2>1, <2>2 DEF Typed
<1>4. HasRequest' /\ OwnAnswer' /\ OneLine'
  BY <1>1, <1>2 DEF HasRequest, OwnAnswer, OneLine
<1>5. OneServer'
  BY <1>1 DEF OneServer, NoneAlive
<1>6. Waiting' /\ Quiet' /\ NoneAlive'
  BY <1>1, <1>2 DEF Waiting, Quiet, NoneAlive, AwaitsAnswer, Running
<1> QED
  BY <1>3, <1>4, <1>5, <1>6

LEMMA AnswerStep ==
  ASSUME IInv, NEW s \in DOMAIN servers, Answer(s)
  PROVE  IInv'
<1> USE DEF IInv
<1>1. servers[s].alive /\ servers[s].in # <<>> /\ servers[s] \in Server
      /\ cl' = cl /\ process' = process /\ calls' = calls /\ crashes' = crashes
  BY DEF Answer, Bounds, Typed
<1>2. s = process /\ Running
  BY <1>1 DEF OneServer, Running, Typed
<1>3. PICK q \in Requests : Carries(servers[s], q)
  BY <1>1 DEF OneLine, EmptyPipes
<1> DEFINE v == [ servers[s] EXCEPT !.in = <<>>, !.out = << q >> ]
<1>4. servers' = [servers EXCEPT ![s] = v]
  <2>1. servers[s].in = << q >> /\ servers[s].out = <<>>
    BY <1>1, <1>3 DEF Carries
  <2> QED
    BY <2>1, Lines DEF Answer
<1>5. << q >> \in Seq(Requests) /\ <<>> \in Seq(Requests)
  OBVIOUS
<1>6. /\ v \in Server /\ v.alive = servers[s].alive /\ v.in = <<>> /\ v.out = << q >>
  <2>1. v \in Server
    BY <1>1, <1>5 DEF Server
  <2> QED
    BY <1>1, <2>1 DEF Server
<1> HIDE DEF v
<1>7. /\ servers' \in Seq(Server) /\ DOMAIN servers' = DOMAIN servers
      /\ Len(servers') = Len(servers) /\ servers'[s] = v
      /\ \A r \in DOMAIN servers : r # s => servers'[r] = servers[r]
  BY <1>4, <1>6 DEF Typed
<1>8. Typed'
  BY <1>1, <1>7 DEF Typed, Caller
<1>9. HasRequest' /\ OwnAnswer'
  BY <1>1 DEF HasRequest, OwnAnswer
<1>10. OneLine' /\ OneServer' /\ NoneAlive'
  BY <1>1, <1>6, <1>7 DEF OneLine, OneServer, NoneAlive, EmptyPipes, Carries
<1>11. ASSUME NEW c \in Callers, AwaitsAnswer(c) PROVE cl[c].request = q
  <2>1. Carries(servers[process], cl[c].request)
    BY <1>11 DEF Waiting
  <2> QED
    BY <1>1, <1>2, <1>3, <2>1 DEF Carries
<1>12. Waiting'
  BY <1>1, <1>2, <1>6, <1>7, <1>11 DEF Waiting, AwaitsAnswer, Carries
<1>13. Quiet'
  BY <1>1, <1>2 DEF Quiet, AwaitsAnswer, EmptyPipes
<1> QED
  BY <1>8, <1>9, <1>10, <1>12, <1>13

LEMMA CrashStep ==
  ASSUME IInv, NEW s \in DOMAIN servers, Crash(s)
  PROVE  IInv'
<1> USE DEF IInv
<1> DEFINE v == [ servers[s] EXCEPT !.alive = FALSE ]
<1>1. /\ servers' = [servers EXCEPT ![s] = v] /\ servers[s] \in Server
      /\ cl' = cl /\ process' = process /\ calls' = calls
  BY DEF Crash, Typed
<1>2. crashes' \in 0..MaxCrashes
  BY McpAssumption DEF Crash, Typed
<1>3. /\ v \in Server /\ v.alive = FALSE
      /\ v.in = servers[s].in /\ v.out = servers[s].out
  BY <1>1 DEF Server
<1> HIDE DEF v
<1>4. /\ servers' \in Seq(Server) /\ DOMAIN servers' = DOMAIN servers
      /\ Len(servers') = Len(servers) /\ servers'[s] = v
      /\ \A r \in DOMAIN servers : r # s => servers'[r] = servers[r]
  BY <1>1, <1>3 DEF Typed
<1>5. Typed'
  BY <1>1, <1>2, <1>4 DEF Typed, Caller
<1>6. HasRequest' /\ OwnAnswer'
  BY <1>1 DEF HasRequest, OwnAnswer
<1>7. OneLine' /\ OneServer' /\ NoneAlive'
  BY <1>1, <1>3, <1>4 DEF OneLine, OneServer, NoneAlive, EmptyPipes, Carries
<1>8. Waiting' /\ Quiet'
  BY <1>1, <1>3, <1>4 DEF Waiting, Quiet, Running, AwaitsAnswer, EmptyPipes, Carries, Typed
<1> QED
  BY <1>5, <1>6, <1>7, <1>8

-----------------------------------------------------------------------------
(* The theorems *)

LEMMA IInvStep == IInv /\ OneAtATime /\ OneAtATime' /\ [Next]_vars => IInv'
<1> SUFFICES ASSUME IInv, OneAtATime, OneAtATime', [Next]_vars PROVE IInv'
  OBVIOUS
<1>1. ASSUME NEW c \in Callers, Call(c) \/ Close(c) PROVE IInv'
  BY <1>1, CallStep, CloseStep
<1>2. ASSUME NEW c \in Callers, Start(c) PROVE IInv'
  <2>1. ~ AwaitsAnswer(c) /\ cl[c].pc = "start"
    BY <1>2 DEF Start, AwaitsAnswer
  <2> QED
    BY <1>2, <2>1, MoveStep DEF Start
<1>3. ASSUME NEW c \in Callers, WriteFails(c) PROVE IInv'
  BY <1>3, MoveStep DEF WriteFails, Fails, AwaitsAnswer
<1>4. ASSUME NEW c \in Callers, Eof(c) PROVE IInv'
  <2>1. cl[c].pc = "reading" /\ cl[c].reads = process /\ ~ servers[process].alive
    BY <1>4 DEF Eof, IInv, Waiting, AwaitsAnswer
  <2> QED
    BY <1>4, <2>1, MoveStep DEF Eof, Fails, Running
<1>5. ASSUME NEW c \in Callers, Proceed(c) PROVE IInv'
  BY <1>2, <1>3, <1>4, <1>5, SpawnStep, WriteStep, AwaitStep, ReadLineStep, ForgetStep
     DEF Proceed
<1>6. ASSUME NEW s \in DOMAIN servers, Answer(s) \/ Crash(s) PROVE IInv'
  BY <1>6, AnswerStep, CrashStep
<1>7. CASE UNCHANGED vars
  BY <1>7 DEF vars, IInv, Typed, Caller, HasRequest, OneLine, EmptyPipes, Carries, Waiting,
              AwaitsAnswer, Quiet, Running, NoneAlive, OneServer, OwnAnswer
<1> QED
  BY <1>1, <1>5, <1>6, <1>7 DEF Next

LEMMA IInvHolds == Spec /\ []OneAtATime => []IInv
  BY IInvInit, IInvStep, PTL DEF Spec

\* A single caller cannot overlap with itself.
OneCaller == \A c, d \in Callers : c = d

THEOREM OneCallerAtATime ==
  ASSUME OneCaller
  PROVE  Spec => []OneAtATime
<1>1. OneAtATime
  BY OneCaller DEF OneCaller, OneAtATime
<1> QED
  BY <1>1, PTL

\* All variables stay in their domains, and no pipe ever carries a line twice or
\* out of the order of the calls.
THEOREM McpTypes == Spec /\ []OneAtATime => []TypeOK
  BY IInvHolds, IInvTypeOK, PTL

\* A caller gets the answer to its own request or a failure, whatever servers die
\* and are restarted or closed in between (lines 154-195).
THEOREM AnswersOwn == Spec /\ []OneAtATime => []OwnAnswer
<1>1. IInv => OwnAnswer
  BY DEF IInv
<1> QED
  BY <1>1, IInvHolds, PTL

\* No answer is left over that the next request would take for its own (line 175).
THEOREM PipesInSync == Spec /\ []OneAtATime => []InSync
<1>1. IInv => InSync
  BY DEF IInv, Quiet, AwaitsAnswer, EmptyPipes, InSync
<1> QED
  BY <1>1, IInvHolds, PTL

\* Restarts and closings leak no server process (lines 129-148).
THEOREM NoServerLeaked == Spec /\ []OneAtATime => []OneServer
<1>1. IInv => OneServer
  BY DEF IInv
<1> QED
  BY <1>1, IInvHolds, PTL
=============================================================================
