------------------------------ MODULE McpStdio ------------------------------
(***************************************************************************)
(* StdioMCPClient of integrations/mcp/client.py: threads that call tools   *)
(* of one server process over its stdin and stdout, restart it when it has *)
(* died, and close the client.  A request is answered by position: the     *)
(* client takes the next line as its answer, and no id is compared.        *)
(*                                                                         *)
(* A message is the number of the request it belongs to; an error response *)
(* is an answer.  The server (external) answers every request with one     *)
(* line, in order, or dies.  call_tool turns whatever send_request raises  *)
(* into a failed Observation (answer 0).                                   *)
(***************************************************************************)
EXTENDS Naturals, Sequences

CONSTANTS
  Callers,    \* threads that use the client
  MaxCalls,   \* bound: calls of call_tool() and close()
  MaxCrashes  \* bound: deaths of a server

ASSUME McpAssumption == MaxCalls \in Nat /\ MaxCrashes \in Nat

VARIABLES
  process,  \* _process: which of the servers, 0 for None
  servers,  \* the processes spawned so far: alive, and the two pipes
  cl,       \* per caller: pc, its request, the process it reads, its answer
  calls, crashes

vars == << process, servers, cl, calls, crashes >>

Requests == 1..MaxCalls
Fresh    == [ alive |-> TRUE, in |-> <<>>, out |-> <<>> ]
Idle     == [ pc |-> "idle", request |-> 0, reads |-> 0, answer |-> 0 ]

Running == process # 0 /\ servers[process].alive

Bounds == UNCHANGED << calls, crashes >>

Goto(c, label) == cl' = [cl EXCEPT ![c].pc = label]

\* send_request raises.
Fails(c) == Goto(c, "idle") /\ UNCHANGED << process, servers >> /\ Bounds

-----------------------------------------------------------------------------
(* call_tool and send_request *)

Call(c) ==
  /\ cl[c].pc = "idle" /\ calls < MaxCalls
  /\ calls' = calls + 1
  /\ cl' = [cl EXCEPT ![c] = [ pc |-> "start", request |-> calls', reads |-> 0,
                               answer |-> 0 ]]
  /\ UNCHANGED << process, servers, crashes >>

\* Seeded fault: start() does not look for a server that is there.
StartAlways(c) ==
  /\ cl[c].pc = "start"
  /\ Goto(c, "spawn")
  /\ UNCHANGED << process, servers >> /\ Bounds

\* start(): the look, and the Popen it leads to.
Start(c) ==
  /\ cl[c].pc = "start"
  /\ Goto(c, IF Running THEN "write" ELSE "spawn")
  /\ UNCHANGED << process, servers >> /\ Bounds

Spawn(c) ==
  /\ cl[c].pc = "spawn"
  /\ servers' = Append(servers, Fresh)
  /\ process' = Len(servers) + 1
  /\ Goto(c, "write")
  /\ Bounds

\* Seeded fault: the line is written again when the pipe is slow.
Sent(c) == << cl[c].request, cl[c].request >>

Line(c) == << cl[c].request >>

Write(c) ==
  /\ cl[c].pc = "write" /\ Running
  /\ servers' = [servers EXCEPT ![process].in = @ \o Line(c)]
  /\ Goto(c, "read")
  /\ UNCHANGED process /\ Bounds

\* A broken pipe, or a client closed in the meantime.
WriteFails(c) == cl[c].pc = "write" /\ ~ Running /\ Fails(c)

\* readline() on what is the process by now.
Await(c) ==
  /\ cl[c].pc = "read"
  /\ IF process = 0 THEN Fails(c)
     ELSE /\ cl' = [cl EXCEPT ![c].pc = "reading", ![c].reads = process]
          /\ UNCHANGED << process, servers >> /\ Bounds

\* Seeded fault: the timeout is honoured by giving up the wait.
ReadLineOrGiveUp(c) ==
  LET s == cl[c].reads
  IN /\ cl[c].pc = "reading"
     /\ \/ /\ servers[s].out # <<>>
           /\ servers' = [servers EXCEPT ![s].out = Tail(@)]
           /\ cl' = [cl EXCEPT ![c].pc = "idle", ![c].answer = Head(servers[s].out)]
        \/ Goto(c, "idle") /\ UNCHANGED servers
     /\ UNCHANGED process /\ Bounds

ReadLine(c) ==
  LET s == cl[c].reads
  IN /\ cl[c].pc = "reading" /\ servers[s].out # <<>>
     /\ servers' = [servers EXCEPT ![s].out = Tail(@)]
     /\ cl' = [cl EXCEPT ![c].pc = "idle", ![c].answer = Head(servers[s].out)]
     /\ UNCHANGED process /\ Bounds

\* Seeded fault: an empty line is taken for a pause.
EofIgnored(c) == FALSE

Eof(c) ==
  /\ cl[c].pc = "reading"
  /\ ~ servers[cl[c].reads].alive /\ servers[cl[c].reads].out = <<>>
  /\ Fails(c)

-----------------------------------------------------------------------------
(* close(): the process is made to end, then forgotten *)

Close(c) ==
  /\ cl[c].pc = "idle" /\ calls < MaxCalls
  /\ process # 0
  /\ calls' = calls + 1
  /\ servers' = [servers EXCEPT ![process].alive = FALSE]
  /\ Goto(c, "closing")
  /\ UNCHANGED << process, crashes >>

Forget(c) ==
  /\ cl[c].pc = "closing"
  /\ process' = 0
  /\ Goto(c, "idle")
  /\ UNCHANGED servers /\ Bounds

-----------------------------------------------------------------------------
(* The server processes *)

Answer(s) ==
  /\ servers[s].alive /\ servers[s].in # <<>>
  /\ servers' = [servers EXCEPT ![s].in = Tail(@),
                                ![s].out = Append(@, Head(servers[s].in))]
  /\ UNCHANGED << process, cl >> /\ Bounds

\* What it has written can still be read.
Crash(s) ==
  /\ servers[s].alive /\ crashes < MaxCrashes
  /\ crashes' = crashes + 1
  /\ servers' = [servers EXCEPT ![s].alive = FALSE]
  /\ UNCHANGED << process, cl, calls >>

-----------------------------------------------------------------------------
Init ==
  /\ process = 0
  /\ servers = <<>>
  /\ cl = [c \in Callers |-> Idle]
  /\ calls = 0 /\ crashes = 0

Proceed(c) == \/ Start(c) \/ Spawn(c) \/ Write(c) \/ WriteFails(c) \/ Await(c)
              \/ ReadLine(c) \/ Eof(c) \/ Forget(c)

Next == \/ \E c \in Callers : Call(c) \/ Close(c) \/ Proceed(c)
        \/ \E s \in DOMAIN servers : Answer(s) \/ Crash(s)

\* Threads run, and a server that lives answers; nothing bounds how long it
\* takes, for the timeout of the client is never read.
Spec == /\ Init /\ [][Next]_vars
        /\ \A c \in Callers : WF_vars(Proceed(c))
        /\ WF_vars(\E s \in DOMAIN servers : Answer(s))

-----------------------------------------------------------------------------
(* Properties *)

Increasing(q) == \A i, j \in DOMAIN q : i < j => q[i] < q[j]

\* Every variable in its domain; a pipe carries a request or its answer once,
\* in the order of the calls.
TypeOK ==
  /\ process \in 0..Len(servers)
  /\ \A s \in DOMAIN servers :
       /\ servers[s].alive \in BOOLEAN
       /\ servers[s].in \in Seq(Requests) /\ servers[s].out \in Seq(Requests)
       /\ Increasing(servers[s].out \o servers[s].in)
  /\ cl \in [ Callers ->
       [ pc : { "idle", "start", "spawn", "write", "read", "reading", "closing" },
         request : 0..MaxCalls, reads : 0..Len(servers), answer : 0..MaxCalls ] ]
  /\ calls \in 0..MaxCalls /\ crashes \in 0..MaxCrashes

\* A caller gets the answer to its own request or a failure, whatever crashes,
\* restarts and closings lie between (lines 154-195).
OwnAnswer == \A c \in Callers : cl[c].answer \in { 0, cl[c].request }

\* Between calls nothing is left in the pipes of a server that goes on living,
\* for it would be taken for the answer to the next request (line 175).
InSync ==
  (\A c \in Callers : cl[c].pc = "idle") /\ Running =>
    servers[process].in = <<>> /\ servers[process].out = <<>>

\* The client knows every server that is alive: none is leaked by a restart
\* (lines 129-137, 143-148).
OneServer == \A s \in DOMAIN servers : servers[s].alive => s = process

\* Every call comes back if the server answers or dies (lines 175-182).
CallsEnd == \A c \in Callers : cl[c].pc # "idle" ~> cl[c].pc = "idle"
=============================================================================
