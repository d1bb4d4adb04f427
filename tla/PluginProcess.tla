---------------------------- MODULE PluginProcess ----------------------------
(***************************************************************************)
(* The pluginprocess library (src/libs/pluginprocess/pluginprocess.c): a   *)
(* plugin runs in a child process, and every call of it is sent over       *)
(* pipes.                                                                  *)
(*                                                                         *)
(* Pipes are what the kernel makes of them: they hold Capacity pieces, a   *)
(* writer waits when one is full and gives up when no process can read it, *)
(* a reader waits when it is empty and sees the end when no process can    *)
(* write it.  fork() hands all open ends of all pipes down to the child.   *)
(* Key sets travel in pieces; a command key set, which is small, is one.   *)
(***************************************************************************)
EXTENDS Integers, Sequences

CONSTANTS
    Handles,         \* plugin handles of the parent process
    MaxChildren,     \* bound on the child processes it forks
    MaxCalls,        \* bound on the calls of plugins
    PayloadLength,   \* the pieces of a payload key set
    Capacity,        \* what a pipe holds
    Threads,         \* handles are used by threads of their own
    Crashes,         \* which of {"parent", "child"} may end anywhere
    NoChild, Parent

Children == 1 .. MaxChildren

ASSUME PluginProcessAssumption ==
    /\ MaxChildren \in Nat /\ MaxCalls \in Nat
    /\ PayloadLength \in Nat \ {0} /\ Capacity \in Nat \ {0}
    /\ Threads \in BOOLEAN /\ Crashes \subseteq {"parent", "child"}
    /\ NoChild \notin Children /\ Parent \notin Children /\ Handles \intersect Children = {}

Pipes    == {"parentCommand", "parentPayload", "childCommand", "childPayload"}
Ends     == {"parentRead", "parentWrite", "childRead", "childWrite"}

\* Command and payload pipes of a direction are opened and closed together.
ReadEnd(pipe)  == IF pipe \in {"parentCommand", "parentPayload"} THEN "parentRead" ELSE "childRead"
WriteEnd(pipe) == IF pipe \in {"parentCommand", "parentPayload"} THEN "parentWrite" ELSE "childWrite"
Length(pipe)   == IF pipe \in {"parentPayload", "childPayload"} THEN PayloadLength ELSE 1

VARIABLES
    ends,      \* which ends of which child's pipes a process has open
    pipes,     \* what is in the pipes of a child
    written,   \* how much a handle or a child has written of a key set
    pc,        \* of each handle
    child,     \* the child of a handle's ElektraPluginProcess
    counter,   \* its counter
    calls,     \* the number of calls so far, which tells them apart
    request,   \* the call under way
    answer,    \* what came back for it
    status,    \* of each child
    opened,    \* the counter of its command loop
    result,    \* of the plugin's function it has executed
    received,  \* the request it works on
    alive      \* the parent process is

parentVars == <<pc, child, counter, calls, request, answer>>
childVars  == <<status, opened, result, received>>
vars == <<ends, pipes, written, parentVars, childVars, alive>>

\* A call of open, close or any other function of the plugin (get, set, error,
\* commit, init); payload says whether there is a key set to send.
Requests == [id : 0 .. MaxCalls, cmd : {"open", "close", "call"}, payload : BOOLEAN]
NoRequest == [id |-> 0, cmd |-> "close", payload |-> FALSE]

Pieces == [of : Requests, no : 1 .. PayloadLength, result : {"none", "success", "error"}]
Piece(req, n, res) == [of |-> req, no |-> n, result |-> res]

\* The pieces read of a command key set and of a payload.
Messages == [command : Seq(Pieces), payload : Seq(Pieces)]
Nothing  == [command |-> <<>>, payload |-> <<>>]

TypeOK ==
    /\ ends \in [Children \union {Parent} -> SUBSET (Children \X Ends)]
    /\ pipes \in [Children -> [Pipes -> Seq(Pieces)]]
    /\ \A c \in Children, n \in Pipes : Len(pipes[c][n]) <= Capacity
    /\ written \in [Handles \union Children -> 0 .. PayloadLength - 1]
    /\ pc \in [Handles -> {"idle", "init", "fork", "closeEnds", "sendCommand", "sendPayload",
                           "readResult", "readPayload", "return"}]
    /\ child \in [Handles -> Children \union {NoChild}]
    /\ counter \in [Handles -> 0 .. MaxCalls] /\ calls \in 0 .. MaxCalls
    /\ request \in [Handles -> Requests] /\ answer \in [Handles -> Messages]
    /\ status \in [Children -> {"none", "start", "readCommand", "readPayload", "execute",
                                "writeResult", "writePayload", "ended"}]
    /\ opened \in [Children -> 0 .. MaxCalls]
    /\ result \in [Children -> {"none", "success", "error"}]
    /\ received \in [Children -> Messages]
    /\ alive \in BOOLEAN

Init ==
    /\ ends = [a \in Children \union {Parent} |-> {}]
    /\ pipes = [c \in Children |-> [n \in Pipes |-> <<>>]]
    /\ written = [a \in Handles \union Children |-> 0]
    /\ pc = [h \in Handles |-> "idle"] /\ child = [h \in Handles |-> NoChild]
    /\ counter = [h \in Handles |-> 0] /\ calls = 0
    /\ request = [h \in Handles |-> NoRequest] /\ answer = [h \in Handles |-> Nothing]
    /\ status = [c \in Children |-> "none"] /\ opened = [c \in Children |-> 0]
    /\ result = [c \in Children |-> "none"] /\ received = [c \in Children |-> Nothing]
    /\ alive = TRUE

-----------------------------------------------------------------------------
(***************************************************************************)
(* Pipes, and the dump plugin that writes and reads key sets.              *)
(***************************************************************************)
CanRead(c, pipe)  == \E a \in DOMAIN ends : <<c, ReadEnd(pipe)>> \in ends[a]
CanWrite(c, pipe) == \E a \in DOMAIN ends : <<c, WriteEnd(pipe)>> \in ends[a]

\* elektraDumpSet: a writes the next piece, or gives up on a broken pipe.
DumpSet(a, c, pipe, req, res) ==
    /\ CanRead(c, pipe) => Len(pipes[c][pipe]) < Capacity
    /\ written' = [written EXCEPT ![a] =
                     IF CanRead(c, pipe) THEN (@ + 1) % Length(pipe) ELSE 0]
    /\ pipes' = IF CanRead(c, pipe)
                  THEN [pipes EXCEPT ![c][pipe] = Append(@, Piece(req, written[a] + 1, res))]
                  ELSE pipes

\* elektraDumpGet: the next piece, if there is any to come.  With the end mark the
\* buffer is freed, and what it has got behind.
EndMark(c, pipe) == pipes[c][pipe] = <<>> \/ Head(pipes[c][pipe]).no = Length(pipe)
DumpGet(c, pipe) ==
    /\ pipes[c][pipe] # <<>> \/ ~CanWrite(c, pipe)
    /\ pipes' = [pipes EXCEPT ![c][pipe] = IF EndMark(c, pipe) THEN <<>> ELSE Tail(@)]
    /\ UNCHANGED written

\* What has been read with the next piece.
With(got, c, pipe) == IF pipes[c][pipe] = <<>> THEN got ELSE Append(got, Head(pipes[c][pipe]))

-----------------------------------------------------------------------------
(***************************************************************************)
(* The parent process.                                                     *)
(***************************************************************************)
Goto(h, label) == pc' = [pc EXCEPT ![h] = label]

\* A call of the plugin: the number of calls is bounded, and without threads the
\* calls of one handle wait for those of another.
Begin(h) ==
    /\ alive /\ pc[h] = "idle" /\ calls < MaxCalls
    /\ Threads \/ \A g \in Handles : pc[g] = "idle"
    /\ calls' = calls + 1

Request(h, cmd, payload) ==
    request' = [request EXCEPT ![h] = [id |-> calls + 1, cmd |-> cmd, payload |-> payload]]

\* The open function of a plugin: a child is forked if there is none.
Open(h) ==
    /\ Begin(h)
    /\ Request(h, "open", FALSE)
    /\ IF child[h] = NoChild THEN Goto(h, "init") /\ UNCHANGED counter
       ELSE Goto(h, "sendCommand") /\ counter' = [counter EXCEPT ![h] = @ + 1]
    /\ UNCHANGED <<ends, pipes, written, child, answer, childVars, alive>>

\* elektraPluginProcessInit: the pipes are made, if the next child is c, ...
MakePipes(h, c) ==
    /\ alive /\ pc[h] = "init"
    /\ status[c] = "none" /\ \A g \in Handles : child[g] # c
    /\ \A d \in Children : d < c => status[d] # "none" \/ \E g \in Handles : child[g] = d
    /\ ends' = [ends EXCEPT ![Parent] = @ \union ({c} \X Ends)]
    /\ child' = [child EXCEPT ![h] = c]
    /\ Goto(h, "fork")
    /\ UNCHANGED <<pipes, written, counter, calls, request, answer, childVars, alive>>

\* ... then comes fork(), ...
Fork(h) ==
    /\ alive /\ pc[h] = "fork"
    /\ ends' = [ends EXCEPT ![child[h]] = ends[Parent]]
    /\ status' = [status EXCEPT ![child[h]] = "start"]
    /\ Goto(h, "closeEnds")
    /\ UNCHANGED <<pipes, written, child, counter, calls, request, answer, opened, result,
                   received, alive>>

UnusedByParent == {"parentRead", "childWrite"}

CloseEndsKept(h) ==
    /\ alive /\ pc[h] = "closeEnds"
    /\ counter' = [counter EXCEPT ![h] = @ + 1]
    /\ Goto(h, "sendCommand")
    /\ UNCHANGED <<ends, pipes, written, child, calls, request, answer, childVars, alive>>

\* ... and the parent closes the ends of the child.  elektraPluginProcessOpen
\* sends the first request.
CloseEnds(h) ==
    /\ alive /\ pc[h] = "closeEnds"
    /\ ends' = [ends EXCEPT ![Parent] = @ \ ({child[h]} \X UnusedByParent)]
    /\ counter' = [counter EXCEPT ![h] = @ + 1]
    /\ Goto(h, "sendCommand")
    /\ UNCHANGED <<pipes, written, child, calls, request, answer, childVars, alive>>

\* fork() fails, and all ends are closed again.  At "init" a pipe cannot be made: the
\* descriptors of those not made yet are read uninitialised then, and of the outcomes
\* the one is kept in which none of these numbers is an open descriptor.  (The same
\* clean-up without dump, in which the pid is uninitialised as well, is left out.)
InitFails(h) ==
    /\ alive /\ pc[h] \in {"init", "fork"}
    /\ ends' = [ends EXCEPT ![Parent] = @ \ ({child[h]} \X Ends)]
    /\ child' = [child EXCEPT ![h] = NoChild]
    /\ request' = [request EXCEPT ![h] = NoRequest]
    /\ Goto(h, "idle")
    /\ UNCHANGED <<pipes, written, counter, calls, answer, childVars, alive>>

\* elektraPluginProcessSend for all the other functions of a plugin.  Without a key
\* set it is commit or init, the others are refused at once.
Call(h, payload) ==
    /\ Begin(h) /\ child[h] # NoChild
    /\ Request(h, "call", payload)
    /\ Goto(h, "sendCommand")
    /\ UNCHANGED <<ends, pipes, written, child, counter, answer, childVars, alive>>

\* elektraPluginProcessClose, up to the call of elektraPluginProcessSend.
Close(h) ==
    /\ Begin(h) /\ child[h] # NoChild /\ counter[h] > 0
    /\ Request(h, "close", FALSE)
    /\ counter' = [counter EXCEPT ![h] = @ - 1]
    /\ Goto(h, "sendCommand")
    /\ UNCHANGED <<ends, pipes, written, child, answer, childVars, alive>>

SendCommand(h) ==
    /\ alive /\ pc[h] = "sendCommand"
    /\ DumpSet(h, child[h], "parentCommand", request[h], "none")
    /\ Goto(h, IF request[h].payload THEN "sendPayload" ELSE "readResult")
    /\ UNCHANGED <<ends, child, counter, calls, request, answer, childVars, alive>>

SendPayload(h) ==
    /\ alive /\ pc[h] = "sendPayload"
    /\ DumpSet(h, child[h], "parentPayload", request[h], "none")
    /\ Goto(h, IF written'[h] = 0 THEN "readResult" ELSE "sendPayload")
    /\ UNCHANGED <<ends, child, counter, calls, request, answer, childVars, alive>>

ReadResult(h) ==
    /\ alive /\ pc[h] = "readResult"
    /\ DumpGet(child[h], "childCommand")
    /\ answer' = [answer EXCEPT ![h].command = With(@, child[h], "childCommand")]
    /\ Goto(h, IF request[h].payload THEN "readPayload" ELSE "return")
    /\ UNCHANGED <<ends, child, counter, calls, request, childVars, alive>>

\* What dump returns is not looked at.
ReadPayload(h) ==
    /\ alive /\ pc[h] = "readPayload"
    /\ DumpGet(child[h], "childPayload")
    /\ answer' = [answer EXCEPT ![h].payload = With(@, child[h], "childPayload")]
    /\ Goto(h, IF EndMark(child[h], "childPayload") THEN "return" ELSE "readPayload")
    /\ UNCHANGED <<ends, child, counter, calls, request, childVars, alive>>

\* After the last close the pipes are closed.
Return(h) ==
    /\ alive /\ pc[h] = "return"
    /\ IF request[h].cmd = "close" /\ counter[h] = 0
         THEN /\ ends' = [ends EXCEPT ![Parent] =
                            @ \ ({child[h]} \X (Ends \ UnusedByParent))]
              /\ child' = [child EXCEPT ![h] = NoChild]
         ELSE UNCHANGED <<ends, child>>
    /\ request' = [request EXCEPT ![h] = NoRequest]
    /\ answer' = [answer EXCEPT ![h] = Nothing]
    /\ Goto(h, "idle")
    /\ UNCHANGED <<pipes, written, counter, calls, childVars, alive>>

\* The kernel closes what a process has open.
ParentCrash ==
    /\ alive /\ "parent" \in Crashes
    /\ alive' = FALSE
    /\ ends' = [ends EXCEPT ![Parent] = {}]
    /\ UNCHANGED <<pipes, written, parentVars, childVars>>

-----------------------------------------------------------------------------
(***************************************************************************)
(* A child process.                                                        *)
(***************************************************************************)

ChildStartKeepsEnds(c) ==
    /\ status[c] = "start"
    /\ status' = [status EXCEPT ![c] = "readCommand"]
    /\ UNCHANGED <<ends, pipes, written, parentVars, opened, result, received, alive>>

\* In elektraPluginProcessInit the child closes the ends of the parent, but none
\* of what it has got of other children's pipes.
ChildStart(c) ==
    /\ status[c] = "start"
    /\ ends' = [ends EXCEPT ![c] = @ \ ({c} \X (Ends \ UnusedByParent))]
    /\ status' = [status EXCEPT ![c] = "readCommand"]
    /\ UNCHANGED <<pipes, written, parentVars, opened, result, received, alive>>

\* _Exit, or the end by a signal.
End(c) ==
    /\ ends' = [ends EXCEPT ![c] = {}]
    /\ status' = [status EXCEPT ![c] = "ended"]
    /\ opened' = [opened EXCEPT ![c] = 0]
    /\ result' = [result EXCEPT ![c] = "none"]
    /\ received' = [received EXCEPT ![c] = Nothing]

ReadCommand(c) ==
    /\ status[c] = "readCommand"
    /\ DumpGet(c, "parentCommand")
    /\ IF pipes[c]["parentCommand"] = <<>> THEN End(c)
       ELSE /\ received' = [received EXCEPT ![c].command = With(@, c, "parentCommand")]
            /\ status' = [status EXCEPT ![c] =
                 IF Head(pipes[c]["parentCommand"]).of.payload THEN "readPayload" ELSE "execute"]
            /\ UNCHANGED <<ends, opened, result>>
    /\ UNCHANGED <<parentVars, alive>>

ReadRequestPayloadOnce(c) ==
    /\ status[c] = "readPayload"
    /\ DumpGet(c, "parentPayload")
    /\ received' = [received EXCEPT ![c].payload = With(@, c, "parentPayload")]
    /\ status' = [status EXCEPT ![c] = "execute"]
    /\ UNCHANGED <<ends, parentVars, opened, result, alive>>

ReadRequestPayload(c) ==
    /\ status[c] = "readPayload"
    /\ DumpGet(c, "parentPayload")
    /\ received' = [received EXCEPT ![c].payload = With(@, c, "parentPayload")]
    /\ status' = [status EXCEPT ![c] = IF EndMark(c, "parentPayload") THEN "execute" ELSE @]
    /\ UNCHANGED <<ends, parentVars, opened, result, alive>>

Task(c) == received[c].command[1].of

ExecuteUncounted(c, res) ==
    /\ status[c] = "execute"
    /\ result' = [result EXCEPT ![c] = res]
    /\ opened' = [opened EXCEPT ![c] = IF Task(c).cmd = "open" /\ res = "success" THEN @ + 1
                                       ELSE IF Task(c).cmd = "close" THEN @ - 1 ELSE @]
    /\ status' = [status EXCEPT ![c] = "writeResult"]
    /\ UNCHANGED <<ends, pipes, written, parentVars, received, alive>>

\* The function of the plugin is called.
Execute(c, res) ==
    /\ status[c] = "execute"
    /\ result' = [result EXCEPT ![c] = res]
    /\ opened' = [opened EXCEPT ![c] = IF Task(c).cmd = "open" THEN @ + 1
                                       ELSE IF Task(c).cmd = "close" THEN @ - 1 ELSE @]
    /\ status' = [status EXCEPT ![c] = "writeResult"]
    /\ UNCHANGED <<ends, pipes, written, parentVars, received, alive>>

HandledKept(c) ==
    IF opened[c] = 0 THEN End(c)
    ELSE /\ status' = [status EXCEPT ![c] = "readCommand"]
         /\ result' = [result EXCEPT ![c] = "none"]
         /\ UNCHANGED <<ends, opened, received>>

\* The end of the loop: the key sets are freed.
Handled(c) ==
    IF opened[c] = 0 THEN End(c)
    ELSE /\ status' = [status EXCEPT ![c] = "readCommand"]
         /\ result' = [result EXCEPT ![c] = "none"]
         /\ received' = [received EXCEPT ![c] = Nothing]
         /\ UNCHANGED <<ends, opened>>

WriteResult(c) ==
    /\ status[c] = "writeResult"
    /\ DumpSet(c, c, "childCommand", Task(c), result[c])
    /\ IF ~Task(c).payload THEN Handled(c)
       ELSE /\ status' = [status EXCEPT ![c] = "writePayload"]
            /\ UNCHANGED <<ends, opened, result, received>>
    /\ UNCHANGED <<parentVars, alive>>

WritePayload(c) ==
    /\ status[c] = "writePayload"
    /\ DumpSet(c, c, "childPayload", Task(c), "none")
    /\ IF written'[c] = 0 THEN Handled(c)
       ELSE UNCHANGED <<ends, status, opened, result, received>>
    /\ UNCHANGED <<parentVars, alive>>

ChildCrash(c) ==
    /\ "child" \in Crashes /\ status[c] \notin {"none", "ended"}
    /\ End(c)
    /\ UNCHANGED <<pipes, written, parentVars, alive>>

-----------------------------------------------------------------------------
\* The steps of a call that has begun, and of a child.
HandleStep(h) ==
    \/ \E c \in Children : MakePipes(h, c)
    \/ Fork(h) \/ CloseEnds(h) \/ InitFails(h)
    \/ SendCommand(h) \/ SendPayload(h) \/ ReadResult(h) \/ ReadPayload(h) \/ Return(h)

ChildStep(c) ==
    \/ ChildStart(c) \/ ReadCommand(c) \/ ReadRequestPayload(c)
    \/ \E res \in {"success", "error"} : Execute(c, res)
    \/ WriteResult(c) \/ WritePayload(c)

Next ==
    \/ \E h \in Handles :
         \/ Open(h) \/ Close(h)
         \/ \E payload \in BOOLEAN : Call(h, payload)
         \/ HandleStep(h)
    \/ ParentCrash
    \/ \E c \in Children : ChildStep(c) \/ ChildCrash(c)

\* Processes and threads that can take a step are scheduled some time, and the
\* functions of the plugin return.
Fairness ==
    /\ \A h \in Handles : WF_vars(HandleStep(h))
    /\ \A c \in Children : WF_vars(ChildStep(c))

Spec == Init /\ [][Next]_vars /\ Fairness

-----------------------------------------------------------------------------
(***************************************************************************)
(* Properties.                                                             *)
(***************************************************************************)

\* Between calls a child that waits for commands has counted the same open and
\* close calls as elektraPluginProcessOpen and elektraPluginProcessClose, and nothing
\* of an earlier call is left in the pipes.
BetweenCalls ==
    alive => \A h \in Handles, c \in Children :
        pc[h] = "idle" /\ child[h] = c /\ status[c] = "readCommand" =>
            /\ opened[c] = counter[h]
            /\ \A n \in Pipes : pipes[c][n] = <<>>

\* What elektraPluginProcessSend reads belongs to the request it has sent.
OwnAnswers ==
    \A h \in Handles :
        /\ \A i \in DOMAIN answer[h].command : answer[h].command[i].of = request[h]
        /\ \A i \in DOMAIN answer[h].payload : answer[h].payload[i].of = request[h]

\* As long as the parent lives, the plugin gets the whole key set it was called with.
WholeRequests ==
    \A c \in Children :
        alive /\ status[c] = "execute" /\ Task(c).payload =>
            Len(received[c].payload) = PayloadLength

\* Every call returns, also if the child has died in the middle of it.
EveryCallReturns ==
    \A h \in Handles : pc[h] # "idle" ~> pc[h] = "idle" \/ ~alive

\* A child process ends when its handle was closed or the parent has ended.
ChildrenEnd ==
    \A c \in Children :
        (~alive \/ \A h \in Handles : child[h] # c) ~> status[c] \in {"none", "ended"}

\* An answer that is not an error has the whole key set of the plugin.
WholeAnswers ==
    \A h \in Handles :
        pc[h] = "return" /\ request[h].payload /\ answer[h].command # <<>>
          /\ answer[h].command[1].result = "success" => Len(answer[h].payload) = PayloadLength
=============================================================================
