-------------------------- MODULE PluginProcessInv ---------------------------
(***************************************************************************)
(* Why elektraPluginProcessSend and the command loop of the child stay in  *)
(* step: the inductive invariant of PluginProcess, for any number of       *)
(* handles, with or without threads, whichever processes crash.            *)
(***************************************************************************)
EXTENDS PluginProcess

\* The types of the variables, without the bounds on the children's counters and
\* on what the pipes hold.
Shape ==
    /\ ends \in [Children \union {Parent} -> SUBSET (Children \X Ends)]
    /\ pipes \in [Children -> [Pipes -> Seq(Pieces)]]
    /\ written \in [Handles \union Children -> 0 .. PayloadLength - 1]
    /\ pc \in [Handles -> {"idle", "init", "fork", "closeEnds", "sendCommand", "sendPayload",
                           "readResult", "readPayload", "return"}]
    /\ child \in [Handles -> Children \union {NoChild}]
    /\ counter \in [Handles -> Nat] /\ calls \in 0 .. MaxCalls
    /\ request \in [Handles -> Requests] /\ answer \in [Handles -> Messages]
    /\ status \in [Children -> {"none", "start", "readCommand", "readPayload", "execute",
                                "writeResult", "writePayload", "ended"}]
    /\ opened \in [Children -> Int]
    /\ result \in [Children -> {"none", "success", "error"}]
    /\ received \in [Children -> Messages]
    /\ alive \in BOOLEAN

Running(c) == status[c] \notin {"none", "ended"}
Quiet(c)   == \A n \in Pipes : pipes[c][n] = <<>>

\* A child that runs can read its requests and write its answers.
OwnEnds ==
    \A c \in Children : Running(c) => {<<c, "parentRead">>, <<c, "childWrite">>} \subseteq ends[c]

\* The parent process can write requests to all its children and read their
\* answers, and fork() hands down all ends.
ParentEnds ==
    \A h \in Handles, c \in Children : child[h] = c =>
        /\ {<<c, "parentWrite">>, <<c, "childRead">>} \subseteq ends[Parent]
        /\ pc[h] = "fork" => {c} \X Ends \subseteq ends[Parent]

\* No two handles talk to the same child.
OneHandle ==
    \A c \in Children, g \in Handles, h \in Handles : child[g] = c /\ child[h] = c => g = h

\* A child that runs has a handle, and one that does not run yet has nothing.
HandleOfChild ==
    \A c \in Children :
        /\ Running(c) => \E h \in Handles : child[h] = c
        /\ status[c] = "none" => /\ Quiet(c) /\ received[c] = Nothing
                                 /\ opened[c] = 0 /\ written[c] = 0

\* What a handle keeps at each point of a call.
CallState(h) ==
    /\ pc[h] = "init" => child[h] = NoChild
    /\ pc[h] \notin {"idle", "init"} => child[h] # NoChild
    /\ \A c \in Children : child[h] = c => (pc[h] = "fork" <=> status[c] = "none")
    /\ child[h] = NoChild \/ pc[h] \in {"fork", "closeEnds"} => counter[h] = 0
    /\ pc[h] \in {"init", "fork", "closeEnds"} =>
         request[h].cmd = "open" /\ ~request[h].payload
    /\ pc[h] \in {"sendPayload", "readPayload"} => request[h].payload
    /\ pc[h] # "sendPayload" => written[h] = 0
    /\ pc[h] \notin {"readPayload", "return"} => answer[h] = Nothing

\* How much of the payload has been sent.
Sent(h) ==
    IF ~request[h].payload \/ pc[h] = "sendCommand" THEN 0
    ELSE IF pc[h] = "sendPayload" THEN written[h] ELSE PayloadLength
Total(h) == IF request[h].payload THEN PayloadLength ELSE 0

\* The child's counter before it has executed the request.
Before(h) ==
    CASE request[h].cmd = "open"  -> counter[h] - 1
      [] request[h].cmd = "close" -> counter[h] + 1
      [] request[h].cmd = "call"  -> counter[h]

\* A pipe holds pieces of the request r in order, the first `before' of n have been
\* read already.
Queue(s, before, n, r) ==
    /\ before + Len(s) = n
    /\ \A i \in 1 .. Len(s) : s[i].of = r /\ s[i].no = before + i

NoRequestIn(c) == pipes[c]["parentCommand"] = <<>> /\ pipes[c]["parentPayload"] = <<>>
NoAnswerIn(c)  == pipes[c]["childCommand"] = <<>> /\ pipes[c]["childPayload"] = <<>>

\* The child c waits for the next request.
Waits(c) ==
    /\ status[c] \in {"start", "readCommand"}
    /\ NoRequestIn(c) /\ NoAnswerIn(c) /\ received[c] = Nothing /\ written[c] = 0

\* The request has been written, at least in part, and nothing of it read.
Unread(h, c) ==
    /\ status[c] \in {"start", "readCommand"}
    /\ Len(pipes[c]["parentCommand"]) = 1 /\ pipes[c]["parentCommand"][1].of = request[h]
    /\ Queue(pipes[c]["parentPayload"], 0, Sent(h), request[h])
    /\ NoAnswerIn(c) /\ received[c] = Nothing /\ written[c] = 0
    /\ opened[c] = Before(h)

\* The child has read the command, ...
HasCommand(h, c) ==
    /\ Len(received[c].command) = 1 /\ received[c].command[1].of = request[h]
    /\ pipes[c]["parentCommand"] = <<>>

\* ... reads the payload, ...
Reads(h, c) ==
    /\ status[c] = "readPayload" /\ request[h].payload
    /\ HasCommand(h, c)
    /\ Queue(pipes[c]["parentPayload"], Len(received[c].payload), Sent(h), request[h])
    /\ NoAnswerIn(c) /\ written[c] = 0
    /\ opened[c] = Before(h)

\* ... executes the request, ...
Executes(h, c) ==
    /\ status[c] = "execute"
    /\ HasCommand(h, c) /\ pipes[c]["parentPayload"] = <<>>
    /\ Sent(h) = Total(h) /\ Len(received[c].payload) = Total(h)
    /\ NoAnswerIn(c) /\ written[c] = 0
    /\ opened[c] = Before(h)

\* ... answers it, ...
WritesResult(h, c) ==
    /\ status[c] = "writeResult"
    /\ HasCommand(h, c) /\ pipes[c]["parentPayload"] = <<>>
    /\ NoAnswerIn(c) /\ written[c] = 0
    /\ opened[c] = counter[h]

WritesPayload(h, c) ==
    /\ status[c] = "writePayload" /\ request[h].payload
    /\ HasCommand(h, c) /\ pipes[c]["parentPayload"] = <<>>
    /\ Len(pipes[c]["childCommand"]) = IF pc[h] = "readResult" THEN 1 ELSE 0
    /\ Queue(pipes[c]["childPayload"], Len(answer[h].payload), written[c], request[h])
    /\ opened[c] = counter[h]

\* ... and goes back to its loop, unless that was the last close.
Answered(h, c) ==
    /\ status[c] = "readCommand"
    /\ NoRequestIn(c) /\ received[c] = Nothing /\ written[c] = 0
    /\ Len(pipes[c]["childCommand"]) = IF pc[h] = "readResult" THEN 1 ELSE 0
    /\ Queue(pipes[c]["childPayload"], Len(answer[h].payload), Total(h), request[h])
    /\ opened[c] = counter[h] /\ counter[h] > 0

\* The handle h and its child c are in step as long as the child runs.
InStep(h, c) ==
    /\ pc[h] \in {"idle", "return"} =>
         Waits(c) /\ status[c] = "readCommand" /\ opened[c] = counter[h] /\ counter[h] > 0
    /\ pc[h] = "closeEnds" => Waits(c) /\ opened[c] = 0
    /\ pc[h] = "sendCommand" => Waits(c) /\ opened[c] = Before(h)
    /\ pc[h] = "sendPayload" => Unread(h, c) \/ Reads(h, c)
    /\ pc[h] = "readResult" =>
         \/ Unread(h, c) \/ Reads(h, c) \/ Executes(h, c)
         \/ WritesResult(h, c) \/ WritesPayload(h, c) \/ Answered(h, c)
    /\ pc[h] = "readPayload" => WritesPayload(h, c) \/ Answered(h, c)

\* Whether the child runs or not, its pipes hold only answers to the request under
\* way, and nothing is left of them when the call returns.
OwnAnswersIn(h, c) ==
    /\ Len(pipes[c]["childCommand"]) <= 1
    /\ \A i \in 1 .. Len(pipes[c]["childCommand"]) : pipes[c]["childCommand"][i].of = request[h]
    /\ \E n \in 0 .. Total(h) :
         pc[h] \in {"readResult", "readPayload"} =>
           Queue(pipes[c]["childPayload"], Len(answer[h].payload), n, request[h])
    /\ pc[h] \notin {"readResult", "readPayload"} => NoAnswerIn(c)
    /\ pc[h] = "readPayload" => pipes[c]["childCommand"] = <<>>

Conversation(h) ==
    /\ CallState(h)
    /\ \A c \in Children : child[h] = c => /\ OwnAnswersIn(h, c)
                                           /\ Running(c) => InStep(h, c)

\* A child that works on a request has read its command.
CommandRead ==
    \A c \in Children :
        status[c] \in {"readPayload", "execute", "writeResult", "writePayload"} =>
            received[c].command # <<>>

\* What the parent process keeps as long as it lives.
Living ==
    /\ ParentEnds /\ OneHandle /\ HandleOfChild
    /\ \A h \in Handles : Conversation(h)

TalkInvariant ==
    /\ Shape
    /\ CommandRead
    /\ OwnAnswers
    /\ OwnEnds
    /\ alive => Living
=============================================================================
