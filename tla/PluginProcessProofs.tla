------------------------- MODULE PluginProcessProofs -------------------------
(***************************************************************************)
(* Proofs about the pluginprocess library, for any number of handles,      *)
(* children and calls, any length of key sets and capacity of pipes.       *)
(***************************************************************************)
EXTENDS PluginProcessInv, TLAPS

\* The counter of the pieces written starts over after the last one.
LEMMA NextPiece ==
    ASSUME NEW w \in 0 .. PayloadLength - 1
    PROVE  (w + 1) % PayloadLength = IF w + 1 = PayloadLength THEN 0 ELSE w + 1
BY PluginProcessAssumption

LEMMA OnePiece == (0 + 1) % 1 = 0
OBVIOUS

LEMMA NoRequestType == NoRequest \in Requests
BY PluginProcessAssumption DEF NoRequest, Requests

\* The calls are numbered.
LEMMA RequestType ==
    ASSUME Shape, NEW h \in Handles, NEW cmd \in {"open", "close", "call"},
           NEW payload \in BOOLEAN, Begin(h), Request(h, cmd, payload)
    PROVE  calls' \in 0 .. MaxCalls /\ request' \in [Handles -> Requests]
<1> DEFINE r == [id |-> calls + 1, cmd |-> cmd, payload |-> payload]
<1>1. calls \in 0 .. MaxCalls /\ request \in [Handles -> Requests]
  BY DEF Shape
<1>2. calls < MaxCalls /\ calls' = calls + 1 /\ request' = [request EXCEPT ![h] = r]
  BY DEF Begin, Request
<1>3. calls + 1 \in 0 .. MaxCalls
  BY <1>1, <1>2, PluginProcessAssumption
<1>4. r \in Requests
  BY <1>3, Zenon DEF Requests
<1> HIDE DEF r
<1>5. QED
  BY <1>1, <1>2, <1>3, <1>4

LEMMA PieceType ==
    ASSUME NEW r \in Requests, NEW n \in 0 .. PayloadLength - 1,
           NEW res \in {"none", "success", "error"}
    PROVE  Piece(r, n + 1, res) \in Pieces
BY PluginProcessAssumption DEF Piece, Pieces

LEMMA NothingType == Nothing \in Messages
BY DEF Nothing, Messages

LEMMA MessageType ==
    ASSUME NEW m \in Messages, NEW x \in Seq(Pieces)
    PROVE  [m EXCEPT !.command = x] \in Messages /\ [m EXCEPT !.payload = x] \in Messages
BY DEF Messages

\* What the conversation of h with its child depends on.
SameHandle(h) ==
    /\ pc'[h] = pc[h] /\ child'[h] = child[h] /\ counter'[h] = counter[h]
    /\ request'[h] = request[h] /\ answer'[h] = answer[h] /\ written'[h] = written[h]
SameChild(c) ==
    /\ pipes'[c] = pipes[c] /\ status'[c] = status[c] /\ opened'[c] = opened[c]
    /\ received'[c] = received[c] /\ written'[c] = written[c]

\* Steps of one handle and its child leave the others' conversations alone.
LEMMA Untouched ==
    ASSUME NEW h \in Handles, Conversation(h), SameHandle(h),
           \A c \in Children : child[h] = c => SameChild(c)
    PROVE  Conversation(h)'
<1> USE DEF SameHandle, SameChild
<1>1. CallState(h)'
  BY DEF Conversation, CallState
<1>2. ASSUME NEW c \in Children, child[h] = c PROVE OwnAnswersIn(h, c)'
  <2>1. SameChild(c) /\ OwnAnswersIn(h, c)
    BY <1>2 DEF Conversation
  <2>2. Total(h)' = Total(h) /\ (NoAnswerIn(c)' <=> NoAnswerIn(c))
    BY <2>1 DEF Total, NoAnswerIn
  <2>3. \A n : LET s == pipes[c]["childPayload"] IN
          Queue(s, Len(answer[h].payload), n, request[h])'
            <=> Queue(s, Len(answer[h].payload), n, request[h])
    BY <2>1 DEF Queue
  <2>4. QED
    BY <2>1, <2>2, <2>3 DEF OwnAnswersIn
<1>3. ASSUME NEW c \in Children, child[h] = c, Running(c) PROVE InStep(h, c)'
  <2>1. SameChild(c)
    BY <1>3
  <2>2. /\ Before(h)' = Before(h) /\ Sent(h)' = Sent(h) /\ Total(h)' = Total(h)
        /\ (NoRequestIn(c)' <=> NoRequestIn(c)) /\ (NoAnswerIn(c)' <=> NoAnswerIn(c))
    BY <2>1 DEF NoRequestIn, NoAnswerIn, Before, Sent, Total
  <2>3. Waits(c)' <=> Waits(c)
    BY <2>1, <2>2 DEF Waits
  <2>4. Unread(h, c)' <=> Unread(h, c)
    BY <2>1, <2>2 DEF Unread
  <2>5. HasCommand(h, c)' <=> HasCommand(h, c)
    BY <2>1 DEF HasCommand
  <2>a. Reads(h, c)' <=> Reads(h, c)
    BY <2>1, <2>2, <2>5 DEF Reads
  <2>b. Executes(h, c)' <=> Executes(h, c)
    BY <2>1, <2>2, <2>5 DEF Executes
  <2>6. WritesResult(h, c)' <=> WritesResult(h, c)
    BY <2>1, <2>2, <2>5 DEF WritesResult
  <2>7. WritesPayload(h, c)' <=> WritesPayload(h, c)
    BY <2>1, <2>2, <2>5 DEF WritesPayload
  <2>8. Answered(h, c)' <=> Answered(h, c)
    BY <2>1, <2>2 DEF Answered
  <2>9. InStep(h, c)
    BY <1>3 DEF Conversation
  <2>10. QED
    BY <2>1, <2>2, <2>3, <2>4, <2>a, <2>b, <2>6, <2>7, <2>8, <2>9 DEF InStep
<1>4. QED
  BY <1>1, <1>2, <1>3 DEF Conversation, Running

-----------------------------------------------------------------------------
(***************************************************************************)
(* Types.                                                                  *)
(***************************************************************************)

LEMMA DumpSetType ==
    ASSUME Shape, NEW a \in Handles \union Children, NEW c \in Children, NEW n \in Pipes,
           NEW r \in Requests, NEW res \in {"none", "success", "error"},
           DumpSet(a, c, n, r, res)
    PROVE  /\ written' \in [Handles \union Children -> 0 .. PayloadLength - 1]
           /\ pipes' \in [Children -> [Pipes -> Seq(Pieces)]]
<1>1. written[a] \in 0 .. PayloadLength - 1 /\ pipes[c][n] \in Seq(Pieces)
  BY DEF Shape
<1>2. Piece(r, written[a] + 1, res) \in Pieces
  BY <1>1, PieceType
<1>3. (written[a] + 1) % Length(n) \in 0 .. PayloadLength - 1
  BY <1>1, NextPiece, PluginProcessAssumption DEF Length
<1>4. written' \in [Handles \union Children -> 0 .. PayloadLength - 1]
  BY <1>3, PluginProcessAssumption DEF DumpSet, Shape
<1>5. Append(pipes[c][n], Piece(r, written[a] + 1, res)) \in Seq(Pieces)
  BY <1>1, <1>2
<1>6. pipes' \in [Children -> [Pipes -> Seq(Pieces)]]
  BY <1>5 DEF DumpSet, Shape
<1>7. QED
  BY <1>4, <1>6

LEMMA DumpGetType ==
    ASSUME Shape, NEW c \in Children, NEW n \in Pipes, DumpGet(c, n)
    PROVE  written' = written /\ pipes' \in [Children -> [Pipes -> Seq(Pieces)]]
<1>1. pipes[c][n] \in Seq(Pieces)
  BY DEF Shape
<1>2. (IF EndMark(c, n) THEN <<>> ELSE Tail(pipes[c][n])) \in Seq(Pieces)
  BY <1>1 DEF EndMark
<1>3. QED
  BY <1>2 DEF DumpGet, Shape

LEMMA WithType ==
    ASSUME Shape, NEW c \in Children, NEW n \in Pipes, NEW got \in Seq(Pieces)
    PROVE  With(got, c, n) \in Seq(Pieces)
<1>1. pipes[c][n] \in Seq(Pieces)
  BY DEF Shape
<1>2. QED
  BY <1>1 DEF With

LEMMA TaskType ==
    ASSUME Shape, CommandRead, NEW c \in Children,
           status[c] \in {"readPayload", "execute", "writeResult", "writePayload"}
    PROVE  Task(c) \in Requests
<1>1. received[c].command \in Seq(Pieces) /\ received[c].command # <<>>
  BY DEF Shape, CommandRead, Messages
<1>2. received[c].command[1] \in Pieces
  BY <1>1
<1>3. QED
  BY <1>2 DEF Task, Pieces

\* The child of a call that has got past its fork().
LEMMA CallHasChild ==
    ASSUME TalkInvariant, alive, NEW h \in Handles, pc[h] \notin {"idle", "init"}
    PROVE  child[h] \in Children
BY DEF TalkInvariant, Living, Shape, Conversation, CallState

LEMMA ShapeStep ==
    ASSUME TalkInvariant, Next
    PROVE  Shape'
<1>0. Shape /\ CommandRead
  BY DEF TalkInvariant
<1> USE DEF Shape
<1>1. ASSUME NEW h \in Handles, Open(h) PROVE Shape'
  <2>1. calls' \in 0 .. MaxCalls /\ request' \in [Handles -> Requests]
    <3> HIDE DEF Shape
    <3> QED
      BY <1>0, <1>1, RequestType DEF Open
  <2>2. QED
    <3>1. counter' \in [Handles -> Nat]
      <4>1. counter' = counter \/ counter' = [counter EXCEPT ![h] = counter[h] + 1]
        BY <1>1 DEF Open
      <4>2. counter \in [Handles -> Nat] /\ counter[h] + 1 \in Nat
        BY <1>0
      <4>3. QED
        BY <4>1, <4>2
    <3>2. \E s \in {"init", "sendCommand"} : pc' = [pc EXCEPT ![h] = s]
      BY <1>1 DEF Open, Goto
    <3>3. QED
      BY <1>0, <1>1, <2>1, <3>1, <3>2 DEF Open, childVars
<1>2. ASSUME NEW h \in Handles, Close(h) PROVE Shape'
  <2>1. calls' \in 0 .. MaxCalls /\ request' \in [Handles -> Requests]
    <3> HIDE DEF Shape
    <3> QED
      BY <1>0, <1>2, RequestType DEF Close
  <2>2. QED
    <3>1. counter' \in [Handles -> Nat]
      <4>1. counter[h] \in Nat /\ counter[h] > 0 /\ counter' = [counter EXCEPT ![h] = counter[h] - 1]
        BY <1>0, <1>2 DEF Close
      <4>2. counter[h] - 1 \in Nat
        BY <4>1
      <4>3. QED
        BY <1>0, <4>1, <4>2
    <3>2. QED
      BY <1>0, <1>2, <2>1, <3>1 DEF Close, Goto, childVars
<1>3. ASSUME NEW h \in Handles, NEW payload \in BOOLEAN, Call(h, payload) PROVE Shape'
  <2>1. calls' \in 0 .. MaxCalls /\ request' \in [Handles -> Requests]
    <3> HIDE DEF Shape
    <3> QED
      BY <1>0, <1>3, RequestType DEF Call
  <2>2. QED
    BY <1>0, <1>3, <2>1 DEF Call, Goto, childVars
<1>4. ASSUME NEW h \in Handles, NEW c \in Children, MakePipes(h, c) PROVE Shape'
  BY <1>0, <1>4 DEF MakePipes, Goto, childVars
<1>5. ASSUME NEW h \in Handles, Fork(h) PROVE Shape'
  BY <1>0, <1>5 DEF Fork, Goto
<1>6. ASSUME NEW h \in Handles, CloseEnds(h) PROVE Shape'
  BY <1>0, <1>6 DEF CloseEnds, Goto, childVars
<1>7. ASSUME NEW h \in Handles, InitFails(h) PROVE Shape'
  BY <1>0, <1>7, NoRequestType DEF InitFails, Goto, childVars
<1>8. ASSUME NEW h \in Handles, SendCommand(h) PROVE Shape'
  <2>1. child[h] \in Children /\ request[h] \in Requests
    BY <1>0, <1>8, CallHasChild DEF SendCommand
  <2>2. /\ written' \in [Handles \union Children -> 0 .. PayloadLength - 1]
        /\ pipes' \in [Children -> [Pipes -> Seq(Pieces)]]
    <3> HIDE DEF Shape
    <3> QED
      BY <1>0, <1>8, <2>1, DumpSetType DEF SendCommand, Pipes
  <2>3. QED
    BY <1>0, <1>8, <2>2 DEF SendCommand, Goto, childVars
<1>9. ASSUME NEW h \in Handles, SendPayload(h) PROVE Shape'
  <2>1. child[h] \in Children /\ request[h] \in Requests
    BY <1>0, <1>9, CallHasChild DEF SendPayload
  <2>2. /\ written' \in [Handles \union Children -> 0 .. PayloadLength - 1]
        /\ pipes' \in [Children -> [Pipes -> Seq(Pieces)]]
    <3> HIDE DEF Shape
    <3> QED
      BY <1>0, <1>9, <2>1, DumpSetType DEF SendPayload, Pipes
  <2>3. QED
    BY <1>0, <1>9, <2>2 DEF SendPayload, Goto, childVars
<1>10. ASSUME NEW h \in Handles, ReadResult(h) \/ ReadPayload(h) PROVE Shape'
  <2>1. child[h] \in Children
    BY <1>10, CallHasChild DEF ReadResult, ReadPayload
  <2>2. PICK n \in {"childCommand", "childPayload"} :
          /\ DumpGet(child[h], n)
          /\ answer' = IF n = "childCommand"
                       THEN [answer EXCEPT ![h].command = With(@, child[h], n)]
                       ELSE [answer EXCEPT ![h].payload = With(@, child[h], n)]
    BY <1>10 DEF ReadResult, ReadPayload
  <2>3. n \in Pipes
    BY DEF Pipes
  <2>4. written' = written /\ pipes' \in [Children -> [Pipes -> Seq(Pieces)]]
    <3> HIDE DEF Shape
    <3> QED
      BY <1>0, <2>1, <2>2, <2>3, DumpGetType
  <2>5. answer[h].command \in Seq(Pieces) /\ answer[h].payload \in Seq(Pieces)
    BY <1>0 DEF Messages
  <2>6. /\ With(answer[h].command, child[h], n) \in Seq(Pieces)
        /\ With(answer[h].payload, child[h], n) \in Seq(Pieces)
    <3> HIDE DEF Shape
    <3> QED
      BY <1>0, <2>1, <2>3, <2>5, WithType
  <2>7. answer' \in [Handles -> Messages]
    <3>1. CASE n = "childCommand"
      <4> DEFINE m == [answer[h] EXCEPT !.command = With(answer[h].command, child[h], n)]
      <4>1. m \in Messages
        BY <1>0, <2>6, MessageType
      <4>2. answer' = [answer EXCEPT ![h] = m]
        BY <2>2, <3>1
      <4> HIDE DEF m
      <4>3. QED
        BY <1>0, <4>1, <4>2
    <3>2. CASE n = "childPayload"
      <4> DEFINE m == [answer[h] EXCEPT !.payload = With(answer[h].payload, child[h], n)]
      <4>1. m \in Messages
        BY <1>0, <2>6, MessageType
      <4>2. answer' = [answer EXCEPT ![h] = m]
        BY <2>2, <3>2
      <4> HIDE DEF m
      <4>3. QED
        BY <1>0, <4>1, <4>2
    <3>3. QED
      BY <3>1, <3>2
  <2>8. QED
    BY <1>0, <1>10, <2>4, <2>7 DEF ReadResult, ReadPayload, Goto, childVars
<1>11. ASSUME NEW h \in Handles, Return(h) PROVE Shape'
  <2>1. request' \in [Handles -> Requests] /\ answer' \in [Handles -> Messages]
    BY <1>0, <1>11, NoRequestType, NothingType DEF Return
  <2>2. /\ ends' \in [Children \union {Parent} -> SUBSET (Children \X Ends)]
        /\ child' \in [Handles -> Children \union {NoChild}]
    <3>1. CASE UNCHANGED <<ends, child>>
      BY <1>0, <3>1
    <3>2. CASE /\ ends' = [ends EXCEPT ![Parent] = @ \ ({child[h]} \X (Ends \ UnusedByParent))]
               /\ child' = [child EXCEPT ![h] = NoChild]
      BY <1>0, <3>2
    <3>3. QED
      BY <1>11, <3>1, <3>2 DEF Return
  <2>3. QED
    BY <1>0, <1>11, <2>1, <2>2 DEF Return, Goto, childVars
<1>12. CASE ParentCrash
  BY <1>0, <1>12 DEF ParentCrash, parentVars, childVars
<1>13. ASSUME NEW c \in Children, ChildStart(c) PROVE Shape'
  BY <1>0, <1>13 DEF ChildStart, parentVars
<1>14. ASSUME NEW c \in Children, ReadCommand(c) PROVE Shape'
  <2>1. "parentCommand" \in Pipes
    BY DEF Pipes
  <2>2. written' = written /\ pipes' \in [Children -> [Pipes -> Seq(Pieces)]]
    <3> HIDE DEF Shape
    <3> QED
      BY <1>0, <1>14, <2>1, DumpGetType DEF ReadCommand
  <2>3. received[c].command \in Seq(Pieces)
    BY <1>0 DEF Messages
  <2>4. With(received[c].command, c, "parentCommand") \in Seq(Pieces)
    <3> HIDE DEF Shape
    <3> QED
      BY <1>0, <2>1, <2>3, WithType
  <2>5. received' \in [Children -> Messages]
    <3>1. CASE End(c)
      BY <1>0, <3>1, NothingType DEF End
    <3>2. CASE received' = [received EXCEPT ![c].command = With(@, c, "parentCommand")]
      <4> DEFINE m == [received[c] EXCEPT !.command = With(@, c, "parentCommand")]
      <4>1. m \in Messages
        BY <1>0, <2>4, MessageType
      <4>2. received' = [received EXCEPT ![c] = m]
        BY <3>2
      <4> HIDE DEF m
      <4>3. QED
        BY <1>0, <4>1, <4>2
    <3>3. QED
      BY <1>14, <3>1, <3>2 DEF ReadCommand
  <2>6. /\ ends' \in [Children \union {Parent} -> SUBSET (Children \X Ends)]
        /\ opened' \in [Children -> Int]
        /\ result' \in [Children -> {"none", "success", "error"}]
    <3>1. CASE End(c)
      BY <1>0, <3>1 DEF End
    <3>2. CASE UNCHANGED <<ends, opened, result>>
      BY <1>0, <3>2
    <3>3. QED
      BY <1>14, <3>1, <3>2 DEF ReadCommand
  <2>7. \E s \in {"ended", "readPayload", "execute"} : status' = [status EXCEPT ![c] = s]
    BY <1>14 DEF ReadCommand, End
  <2>8. QED
    <3>1. status' \in [Children -> {"none", "start", "readCommand", "readPayload", "execute",
                                    "writeResult", "writePayload", "ended"}]
      BY <1>0, <2>7
    <3>2. QED
      BY <1>0, <1>14, <2>2, <2>5, <2>6, <3>1 DEF ReadCommand, parentVars
<1>15. ASSUME NEW c \in Children, ReadRequestPayload(c) PROVE Shape'
  <2>1. "parentPayload" \in Pipes
    BY DEF Pipes
  <2>2. written' = written /\ pipes' \in [Children -> [Pipes -> Seq(Pieces)]]
    <3> HIDE DEF Shape
    <3> QED
      BY <1>0, <1>15, <2>1, DumpGetType DEF ReadRequestPayload
  <2>3. received[c].payload \in Seq(Pieces)
    BY <1>0 DEF Messages
  <2>4. With(received[c].payload, c, "parentPayload") \in Seq(Pieces)
    <3> HIDE DEF Shape
    <3> QED
      BY <1>0, <2>1, <2>3, WithType
  <2>5. received' \in [Children -> Messages]
    <3> DEFINE m == [received[c] EXCEPT !.payload = With(@, c, "parentPayload")]
    <3>1. m \in Messages
      BY <1>0, <2>4, MessageType
    <3>2. received' = [received EXCEPT ![c] = m]
      BY <1>15 DEF ReadRequestPayload
    <3> HIDE DEF m
    <3>3. QED
      BY <1>0, <3>1, <3>2
  <2>6. QED
    BY <1>0, <1>15, <2>2, <2>5 DEF ReadRequestPayload, parentVars
<1>16. ASSUME NEW c \in Children, NEW res \in {"success", "error"}, Execute(c, res)
       PROVE  Shape'
  BY <1>0, <1>16 DEF Execute, parentVars
<1>17. ASSUME NEW c \in Children, WriteResult(c) \/ WritePayload(c) PROVE Shape'
  <2>1. status[c] \in {"readPayload", "execute", "writeResult", "writePayload"}
    BY <1>17 DEF WriteResult, WritePayload
  <2>2. Task(c) \in Requests
    <3> HIDE DEF Shape
    <3> QED
      BY <1>0, <2>1, TaskType
  <2>3. PICK n \in Pipes, res \in {"none", "success", "error"} : DumpSet(c, c, n, Task(c), res)
    BY <1>0, <1>17 DEF WriteResult, WritePayload, Pipes
  <2>4. /\ written' \in [Handles \union Children -> 0 .. PayloadLength - 1]
        /\ pipes' \in [Children -> [Pipes -> Seq(Pieces)]]
    <3> HIDE DEF Shape
    <3> QED
      BY <1>0, <2>2, <2>3, DumpSetType
  <2>5. /\ End(c) \/ Handled(c) \/ UNCHANGED <<ends, opened, result, received>>
        /\ UNCHANGED <<parentVars, alive>>
        /\ status' = status \/ \E s \in {"writePayload", "readCommand", "ended"} :
                                 status' = [status EXCEPT ![c] = s]
    BY <1>17 DEF WriteResult, WritePayload, Handled, End
  <2>6. /\ ends' \in [Children \union {Parent} -> SUBSET (Children \X Ends)]
        /\ opened' \in [Children -> Int]
        /\ result' \in [Children -> {"none", "success", "error"}]
    <3>1. CASE End(c)
      BY <1>0, <3>1 DEF End
    <3>2. CASE UNCHANGED <<ends, opened>> /\ result' \in {result, [result EXCEPT ![c] = "none"]}
      BY <1>0, <3>2
    <3>3. QED
      BY <2>5, <3>1, <3>2 DEF Handled
  <2>7. received' \in [Children -> Messages]
    <3>1. CASE received' = [received EXCEPT ![c] = Nothing]
      BY <1>0, <3>1, NothingType
    <3>2. CASE UNCHANGED received
      BY <1>0, <3>2
    <3>3. QED
      BY <2>5, <3>1, <3>2 DEF Handled, End
  <2>8. status' \in [Children -> {"none", "start", "readCommand", "readPayload", "execute",
                                  "writeResult", "writePayload", "ended"}]
    BY <1>0, <2>5
  <2>9. UNCHANGED <<pc, child, counter, calls, request, answer, alive>>
    BY <2>5 DEF parentVars
  <2>10. QED
    BY <1>0, <2>4, <2>6, <2>7, <2>8, <2>9
<1>18. ASSUME NEW c \in Children, ChildCrash(c) PROVE Shape'
  BY <1>0, <1>18, NothingType DEF ChildCrash, End, parentVars
<1>19. QED
  BY <1>1, <1>2, <1>3, <1>4, <1>5, <1>6, <1>7, <1>8, <1>9, <1>10, <1>11, <1>12, <1>13, <1>14,
     <1>15, <1>16, <1>17, <1>18 DEF Next, HandleStep, ChildStep

-----------------------------------------------------------------------------
(***************************************************************************)
(* What holds whether the parent process lives or not.                     *)
(***************************************************************************)

LEMMA CommandReadStep ==
    ASSUME TalkInvariant, Next
    PROVE  CommandRead'
<1>0. Shape /\ CommandRead
  BY DEF TalkInvariant
<1>1. CASE UNCHANGED <<status, received>>
  BY <1>0, <1>1 DEF CommandRead
<1>2. ASSUME NEW h \in Handles, Fork(h) PROVE CommandRead'
  BY <1>0, <1>2 DEF Fork, CommandRead, Shape
<1>3. ASSUME NEW c \in Children, End(c) PROVE CommandRead'
  BY <1>0, <1>3 DEF End, CommandRead, Shape
<1>4. ASSUME NEW c \in Children, ChildStart(c) \/ Handled(c) PROVE CommandRead'
  BY <1>0, <1>3, <1>4 DEF ChildStart, Handled, CommandRead, Shape
<1>5. ASSUME NEW c \in Children, ReadCommand(c) PROVE CommandRead'
  <2>1. CASE pipes[c]["parentCommand"] # <<>>
    <3>1. received[c].command \in Seq(Pieces) /\ pipes[c]["parentCommand"] \in Seq(Pieces)
      BY <1>0 DEF Shape, Messages, Pipes
    <3>2. With(received[c].command, c, "parentCommand") # <<>>
      <4>1. Head(pipes[c]["parentCommand"]) \in Pieces
        BY <2>1, <3>1
      <4> DEFINE longer == Append(received[c].command, Head(pipes[c]["parentCommand"]))
      <4>2. Len(longer) > 0 /\ Len(<<>>) = 0
        BY <3>1, <4>1
      <4>3. With(received[c].command, c, "parentCommand") = longer
        BY <2>1 DEF With
      <4> HIDE DEF longer
      <4>4. QED
        BY <4>2, <4>3
    <3>3. received' = [received EXCEPT ![c].command = With(@, c, "parentCommand")]
      BY <1>5, <2>1 DEF ReadCommand
    <3>4. received'[c].command # <<>>
      BY <1>0, <3>2, <3>3 DEF Shape, Messages
    <3>5. \A d \in Children \ {c} : status'[d] = status[d] /\ received'[d] = received[d]
      BY <1>0, <1>5, <2>1, <3>3 DEF ReadCommand, Shape
    <3>6. QED
      BY <1>0, <3>4, <3>5 DEF CommandRead
  <2>2. QED
    BY <1>3, <1>5, <2>1 DEF ReadCommand
<1>6. ASSUME NEW c \in Children, ReadRequestPayload(c) PROVE CommandRead'
  <2>1. \A d \in Children : received'[d].command = received[d].command
    BY <1>0, <1>6 DEF ReadRequestPayload, Shape, Messages
  <2>2. \A d \in Children : status'[d] = status[d] \/ d = c
    BY <1>0, <1>6 DEF ReadRequestPayload, Shape
  <2>3. status[c] = "readPayload"
    BY <1>6 DEF ReadRequestPayload
  <2>4. QED
    BY <1>0, <2>1, <2>2, <2>3 DEF CommandRead
<1>7. ASSUME NEW c \in Children, NEW res \in {"success", "error"}, Execute(c, res)
      PROVE  CommandRead'
  BY <1>0, <1>7 DEF Execute, CommandRead, Shape
<1>8. ASSUME NEW c \in Children, WriteResult(c) \/ WritePayload(c) PROVE CommandRead'
  BY <1>0, <1>1, <1>4, <1>8 DEF WriteResult, WritePayload, CommandRead, Shape
<1>9. QED
  BY <1>1, <1>2, <1>3, <1>4, <1>5, <1>6, <1>7, <1>8
  DEF Next, HandleStep, ChildStep, Open, Close, Call, MakePipes, CloseEnds, InitFails,
      SendCommand, SendPayload, ReadResult, ReadPayload, Return, ParentCrash, ChildCrash, childVars

LEMMA OwnEndsStep ==
    ASSUME TalkInvariant, Next
    PROVE  OwnEnds'
<1>0. Shape /\ OwnEnds
  BY DEF TalkInvariant
<1>1. ASSUME UNCHANGED status, \A c \in Children : ends'[c] = ends[c] PROVE OwnEnds'
  BY <1>0, <1>1 DEF OwnEnds, Running
<1>2. ASSUME NEW h \in Handles, Fork(h) PROVE OwnEnds'
  <2>1. PICK c \in Children : child[h] = c /\ {c} \X Ends \subseteq ends[Parent]
    <3>1. alive /\ pc[h] = "fork" /\ child[h] \in Children
      BY <1>2, CallHasChild DEF Fork
    <3>2. QED
      BY <3>1 DEF TalkInvariant, Living, ParentEnds
  <2>2. /\ ends' = [ends EXCEPT ![c] = ends[Parent]]
        /\ status' = [status EXCEPT ![c] = "start"]
    BY <1>2, <2>1 DEF Fork
  <2>3. {<<c, "parentRead">>, <<c, "childWrite">>} \subseteq ends[Parent]
    BY <2>1 DEF Ends
  <2>4. QED
    BY <1>0, <2>2, <2>3 DEF OwnEnds, Running, Shape
<1>3. ASSUME NEW c \in Children, End(c) PROVE OwnEnds'
  BY <1>0, <1>3 DEF End, OwnEnds, Running, Shape
<1>4. ASSUME NEW c \in Children, ChildStart(c) PROVE OwnEnds'
  <2>1. /\ ends'[c] = ends[c] \ ({c} \X (Ends \ UnusedByParent)) /\ Running(c)
        /\ status' = [status EXCEPT ![c] = "readCommand"]
        /\ \A d \in Children \ {c} : ends'[d] = ends[d]
    BY <1>0, <1>4 DEF ChildStart, Shape, Running
  <2>2. /\ <<c, "parentRead">> \notin {c} \X (Ends \ UnusedByParent)
        /\ <<c, "childWrite">> \notin {c} \X (Ends \ UnusedByParent)
    BY DEF UnusedByParent
  <2>3. QED
    BY <1>0, <2>1, <2>2 DEF OwnEnds, Running, Shape
<1>5. ASSUME NEW c \in Children, Running(c), UNCHANGED ends,
             NEW s, status' = [status EXCEPT ![c] = s]
      PROVE  OwnEnds'
  BY <1>0, <1>5 DEF OwnEnds, Running, Shape
<1>6. ASSUME NEW h \in Handles, \/ \E c \in Children : MakePipes(h, c)
                                \/ CloseEnds(h) \/ InitFails(h) \/ Return(h)
      PROVE  OwnEnds'
  <2>1. \A c \in Children : c # Parent
    BY PluginProcessAssumption
  <2>2. UNCHANGED status /\ \A c \in Children : ends'[c] = ends[c]
    BY <1>0, <1>6, <2>1 DEF MakePipes, CloseEnds, InitFails, Return, childVars, Shape
  <2>3. QED
    BY <1>1, <2>2
<1>7. CASE ParentCrash
  <2>1. \A c \in Children : c # Parent
    BY PluginProcessAssumption
  <2>2. QED
    BY <1>0, <1>1, <1>7, <2>1 DEF ParentCrash, childVars, Shape
<1>8. ASSUME NEW c \in Children, ReadCommand(c) PROVE OwnEnds'
  BY <1>3, <1>5, <1>8 DEF ReadCommand, Running
<1>9. ASSUME NEW c \in Children, ReadRequestPayload(c) PROVE OwnEnds'
  BY <1>5, <1>9 DEF ReadRequestPayload, Running
<1>10. ASSUME NEW c \in Children, NEW res, Execute(c, res) PROVE OwnEnds'
  BY <1>5, <1>10 DEF Execute, Running
<1>11. ASSUME NEW c \in Children, WriteResult(c) \/ WritePayload(c) PROVE OwnEnds'
  BY <1>1, <1>3, <1>5, <1>11 DEF WriteResult, WritePayload, Handled, Running
<1>12. ASSUME NEW c \in Children, ChildCrash(c) PROVE OwnEnds'
  BY <1>3, <1>12 DEF ChildCrash
<1>13. ASSUME NEW h \in Handles,
              \/ Open(h) \/ Close(h) \/ \E payload \in BOOLEAN : Call(h, payload)
              \/ SendCommand(h) \/ SendPayload(h) \/ ReadResult(h) \/ ReadPayload(h)
       PROVE  OwnEnds'
  BY <1>1, <1>13 DEF Open, Close, Call, SendCommand, SendPayload, ReadResult, ReadPayload,
      childVars
<1>14. QED
  BY <1>2, <1>4, <1>6, <1>7, <1>8, <1>9, <1>10, <1>11, <1>12, <1>13
  DEF Next, HandleStep, ChildStep

\* What is read is the first piece.
LEMMA WithOwn ==
    ASSUME NEW c \in Children, NEW n \in Pipes, NEW got \in Seq(Pieces), NEW r,
           pipes[c][n] \in Seq(Pieces), \A i \in 1 .. Len(pipes[c][n]) : pipes[c][n][i].of = r,
           \A i \in DOMAIN got : got[i].of = r
    PROVE  \A i \in DOMAIN With(got, c, n) : With(got, c, n)[i].of = r
<1>1. CASE pipes[c][n] = <<>>
  BY <1>1 DEF With
<1>2. CASE pipes[c][n] # <<>>
  <2>1. With(got, c, n) = Append(got, pipes[c][n][1]) /\ 1 \in 1 .. Len(pipes[c][n])
    BY <1>2 DEF With
  <2>2. QED
    BY <2>1
<1>3. QED
  BY <1>1, <1>2

LEMMA OwnAnswersStep ==
    ASSUME TalkInvariant, Next
    PROVE  OwnAnswers'
<1>0. Shape /\ OwnAnswers
  BY DEF TalkInvariant
<1>1. CASE UNCHANGED <<answer, request>>
  BY <1>0, <1>1 DEF OwnAnswers
<1>2. ASSUME NEW h \in Handles, answer'[h] = Nothing,
             \A g \in Handles \ {h} : answer'[g] = answer[g] /\ request'[g] = request[g]
      PROVE  OwnAnswers'
  BY <1>0, <1>2 DEF OwnAnswers, Nothing
<1>3. ASSUME NEW h \in Handles, alive, pc[h] \notin {"readPayload", "return"}
      PROVE  answer[h] = Nothing
  BY <1>3 DEF TalkInvariant, Living, Conversation, CallState
<1>4. ASSUME NEW h \in Handles, Open(h) \/ Close(h) \/ \E payload \in BOOLEAN : Call(h, payload)
      PROVE  OwnAnswers'
  <2>1. answer[h] = Nothing
    BY <1>3, <1>4 DEF Open, Close, Call, Begin
  <2>2. QED
    BY <1>0, <1>2, <1>4, <2>1 DEF Open, Close, Call, Request, Shape
<1>5. ASSUME NEW h \in Handles, InitFails(h) \/ Return(h) PROVE OwnAnswers'
  <2>1. answer'[h] = Nothing
    BY <1>0, <1>3, <1>5 DEF InitFails, Return, Shape
  <2>2. QED
    BY <1>0, <1>2, <1>5, <2>1 DEF InitFails, Return, Shape
<1>6. ASSUME NEW h \in Handles, ReadResult(h) PROVE OwnAnswers'
  <2>1. PICK c \in Children : child[h] = c
    BY <1>6, CallHasChild DEF ReadResult
  <2>2. OwnAnswersIn(h, c)
    BY <1>6, <2>1 DEF TalkInvariant, Living, Conversation, ReadResult
  <2>3. pipes[c]["childCommand"] \in Seq(Pieces) /\ answer[h].command \in Seq(Pieces)
    BY <1>0 DEF Shape, Pipes, Messages
  <2>4. \A i \in DOMAIN With(answer[h].command, c, "childCommand") :
           With(answer[h].command, c, "childCommand")[i].of = request[h]
    <3> DEFINE s == pipes[c]["childCommand"]
    <3>1. \A i \in 1 .. Len(s) : s[i].of = request[h]
      BY <2>2 DEF OwnAnswersIn
    <3>2. \A i \in DOMAIN answer[h].command : answer[h].command[i].of = request[h]
      BY <1>0 DEF OwnAnswers
    <3>3. QED
      BY <2>3, <3>1, <3>2, WithOwn DEF Pipes
  <2>5. answer' = [answer EXCEPT ![h].command = With(answer[h].command, c, "childCommand")]
        /\ request' = request
    BY <1>6, <2>1 DEF ReadResult
  <2>6. /\ answer'[h].command = With(answer[h].command, c, "childCommand")
        /\ answer'[h].payload = answer[h].payload
        /\ \A g \in Handles \ {h} : answer'[g] = answer[g]
    BY <1>0, <2>5 DEF Shape, Messages
  <2>7. QED
    BY <1>0, <2>4, <2>5, <2>6 DEF OwnAnswers
<1>7. ASSUME NEW h \in Handles, ReadPayload(h) PROVE OwnAnswers'
  <2>1. PICK c \in Children : child[h] = c
    BY <1>7, CallHasChild DEF ReadPayload
  <2>2. OwnAnswersIn(h, c) /\ pc[h] = "readPayload"
    BY <1>7, <2>1 DEF TalkInvariant, Living, Conversation, ReadPayload
  <2>3. pipes[c]["childPayload"] \in Seq(Pieces) /\ answer[h].payload \in Seq(Pieces)
    BY <1>0 DEF Shape, Pipes, Messages
  <2>4. \A i \in DOMAIN With(answer[h].payload, c, "childPayload") :
           With(answer[h].payload, c, "childPayload")[i].of = request[h]
    <3> DEFINE s == pipes[c]["childPayload"]
    <3>1. \A i \in 1 .. Len(s) : s[i].of = request[h]
      BY <2>2 DEF OwnAnswersIn, Queue
    <3>2. \A i \in DOMAIN answer[h].payload : answer[h].payload[i].of = request[h]
      BY <1>0 DEF OwnAnswers
    <3>3. QED
      BY <2>3, <3>1, <3>2, WithOwn DEF Pipes
  <2>5. answer' = [answer EXCEPT ![h].payload = With(answer[h].payload, c, "childPayload")]
        /\ request' = request
    BY <1>7, <2>1 DEF ReadPayload
  <2>6. /\ answer'[h].payload = With(answer[h].payload, c, "childPayload")
        /\ answer'[h].command = answer[h].command
        /\ \A g \in Handles \ {h} : answer'[g] = answer[g]
    BY <1>0, <2>5 DEF Shape, Messages
  <2>7. QED
    BY <1>0, <2>4, <2>5, <2>6 DEF OwnAnswers
<1>8. QED
  BY <1>1, <1>4, <1>5, <1>6, <1>7
  DEF Next, HandleStep, ChildStep, MakePipes, Fork, CloseEnds, SendCommand, SendPayload,
      ParentCrash, ChildStart, ReadCommand, ReadRequestPayload, Execute, WriteResult,
      WritePayload, ChildCrash, parentVars

-----------------------------------------------------------------------------
(***************************************************************************)
(* What holds as long as the parent process lives.                         *)
(***************************************************************************)

LEMMA AliveBefore ==
    ASSUME Next, alive', TalkInvariant
    PROVE  alive /\ Living /\ Shape
<1>1. ASSUME NEW h \in Handles,
             \/ Open(h) \/ Close(h) \/ \E payload \in BOOLEAN : Call(h, payload)
             \/ HandleStep(h)
      PROVE  alive
  BY <1>1 DEF HandleStep, Open, Close, Call, Begin, MakePipes, Fork, CloseEnds, InitFails,
      SendCommand, SendPayload, ReadResult, ReadPayload, Return
<1>2. ASSUME NEW c \in Children, ChildStep(c) \/ ChildCrash(c) PROVE alive
  BY <1>2 DEF ChildStep, ChildStart, ReadCommand, ReadRequestPayload, Execute, WriteResult,
      WritePayload, ChildCrash
<1>3. alive
  BY <1>1, <1>2 DEF Next, ParentCrash
<1>4. QED
  BY <1>3 DEF TalkInvariant

\* Only the start of a child and the end of its handle change what the parent has open.
LEMMA ParentEndsStep ==
    ASSUME TalkInvariant, Next, alive'
    PROVE  ParentEnds'
<1>0. alive /\ ParentEnds /\ OneHandle /\ Shape
  BY AliveBefore DEF Living
<1>1. \A c \in Children : c # Parent /\ c # NoChild
  BY PluginProcessAssumption
<1>2. ASSUME ends'[Parent] = ends[Parent], UNCHANGED child,
             \A h \in Handles : pc'[h] # "fork" \/ pc[h] = "fork"
      PROVE  ParentEnds'
  BY <1>0, <1>2 DEF ParentEnds
<1>3. ASSUME NEW h \in Handles, NEW c \in Children, MakePipes(h, c) PROVE ParentEnds'
  <2>1. /\ ends' = [ends EXCEPT ![Parent] = ends[Parent] \union ({c} \X Ends)]
        /\ child' = [child EXCEPT ![h] = c] /\ pc' = [pc EXCEPT ![h] = "fork"]
    BY <1>3 DEF MakePipes, Goto
  <2>2. ends'[Parent] = ends[Parent] \union ({c} \X Ends)
    BY <1>0, <2>1 DEF Shape
  <2>3. {<<c, "parentWrite">>, <<c, "childRead">>} \subseteq {c} \X Ends
    BY DEF Ends
  <2>4. ASSUME NEW g \in Handles, NEW d \in Children, child'[g] = d
        PROVE  /\ {<<d, "parentWrite">>, <<d, "childRead">>} \subseteq ends'[Parent]
               /\ pc'[g] = "fork" => {d} \X Ends \subseteq ends'[Parent]
    <3>1. CASE g = h
      BY <1>0, <2>1, <2>2, <2>3, <2>4, <3>1 DEF Shape
    <3>2. CASE g # h
      <4>1. child[g] = d /\ pc'[g] = pc[g]
        BY <1>0, <2>1, <2>4, <3>2 DEF Shape
      <4>2. QED
        BY <1>0, <2>2, <4>1 DEF ParentEnds
    <3>3. QED
      BY <3>1, <3>2
  <2>5. QED
    BY <2>4 DEF ParentEnds
<1>4. ASSUME NEW h \in Handles, CloseEnds(h) PROVE ParentEnds'
  <2>1. /\ ends' = [ends EXCEPT ![Parent] = ends[Parent] \ ({child[h]} \X UnusedByParent)]
        /\ child' = child /\ pc' = [pc EXCEPT ![h] = "sendCommand"]
    BY <1>4 DEF CloseEnds, Goto
  <2>2. ends'[Parent] = ends[Parent] \ ({child[h]} \X UnusedByParent)
    BY <1>0, <2>1 DEF Shape
  <2>3. ASSUME NEW g \in Handles, NEW d \in Children, child'[g] = d
        PROVE  /\ {<<d, "parentWrite">>, <<d, "childRead">>} \subseteq ends'[Parent]
               /\ pc'[g] = "fork" => {d} \X Ends \subseteq ends'[Parent]
    <3>1. CASE g = h
      BY <1>0, <2>1, <2>2, <2>3, <3>1 DEF Shape, ParentEnds, UnusedByParent
    <3>2. CASE g # h
      <4>1. child[g] = d /\ pc'[g] = pc[g] /\ child[h] # d
        BY <1>0, <2>1, <2>3, <3>2 DEF Shape, OneHandle
      <4>2. QED
        BY <1>0, <2>2, <4>1 DEF ParentEnds
    <3>3. QED
      BY <3>1, <3>2
  <2>4. QED
    BY <2>3 DEF ParentEnds
<1>5. ASSUME NEW h \in Handles, NEW es \in SUBSET Ends,
             ends' = [ends EXCEPT ![Parent] = ends[Parent] \ ({child[h]} \X es)],
             child' = [child EXCEPT ![h] = NoChild], pc' = [pc EXCEPT ![h] = "idle"]
      PROVE  ParentEnds'
  <2>1. ends'[Parent] = ends[Parent] \ ({child[h]} \X es)
    BY <1>0, <1>5 DEF Shape
  <2>2. ASSUME NEW g \in Handles, NEW d \in Children, child'[g] = d
        PROVE  /\ {<<d, "parentWrite">>, <<d, "childRead">>} \subseteq ends'[Parent]
               /\ pc'[g] = "fork" => {d} \X Ends \subseteq ends'[Parent]
    <3>1. g # h
      BY <1>0, <1>1, <1>5, <2>2 DEF Shape
    <3>2. child[g] = d /\ pc'[g] = pc[g] /\ child[h] # d
      BY <1>0, <1>5, <2>2, <3>1 DEF Shape, OneHandle
    <3>3. QED
      BY <1>0, <2>1, <3>2 DEF ParentEnds
  <2>3. QED
    BY <2>2 DEF ParentEnds
<1>6. ASSUME NEW h \in Handles, Return(h) PROVE ParentEnds'
  <2>1. CASE request[h].cmd = "close" /\ counter[h] = 0
    <3>1. Ends \ UnusedByParent \in SUBSET Ends
      OBVIOUS
    <3>2. QED
      BY <1>5, <1>6, <2>1, <3>1 DEF Return, Goto
  <2>2. CASE ~(request[h].cmd = "close" /\ counter[h] = 0)
    BY <1>0, <1>2, <1>6, <2>2 DEF Return, Goto, Shape
  <2>3. QED
    BY <2>1, <2>2
<1>7. ASSUME NEW h \in Handles, InitFails(h) PROVE ParentEnds'
  BY <1>5, <1>7 DEF InitFails, Goto
<1>8. ASSUME NEW h \in Handles, Fork(h) PROVE ParentEnds'
  <2>1. child[h] # Parent
    BY <1>0, <1>1, <1>8, CallHasChild DEF Fork
  <2>2. QED
    BY <1>0, <1>2, <1>8, <2>1 DEF Fork, Goto, Shape
<1>9. ASSUME NEW h \in Handles,
              \/ Open(h) \/ Close(h) \/ \E payload \in BOOLEAN : Call(h, payload)
              \/ SendCommand(h) \/ SendPayload(h) \/ ReadResult(h) \/ ReadPayload(h)
      PROVE  ParentEnds'
  BY <1>0, <1>2, <1>9 DEF Open, Close, Call, SendCommand, SendPayload, ReadResult, ReadPayload,
      Goto, Shape
<1>10. ASSUME NEW c \in Children, ChildStep(c) \/ ChildCrash(c) PROVE ParentEnds'
  <2>1. ends'[Parent] = ends[Parent]
    BY <1>0, <1>1, <1>10 DEF ChildStep, ChildStart, ReadCommand, ReadRequestPayload, Execute,
        WriteResult, WritePayload, Handled, ChildCrash, End, Shape
  <2>2. UNCHANGED <<pc, child>>
    BY <1>10 DEF ChildStep, ChildStart, ReadCommand, ReadRequestPayload, Execute, WriteResult,
        WritePayload, ChildCrash, parentVars
  <2>3. QED
    BY <1>2, <2>1, <2>2
<1>11. QED
  BY <1>0, <1>3, <1>4, <1>6, <1>7, <1>8, <1>9, <1>10 DEF Next, HandleStep, ParentCrash

LEMMA OneHandleStep ==
    ASSUME TalkInvariant, Next, alive'
    PROVE  OneHandle'
<1>0. alive /\ OneHandle /\ Shape
  BY AliveBefore DEF Living
<1>1. \A c \in Children : c # NoChild
  BY PluginProcessAssumption
<1>2. CASE UNCHANGED child
  BY <1>0, <1>2 DEF OneHandle
<1>3. ASSUME NEW h \in Handles, NEW c \in Children, MakePipes(h, c) PROVE OneHandle'
  BY <1>0, <1>3 DEF MakePipes, OneHandle, Shape
<1>4. ASSUME NEW h \in Handles, child' = [child EXCEPT ![h] = NoChild] PROVE OneHandle'
  BY <1>0, <1>1, <1>4 DEF OneHandle, Shape
<1>5. ASSUME NEW h \in Handles, HandleStep(h) PROVE OneHandle'
  BY <1>2, <1>3, <1>4, <1>5
  DEF HandleStep, Fork, CloseEnds, InitFails, SendCommand, SendPayload, ReadResult, ReadPayload,
      Return
<1>6. ASSUME NEW h \in Handles,
             Open(h) \/ Close(h) \/ \E payload \in BOOLEAN : Call(h, payload)
      PROVE  UNCHANGED child
  BY <1>6 DEF Open, Close, Call
<1>7. ASSUME NEW c \in Children, ChildStep(c) \/ ChildCrash(c) PROVE UNCHANGED child
  BY <1>7 DEF ChildStep, ChildStart, ReadCommand, ReadRequestPayload, Execute, WriteResult,
      WritePayload, ChildCrash, parentVars
<1>8. QED
  BY <1>2, <1>5, <1>6, <1>7 DEF Next, ParentCrash, parentVars

\* What a step leaves alone of all children but c, and of all handles but h.
OnlyChild(c)  == \A d \in Children \ {c} : SameChild(d)
OnlyHandle(h) == \A g \in Handles \ {h} : SameHandle(g)

\* What the steps of the parent process and of a child can touch.
LEMMA HandleTouches ==
    ASSUME TalkInvariant, alive, NEW h \in Handles,
           \/ Open(h) \/ Close(h) \/ \E payload \in BOOLEAN : Call(h, payload)
           \/ HandleStep(h)
    PROVE  OnlyHandle(h) /\ OnlyChild(child[h]) /\ UNCHANGED alive
<1>0. Shape
  BY DEF TalkInvariant
<1>1. \A c \in Children : c \notin Handles
  BY PluginProcessAssumption
<1>2. \A g \in Handles \ {h} : pc'[g] = pc[g]
  <2>1. \E label : Goto(h, label)
    BY DEF HandleStep, Open, Close, Call, MakePipes, Fork, CloseEnds, InitFails, SendCommand,
        SendPayload, ReadResult, ReadPayload, Return
  <2>2. QED
    BY <1>0, <2>1 DEF Goto, Shape
<1>3. \A g \in Handles \ {h} : child'[g] = child[g]
  <2>1. child' = child \/ \E c : child' = [child EXCEPT ![h] = c]
    BY DEF HandleStep, Open, Close, Call, MakePipes, Fork, CloseEnds, InitFails, SendCommand,
        SendPayload, ReadResult, ReadPayload, Return
  <2>2. QED
    BY <1>0, <2>1 DEF Shape
<1>4. \A g \in Handles \ {h} : counter'[g] = counter[g]
  BY <1>0 DEF HandleStep, Open, Close, Call, Begin, Request, MakePipes, Fork, CloseEnds,
      InitFails, SendCommand, SendPayload, ReadResult, ReadPayload, Return, DumpSet, DumpGet,
      Goto, Shape
<1>5. \A g \in Handles \ {h} : request'[g] = request[g]
  BY <1>0 DEF HandleStep, Open, Close, Call, Begin, Request, MakePipes, Fork, CloseEnds,
      InitFails, SendCommand, SendPayload, ReadResult, ReadPayload, Return, DumpSet, DumpGet,
      Goto, Shape
<1>6. \A g \in Handles \ {h} : answer'[g] = answer[g]
  BY <1>0 DEF HandleStep, Open, Close, Call, Begin, Request, MakePipes, Fork, CloseEnds,
      InitFails, SendCommand, SendPayload, ReadResult, ReadPayload, Return, DumpSet, DumpGet,
      Goto, Shape
<1>7. \A g \in Handles \ {h} : written'[g] = written[g]
  BY <1>0 DEF HandleStep, Open, Close, Call, Begin, Request, MakePipes, Fork, CloseEnds,
      InitFails, SendCommand, SendPayload, ReadResult, ReadPayload, Return, DumpSet, DumpGet,
      Goto, Shape
<1>8. OnlyHandle(h)
  BY <1>2, <1>3, <1>4, <1>5, <1>6, <1>7 DEF OnlyHandle, SameHandle
<1>9. \A d \in Children : written'[d] = written[d]
  BY <1>0, <1>1 DEF HandleStep, Open, Close, Call, MakePipes, Fork, CloseEnds, InitFails,
      SendCommand, SendPayload, ReadResult, ReadPayload, Return, DumpSet, DumpGet, Shape
<1>10. \A d \in Children \ {child[h]} : status'[d] = status[d]
  BY <1>0 DEF HandleStep, Open, Close, Call, MakePipes, Fork, CloseEnds, InitFails, SendCommand,
      SendPayload, ReadResult, ReadPayload, Return, childVars, Shape
<1>11. \A d \in Children \ {child[h]} : pipes'[d] = pipes[d]
  <2>1. CASE UNCHANGED pipes
    BY <2>1
  <2>2. ASSUME NEW n \in Pipes, NEW x, pipes' = [pipes EXCEPT ![child[h]][n] = x]
        PROVE  \A d \in Children \ {child[h]} : pipes'[d] = pipes[d]
    BY <1>0, <2>2 DEF Shape
  <2>3. CASE SendCommand(h) \/ SendPayload(h)
    BY <2>1, <2>2, <2>3 DEF SendCommand, SendPayload, DumpSet, Pipes
  <2>4. CASE ReadResult(h) \/ ReadPayload(h)
    BY <2>2, <2>4 DEF ReadResult, ReadPayload, DumpGet, Pipes
  <2>5. QED
    BY <2>1, <2>3, <2>4 DEF HandleStep, Open, Close, Call, MakePipes, Fork, CloseEnds,
        InitFails, Return
<1>12. UNCHANGED <<opened, received, alive>>
  BY DEF HandleStep, Open, Close, Call, MakePipes, Fork, CloseEnds, InitFails, SendCommand,
      SendPayload, ReadResult, ReadPayload, Return, childVars
<1>13. QED
  BY <1>8, <1>9, <1>10, <1>11, <1>12 DEF OnlyChild, SameChild

LEMMA ChildTouches ==
    ASSUME TalkInvariant, NEW c \in Children, ChildStep(c) \/ ChildCrash(c)
    PROVE  OnlyChild(c) /\ UNCHANGED <<parentVars, alive>> /\ Running(c)
           /\ \A h \in Handles : written'[h] = written[h]
<1>0. Shape
  BY DEF TalkInvariant
<1>1. \A h \in Handles : h # c
  BY PluginProcessAssumption
<1>2. Running(c) /\ UNCHANGED <<parentVars, alive>>
  BY DEF ChildStep, ChildStart, ReadCommand, ReadRequestPayload, Execute, WriteResult,
      WritePayload, ChildCrash, Running
<1>3. \A d \in Children \ {c} : pipes'[d] = pipes[d]
  BY <1>0 DEF ChildStep, ChildStart, ReadCommand, ReadRequestPayload, Execute, WriteResult,
      WritePayload, ChildCrash, DumpSet, DumpGet, Shape
<1>4. /\ \A d \in Children \ {c} : written'[d] = written[d]
      /\ \A h \in Handles : written'[h] = written[h]
  BY <1>0, <1>1 DEF ChildStep, ChildStart, ReadCommand, ReadRequestPayload, Execute, WriteResult,
      WritePayload, ChildCrash, DumpSet, DumpGet, Shape
<1>5. \A d \in Children \ {c} : status'[d] = status[d] /\ opened'[d] = opened[d]
  BY <1>0 DEF ChildStep, ChildStart, ReadCommand, ReadRequestPayload, Execute, WriteResult,
      WritePayload, ChildCrash, Handled, End, Shape
<1>6. \A d \in Children \ {c} : received'[d] = received[d]
  BY <1>0 DEF ChildStep, ChildStart, ReadCommand, ReadRequestPayload, Execute, WriteResult,
      WritePayload, ChildCrash, Handled, End, Shape
<1>7. QED
  BY <1>2, <1>3, <1>4, <1>5, <1>6 DEF OnlyChild, SameChild

\* The conversations that a step of h leaves alone.
LEMMA OthersTalk ==
    ASSUME Living, NEW h \in Handles, NEW c, OnlyHandle(h), OnlyChild(c),
           \A g \in Handles \ {h} : child[g] # c \/ c \notin Children
    PROVE  \A g \in Handles \ {h} : Conversation(g)'
BY Untouched DEF Living, OnlyHandle, OnlyChild

LEMMA HandleOfChildStep ==
    ASSUME TalkInvariant, Next, alive'
    PROVE  HandleOfChild'
<1>0. alive /\ Living /\ Shape /\ HandleOfChild
  BY AliveBefore DEF Living
<1>1. \A c \in Children : c # NoChild
  BY PluginProcessAssumption
<1>2. ASSUME NEW d \in Children, SameChild(d), status[d] = "none"
      PROVE  Quiet(d)' /\ received'[d] = Nothing /\ opened'[d] = 0 /\ written'[d] = 0
  BY <1>0, <1>2 DEF HandleOfChild, SameChild, Quiet
<1>3. ASSUME NEW h \in Handles,
             \/ Open(h) \/ Close(h) \/ \E payload \in BOOLEAN : Call(h, payload)
             \/ HandleStep(h)
      PROVE  HandleOfChild'
  <2>1. OnlyHandle(h) /\ OnlyChild(child[h])
    BY <1>0, <1>3, HandleTouches
  <2>2. CallState(h)
    BY <1>0 DEF Living, Conversation
  <2>3. CASE child' = child /\ status' = status /\ pc[h] # "fork"
    <3>1. ASSUME NEW d \in Children, status[d] = "none" PROVE d # child[h]
      BY <2>2, <2>3, <3>1 DEF CallState
    <3>2. QED
      BY <1>0, <1>2, <2>1, <2>3, <3>1 DEF HandleOfChild, OnlyChild, Running
  <2>4. ASSUME NEW c \in Children, MakePipes(h, c) PROVE HandleOfChild'
    <3>1. child[h] = NoChild /\ child' = [child EXCEPT ![h] = c] /\ status' = status
      BY <2>2, <2>4 DEF MakePipes, CallState, childVars
    <3>2. \A d \in Children : SameChild(d)
      BY <1>1, <2>1, <3>1 DEF OnlyChild
    <3>3. ASSUME NEW d \in Children, NEW g \in Handles, child[g] = d PROVE child'[g] = d
      BY <1>0, <1>1, <3>1, <3>3 DEF Shape
    <3>4. QED
      BY <1>0, <1>2, <3>1, <3>2, <3>3 DEF HandleOfChild, Running
  <2>5. CASE Fork(h)
    <3>1. PICK c \in Children : child[h] = c
      BY <1>0, <2>5, CallHasChild DEF Fork
    <3>2. child' = child /\ status' = [status EXCEPT ![c] = "start"]
      BY <2>5, <3>1 DEF Fork
    <3>3. \A d \in Children \ {c} : SameChild(d) /\ status'[d] = status[d]
      BY <2>1, <3>1 DEF OnlyChild, SameChild
    <3>4. status'[c] = "start"
      BY <1>0, <3>2 DEF Shape
    <3>5. QED
      BY <1>0, <1>2, <3>1, <3>2, <3>3, <3>4 DEF HandleOfChild, Running
  <2>6. ASSUME child' = [child EXCEPT ![h] = NoChild], UNCHANGED <<pipes, childVars, written>>,
               \A c \in Children : child[h] = c => ~Running(c)
        PROVE  HandleOfChild'
    <3>1. \A d \in Children : SameChild(d) /\ status'[d] = status[d]
      BY <2>6 DEF SameChild, childVars
    <3>2. ASSUME NEW d \in Children, Running(d) PROVE \E g \in Handles : child'[g] = d
      <4>1. PICK g \in Handles : child[g] = d
        BY <1>0, <3>2 DEF HandleOfChild
      <4>2. g # h
        BY <2>6, <3>2, <4>1
      <4>3. QED
        BY <1>0, <2>6, <4>1, <4>2 DEF Shape
    <3>3. QED
      BY <1>2, <3>1, <3>2 DEF HandleOfChild, Running
  <2>7. CASE InitFails(h)
    <3>1. \A c \in Children : child[h] = c => ~Running(c)
      BY <1>1, <2>2, <2>7 DEF InitFails, CallState, Running
    <3>2. QED
      BY <2>6, <2>7, <3>1 DEF InitFails
  <2>8. CASE Return(h)
    <3>1. CASE request[h].cmd = "close" /\ counter[h] = 0
      <4>1. \A c \in Children : child[h] = c => ~Running(c)
        BY <1>0, <2>8, <3>1 DEF Return, Living, Conversation, InStep
      <4>2. QED
        BY <2>6, <2>8, <3>1, <4>1 DEF Return
    <3>2. CASE ~(request[h].cmd = "close" /\ counter[h] = 0)
      BY <2>3, <2>8, <3>2 DEF Return, childVars
    <3>3. QED
      BY <3>1, <3>2
  <2>9. QED
    BY <1>3, <2>3, <2>4, <2>5, <2>7, <2>8 DEF HandleStep, Open, Close, Call, Begin, CloseEnds,
        SendCommand, SendPayload, ReadResult, ReadPayload, childVars
<1>4. ASSUME NEW c \in Children, ChildStep(c) \/ ChildCrash(c) PROVE HandleOfChild'
  <2>1. OnlyChild(c) /\ child' = child /\ Running(c)
    BY <1>4, ChildTouches DEF parentVars
  <2>2. status'[c] # "none"
    BY <1>0, <1>4 DEF ChildStep, ChildStart, ReadCommand, ReadRequestPayload, Execute,
        WriteResult, WritePayload, Handled, ChildCrash, End, Shape
  <2>3. \A d \in Children \ {c} : SameChild(d) /\ status'[d] = status[d]
    BY <2>1 DEF OnlyChild, SameChild
  <2>4. QED
    BY <1>0, <1>2, <2>1, <2>2, <2>3 DEF HandleOfChild, Running
<1>5. QED
  BY <1>3, <1>4 DEF Next, ParentCrash

-----------------------------------------------------------------------------
(***************************************************************************)
(* The conversation of a handle with its child, step by step.              *)
(***************************************************************************)

\* A call begins.
LEMMA CallBegins ==
    ASSUME TalkInvariant, alive, NEW h \in Handles,
           Open(h) \/ Close(h) \/ \E payload \in BOOLEAN : Call(h, payload)
    PROVE  Conversation(h)'
<1>0. Shape /\ Living /\ Conversation(h)
  BY DEF TalkInvariant, Living
<1>1. /\ pc[h] = "idle" /\ child' = child
      /\ UNCHANGED <<pipes, written, answer, status, opened, received>>
  BY DEF Open, Close, Call, Begin, childVars
<1>2. \A c \in Children : c # NoChild
  BY PluginProcessAssumption
<1>3. CASE child[h] = NoChild
  <2>1. pc'[h] = "init" /\ counter' = counter /\ request'[h].cmd = "open" /\ ~request'[h].payload
    BY <1>0, <1>3 DEF Open, Close, Call, Goto, Request, Shape
  <2>2. CallState(h)'
    BY <1>0, <1>1, <1>2, <1>3, <2>1 DEF Conversation, CallState
  <2>3. QED
    BY <1>1, <1>2, <1>3, <2>2 DEF Conversation
<1>4. ASSUME NEW c \in Children, child[h] = c PROVE Conversation(h)'
  <2>1. pc'[h] = "sendCommand"
    BY <1>0, <1>2, <1>4 DEF Open, Close, Call, Goto, Shape
  <2>2. Before(h)' = counter[h]
    <3>1. counter[h] \in Nat
      BY <1>0 DEF Shape
    <3>2. CASE Open(h)
      <4>1. request'[h].cmd = "open" /\ counter'[h] = counter[h] + 1
        BY <1>0, <1>2, <1>4, <3>2 DEF Open, Request, Shape
      <4>2. QED
        BY <3>1, <4>1 DEF Before
    <3>3. CASE Close(h)
      <4>1. request'[h].cmd = "close" /\ counter'[h] = counter[h] - 1
        BY <1>0, <3>3 DEF Close, Request, Shape
      <4>2. QED
        BY <3>1, <4>1 DEF Before
    <3>4. ASSUME NEW payload \in BOOLEAN, Call(h, payload) PROVE Before(h)' = counter[h]
      <4>1. request'[h].cmd = "call" /\ counter'[h] = counter[h]
        BY <1>0, <3>4 DEF Call, Request, Shape
      <4>2. QED
        BY <3>1, <4>1 DEF Before
    <3>5. QED
      BY <3>2, <3>3, <3>4
  <2>3. CallState(h)'
    BY <1>0, <1>1, <1>2, <1>4, <2>1 DEF Conversation, CallState
  <2>4. NoAnswerIn(c) /\ (Running(c) => Waits(c) /\ opened[c] = counter[h])
    BY <1>0, <1>1, <1>4 DEF Conversation, OwnAnswersIn, InStep
  <2>5. OwnAnswersIn(h, c)'
    <3>1. NoAnswerIn(c)'
      BY <1>1, <2>4 DEF NoAnswerIn
    <3>2. 0 \in 0 .. Total(h)' /\ Len(<<>>) = 0
      BY PluginProcessAssumption DEF Total
    <3>3. QED
      BY <2>1, <3>1, <3>2 DEF OwnAnswersIn, NoAnswerIn
  <2>6. Running(c) => InStep(h, c)'
    BY <1>1, <2>1, <2>2, <2>4 DEF InStep, Waits, NoAnswerIn, NoRequestIn
  <2>7. QED
    BY <1>1, <1>4, <2>3, <2>5, <2>6 DEF Conversation, Running
<1>5. QED
  BY <1>0, <1>3, <1>4 DEF Shape

\* As long as nothing is answered, nothing of another call is.
LEMMA NothingAnswered ==
    ASSUME NEW h \in Handles, NEW c \in Children, NoAnswerIn(c)',
           pc'[h] = "readResult" => answer'[h] = Nothing, pc'[h] # "readPayload"
    PROVE  OwnAnswersIn(h, c)'
<1>1. 0 \in 0 .. Total(h)' /\ Len(<<>>) = 0
  BY PluginProcessAssumption DEF Total
<1>2. pc'[h] = "readResult" =>
        Queue(pipes[c]["childPayload"], Len(answer[h].payload), 0, request[h])'
  BY <1>1 DEF Queue, Nothing, NoAnswerIn
<1>3. QED
  BY <1>1, <1>2 DEF OwnAnswersIn, NoAnswerIn

\* A child is forked.
LEMMA ChildMade ==
    ASSUME TalkInvariant, alive, NEW h \in Handles,
           (\E c \in Children : MakePipes(h, c)) \/ Fork(h) \/ CloseEnds(h) \/ InitFails(h)
    PROVE  Conversation(h)'
<1>0. Shape /\ Living /\ CallState(h) /\ HandleOfChild
  BY DEF TalkInvariant, Living, Conversation
<1>1. \A c \in Children : c # NoChild
  BY PluginProcessAssumption
<1>2. ASSUME NEW c \in Children, MakePipes(h, c) PROVE Conversation(h)'
  <2>1. /\ pc[h] = "init" /\ pc'[h] = "fork" /\ child'[h] = c /\ status[c] = "none"
        /\ UNCHANGED <<pipes, written, counter, request, answer, status, opened, received>>
    BY <1>0, <1>2 DEF MakePipes, Goto, childVars, Shape
  <2>2. CallState(h)'
    BY <1>0, <1>1, <2>1 DEF CallState
  <2>3. NoAnswerIn(c)'
    BY <1>0, <2>1 DEF HandleOfChild, Quiet, NoAnswerIn, Pipes
  <2>4. OwnAnswersIn(h, c)'
    BY <2>1, <2>3, NothingAnswered
  <2>5. QED
    BY <2>1, <2>2, <2>4 DEF Conversation, Running
<1>3. CASE Fork(h)
  <2>1. PICK c \in Children : child[h] = c
    BY <1>3, CallHasChild DEF Fork
  <2>2. /\ pc[h] = "fork" /\ pc'[h] = "closeEnds" /\ status'[c] = "start"
        /\ UNCHANGED <<pipes, written, child, counter, request, answer, opened, received>>
    BY <1>0, <1>3, <2>1 DEF Fork, Goto, Shape
  <2>3. CallState(h)'
    BY <1>0, <1>1, <2>1, <2>2 DEF CallState
  <2>4. status[c] = "none"
    BY <1>0, <2>1, <2>2 DEF CallState
  <2>5. Quiet(c) /\ received[c] = Nothing /\ opened[c] = 0 /\ written[c] = 0
    BY <1>0, <2>4 DEF HandleOfChild
  <2>6. NoAnswerIn(c)' /\ NoRequestIn(c)'
    BY <2>2, <2>5 DEF Quiet, NoAnswerIn, NoRequestIn, Pipes
  <2>7. OwnAnswersIn(h, c)'
    BY <2>2, <2>6, NothingAnswered
  <2>8. InStep(h, c)'
    BY <2>2, <2>5, <2>6 DEF InStep, Waits
  <2>9. QED
    BY <2>1, <2>2, <2>3, <2>7, <2>8 DEF Conversation
<1>4. CASE CloseEnds(h)
  <2>1. PICK c \in Children : child[h] = c
    BY <1>4, CallHasChild DEF CloseEnds
  <2>2. /\ pc[h] = "closeEnds" /\ pc'[h] = "sendCommand" /\ counter'[h] = counter[h] + 1
        /\ UNCHANGED <<pipes, written, child, request, answer, status, opened, received>>
    BY <1>0, <1>4 DEF CloseEnds, Goto, childVars, Shape
  <2>3. CallState(h)'
    BY <1>0, <1>1, <2>1, <2>2 DEF CallState
  <2>4. OwnAnswersIn(h, c) /\ (Running(c) => Waits(c) /\ opened[c] = 0)
    BY <1>0, <2>1, <2>2 DEF Living, Conversation, InStep
  <2>5. NoAnswerIn(c)'
    BY <2>2, <2>4 DEF OwnAnswersIn, NoAnswerIn
  <2>6. OwnAnswersIn(h, c)'
    BY <2>2, <2>5, NothingAnswered
  <2>7. Before(h)' = 0
    BY <1>0, <2>1, <2>2 DEF CallState, Before
  <2>8. Running(c) => InStep(h, c)'
    BY <2>2, <2>4, <2>7 DEF InStep, Waits, NoAnswerIn, NoRequestIn
  <2>9. QED
    BY <2>1, <2>2, <2>3, <2>6, <2>8 DEF Conversation, Running
<1>5. CASE InitFails(h)
  <2>1. /\ pc[h] \in {"init", "fork"} /\ pc'[h] = "idle" /\ child'[h] = NoChild
        /\ UNCHANGED <<written, counter, answer>>
    BY <1>0, <1>5 DEF InitFails, Goto, Shape
  <2>2. CallState(h)'
    BY <1>0, <1>1, <2>1 DEF CallState
  <2>3. QED
    BY <1>1, <2>1, <2>2 DEF Conversation
<1>6. QED
  BY <1>2, <1>3, <1>4, <1>5

-----------------------------------------------------------------------------
\* Pieces in order.

LEMMA QueueAppend ==
    ASSUME NEW s \in Seq(Pieces), NEW k \in Nat, NEW n, NEW r, NEW e \in Pieces,
           Queue(s, k, n, r), e.of = r, e.no = n + 1
    PROVE  Queue(Append(s, e), k, n + 1, r)
<1>1. Len(Append(s, e)) = Len(s) + 1 /\ k + Len(s) = n /\ Len(s) \in Nat
  BY DEF Queue
<1>2. ASSUME NEW i \in 1 .. Len(s) + 1
      PROVE  Append(s, e)[i].of = r /\ Append(s, e)[i].no = k + i
  <2>1. CASE i = Len(s) + 1
    <3>1. Append(s, e)[i] = e
      BY <2>1
    <3>2. QED
      BY <1>1, <2>1, <3>1
  <2>2. CASE i # Len(s) + 1
    <3>1. i \in 1 .. Len(s) /\ Append(s, e)[i] = s[i]
      BY <1>1, <2>2
    <3>2. QED
      BY <3>1 DEF Queue
  <2>3. QED
    BY <2>1, <2>2
<1>3. QED
  BY <1>1, <1>2 DEF Queue

LEMMA QueueTail ==
    ASSUME NEW s \in Seq(Pieces), NEW k \in Nat, NEW n, NEW r, Queue(s, k, n, r), s # <<>>
    PROVE  /\ Queue(Tail(s), k + 1, n, r)
           /\ Head(s).no = k + 1 /\ Head(s).of = r /\ k + 1 <= n
           /\ k + 1 = n => Tail(s) = <<>>
<1>1. Len(s) \in Nat \ {0} /\ k + Len(s) = n /\ Len(Tail(s)) = Len(s) - 1 /\ Tail(s) \in Seq(Pieces)
  BY DEF Queue
<1>2. ASSUME NEW i \in 1 .. Len(s) - 1
      PROVE  Tail(s)[i].of = r /\ Tail(s)[i].no = k + 1 + i
  <2>1. Tail(s)[i] = s[i + 1] /\ i + 1 \in 1 .. Len(s)
    BY <1>1
  <2>2. QED
    BY <1>1, <2>1 DEF Queue
<1>3. 1 \in 1 .. Len(s) /\ Head(s) = s[1]
  BY <1>1
<1>4. QED
  BY <1>1, <1>2, <1>3 DEF Queue

\* A command pipe is empty after the command was read.
LEMMA CommandTaken ==
    ASSUME Shape, NEW c \in Children, NEW n \in {"parentCommand", "childCommand"},
           Len(pipes[c][n]) <= 1, DumpGet(c, n)
    PROVE  /\ pipes'[c][n] = <<>> /\ written' = written
           /\ \A i \in Pipes \ {n} : pipes'[c][i] = pipes[c][i]
<1>1. pipes[c][n] \in Seq(Pieces) /\ n \in Pipes
  BY DEF Shape, Pipes
<1>2. pipes[c][n] # <<>> => Tail(pipes[c][n]) = <<>>
  BY <1>1
<1>3. (IF EndMark(c, n) THEN <<>> ELSE Tail(pipes[c][n])) = <<>>
  BY <1>2 DEF EndMark
<1>4. QED
  BY <1>1, <1>3 DEF DumpGet, Shape

\* A payload pipe loses its first piece, and the last one comes with the end mark.
LEMMA PieceTaken ==
    ASSUME Shape, NEW c \in Children, NEW n \in {"parentPayload", "childPayload"},
           NEW k \in Nat, NEW m \in 0 .. PayloadLength, NEW r, Queue(pipes[c][n], k, m, r),
           pipes[c][n] # <<>>, DumpGet(c, n)
    PROVE  /\ Queue(pipes'[c][n], k + 1, m, r) /\ written' = written
           /\ EndMark(c, n) <=> k + 1 = PayloadLength
           /\ EndMark(c, n) => m = PayloadLength /\ pipes'[c][n] = <<>>
           /\ \A i \in Pipes \ {n} : pipes'[c][i] = pipes[c][i]
           /\ \A got \in Seq(Pieces) : Len(With(got, c, n)) = Len(got) + 1
<1> DEFINE s == pipes[c][n]
<1>1. s \in Seq(Pieces) /\ n \in Pipes /\ Length(n) = PayloadLength
  BY DEF Shape, Pipes, Length
<1>2. /\ Queue(Tail(s), k + 1, m, r)
      /\ Head(s).no = k + 1 /\ Head(s).of = r /\ k + 1 <= m
      /\ k + 1 = m => Tail(s) = <<>>
  BY <1>1, QueueTail
<1>3. EndMark(c, n) <=> k + 1 = PayloadLength
  BY <1>1, <1>2 DEF EndMark
<1>4. EndMark(c, n) => m = PayloadLength /\ Tail(s) = <<>>
  BY <1>2, <1>3, PluginProcessAssumption
<1>5. pipes' = [pipes EXCEPT ![c][n] = IF EndMark(c, n) THEN <<>> ELSE Tail(s)] /\ written' = written
  BY DEF DumpGet
<1>6. pipes'[c][n] = Tail(s) /\ \A i \in Pipes \ {n} : pipes'[c][i] = pipes[c][i]
  BY <1>1, <1>4, <1>5 DEF Shape
<1>7. ASSUME NEW got \in Seq(Pieces) PROVE Len(With(got, c, n)) = Len(got) + 1
  BY <1>1 DEF With
<1>8. QED
  BY <1>2, <1>3, <1>4, <1>5, <1>6, <1>7

-----------------------------------------------------------------------------
\* Who can write is waited for, who can read is written to.
LEMMA EndsOpen ==
    ASSUME TalkInvariant, NEW c \in Children
    PROVE  /\ Running(c) => /\ CanRead(c, "parentCommand") /\ CanRead(c, "parentPayload")
                            /\ CanWrite(c, "childCommand") /\ CanWrite(c, "childPayload")
           /\ alive /\ (\E h \in Handles : child[h] = c) =>
                /\ CanWrite(c, "parentCommand") /\ CanWrite(c, "parentPayload")
                /\ CanRead(c, "childCommand") /\ CanRead(c, "childPayload")
<1>1. DOMAIN ends = Children \union {Parent}
  BY DEF TalkInvariant, Shape
<1>2. ASSUME Running(c)
      PROVE  /\ CanRead(c, "parentCommand") /\ CanRead(c, "parentPayload")
             /\ CanWrite(c, "childCommand") /\ CanWrite(c, "childPayload")
  <2>1. c \in DOMAIN ends /\ <<c, "parentRead">> \in ends[c] /\ <<c, "childWrite">> \in ends[c]
    BY <1>1, <1>2 DEF TalkInvariant, OwnEnds
  <2>2. QED
    BY <2>1 DEF CanRead, CanWrite, ReadEnd, WriteEnd
<1>3. ASSUME alive, NEW h \in Handles, child[h] = c
      PROVE  /\ CanWrite(c, "parentCommand") /\ CanWrite(c, "parentPayload")
             /\ CanRead(c, "childCommand") /\ CanRead(c, "childPayload")
  <2>1. /\ Parent \in DOMAIN ends
        /\ <<c, "parentWrite">> \in ends[Parent] /\ <<c, "childRead">> \in ends[Parent]
    BY <1>1, <1>3 DEF TalkInvariant, Living, ParentEnds
  <2>2. QED
    BY <2>1 DEF CanRead, CanWrite, ReadEnd, WriteEnd
<1>4. QED
  BY <1>2, <1>3

\* The command is sent.
LEMMA CommandSent ==
    ASSUME TalkInvariant, alive, NEW h \in Handles, SendCommand(h)
    PROVE  Conversation(h)'
<1>0. Shape /\ Living /\ CallState(h)
  BY DEF TalkInvariant, Living, Conversation
<1>1. PICK c \in Children : child[h] = c
  BY CallHasChild DEF SendCommand
<1>2. /\ pc[h] = "sendCommand" /\ written[h] = 0 /\ answer[h] = Nothing
      /\ request[h].payload \in BOOLEAN
  BY <1>0 DEF SendCommand, CallState, Shape, Requests
<1>3. DumpSet(h, c, "parentCommand", request[h], "none")
  BY <1>1 DEF SendCommand
<1>4. /\ pc'[h] = IF request[h].payload THEN "sendPayload" ELSE "readResult"
      /\ UNCHANGED <<child, counter, request, answer, status, opened, received>>
  BY <1>0 DEF SendCommand, Goto, childVars, Shape
<1>5. written'[h] = 0 /\ written'[c] = written[c]
  <2>1. h # c
    BY PluginProcessAssumption
  <2>2. (written[h] + 1) % Length("parentCommand") = 0
    BY <1>2, OnePiece DEF Length
  <2>3. QED
    BY <1>0, <1>3, <2>1, <2>2 DEF DumpSet, Shape
<1>6. \A n \in Pipes \ {"parentCommand"} : pipes'[c][n] = pipes[c][n]
  BY <1>0, <1>3 DEF DumpSet, Shape
<1>7. CallState(h)'
  BY <1>0, <1>1, <1>2, <1>4, <1>5 DEF CallState
<1>8. OwnAnswersIn(h, c) /\ (Running(c) => Waits(c) /\ opened[c] = Before(h))
  BY <1>0, <1>1, <1>2 DEF Living, Conversation, InStep
<1>9. NoAnswerIn(c)'
  BY <1>2, <1>6, <1>8 DEF OwnAnswersIn, NoAnswerIn, Pipes
<1>10. OwnAnswersIn(h, c)'
  BY <1>2, <1>4, <1>9, NothingAnswered
<1>11. ASSUME Running(c) PROVE Unread(h, c)'
  <2>1. CanRead(c, "parentCommand")
    BY <1>11, EndsOpen
  <2>2. pipes[c]["parentCommand"] = <<>> /\ pipes[c]["parentPayload"] = <<>>
    BY <1>8, <1>11 DEF Waits, NoRequestIn
  <2>3. pipes' = [pipes EXCEPT ![c]["parentCommand"] =
                    Append(<<>>, Piece(request[h], written[h] + 1, "none"))]
    BY <1>3, <2>1, <2>2 DEF DumpSet
  <2>4. pipes'[c]["parentCommand"] = <<Piece(request[h], written[h] + 1, "none")>>
    BY <1>0, <2>3 DEF Shape, Pipes
  <2>5. /\ Len(pipes'[c]["parentCommand"]) = 1
        /\ pipes'[c]["parentCommand"][1].of = request'[h]
    BY <1>4, <2>4 DEF Piece
  <2>6. Sent(h)' = 0
    BY <1>2, <1>4, <1>5 DEF Sent
  <2>7. Queue(pipes[c]["parentPayload"], 0, Sent(h), request[h])'
    <3>1. pipes'[c]["parentPayload"] = <<>>
      BY <1>6, <2>2 DEF Pipes
    <3>2. QED
      BY <2>6, <3>1 DEF Queue
  <2>8. Before(h)' = Before(h)
    BY <1>4 DEF Before
  <2>9. QED
    BY <1>4, <1>5, <1>8, <1>9, <1>11, <2>5, <2>7, <2>8 DEF Unread, Waits
<1>12. QED
  BY <1>1, <1>2, <1>4, <1>7, <1>10, <1>11 DEF Conversation, Running, InStep

\* A piece of the payload is sent.
LEMMA PayloadSent ==
    ASSUME TalkInvariant, alive, NEW h \in Handles, SendPayload(h)
    PROVE  Conversation(h)'
<1>0. Shape /\ Living /\ CallState(h)
  BY DEF TalkInvariant, Living, Conversation
<1>1. PICK c \in Children : child[h] = c
  BY CallHasChild DEF SendPayload
<1>2. /\ pc[h] = "sendPayload" /\ answer[h] = Nothing /\ request[h].payload
      /\ written[h] \in 0 .. PayloadLength - 1 /\ request[h] \in Requests
  BY <1>0 DEF SendPayload, CallState, Shape
<1>3. DumpSet(h, c, "parentPayload", request[h], "none")
  BY <1>1 DEF SendPayload
<1>4. /\ pc'[h] = IF written'[h] = 0 THEN "readResult" ELSE "sendPayload"
      /\ UNCHANGED <<child, counter, request, answer, status, opened, received>>
  BY <1>0 DEF SendPayload, Goto, childVars, Shape
<1>5. written'[c] = written[c]
  <2>1. h # c
    BY PluginProcessAssumption
  <2>2. QED
    BY <1>0, <1>3, <2>1 DEF DumpSet, Shape
<1>6. \A n \in Pipes \ {"parentPayload"} : pipes'[c][n] = pipes[c][n]
  BY <1>0, <1>3 DEF DumpSet, Shape
<1>7. CallState(h)'
  BY <1>0, <1>1, <1>2, <1>4 DEF CallState
<1>8. OwnAnswersIn(h, c) /\ (Running(c) => Unread(h, c) \/ Reads(h, c))
  BY <1>0, <1>1, <1>2 DEF Living, Conversation, InStep
<1>9. NoAnswerIn(c)'
  BY <1>2, <1>6, <1>8 DEF OwnAnswersIn, NoAnswerIn, Pipes
<1>10. OwnAnswersIn(h, c)'
  BY <1>2, <1>4, <1>9, NothingAnswered
<1>11. ASSUME Running(c) PROVE Unread(h, c)' \/ Reads(h, c)'
  <2> DEFINE e == Piece(request[h], written[h] + 1, "none")
             s == pipes[c]["parentPayload"]
  <2>1. CanRead(c, "parentPayload")
    BY <1>11, EndsOpen
  <2>2. written'[h] = IF written[h] + 1 = PayloadLength THEN 0 ELSE written[h] + 1
    BY <1>0, <1>2, <1>3, <2>1, NextPiece DEF DumpSet, Shape, Length
  <2>3. pipes'[c]["parentPayload"] = Append(s, e)
    BY <1>0, <1>3, <2>1 DEF DumpSet, Shape, Pipes
  <2>4. Sent(h) = written[h] /\ Sent(h)' = written[h] + 1
    BY <1>2, <1>4, <2>2, PluginProcessAssumption DEF Sent
  <2>5. s \in Seq(Pieces) /\ e \in Pieces /\ e.of = request[h] /\ e.no = written[h] + 1
    BY <1>0, <1>2, PieceType DEF Shape, Pipes, Piece
  <2>6. \A k \in Nat : Queue(s, k, written[h], request[h]) =>
                         Queue(Append(s, e), k, written[h] + 1, request[h])
    BY <2>5, QueueAppend
  <2>7. received[c].payload \in Seq(Pieces)
    BY <1>0 DEF Shape, Messages
  <2>8. Before(h)' = Before(h)
    BY <1>4 DEF Before
  <2>9. pipes'[c]["parentCommand"] = pipes[c]["parentCommand"]
    BY <1>6 DEF Pipes
  <2> HIDE DEF e, s
  <2>10. CASE Unread(h, c)
    <3>1. Queue(s, 0, written[h], request[h])
      BY <2>4, <2>10 DEF Unread, s
    <3>2. Queue(pipes[c]["parentPayload"], 0, Sent(h), request[h])'
      BY <1>4, <2>3, <2>4, <2>6, <3>1
    <3>3. QED
      BY <1>4, <1>5, <1>9, <2>8, <2>9, <2>10, <3>2 DEF Unread
  <2>11. CASE Reads(h, c)
    <3>1. Queue(s, Len(received[c].payload), written[h], request[h])
      BY <2>4, <2>11 DEF Reads, s
    <3>2. Queue(pipes[c]["parentPayload"], Len(received[c].payload), Sent(h), request[h])'
      BY <1>4, <2>3, <2>4, <2>6, <2>7, <3>1
    <3>3. QED
      BY <1>4, <1>5, <1>9, <2>8, <2>9, <2>11, <3>2 DEF Reads, HasCommand
  <2>12. QED
    BY <1>8, <1>11, <2>10, <2>11
<1>12. QED
  BY <1>1, <1>4, <1>7, <1>10, <1>11 DEF Conversation, Running, InStep

\* The result is read.
LEMMA ResultRead ==
    ASSUME TalkInvariant, alive, NEW h \in Handles, ReadResult(h)
    PROVE  Conversation(h)'
<1>0. Shape /\ Living /\ CallState(h)
  BY DEF TalkInvariant, Living, Conversation
<1>1. PICK c \in Children : child[h] = c
  BY CallHasChild DEF ReadResult
<1>2. /\ pc[h] = "readResult" /\ answer[h] = Nothing /\ DumpGet(c, "childCommand")
      /\ request[h].payload \in BOOLEAN
  BY <1>0, <1>1 DEF ReadResult, CallState, Shape, Requests
<1>3. /\ pc'[h] = IF request[h].payload THEN "readPayload" ELSE "return"
      /\ answer'[h].payload = answer[h].payload
      /\ UNCHANGED <<child, counter, request, status, opened, received>>
  BY <1>0 DEF ReadResult, Goto, childVars, Shape, Messages
<1>4. OwnAnswersIn(h, c) /\ (Running(c) => InStep(h, c))
  BY <1>0, <1>1 DEF Living, Conversation
<1>5. /\ pipes'[c]["childCommand"] = <<>> /\ written' = written
      /\ \A n \in Pipes \ {"childCommand"} : pipes'[c][n] = pipes[c][n]
  BY <1>0, <1>2, <1>4, CommandTaken DEF OwnAnswersIn
<1>6. /\ pipes'[c]["childPayload"] = pipes[c]["childPayload"]
      /\ pipes'[c]["parentCommand"] = pipes[c]["parentCommand"]
      /\ pipes'[c]["parentPayload"] = pipes[c]["parentPayload"]
  BY <1>5 DEF Pipes
<1>7. CallState(h)'
  BY <1>0, <1>1, <1>2, <1>3, <1>5 DEF CallState
<1>8. pipes[c]["childPayload"] \in Seq(Pieces) /\ Len(answer[h].payload) = 0
  BY <1>0, <1>2 DEF Shape, Pipes, Nothing
<1>9. ~request[h].payload => pipes[c]["childPayload"] = <<>>
  <2>1. PICK n \in 0 .. Total(h) :
          Queue(pipes[c]["childPayload"], Len(answer[h].payload), n, request[h])
    BY <1>2, <1>4 DEF OwnAnswersIn
  <2>2. ~request[h].payload => Len(pipes[c]["childPayload"]) = 0
    BY <1>8, <2>1 DEF Queue, Total
  <2>3. QED
    BY <1>8, <2>2
<1>10. OwnAnswersIn(h, c)'
  <2>1. CASE request[h].payload
    BY <1>2, <1>3, <1>4, <1>5, <1>6, <2>1 DEF OwnAnswersIn, Total
  <2>2. CASE ~request[h].payload
    <3>1. NoAnswerIn(c)'
      BY <1>5, <1>6, <1>9, <2>2 DEF NoAnswerIn
    <3>2. QED
      BY <1>3, <2>2, <3>1, NothingAnswered
  <2>3. QED
    BY <2>1, <2>2
<1>11. ASSUME Running(c) PROVE InStep(h, c)'
  <2>1. pipes[c]["childCommand"] # <<>>
    BY <1>2, <1>11, EndsOpen DEF DumpGet
  <2>2. WritesPayload(h, c) \/ Answered(h, c)
    BY <1>2, <1>4, <1>11, <2>1
    DEF InStep, Unread, Reads, Executes, WritesResult, NoAnswerIn
  <2>3. Len(pipes'[c]["childCommand"]) = 0 /\ Total(h)' = Total(h)
    BY <1>3, <1>5 DEF Total
  <2>4. CASE request[h].payload
    <3>1. WritesPayload(h, c) => WritesPayload(h, c)'
      BY <1>3, <1>5, <1>6, <2>3, <2>4 DEF WritesPayload, HasCommand
    <3>2. Answered(h, c) => Answered(h, c)'
      BY <1>3, <1>5, <1>6, <2>3, <2>4 DEF Answered, NoRequestIn
    <3>3. QED
      BY <1>3, <2>2, <2>4, <3>1, <3>2 DEF InStep
  <2>5. CASE ~request[h].payload
    <3>1. Answered(h, c)
      BY <2>2, <2>5 DEF WritesPayload
    <3>2. NoAnswerIn(c)'
      BY <1>5, <1>6, <1>9, <2>5 DEF NoAnswerIn
    <3>3. Waits(c)' /\ status'[c] = "readCommand" /\ opened'[c] = counter'[h] /\ counter'[h] > 0
      BY <1>3, <1>5, <1>6, <3>1, <3>2 DEF Answered, Waits, NoRequestIn
    <3>4. QED
      BY <1>3, <2>5, <3>3 DEF InStep
  <2>6. QED
    BY <2>4, <2>5
<1>12. QED
  BY <1>1, <1>3, <1>7, <1>10, <1>11 DEF Conversation, Running

\* A piece of the payload, or its end, is read.
LEMMA PayloadRead ==
    ASSUME TalkInvariant, alive, NEW h \in Handles, ReadPayload(h)
    PROVE  Conversation(h)'
<1>0. Shape /\ Living /\ CallState(h)
  BY DEF TalkInvariant, Living, Conversation
<1>1. PICK c \in Children : child[h] = c
  BY CallHasChild DEF ReadPayload
<1>2. pc[h] = "readPayload" /\ request[h].payload /\ DumpGet(c, "childPayload")
  BY <1>0, <1>1 DEF ReadPayload, CallState
<1>3. /\ pc'[h] = IF EndMark(c, "childPayload") THEN "return" ELSE "readPayload"
      /\ answer'[h].payload = With(answer[h].payload, c, "childPayload")
      /\ UNCHANGED <<child, counter, request, status, opened, received>>
  BY <1>0, <1>1 DEF ReadPayload, Goto, childVars, Shape, Messages
<1>4. OwnAnswersIn(h, c) /\ (Running(c) => WritesPayload(h, c) \/ Answered(h, c))
  BY <1>0, <1>1, <1>2 DEF Living, Conversation, InStep
<1>5. written' = written
  BY <1>2 DEF DumpGet
<1>6. CallState(h)'
  BY <1>0, <1>1, <1>2, <1>3, <1>5 DEF CallState
<1>7. Total(h) = PayloadLength /\ Total(h)' = Total(h)
  BY <1>2, <1>3 DEF Total
<1> DEFINE s == pipes[c]["childPayload"]
           k == Len(answer[h].payload)
<1>8. s \in Seq(Pieces) /\ answer[h].payload \in Seq(Pieces) /\ k \in Nat
  BY <1>0 DEF Shape, Pipes, Messages
<1>9. PICK n \in 0 .. PayloadLength : Queue(s, k, n, request[h])
  BY <1>2, <1>4, <1>7 DEF OwnAnswersIn
<1>10. pipes[c]["childCommand"] = <<>>
  BY <1>2, <1>4 DEF OwnAnswersIn
<1>11. CASE s = <<>>
  <2>1. ~Running(c)
    BY <1>2, <1>11, EndsOpen DEF DumpGet
  <2>2. EndMark(c, "childPayload")
    BY <1>11 DEF EndMark
  <2>3. NoAnswerIn(c)'
    BY <1>0, <1>2, <1>10, <2>2 DEF DumpGet, NoAnswerIn, Shape, Pipes
  <2>4. OwnAnswersIn(h, c)'
    BY <1>3, <2>2, <2>3, NothingAnswered
  <2>5. QED
    BY <1>1, <1>3, <1>6, <2>1, <2>4 DEF Conversation, Running
<1>12. CASE s # <<>>
  <2>1. /\ EndMark(c, "childPayload") <=> k + 1 = PayloadLength
        /\ \A i \in Pipes \ {"childPayload"} : pipes'[c][i] = pipes[c][i]
        /\ Len(answer'[h].payload) = k + 1
    <3>1. /\ EndMark(c, "childPayload") <=> k + 1 = PayloadLength
          /\ \A i \in Pipes \ {"childPayload"} : pipes'[c][i] = pipes[c][i]
          /\ \A got \in Seq(Pieces) : Len(With(got, c, "childPayload")) = Len(got) + 1
      <4> HIDE DEF k
      <4> QED
        BY <1>0, <1>2, <1>8, <1>9, <1>12, PieceTaken
    <3>2. QED
      BY <1>3, <1>8, <3>1
  <2>2. \A m \in 0 .. PayloadLength :
          Queue(s, k, m, request[h]) =>
            /\ Queue(pipes'[c]["childPayload"], k + 1, m, request[h])
            /\ EndMark(c, "childPayload") =>
                 m = PayloadLength /\ pipes'[c]["childPayload"] = <<>>
    BY <1>0, <1>2, <1>8, <1>12, PieceTaken
  <2>3. /\ pipes'[c]["childCommand"] = <<>>
        /\ pipes'[c]["parentCommand"] = pipes[c]["parentCommand"]
        /\ pipes'[c]["parentPayload"] = pipes[c]["parentPayload"]
    BY <1>10, <2>1 DEF Pipes
  <2> HIDE DEF s, k
  <2>4. CASE EndMark(c, "childPayload")
    <3>1. NoAnswerIn(c)'
      BY <1>9, <2>2, <2>3, <2>4 DEF NoAnswerIn
    <3>2. OwnAnswersIn(h, c)'
      BY <1>3, <2>4, <3>1, NothingAnswered
    <3>3. ASSUME Running(c) PROVE InStep(h, c)'
      <4>1. ~WritesPayload(h, c)
        <5>1. SUFFICES ASSUME WritesPayload(h, c) PROVE FALSE
          OBVIOUS
        <5>2. Queue(s, k, written[c], request[h]) /\ written[c] \in 0 .. PayloadLength - 1
          BY <1>0, <5>1 DEF WritesPayload, Shape, s, k
        <5>3. written[c] \in 0 .. PayloadLength /\ written[c] # PayloadLength
          BY <5>2, PluginProcessAssumption
        <5>4. QED
          BY <2>2, <2>4, <5>2, <5>3
      <4>2. Answered(h, c)
        BY <1>4, <3>3, <4>1
      <4>3. /\ Waits(c)' /\ status'[c] = "readCommand"
            /\ opened'[c] = counter'[h] /\ counter'[h] > 0
        BY <1>3, <1>5, <2>3, <3>1, <4>2 DEF Answered, Waits, NoRequestIn
      <4>4. QED
        BY <1>3, <2>4, <4>3 DEF InStep
    <3>4. QED
      BY <1>1, <1>3, <1>6, <3>2, <3>3 DEF Conversation, Running
  <2>5. CASE ~EndMark(c, "childPayload")
    <3>1. pc'[h] = "readPayload"
      BY <1>3, <2>5
    <3>2. Queue(pipes[c]["childPayload"], Len(answer[h].payload), n, request[h])'
      BY <1>3, <1>9, <2>1, <2>2
    <3>3. OwnAnswersIn(h, c)'
      BY <1>7, <2>3, <3>1, <3>2 DEF OwnAnswersIn
    <3>4. WritesPayload(h, c) => WritesPayload(h, c)'
      <4>1. SUFFICES ASSUME WritesPayload(h, c) PROVE WritesPayload(h, c)'
        OBVIOUS
      <4>2. Queue(s, k, written[c], request[h]) /\ written[c] \in 0 .. PayloadLength
        BY <1>0, <4>1, PluginProcessAssumption DEF WritesPayload, Shape, s, k
      <4>3. Queue(pipes[c]["childPayload"], Len(answer[h].payload), written[c], request[h])'
        BY <1>3, <1>5, <2>1, <2>2, <4>2
      <4>4. QED
        BY <1>2, <1>3, <1>5, <2>3, <3>1, <4>1, <4>3 DEF WritesPayload, HasCommand
    <3>5. Answered(h, c) => Answered(h, c)'
      <4>1. SUFFICES ASSUME Answered(h, c) PROVE Answered(h, c)'
        OBVIOUS
      <4>2. Queue(s, k, Total(h), request[h]) /\ Total(h) \in 0 .. PayloadLength
        BY <1>7, <4>1, PluginProcessAssumption DEF Answered, s, k
      <4>3. Queue(pipes[c]["childPayload"], Len(answer[h].payload), Total(h), request[h])'
        BY <1>3, <1>7, <2>1, <2>2, <4>2
      <4>4. QED
        BY <1>2, <1>3, <1>5, <2>3, <3>1, <4>1, <4>3 DEF Answered, NoRequestIn
    <3>6. QED
      BY <1>1, <1>3, <1>4, <1>6, <3>1, <3>3, <3>4, <3>5 DEF Conversation, Running, InStep
  <2>6. QED
    BY <2>4, <2>5
<1>13. QED
  BY <1>11, <1>12

\* The call returns.
LEMMA CallReturns ==
    ASSUME TalkInvariant, alive, NEW h \in Handles, Return(h)
    PROVE  Conversation(h)'
<1>0. Shape /\ Living /\ CallState(h)
  BY DEF TalkInvariant, Living, Conversation
<1>1. \A c \in Children : c # NoChild
  BY PluginProcessAssumption
<1>2. /\ pc[h] = "return" /\ pc'[h] = "idle" /\ answer'[h] = Nothing
      /\ UNCHANGED <<pipes, written, counter, status, opened, received>>
  BY <1>0 DEF Return, Goto, childVars, Shape
<1>3. CASE request[h].cmd = "close" /\ counter[h] = 0
  <2>1. child'[h] = NoChild
    BY <1>0, <1>3 DEF Return, Shape
  <2>2. CallState(h)'
    BY <1>0, <1>1, <1>2, <1>3, <2>1 DEF CallState
  <2>3. QED
    BY <1>1, <2>1, <2>2 DEF Conversation
<1>4. CASE ~(request[h].cmd = "close" /\ counter[h] = 0)
  <2>1. child' = child
    BY <1>4 DEF Return
  <2>2. CallState(h)'
    BY <1>0, <1>1, <1>2, <2>1 DEF CallState
  <2>3. ASSUME NEW c \in Children, child[h] = c
        PROVE  OwnAnswersIn(h, c)' /\ (Running(c) => InStep(h, c)')
    <3>1. OwnAnswersIn(h, c) /\ (Running(c) => InStep(h, c))
      BY <1>0, <2>3 DEF Living, Conversation
    <3>2. NoAnswerIn(c)'
      BY <1>2, <3>1 DEF OwnAnswersIn, NoAnswerIn
    <3>3. OwnAnswersIn(h, c)'
      BY <1>2, <3>2, NothingAnswered
    <3>4. Running(c) => InStep(h, c)'
      BY <1>2, <3>1 DEF InStep, Waits, NoAnswerIn, NoRequestIn
    <3>5. QED
      BY <3>3, <3>4
  <2>4. QED
    BY <1>2, <2>1, <2>2, <2>3 DEF Conversation, Running
<1>5. QED
  BY <1>3, <1>4

-----------------------------------------------------------------------------
\* The child's side.  What its handle keeps stays as it is.

LEMMA CallStateKept ==
    ASSUME NEW h \in Handles, CallState(h), NEW c \in Children, child[h] = c, Running(c),
           status'[c] # "none", UNCHANGED <<pc, child, counter, request, answer>>,
           written'[h] = written[h]
    PROVE  CallState(h)'
BY DEF CallState, Running

\* The child starts, or crashes.
LEMMA ChildStarts ==
    ASSUME TalkInvariant, alive, NEW h \in Handles, NEW c \in Children, child[h] = c,
           ChildStart(c)
    PROVE  Conversation(h)'
<1>0. Shape /\ Living /\ CallState(h)
  BY DEF TalkInvariant, Living, Conversation
<1>1. /\ status[c] = "start" /\ status'[c] = "readCommand" /\ Running(c)
      /\ UNCHANGED <<pipes, written, pc, child, counter, request, answer, opened, received>>
  BY <1>0 DEF ChildStart, Shape, Running, parentVars
<1>2. CallState(h)'
  BY <1>0, <1>1, CallStateKept
<1>3. OwnAnswersIn(h, c) /\ InStep(h, c)
  BY <1>0, <1>1 DEF Living, Conversation
<1>4. OwnAnswersIn(h, c)'
  <2>1. Total(h)' = Total(h) /\ (NoAnswerIn(c)' <=> NoAnswerIn(c))
    BY <1>1 DEF Total, NoAnswerIn
  <2>2. QED
    BY <1>1, <1>3, <2>1 DEF OwnAnswersIn
<1>5. InStep(h, c)'
  <2>1. Before(h)' = Before(h) /\ Sent(h)' = Sent(h)
    BY <1>1 DEF Before, Sent
  <2>2. Unread(h, c) => Unread(h, c)'
    BY <1>1, <2>1 DEF Unread, NoAnswerIn
  <2>3. Waits(c) => Waits(c)'
    BY <1>1 DEF Waits, NoAnswerIn, NoRequestIn
  <2>4. ~Reads(h, c) /\ ~Executes(h, c) /\ ~WritesResult(h, c) /\ ~WritesPayload(h, c)
        /\ ~Answered(h, c)
    BY <1>1 DEF Reads, Executes, WritesResult, WritesPayload, Answered
  <2>5. QED
    BY <1>1, <1>3, <2>1, <2>2, <2>3, <2>4 DEF InStep
<1>6. QED
  BY <1>1, <1>2, <1>4, <1>5 DEF Conversation

LEMMA ChildCrashes ==
    ASSUME TalkInvariant, alive, NEW h \in Handles, NEW c \in Children, child[h] = c,
           ChildCrash(c)
    PROVE  Conversation(h)'
<1>0. Shape /\ Living /\ CallState(h)
  BY DEF TalkInvariant, Living, Conversation
<1>1. /\ Running(c) /\ status'[c] = "ended"
      /\ UNCHANGED <<pipes, written, pc, child, counter, request, answer>>
  BY <1>0 DEF ChildCrash, End, Shape, Running, parentVars
<1>2. CallState(h)'
  BY <1>0, <1>1, CallStateKept
<1>3. OwnAnswersIn(h, c)'
  <2>1. OwnAnswersIn(h, c)
    BY <1>0 DEF Living, Conversation
  <2>2. Total(h)' = Total(h) /\ (NoAnswerIn(c)' <=> NoAnswerIn(c))
    BY <1>1 DEF Total, NoAnswerIn
  <2>3. QED
    BY <1>1, <2>1, <2>2 DEF OwnAnswersIn
<1>4. QED
  BY <1>1, <1>2, <1>3 DEF Conversation, Running

\* The child reads a command.
LEMMA ChildReadsCommand ==
    ASSUME TalkInvariant, alive, NEW h \in Handles, NEW c \in Children, child[h] = c,
           ReadCommand(c)
    PROVE  Conversation(h)'
<1>0. Shape /\ Living /\ CallState(h)
  BY DEF TalkInvariant, Living, Conversation
<1>1. /\ status[c] = "readCommand" /\ Running(c) /\ DumpGet(c, "parentCommand")
      /\ UNCHANGED <<pc, child, counter, request, answer>>
  BY DEF ReadCommand, Running, parentVars
<1>2. pipes[c]["parentCommand"] # <<>>
  BY <1>1, EndsOpen DEF DumpGet
<1>3. OwnAnswersIn(h, c) /\ InStep(h, c)
  BY <1>0, <1>1 DEF Living, Conversation
<1>4. Unread(h, c) /\ pc[h] \in {"sendPayload", "readResult"}
  <2>1. ~Waits(c) /\ ~Answered(h, c)
    BY <1>2 DEF Waits, Answered, NoRequestIn
  <2>2. ~Reads(h, c) /\ ~Executes(h, c) /\ ~WritesResult(h, c) /\ ~WritesPayload(h, c)
    BY <1>1 DEF Reads, Executes, WritesResult, WritesPayload
  <2>3. pc[h] \notin {"init", "fork"}
    BY <1>0, <1>1, PluginProcessAssumption DEF CallState
  <2>4. pc[h] \in {"idle", "init", "fork", "closeEnds", "sendCommand", "sendPayload",
                   "readResult", "readPayload", "return"}
    BY <1>0 DEF Shape
  <2>5. QED
    BY <1>3, <2>1, <2>2, <2>3, <2>4 DEF InStep
<1>5. /\ Len(pipes[c]["parentCommand"]) = 1 /\ pipes[c]["parentCommand"][1].of = request[h]
      /\ Queue(pipes[c]["parentPayload"], 0, Sent(h), request[h])
      /\ NoAnswerIn(c) /\ received[c] = Nothing /\ written[c] = 0 /\ opened[c] = Before(h)
  BY <1>4 DEF Unread
<1>6. /\ pipes'[c]["parentCommand"] = <<>> /\ written' = written
      /\ \A n \in Pipes \ {"parentCommand"} : pipes'[c][n] = pipes[c][n]
  <2>1. Len(pipes[c]["parentCommand"]) <= 1
    BY <1>5
  <2>2. QED
    BY <1>0, <1>1, <2>1, CommandTaken
<1>7. /\ pipes'[c]["parentPayload"] = pipes[c]["parentPayload"]
      /\ pipes[c]["parentPayload"] \in Seq(Pieces)
      /\ pipes[c]["parentCommand"] \in Seq(Pieces) /\ NoAnswerIn(c)'
  <2>1. pipes[c]["parentPayload"] \in Seq(Pieces) /\ pipes[c]["parentCommand"] \in Seq(Pieces)
    BY <1>0 DEF Shape, Pipes
  <2>2. pipes'[c]["parentPayload"] = pipes[c]["parentPayload"]
    BY <1>6 DEF Pipes
  <2>3. NoAnswerIn(c)'
    BY <1>5, <1>6 DEF Pipes, NoAnswerIn
  <2>4. QED
    BY <2>1, <2>2, <2>3
<1>8. /\ status'[c] = IF request[h].payload THEN "readPayload" ELSE "execute"
      /\ received'[c].command = With(<<>>, c, "parentCommand")
      /\ received'[c].payload = <<>> /\ opened' = opened
  <2>1. Head(pipes[c]["parentCommand"]).of = request[h]
    BY <1>5, <1>7
  <2>2. /\ received' = [received EXCEPT ![c].command = With(received[c].command, c, "parentCommand")]
        /\ status' = [status EXCEPT ![c] =
                        IF request[h].payload THEN "readPayload" ELSE "execute"]
        /\ opened' = opened
    BY <1>2, <2>1 DEF ReadCommand
  <2>3. received[c].command = <<>> /\ received[c].payload = <<>>
    BY <1>5 DEF Nothing
  <2>4. QED
    BY <1>0, <2>2, <2>3 DEF Shape, Messages
<1>9. HasCommand(h, c)'
  <2>1. With(<<>>, c, "parentCommand") = <<pipes[c]["parentCommand"][1]>>
    BY <1>2, <1>7 DEF With
  <2>2. QED
    BY <1>1, <1>5, <1>6, <1>8, <2>1 DEF HasCommand
<1>10. CallState(h)'
  BY <1>0, <1>1, <1>6, <1>8, CallStateKept
<1>11. OwnAnswersIn(h, c)'
  BY <1>0, <1>1, <1>4, <1>7, NothingAnswered DEF CallState
<1>12. Before(h)' = Before(h) /\ Sent(h)' = Sent(h) /\ Total(h)' = Total(h)
  BY <1>1, <1>6 DEF Before, Sent, Total
<1>13. CASE request[h].payload
  <2>1. Queue(pipes[c]["parentPayload"], Len(received[c].payload), Sent(h), request[h])'
    BY <1>1, <1>5, <1>7, <1>8, <1>12
  <2>2. Reads(h, c)'
    BY <1>1, <1>5, <1>6, <1>7, <1>8, <1>9, <1>12, <1>13, <2>1 DEF Reads
  <2>3. QED
    BY <1>1, <1>4, <1>10, <1>11, <2>2 DEF Conversation, InStep
<1>14. CASE ~request[h].payload
  <2>1. Sent(h) = 0 /\ Total(h) = 0
    BY <1>14 DEF Sent, Total
  <2>2. pipes[c]["parentPayload"] = <<>>
    BY <1>5, <1>7, <2>1 DEF Queue
  <2>3. Executes(h, c)'
    BY <1>1, <1>5, <1>6, <1>7, <1>8, <1>9, <1>12, <1>14, <2>1, <2>2 DEF Executes
  <2>4. pc[h] = "readResult"
    BY <1>0, <1>4, <1>14 DEF CallState
  <2>5. QED
    BY <1>1, <1>10, <1>11, <2>3, <2>4 DEF Conversation, InStep
<1>15. QED
  BY <1>13, <1>14

\* The child reads a piece of the payload.
LEMMA ChildReadsPayload ==
    ASSUME TalkInvariant, alive, NEW h \in Handles, NEW c \in Children, child[h] = c,
           ReadRequestPayload(c)
    PROVE  Conversation(h)'
<1>0. Shape /\ Living /\ CallState(h)
  BY DEF TalkInvariant, Living, Conversation
<1>1. /\ status[c] = "readPayload" /\ Running(c) /\ DumpGet(c, "parentPayload")
      /\ UNCHANGED <<pc, child, counter, request, answer, opened>>
  BY DEF ReadRequestPayload, Running, parentVars
<1>2. pipes[c]["parentPayload"] # <<>>
  BY <1>1, EndsOpen DEF DumpGet
<1>3. OwnAnswersIn(h, c) /\ InStep(h, c)
  BY <1>0, <1>1 DEF Living, Conversation
<1>4. Reads(h, c) /\ pc[h] \in {"sendPayload", "readResult"}
  <2>1. ~Waits(c) /\ ~Answered(h, c) /\ ~Unread(h, c) /\ ~Executes(h, c)
        /\ ~WritesResult(h, c) /\ ~WritesPayload(h, c)
    BY <1>1 DEF Waits, Answered, Unread, Executes, WritesResult, WritesPayload
  <2>2. pc[h] \notin {"init", "fork"}
    BY <1>0, <1>1, PluginProcessAssumption DEF CallState
  <2>3. pc[h] \in {"idle", "init", "fork", "closeEnds", "sendCommand", "sendPayload",
                   "readResult", "readPayload", "return"}
    BY <1>0 DEF Shape
  <2>4. QED
    BY <1>3, <2>1, <2>2, <2>3 DEF InStep
<1> DEFINE s == pipes[c]["parentPayload"]
           k == Len(received[c].payload)
           n == Sent(h)
<1>5. /\ request[h].payload /\ HasCommand(h, c) /\ Queue(s, k, n, request[h])
      /\ NoAnswerIn(c) /\ written[c] = 0 /\ opened[c] = Before(h)
  BY <1>4 DEF Reads
<1>6. /\ received[c].payload \in Seq(Pieces) /\ k \in Nat
      /\ n \in 0 .. PayloadLength /\ (pc[h] = "sendPayload" => n # PayloadLength)
  BY <1>0, <1>4, <1>5, PluginProcessAssumption DEF Shape, Messages, Sent
<1>7. /\ Queue(pipes'[c]["parentPayload"], k + 1, n, request[h]) /\ written' = written
      /\ EndMark(c, "parentPayload") <=> k + 1 = PayloadLength
      /\ EndMark(c, "parentPayload") => n = PayloadLength /\ pipes'[c]["parentPayload"] = <<>>
      /\ \A i \in Pipes \ {"parentPayload"} : pipes'[c][i] = pipes[c][i]
      /\ Len(With(received[c].payload, c, "parentPayload")) = k + 1
  <2>1. Queue(pipes[c]["parentPayload"], k, n, request[h])
    BY <1>5
  <2>2. /\ Queue(pipes'[c]["parentPayload"], k + 1, n, request[h]) /\ written' = written
        /\ EndMark(c, "parentPayload") <=> k + 1 = PayloadLength
        /\ EndMark(c, "parentPayload") => n = PayloadLength /\ pipes'[c]["parentPayload"] = <<>>
        /\ \A i \in Pipes \ {"parentPayload"} : pipes'[c][i] = pipes[c][i]
        /\ \A got \in Seq(Pieces) : Len(With(got, c, "parentPayload")) = Len(got) + 1
    <3> HIDE DEF k, n
    <3> QED
      BY <1>0, <1>1, <1>2, <1>6, <2>1, PieceTaken
  <2>3. QED
    BY <1>6, <2>2
<1>8. /\ received'[c].payload = With(received[c].payload, c, "parentPayload")
      /\ received'[c].command = received[c].command
      /\ status'[c] = IF EndMark(c, "parentPayload") THEN "execute" ELSE "readPayload"
  BY <1>0, <1>1 DEF ReadRequestPayload, Shape, Messages
<1>9. NoAnswerIn(c)' /\ HasCommand(h, c)'
  BY <1>1, <1>5, <1>7, <1>8 DEF NoAnswerIn, HasCommand, Pipes
<1>10. CallState(h)'
  BY <1>0, <1>1, <1>7, <1>8, CallStateKept
<1>11. OwnAnswersIn(h, c)'
  BY <1>0, <1>1, <1>4, <1>9, NothingAnswered DEF CallState
<1>12. Before(h)' = Before(h) /\ Sent(h)' = Sent(h) /\ Total(h)' = Total(h)
       /\ Total(h) = PayloadLength
  BY <1>1, <1>5, <1>7 DEF Before, Sent, Total
<1> HIDE DEF s, k
<1>13. CASE EndMark(c, "parentPayload")
  <2>1. Executes(h, c)'
    BY <1>1, <1>5, <1>7, <1>8, <1>9, <1>12, <1>13 DEF Executes
  <2>2. pc[h] = "readResult"
    BY <1>4, <1>6, <1>7, <1>13
  <2>3. QED
    BY <1>1, <1>10, <1>11, <2>1, <2>2 DEF Conversation, InStep
<1>14. CASE ~EndMark(c, "parentPayload")
  <2>1. Queue(pipes[c]["parentPayload"], Len(received[c].payload), Sent(h), request[h])'
    BY <1>1, <1>7, <1>8, <1>12
  <2>2. Reads(h, c)'
    BY <1>1, <1>5, <1>7, <1>8, <1>9, <1>12, <1>14, <2>1 DEF Reads
  <2>3. QED
    BY <1>1, <1>4, <1>10, <1>11, <2>2 DEF Conversation, InStep
<1>15. QED
  BY <1>13, <1>14

\* The plugin's function is called.
LEMMA ChildExecutes ==
    ASSUME TalkInvariant, alive, NEW h \in Handles, NEW c \in Children, child[h] = c,
           NEW res \in {"success", "error"}, Execute(c, res)
    PROVE  Conversation(h)'
<1>0. Shape /\ Living /\ CallState(h)
  BY DEF TalkInvariant, Living, Conversation
<1>1. /\ status[c] = "execute" /\ Running(c) /\ status'[c] = "writeResult"
      /\ UNCHANGED <<pipes, written, received, pc, child, counter, request, answer>>
  BY <1>0 DEF Execute, Running, Shape, parentVars
<1>2. OwnAnswersIn(h, c) /\ InStep(h, c)
  BY <1>0, <1>1 DEF Living, Conversation
<1>3. Executes(h, c) /\ pc[h] = "readResult"
  <2>1. ~Waits(c) /\ ~Answered(h, c) /\ ~Unread(h, c) /\ ~Reads(h, c)
        /\ ~WritesResult(h, c) /\ ~WritesPayload(h, c)
    BY <1>1 DEF Waits, Answered, Unread, Reads, WritesResult, WritesPayload
  <2>2. pc[h] \notin {"init", "fork"}
    BY <1>0, <1>1, PluginProcessAssumption DEF CallState
  <2>3. pc[h] \in {"idle", "init", "fork", "closeEnds", "sendCommand", "sendPayload",
                   "readResult", "readPayload", "return"}
    BY <1>0 DEF Shape
  <2>4. QED
    BY <1>2, <2>1, <2>2, <2>3 DEF InStep
<1>4. Task(c) = request[h]
  BY <1>3 DEF Executes, HasCommand, Task
<1>5. opened'[c] = counter[h]
  <2>1. opened'[c] = IF request[h].cmd = "open" THEN opened[c] + 1
                     ELSE IF request[h].cmd = "close" THEN opened[c] - 1 ELSE opened[c]
    BY <1>0, <1>4 DEF Execute, Shape
  <2>2. /\ opened[c] = Before(h) /\ counter[h] \in Nat
        /\ request[h].cmd \in {"open", "close", "call"}
    BY <1>0, <1>3 DEF Executes, Shape, Requests
  <2>3. QED
    BY <2>1, <2>2 DEF Before
<1>6. CallState(h)'
  BY <1>0, <1>1, CallStateKept
<1>7. NoAnswerIn(c)'
  BY <1>1, <1>3 DEF Executes, NoAnswerIn
<1>8. OwnAnswersIn(h, c)'
  BY <1>0, <1>1, <1>3, <1>7, NothingAnswered DEF CallState
<1>9. WritesResult(h, c)'
  BY <1>1, <1>3, <1>5, <1>7 DEF Executes, WritesResult, HasCommand
<1>10. QED
  BY <1>1, <1>3, <1>6, <1>8, <1>9 DEF Conversation, InStep

\* What is left to the child when it has answered.
LEMMA ChildHandled ==
    ASSUME Shape, NEW c \in Children, Handled(c)
    PROVE  \/ status'[c] = "ended"
           \/ /\ status'[c] = "readCommand" /\ received'[c] = Nothing
              /\ opened' = opened /\ opened[c] # 0
BY DEF Handled, End, Shape

\* The result is written.
LEMMA ChildWritesResult ==
    ASSUME TalkInvariant, alive, NEW h \in Handles, NEW c \in Children, child[h] = c,
           WriteResult(c)
    PROVE  Conversation(h)'
<1>0. Shape /\ Living /\ CallState(h)
  BY DEF TalkInvariant, Living, Conversation
<1>1. /\ status[c] = "writeResult" /\ Running(c)
      /\ UNCHANGED <<pc, child, counter, request, answer>>
  BY DEF WriteResult, Running, parentVars
<1>2. OwnAnswersIn(h, c) /\ InStep(h, c)
  BY <1>0, <1>1 DEF Living, Conversation
<1>3. WritesResult(h, c) /\ pc[h] = "readResult"
  <2>1. ~Waits(c) /\ ~Answered(h, c) /\ ~Unread(h, c) /\ ~Reads(h, c)
        /\ ~Executes(h, c) /\ ~WritesPayload(h, c)
    BY <1>1 DEF Waits, Answered, Unread, Reads, Executes, WritesPayload
  <2>2. pc[h] \notin {"init", "fork"}
    BY <1>0, <1>1, PluginProcessAssumption DEF CallState
  <2>3. pc[h] \in {"idle", "init", "fork", "closeEnds", "sendCommand", "sendPayload",
                   "readResult", "readPayload", "return"}
    BY <1>0 DEF Shape
  <2>4. QED
    BY <1>2, <2>1, <2>2, <2>3 DEF InStep
<1>4. /\ HasCommand(h, c) /\ pipes[c]["parentPayload"] = <<>>
      /\ NoAnswerIn(c) /\ written[c] = 0 /\ opened[c] = counter[h]
  BY <1>3 DEF WritesResult
<1>5. Task(c) = request[h] /\ answer[h] = Nothing
  BY <1>0, <1>3, <1>4 DEF HasCommand, Task, CallState
<1>6. DumpSet(c, c, "childCommand", request[h], result[c]) /\ CanRead(c, "childCommand")
  BY <1>5, EndsOpen DEF WriteResult
<1>7. /\ written'[c] = 0 /\ written'[h] = written[h]
      /\ pipes'[c]["childCommand"] = Append(<<>>, Piece(request[h], 1, result[c]))
      /\ \A n \in Pipes \ {"childCommand"} : pipes'[c][n] = pipes[c][n]
  <2>1. h # c
    BY PluginProcessAssumption
  <2>2. (written[c] + 1) % Length("childCommand") = 0
    BY <1>4, OnePiece DEF Length
  <2>3. written' = [written EXCEPT ![c] = 0]
    BY <1>6, <2>2 DEF DumpSet
  <2>4. pipes' = [pipes EXCEPT ![c]["childCommand"] =
                    Append(<<>>, Piece(request[h], 1, result[c]))]
    BY <1>4, <1>6 DEF DumpSet, NoAnswerIn
  <2>5. QED
    BY <1>0, <2>1, <2>3, <2>4 DEF Shape, Pipes
<1>8. /\ Len(pipes'[c]["childCommand"]) = 1
      /\ \A i \in 1 .. 1 : pipes'[c]["childCommand"][i].of = request[h]
  BY <1>7 DEF Piece
<1>9. /\ pipes'[c]["childPayload"] = <<>> /\ pipes'[c]["parentCommand"] = <<>>
      /\ pipes'[c]["parentPayload"] = <<>>
  BY <1>4, <1>7 DEF HasCommand, NoAnswerIn, Pipes
<1>10. /\ Len(answer'[h].payload) = 0 /\ Len(<<>>) = 0
       /\ Total(h)' = Total(h) /\ 0 \in 0 .. Total(h)
  BY <1>1, <1>5, PluginProcessAssumption DEF Nothing, Total
<1>11. Queue(pipes[c]["childPayload"], Len(answer[h].payload), 0, request[h])'
  BY <1>9, <1>10 DEF Queue
<1>12. OwnAnswersIn(h, c)'
  BY <1>1, <1>3, <1>8, <1>10, <1>11 DEF OwnAnswersIn
<1>13. CASE request[h].payload
  <2>1. status'[c] = "writePayload" /\ UNCHANGED <<opened, received>>
    BY <1>0, <1>5, <1>13 DEF WriteResult, Shape
  <2>2. WritesPayload(h, c)'
    BY <1>1, <1>3, <1>4, <1>7, <1>8, <1>9, <1>11, <1>13, <2>1 DEF WritesPayload, HasCommand
  <2>3. CallState(h)'
    BY <1>0, <1>1, <1>7, <2>1, CallStateKept
  <2>4. QED
    BY <1>1, <1>3, <1>12, <2>2, <2>3 DEF Conversation, InStep
<1>14. CASE ~request[h].payload
  <2>1. Handled(c)
    BY <1>5, <1>14 DEF WriteResult
  <2>2. status'[c] # "none"
    BY <1>0, <2>1, ChildHandled
  <2>3. CallState(h)'
    BY <1>0, <1>1, <1>7, <2>2, CallStateKept
  <2>4. CASE status'[c] = "ended"
    BY <1>1, <1>12, <2>3, <2>4 DEF Conversation, Running
  <2>5. CASE /\ status'[c] = "readCommand" /\ received'[c] = Nothing
             /\ opened' = opened /\ opened[c] # 0
    <3>1. counter[h] > 0
      BY <1>0, <1>4, <2>5 DEF Shape
    <3>2. Total(h)' = 0
      BY <1>1, <1>14 DEF Total
    <3>3. Answered(h, c)'
      BY <1>1, <1>3, <1>4, <1>7, <1>8, <1>9, <1>11, <2>5, <3>1, <3>2 DEF Answered, NoRequestIn
    <3>4. QED
      BY <1>1, <1>3, <1>12, <2>3, <3>3 DEF Conversation, InStep
  <2>6. QED
    BY <1>0, <2>1, <2>4, <2>5, ChildHandled
<1>15. QED
  BY <1>13, <1>14

\* A piece of the answer's payload is written.
LEMMA ChildWritesPayload ==
    ASSUME TalkInvariant, alive, NEW h \in Handles, NEW c \in Children, child[h] = c,
           WritePayload(c)
    PROVE  Conversation(h)'
<1>0. Shape /\ Living /\ CallState(h)
  BY DEF TalkInvariant, Living, Conversation
<1>1. /\ status[c] = "writePayload" /\ Running(c)
      /\ UNCHANGED <<pc, child, counter, request, answer>>
  BY DEF WritePayload, Running, parentVars
<1>2. OwnAnswersIn(h, c) /\ InStep(h, c)
  BY <1>0, <1>1 DEF Living, Conversation
<1>3. WritesPayload(h, c) /\ pc[h] \in {"readResult", "readPayload"}
  <2>1. ~Waits(c) /\ ~Answered(h, c) /\ ~Unread(h, c) /\ ~Reads(h, c)
        /\ ~Executes(h, c) /\ ~WritesResult(h, c)
    BY <1>1 DEF Waits, Answered, Unread, Reads, Executes, WritesResult
  <2>2. pc[h] \notin {"init", "fork"}
    BY <1>0, <1>1, PluginProcessAssumption DEF CallState
  <2>3. pc[h] \in {"idle", "init", "fork", "closeEnds", "sendCommand", "sendPayload",
                   "readResult", "readPayload", "return"}
    BY <1>0 DEF Shape
  <2>4. QED
    BY <1>2, <2>1, <2>2, <2>3 DEF InStep
<1> DEFINE s == pipes[c]["childPayload"]
           k == Len(answer[h].payload)
           w == written[c]
           e == Piece(request[h], w + 1, "none")
<1>4. /\ request[h].payload /\ HasCommand(h, c) /\ pipes[c]["parentPayload"] = <<>>
      /\ Len(pipes[c]["childCommand"]) = (IF pc[h] = "readResult" THEN 1 ELSE 0)
      /\ Queue(s, k, w, request[h]) /\ opened[c] = counter[h]
  BY <1>3 DEF WritesPayload
<1>5. /\ s \in Seq(Pieces) /\ k \in Nat /\ w \in 0 .. PayloadLength - 1
      /\ request[h] \in Requests
  BY <1>0 DEF Shape, Pipes, Messages
<1>6. e \in Pieces /\ e.of = request[h] /\ e.no = w + 1
  BY <1>5, PieceType DEF Piece
<1>7. Task(c) = request[h]
  BY <1>4 DEF HasCommand, Task
<1>8. DumpSet(c, c, "childPayload", request[h], "none") /\ CanRead(c, "childPayload")
  BY <1>7, EndsOpen DEF WritePayload
<1>9. /\ written'[c] = (IF w + 1 = PayloadLength THEN 0 ELSE w + 1) /\ written'[h] = written[h]
      /\ pipes'[c]["childPayload"] = Append(s, e)
      /\ \A n \in Pipes \ {"childPayload"} : pipes'[c][n] = pipes[c][n]
  <2>1. h # c
    BY PluginProcessAssumption
  <2>2. (written[c] + 1) % Length("childPayload") = IF w + 1 = PayloadLength THEN 0 ELSE w + 1
    BY <1>5, NextPiece DEF Length
  <2>3. written' = [written EXCEPT ![c] = IF w + 1 = PayloadLength THEN 0 ELSE w + 1]
    BY <1>8, <2>2 DEF DumpSet
  <2>4. pipes' = [pipes EXCEPT ![c]["childPayload"] = Append(s, e)]
    BY <1>8 DEF DumpSet
  <2> HIDE DEF s, e
  <2>5. QED
    BY <1>0, <2>1, <2>3, <2>4 DEF Shape, Pipes
<1>10. Queue(Append(s, e), k, w + 1, request[h])
  BY <1>4, <1>5, <1>6, QueueAppend
<1>11. /\ Queue(pipes'[c]["childPayload"], Len(answer'[h].payload), w + 1, request'[h])
       /\ w + 1 \in 0 .. PayloadLength
  <2>1. Queue(pipes'[c]["childPayload"], Len(answer'[h].payload), w + 1, request'[h])
    <3> HIDE DEF e, w
    <3> QED
      BY <1>1, <1>9, <1>10
  <2>2. QED
    BY <1>5, <2>1, PluginProcessAssumption
<1>12. /\ pipes'[c]["childCommand"] = pipes[c]["childCommand"]
       /\ pipes'[c]["parentCommand"] = <<>> /\ pipes'[c]["parentPayload"] = <<>>
  BY <1>4, <1>9 DEF HasCommand, Pipes
<1>13. Total(h) = PayloadLength /\ Total(h)' = PayloadLength
  BY <1>1, <1>4 DEF Total
<1>14. OwnAnswersIn(h, c)'
  <2>1. \E n \in 0 .. Total(h)' :
          pc'[h] \in {"readResult", "readPayload"} =>
            Queue(pipes'[c]["childPayload"], Len(answer'[h].payload), n, request'[h])
    <3> HIDE DEF w
    <3> QED
      BY <1>11, <1>13
  <2> HIDE DEF w
  <2>2. QED
    BY <1>1, <1>2, <1>3, <1>12, <2>1 DEF OwnAnswersIn
<1>15. CASE w + 1 = PayloadLength
  <2>1. Handled(c) /\ written'[c] = 0
    BY <1>9, <1>15 DEF WritePayload
  <2>2. status'[c] # "none"
    BY <1>0, <2>1, ChildHandled
  <2>3. CallState(h)'
    BY <1>0, <1>1, <1>9, <2>2, CallStateKept
  <2>4. CASE status'[c] = "ended"
    BY <1>1, <1>14, <2>3, <2>4 DEF Conversation, Running
  <2>5. CASE /\ status'[c] = "readCommand" /\ received'[c] = Nothing
             /\ opened' = opened /\ opened[c] # 0
    <3>1. counter[h] > 0
      BY <1>0, <1>4, <2>5 DEF Shape
    <3>2. Queue(pipes'[c]["childPayload"], Len(answer'[h].payload), Total(h)', request'[h])
      BY <1>11, <1>13, <1>15
    <3>3. Answered(h, c)'
      BY <1>1, <1>4, <1>12, <2>1, <2>5, <3>1, <3>2 DEF Answered, NoRequestIn
    <3>4. QED
      BY <1>1, <1>3, <1>14, <2>3, <3>3 DEF Conversation, InStep
  <2>6. QED
    BY <1>0, <2>1, <2>4, <2>5, ChildHandled
<1>16. CASE w + 1 # PayloadLength
  <2>1. written'[c] = w + 1 /\ UNCHANGED <<status, opened, received>>
    BY <1>5, <1>9, <1>16 DEF WritePayload
  <2>2. CallState(h)'
    BY <1>0, <1>1, <1>9, <2>1, CallStateKept
  <2>3. Queue(pipes'[c]["childPayload"], Len(answer'[h].payload), written'[c], request'[h])
    BY <1>11, <2>1
  <2>4. WritesPayload(h, c)'
    BY <1>1, <1>4, <1>12, <2>1, <2>3 DEF WritesPayload, HasCommand
  <2>5. QED
    BY <1>1, <1>3, <1>14, <2>2, <2>4 DEF Conversation, InStep
<1>17. QED
  BY <1>15, <1>16

-----------------------------------------------------------------------------
(***************************************************************************)
(* All conversations, and what follows from their being in step.           *)
(***************************************************************************)

\* A step of a handle concerns its own conversation only, a step of a child that of
\* its handle.
LEMMA ConversationsStep ==
    ASSUME TalkInvariant, Next, alive'
    PROVE  \A g \in Handles : Conversation(g)'
<1>0. alive /\ Living /\ Shape
  BY AliveBefore
<1>1. ASSUME NEW h \in Handles,
             \/ Open(h) \/ Close(h) \/ \E payload \in BOOLEAN : Call(h, payload)
             \/ HandleStep(h)
      PROVE  \A g \in Handles : Conversation(g)'
  <2>1. OnlyHandle(h) /\ OnlyChild(child[h])
    BY <1>0, <1>1, HandleTouches
  <2>2. \A g \in Handles \ {h} : child[g] # child[h] \/ child[h] \notin Children
    BY <1>0 DEF Living, OneHandle
  <2>3. \A g \in Handles \ {h} : Conversation(g)'
    BY <1>0, <2>1, <2>2, OthersTalk
  <2>4. Conversation(h)'
    BY <1>0, <1>1, CallBegins, ChildMade, CommandSent, PayloadSent, ResultRead, PayloadRead,
       CallReturns DEF HandleStep
  <2>5. QED
    BY <2>3, <2>4
<1>2. ASSUME NEW c \in Children, ChildStep(c) \/ ChildCrash(c)
      PROVE  \A g \in Handles : Conversation(g)'
  <2>1. /\ OnlyChild(c) /\ Running(c) /\ UNCHANGED parentVars
        /\ \A g \in Handles : written'[g] = written[g]
    BY <1>2, ChildTouches
  <2>2. PICK h \in Handles : child[h] = c
    BY <1>0, <2>1 DEF Living, HandleOfChild
  <2>3. OnlyHandle(h)
    BY <2>1 DEF OnlyHandle, SameHandle, parentVars
  <2>4. \A g \in Handles \ {h} : child[g] # c
    BY <1>0, <2>2 DEF Living, OneHandle
  <2>5. \A g \in Handles \ {h} : Conversation(g)'
    BY <1>0, <2>1, <2>3, <2>4, OthersTalk
  <2>6. Conversation(h)'
    BY <1>0, <1>2, <2>2, ChildStarts, ChildCrashes, ChildReadsCommand, ChildReadsPayload,
       ChildExecutes, ChildWritesResult, ChildWritesPayload DEF ChildStep
  <2>7. QED
    BY <2>5, <2>6
<1>3. QED
  BY <1>1, <1>2 DEF Next, ParentCrash

LEMMA TalkInit ==
    ASSUME Init
    PROVE  TalkInvariant
<1>1. Shape
  BY PluginProcessAssumption, NoRequestType, NothingType DEF Init, Shape, Nothing
<1>2. CommandRead /\ OwnEnds
  BY DEF Init, CommandRead, OwnEnds, Running
<1>3. OwnAnswers
  <2>1. \A h \in Handles : answer[h].command = <<>> /\ answer[h].payload = <<>>
    BY DEF Init, Nothing
  <2>2. DOMAIN <<>> = {}
    OBVIOUS
  <2>3. QED
    BY <2>1, <2>2, Zenon DEF OwnAnswers
<1>4. \A h \in Handles : child[h] = NoChild /\ child[h] \notin Children
  BY PluginProcessAssumption DEF Init
<1>5. ParentEnds /\ OneHandle
  BY <1>4 DEF ParentEnds, OneHandle
<1>6. HandleOfChild
  BY DEF Init, HandleOfChild, Running, Quiet
<1>7. \A h \in Handles : Conversation(h)
  BY <1>4 DEF Init, Conversation, CallState
<1>8. QED
  BY <1>1, <1>2, <1>3, <1>5, <1>6, <1>7 DEF TalkInvariant, Living

LEMMA TalkStep ==
    ASSUME TalkInvariant, [Next]_vars
    PROVE  TalkInvariant'
<1>1. CASE Next
  BY <1>1, ShapeStep, CommandReadStep, OwnEndsStep, OwnAnswersStep, ParentEndsStep,
     OneHandleStep, HandleOfChildStep, ConversationsStep DEF TalkInvariant, Living
<1>2. CASE UNCHANGED vars
  <2>0. TalkInvariant
    OBVIOUS
  <2>1. UNCHANGED <<ends, pipes, written, pc, child, counter, calls, request, answer, status,
                    opened, result, received, alive>>
    BY <1>2 DEF vars, parentVars, childVars
  <2>2. Shape' /\ CommandRead' /\ OwnAnswers' /\ OwnEnds'
    BY <2>0, <2>1 DEF TalkInvariant, Shape, CommandRead, OwnAnswers, OwnEnds, Running
  <2>3. ASSUME Living PROVE Living'
    <3>1. ParentEnds' /\ OneHandle' /\ HandleOfChild'
      BY <2>1, <2>3 DEF Living, ParentEnds, OneHandle, HandleOfChild, Running, Quiet
    <3>2. \A h \in Handles : Conversation(h)'
      BY <2>1, <2>3, Untouched DEF Living, SameHandle, SameChild
    <3>3. QED
      BY <3>1, <3>2 DEF Living
  <2>4. QED
    BY <2>0, <2>1, <2>2, <2>3 DEF TalkInvariant
<1>3. QED
  BY <1>1, <1>2

LEMMA Talking == Spec => []TalkInvariant
<1>1. Init => TalkInvariant
  BY TalkInit
<1>2. TalkInvariant /\ [Next]_vars => TalkInvariant'
  BY TalkStep
<1>3. QED
  BY <1>1, <1>2, PTL DEF Spec

\* Whatever elektraPluginProcessSend reads from the child's pipes is an answer to the
\* request it has sent, also if the child has crashed in the middle of an earlier
\* call or other handles talk to their children in other threads.
THEOREM AnswersBelong == Spec => []OwnAnswers
<1>1. TalkInvariant => OwnAnswers
  BY DEF TalkInvariant
<1>2. QED
  BY <1>1, Talking, PTL

\* As long as the parent process lives, the child executes a function of the plugin
\* only with all pieces of the key set that elektraPluginProcessSend was called with.
THEOREM RequestsWhole == Spec => []WholeRequests
<1>1. ASSUME TalkInvariant PROVE WholeRequests
  <2>1. SUFFICES ASSUME NEW c \in Children, alive, status[c] = "execute", Task(c).payload
                 PROVE  Len(received[c].payload) = PayloadLength
    BY DEF WholeRequests
  <2>2. Shape /\ Living /\ Running(c)
    BY <1>1, <2>1 DEF TalkInvariant, Running
  <2>3. PICK h \in Handles : child[h] = c
    BY <2>2 DEF Living, HandleOfChild
  <2>4. InStep(h, c) /\ CallState(h)
    BY <2>2, <2>3 DEF Living, Conversation
  <2>5. Executes(h, c)
    <3>1. ~Waits(c) /\ ~Answered(h, c) /\ ~Unread(h, c) /\ ~Reads(h, c)
          /\ ~WritesResult(h, c) /\ ~WritesPayload(h, c)
      BY <2>1 DEF Waits, Answered, Unread, Reads, WritesResult, WritesPayload
    <3>2. pc[h] \notin {"init", "fork"}
      BY <2>1, <2>3, <2>4, PluginProcessAssumption DEF CallState
    <3>3. pc[h] \in {"idle", "init", "fork", "closeEnds", "sendCommand", "sendPayload",
                     "readResult", "readPayload", "return"}
      BY <2>2 DEF Shape
    <3>4. QED
      BY <2>4, <3>1, <3>2, <3>3 DEF InStep
  <2>6. QED
    BY <2>1, <2>5 DEF Executes, HasCommand, Task, Total
<1>2. QED
  BY <1>1, Talking, PTL

\* When no call of a handle is under way, elektraPluginProcessOpen and
\* elektraPluginProcessClose have counted as its waiting child has, so the child ends
\* with the last close and not before, and nothing of an earlier call is left in
\* the pipes.
THEOREM CallsLeaveNothing == Spec => []BetweenCalls
<1>1. ASSUME TalkInvariant PROVE BetweenCalls
  <2>1. SUFFICES ASSUME alive, NEW h \in Handles, NEW c \in Children, pc[h] = "idle",
                        child[h] = c, status[c] = "readCommand"
                 PROVE  opened[c] = counter[h] /\ \A n \in Pipes : pipes[c][n] = <<>>
    BY DEF BetweenCalls
  <2>2. InStep(h, c)
    BY <1>1, <2>1 DEF TalkInvariant, Living, Conversation, Running
  <2>3. Waits(c) /\ opened[c] = counter[h]
    BY <2>1, <2>2 DEF InStep
  <2>4. QED
    BY <2>3 DEF Waits, NoRequestIn, NoAnswerIn, Pipes
<1>2. QED
  BY <1>1, Talking, PTL
=============================================================================
