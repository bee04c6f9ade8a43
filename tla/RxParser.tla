------------------------------ MODULE RxParser ------------------------------
(***************************************************************************)
(* What u_cx_at_client.c does with the bytes it reads: characters that     *)
(* make lines, lines that are statuses, responses or URCs, and binary data *)
(* that follows a line after an SOH and two length bytes.  AtClient takes  *)
(* whole lines; here a read may return any part of what is asked for and   *)
(* the parser must go on where it stopped, in whatever call comes next.    *)
(*                                                                         *)
(* One thread is enough: cmdMutex is held while bytes are read.            *)
(***************************************************************************)
EXTENDS Integers, Sequences, SequencesExt, FiniteSetsExt

CONSTANTS
  Messages,     \* what the module may send, see Message
  RxBufferLen,  \* the size of the line buffer
  RspPrefixes,  \* what commands expect their response to begin with, empty for NULL
  BufferSizes,  \* the sizes of the buffers given for binary responses
  PayloadRooms, \* the room that the URC queue may have for a payload
  FlushLen,     \* how much is read at once when data is thrown away
  MaxMessages,  \* bound: messages sent
  MaxCmds,      \* bound: commands executed
  MaxFailures   \* bound: timeouts and failing reads

\* Bytes by their roles: a character that is not printed, SOH, '\r' or '\n', the
\* '+' of URCs and responses, a letter, and the words OK, ERROR and AT+.
UNPRINTED == 0
SOH == 1
EOL == 2
PLUS == 3
LETTER == 4
OK == 5
ERROR == 6
AT == 7
Byte == 0 .. 7
Printable == {PLUS, LETTER, OK, ERROR, AT}
Radix == 8      \* a length has two bytes

ASSUME ParserAssumption ==
  /\ \A m \in Messages : /\ m.line \in Seq(Byte \ {SOH, EOL})
                         /\ m.payload \in Seq(Byte)
                         /\ m.for \in {"nobody", "query", "end"}
                         /\ m.isBinary \in BOOLEAN
                         /\ ~m.isBinary => m.payload = <<>>
                         /\ Len(m.payload) < Radix * Radix
  /\ \A p \in RspPrefixes : p \in Seq(Byte) /\ (p # <<>> => Head(p) = PLUS)
  /\ RxBufferLen \in Nat \ {0} /\ FlushLen \in Nat \ {0}
  /\ BufferSizes \subseteq Nat /\ PayloadRooms \subseteq Nat
  /\ {MaxMessages, MaxCmds, MaxFailures} \subseteq Nat

VARIABLES
  rx,           \* the bytes that the UART has and nobody has read
  line,         \* the first rxBufferPos bytes of pRxBuffer
  isBinaryRx,
  header,       \* the first rxHeaderCount bytes of lengthBuf
  binaryRx,
  cmd,          \* the command that executes, 0 for none
  pExpectedRsp, \* the prefix of the response, empty for NULL
  rspBinaryBuf, \* the buffer for binary data of a response, and whose it is
  status,
  at,           \* where the thread is
  todo,         \* what the module has to answer
  sent,         \* history: the messages sent
  frames,       \* history: what was made of them
  nCmds, nFailures

parser == <<rx, line, isBinaryRx, header, binaryRx, frames>>
caller == <<cmd, pExpectedRsp, rspBinaryBuf, todo, nCmds>>
rxVars == <<parser, caller, status, at, sent, nFailures>>

NoBuffer == [owner |-> 0, size |-> 0]
Flush == [state |-> "FLUSH", owner |-> 0, bufferSize |-> 0, remaining |-> 0,
          data |-> <<>>, line |-> <<>>]

RxInit ==
  /\ rx = <<>> /\ line = <<>> /\ isBinaryRx = FALSE /\ header = <<>>
  /\ binaryRx = Flush
  /\ cmd = 0 /\ pExpectedRsp = <<>> /\ rspBinaryBuf = NoBuffer
  /\ status = "NO_STATUS"
  /\ at = "idle"
  /\ todo = <<>> /\ sent = <<>> /\ frames = <<>>
  /\ nCmds = 0 /\ nFailures = 0

-----------------------------------------------------------------------------
(* The module: code outside of the repository.  It sends URCs when it likes *)
(* and answers its oldest command, a query with a response before the end.  *)

Wire(m) ==
  <<EOL>> \o m.line \o
  (IF m.isBinary THEN <<SOH, Len(m.payload) \div Radix, (Len(m.payload) % Radix)>> \o m.payload
                 ELSE <<EOL>>)

ModuleSends(m) ==
  /\ Len(sent) < MaxMessages
  /\ m.for # "nobody" => todo # <<>> /\ Head(todo) = m.for
  /\ todo' = CASE m.for = "nobody" -> todo
               [] m.for = "query" -> [todo EXCEPT ![1] = "end"]
               [] m.for = "end" -> Tail(todo)
  /\ rx' = rx \o Wire(m)
  /\ sent' = Append(sent, m)
  /\ UNCHANGED <<line, isBinaryRx, header, binaryRx, frames, cmd,
                 pExpectedRsp, rspBinaryBuf, nCmds, status, at, nFailures>>

-----------------------------------------------------------------------------
(* parseLine(): what a line is                                              *)

IsExpected(l) == cmd # 0 /\ pExpectedRsp # <<>> /\ IsPrefix(pExpectedRsp, l)

\* ERROR stands for "ERROR" and for "ERROR:<code>".
IsStatus(l) == cmd # 0 /\ ~IsExpected(l) /\ l \in {<<OK>>, <<ERROR>>}

\* A response that has no prefix is any line that cannot be anything else.
IsResponse(l) ==
  IsExpected(l) \/ (cmd # 0 /\ l # <<>> /\ ~IsStatus(l) /\ Head(l) \notin {PLUS, ERROR, AT})

IsUrc(l) == l # <<>> /\ Head(l) = PLUS /\ ~IsExpected(l)

\* A URC needs room in the queue.
Kinds(l) == CASE IsResponse(l) -> {"rsp"}
              [] IsStatus(l) -> {"status"}
              [] IsUrc(l) -> {"urc", "dropped"}
              [] OTHER -> {"unexpected"}

Frame(kind, l, length, transfer) ==
  [kind |-> kind, line |-> l, length |-> length, data |-> transfer.data,
   room |-> transfer.bufferSize]

-----------------------------------------------------------------------------
(* handleRxData(): it reads until there is something for its caller.        *)

Reading == at \in {"getRsp", "cmdEnd", "handleRx"}

\* The caller goes on after a return: GetRspParamLine() with a response or a
\* status, cmdEnd() with a status, handleRx() always.
ReturnTo(kind) ==
  at' = IF at = "handleRx" THEN "idle"
        ELSE IF status' # "NO_STATUS" \/ (at = "getRsp" /\ kind = "rsp") THEN "begun"
        ELSE at

StatusOf(kind, l) == IF kind # "status" THEN status
                     ELSE IF l = <<OK>> THEN "OK" ELSE "ERROR"

\* A printable character: a full buffer is emptied.
Store(ch) == line' = IF Len(line) + 1 = RxBufferLen THEN <<>> ELSE Append(line, ch)

\* parseIncomingChar()
ReadCharacter ==
  /\ Reading /\ ~isBinaryRx /\ rx # <<>>
  /\ Head(rx) \notin {SOH, EOL}
  /\ rx' = Tail(rx)
  /\ IF Head(rx) \in Printable THEN Store(Head(rx)) ELSE UNCHANGED line
  /\ UNCHANGED <<isBinaryRx, header, binaryRx, frames, caller, status, at, sent,
                 nFailures>>

\* The end of a line: a URC is put in the queue and reading goes on.
ReadEndOfLine ==
  /\ Reading /\ ~isBinaryRx /\ rx # <<>>
  /\ Head(rx) = EOL
  /\ rx' = Tail(rx)
  /\ line' = <<>>
  /\ \E kind \in Kinds(line) :
       /\ status' = StatusOf(kind, line)
       /\ frames' = IF line = <<>> THEN frames
                    ELSE Append(frames, Frame(kind, line, 0, Flush))
       /\ IF kind \in {"rsp", "status"} THEN ReturnTo(kind) ELSE UNCHANGED at
  /\ UNCHANGED <<isBinaryRx, header, binaryRx, caller, sent, nFailures>>

ReadSOH ==
  /\ Reading /\ ~isBinaryRx /\ rx # <<>>
  /\ Head(rx) = SOH
  /\ rx' = Tail(rx)
  /\ isBinaryRx' = TRUE
  /\ UNCHANGED <<line, header, binaryRx, frames, caller, status, at, sent,
                 nFailures>>

-----------------------------------------------------------------------------
(* handleBinaryRx()                                                         *)

\* setupBinaryTransfer(): where the data goes.  A response takes the buffer
\* that is registered; a URC the room behind its line, if that is enough.
SetupWhateverRoom(kind, length, room) ==
  CASE kind = "rsp" -> [Flush EXCEPT !.state = "RSP", !.owner = rspBinaryBuf.owner,
                                     !.bufferSize = rspBinaryBuf.size]
    [] kind = "urc" -> [Flush EXCEPT !.state = "URC", !.bufferSize = room]
    [] OTHER -> Flush
Setup(kind, length, room) ==
  CASE kind = "rsp" -> [Flush EXCEPT !.state = "RSP", !.owner = rspBinaryBuf.owner,
                                     !.bufferSize = rspBinaryBuf.size]
    [] kind = "urc" /\ room >= length -> [Flush EXCEPT !.state = "URC", !.bufferSize = room]
    [] OTHER -> Flush

Length(bytes) == bytes[1] * Radix + bytes[2]

\* The transfer is done: the frame tells what was received.  The length of a
\* response is stored where the caller gave the size of the buffer.
Done(transfer, length, l) ==
  /\ isBinaryRx' = FALSE
  /\ header' = <<>>
  /\ binaryRx' = Flush
  /\ frames' = Append(frames, Frame(transfer.state, l, length, transfer))
  /\ rspBinaryBuf' = IF transfer.state = "RSP"
                     THEN [rspBinaryBuf EXCEPT !.size = Len(transfer.data)] ELSE rspBinaryBuf
  /\ ReturnTo(IF transfer.state = "RSP" THEN "rsp" ELSE "none")

\* Some of the two length bytes; with the second one the line is parsed.
ReadHeader ==
  /\ Reading /\ isBinaryRx /\ Len(header) < 2
  /\ \E n \in 1 .. Min({2 - Len(header), Len(rx)}) :
       LET bytes == header \o SubSeq(rx, 1, n) IN
       /\ rx' = SubSeq(rx, n + 1, Len(rx))
       /\ IF Len(bytes) < 2
          THEN /\ header' = bytes
               /\ UNCHANGED <<line, isBinaryRx, binaryRx, frames, rspBinaryBuf, status>>
               /\ ReturnTo("none")
          ELSE \E kind \in Kinds(line), room \in PayloadRooms :
               LET size == Length(bytes)
                   begun == [Setup(kind, size, room)
                               EXCEPT !.remaining = size, !.line = line] IN
               /\ status' = StatusOf(kind, line)
               /\ line' = <<>>
               /\ IF size = 0 THEN Done(begun, 0, line)
                  ELSE /\ header' = bytes
                       /\ binaryRx' = begun
                       /\ rspBinaryBuf' = IF kind = "rsp" THEN [rspBinaryBuf EXCEPT !.size = 0]
                                          ELSE rspBinaryBuf
                       /\ UNCHANGED <<isBinaryRx, frames, at>>
  /\ UNCHANGED <<cmd, pExpectedRsp, todo, nCmds, sent, nFailures>>

\* How much is asked for at once: into the buffer, or away.
RoomLeft == binaryRx.bufferSize - Len(binaryRx.data)
ReadLenPastRemaining == IF RoomLeft > 0 THEN Min({binaryRx.remaining, RoomLeft}) ELSE FlushLen
ReadLen == Min({binaryRx.remaining, IF RoomLeft > 0 THEN RoomLeft ELSE FlushLen})

ReadPayload ==
  /\ Reading /\ isBinaryRx /\ Len(header) = 2
  /\ \E n \in 1 .. Min({ReadLen, Len(rx)}) :
       LET bytes == SubSeq(rx, 1, n)
           received == [binaryRx EXCEPT !.remaining = Max({@ - n, 0}),
                                        !.data = IF RoomLeft > 0 THEN @ \o bytes ELSE @] IN
       /\ rx' = SubSeq(rx, n + 1, Len(rx))
       /\ IF received.remaining = 0
          THEN /\ UNCHANGED status
               /\ Done(received, Length(header), received.line)
          ELSE /\ binaryRx' = received
               /\ UNCHANGED <<isBinaryRx, header, frames, rspBinaryBuf, at, status>>
  /\ UNCHANGED <<line, cmd, pExpectedRsp, todo, nCmds, sent, nFailures>>

\* A read returns nothing; what was received so far stays.
ReadNothing ==
  /\ Reading
  /\ UNCHANGED <<parser, caller, status, sent, nFailures>>
  /\ ReturnTo("none")

\* A read fails.
ReadFails ==
  /\ Reading
  /\ nFailures < MaxFailures
  /\ nFailures' = nFailures + 1
  /\ status' = "ERROR_IO"
  /\ ReturnTo("none")
  /\ UNCHANGED <<parser, caller, sent>>

HandleRxData == ReadCharacter \/ ReadEndOfLine \/ ReadSOH \/ ReadHeader \/ ReadPayload
                \/ ReadNothing \/ ReadFails

-----------------------------------------------------------------------------
(* The callers                                                              *)

\* cmdBeginF(): what was registered for the last response stays.
CmdBegin(kind) ==
  /\ at = "idle"
  /\ nCmds < MaxCmds
  /\ nCmds' = nCmds + 1
  /\ cmd' = nCmds + 1
  /\ status' = "NO_STATUS"
  /\ todo' = Append(todo, kind)
  /\ at' = IF kind = "query" THEN "query" ELSE "begun"
  /\ UNCHANGED <<parser, pExpectedRsp, rspBinaryBuf, sent, nFailures>>

RegisterFirst(size) ==
  rspBinaryBuf' = IF rspBinaryBuf = NoBuffer THEN [owner |-> cmd, size |-> size] ELSE rspBinaryBuf
Register(size) == rspBinaryBuf' = [owner |-> cmd, size |-> size]

\* uCxAtClientCmdGetRspParamLine()
GetRspParamLine ==
  /\ at = "query"
  /\ \E size \in BufferSizes, prefix \in RspPrefixes :
       /\ Register(size)
       /\ pExpectedRsp' = prefix
  /\ at' = "getRsp"
  /\ UNCHANGED <<parser, cmd, todo, nCmds, status, sent, nFailures>>

\* The time is up when handleRxData() returns.
TimeOut ==
  /\ at \in {"getRsp", "cmdEnd"}
  /\ nFailures < MaxFailures
  /\ nFailures' = nFailures + 1
  /\ status' = IF at = "cmdEnd" THEN "CMD_TIMEOUT" ELSE status
  /\ at' = "begun"
  /\ UNCHANGED <<parser, caller, sent>>

\* cmdEnd(): wait for the status and end the command.
CmdEnd ==
  /\ at = "begun"
  /\ IF status = "NO_STATUS" THEN at' = "cmdEnd" /\ cmd' = cmd
                             ELSE at' = "idle" /\ cmd' = 0
  /\ UNCHANGED <<parser, pExpectedRsp, rspBinaryBuf, todo, nCmds, status, sent, nFailures>>

HandleRx ==
  /\ at = "idle"
  /\ at' = "handleRx"
  /\ UNCHANGED <<parser, caller, status, sent, nFailures>>

RxNext == \/ \E m \in Messages : ModuleSends(m)
          \/ HandleRxData
          \/ \E kind \in {"query", "end"} : CmdBegin(kind)
          \/ GetRspParamLine
          \/ TimeOut
          \/ CmdEnd
          \/ HandleRx

RxSpec == RxInit /\ [][RxNext]_rxVars

-----------------------------------------------------------------------------
(* Properties                                                              *)

\* The elements of a sequence that are at some positions, in their order.
UpTo(P, i) == Cardinality({j \in P : j <= i})
Picked(s, P) == [k \in 1 .. Cardinality(P) |-> s[CHOOSE i \in P : UpTo(P, i) = k]]

Printed(l) == Picked(l, {i \in 1 .. Len(l) : l[i] \in Printable})

\* A line that is too long loses its beginning, by whole buffers.
Kept(l) == LET printed == Printed(l)
               n == Len(printed)
           IN  SubSeq(printed, n - (n % RxBufferLen) + 1, n)

HasFrame(m) == Kept(m.line) # <<>> \/ m.isBinary
Framed == Picked(sent, {i \in 1 .. Len(sent) : HasFrame(sent[i])})

\* The parser never loses its place: whatever bytes each read returned, which
\* call they were read in, what timed out or failed meanwhile and whatever the
\* payloads contain, the lines and payloads found are those that the module
\* sent.
FramesAsSent ==
  LET expected == Framed IN
  /\ Len(frames) <= Len(expected)
  /\ \A i \in 1 .. Len(frames) :
       /\ frames[i].line = Kept(expected[i].line)
       /\ frames[i].length = Len(expected[i].payload)

\* A URC is delivered with the whole payload or not at all, a response with as
\* much as its buffer takes, and nothing is written behind a buffer.
PayloadIntact ==
  /\ Len(binaryRx.data) <= binaryRx.bufferSize
  /\ LET expected == Framed IN
     \A i \in 1 .. Len(frames) :
       /\ frames[i].kind = "URC" => frames[i].data = expected[i].payload
       /\ frames[i].kind = "RSP" =>
            frames[i].data = SubSeq(expected[i].payload, 1,
                                    Min({frames[i].room, frames[i].length}))

\* A message of the module is what it is for: a URC has a name that begins no
\* response (NoUrcTaken of UcxApi says so of all functions), a response is not
\* taken for the end of its command, and what ends a command is, and has no data.
ASSUME ModuleAssumption ==
  \A m \in Messages :
    LET l == Printed(m.line) IN
    CASE m.for = "nobody" -> l # <<>> => /\ Head(l) = PLUS
                                         /\ \A p \in RspPrefixes \ {<<>>} : ~IsPrefix(p, l)
      [] m.for = "query" -> l \notin {<<OK>>, <<ERROR>>}
      [] m.for = "end" -> l \in {<<OK>>, <<ERROR>>} /\ ~m.isBinary

\* The buffer of a command, which is on the stack of its caller, is written only
\* while that command executes.  That is true as long as no command gives up
\* before its answer is complete (a timeout, a read that fails) and each line
\* fits: the rest of a URC that does not may be taken for the end of a command.
BufferIsLive ==
  /\ nFailures = 0
  /\ \A i \in 1 .. Len(sent) : Len(Printed(sent[i].line)) < RxBufferLen
  /\ binaryRx.state = "RSP" /\ binaryRx.remaining > 0 /\ RoomLeft > 0
  => binaryRx.owner = cmd /\ cmd # 0
=============================================================================
