------------------------------- MODULE Xmodem -------------------------------
(***************************************************************************)
(* The XMODEM sender of u_cx_xmodem.c, on a UART that damages and loses    *)
(* what it carries, and an XMODEM-CRC receiver at the other end.           *)
(*                                                                         *)
(* A packet is sent and received in one step.  Of its bytes the model has  *)
(* the block number and which bytes of the file the block holds; the CRC   *)
(* tells the receiver whether a packet is damaged.                         *)
(***************************************************************************)
EXTENDS Integers, Sequences

CONSTANTS
  DataLen,      \* dataLen, in bytes
  BlockSize,    \* U_CX_XMODEM_BLOCK_SIZE_128 or ..._1K
  UINT8_RANGE,  \* how many values a uint8_t block number has
  MaxRetries,   \* U_CX_XMODEM_MAX_RETRIES
  ShortReads,   \* TRUE: the data callback may give fewer bytes than requested
  Timely,       \* TRUE: an answer that is on its way comes before the timeout,
                \* and is not left for a later transfer to read
  MaxFaults,    \* bound: what is lost or damaged, and writes that fail
  MaxSends,     \* bound: transfers
  MaxUnread     \* bound: unread start characters

ASSUME SizeAssumption ==
  /\ {DataLen, BlockSize, MaxRetries} \subseteq Nat \ {0}
  /\ UINT8_RANGE \in Nat /\ UINT8_RANGE > 2
  /\ {MaxFaults, MaxSends, MaxUnread} \subseteq Nat
  /\ {ShortReads, Timely} \subseteq BOOLEAN

VARIABLES
  state,       \* "closed", "opened", or where uCxXmodemSend() is
  source,      \* who gives the data: a callback of the application, or a file
  fileLen,     \* how long the file is
  blockNum, offset,
  bytesRead,   \* what the data callback gave for the block
  retry,
  result,      \* what uCxXmodemSend() returned
  nSends,
  toReceiver, toSender,      \* what the UART carries
  startChar, receiving, expected, received,    \* the receiver
  nFaults

application == <<source, fileLen, nSends>>
progress == <<blockNum, offset, bytesRead, retry>>
sender == <<state, progress, result, application>>
receiver == <<startChar, receiving, expected, received>>
vars == <<sender, toReceiver, toSender, receiver, nFaults>>

NoResult == 1
Pad == 0         \* the byte 0x1A behind the data of a block
EOT == [kind |-> "EOT"]
Damaged == [kind |-> "damaged"]

\* The bytes of the file are numbered from 1.
Block(from, len) == [k \in 1 .. BlockSize |-> IF k <= len THEN from + k ELSE Pad]
Packet(num, from, len) == [kind |-> "block", num |-> num, data |-> Block(from, len)]

\* uCxXmodemInit()
Init ==
  /\ state = "closed"
  /\ source = "callback"
  /\ fileLen = 0
  /\ nSends = 0
  /\ blockNum = 1
  /\ offset = 0
  /\ bytesRead = 0
  /\ retry = 0
  /\ result = NoResult
  /\ toReceiver = <<>>
  /\ toSender = <<>>
  /\ startChar \in {"C", "NAK"}
  /\ receiving = "waiting"
  /\ expected = 1
  /\ received = <<>>
  /\ nFaults = 0

Sending == state \notin {"closed", "opened"}

\* Something that is to be answered, or an answer that is unread
AnswerOnItsWay ==
  toReceiver # <<>> \/ \E i \in 1 .. Len(toSender) : toSender[i] \notin {"C", "garbled"}

\* uCxXmodemOpen(), when the UART can be opened
Open ==
  /\ state = "closed"
  /\ state' = "opened"
  /\ UNCHANGED <<progress, result, application, toReceiver, toSender, receiver, nFaults>>

\* uCxXmodemClose(): what was not read is lost.
Close ==
  /\ state = "opened"
  /\ state' = "closed"
  /\ toSender' = <<>>
  /\ UNCHANGED <<progress, result, application, toReceiver, receiver, nFaults>>

\* uCxXmodemSend() or ...SendFile() is called.  Before, the application has told
\* the module to receive; what it sent in an earlier transfer may be unread.
Send(from) ==
  /\ nSends < MaxSends
  /\ nSends' = nSends + 1
  /\ source' = from
  /\ fileLen' = IF from = "file" THEN DataLen ELSE 0
  /\ receiving' = "waiting"
  /\ expected' = 1 /\ received' = <<>>
  /\ toReceiver' = <<>>
  /\ UNCHANGED <<toSender, startChar, nFaults>>

StartSending(from) ==
  /\ state = "opened"
  /\ Timely => ~AnswerOnItsWay
  /\ Send(from)
  /\ state' = "start"
  /\ blockNum' = 1 /\ offset' = 0
  /\ result' = NoResult
  /\ UNCHANGED <<bytesRead, retry>>

\* A UART that is not open, a file that is not there or empty
RefuseToSend(from) ==
  /\ IF from = "file" THEN ~Sending ELSE state = "closed"
  /\ Send(from)
  /\ result' = -1
  /\ UNCHANGED <<state, progress>>

Application ==
  Open \/ Close \/ \E from \in {"callback", "file"} : StartSending(from) \/ RefuseToSend(from)

Return(code) ==
  /\ result' = code
  /\ state' = "opened"
  /\ UNCHANGED <<progress, application>>

\* A byte is read, or the time is up.
Read(where, byte) ==
  /\ state = where
  /\ toSender # <<>>
  /\ Head(toSender) = byte
  /\ toSender' = Tail(toSender)
  /\ UNCHANGED <<toReceiver, receiver, nFaults>>

TimeIsUp(where) ==
  /\ state = where
  /\ Timely => ~AnswerOnItsWay
  /\ UNCHANGED <<toReceiver, toSender, receiver, nFaults>>

Ignore(where, bytes) ==
  /\ \E byte \in bytes : Read(where, byte)
  /\ UNCHANGED sender

\* xmodemWaitForStart()
WaitForStart ==
  \/ /\ Read("start", "C")
     /\ state' = "request"
     /\ UNCHANGED <<progress, result, application>>
  \/ Read("start", "NAK") /\ Return(-2)
  \/ Read("start", "CAN") /\ Return(-3)
  \/ TimeIsUp("start") /\ Return(-1)
  \/ Ignore("start", {"ACK", "garbled"})

\* dataCallback() gives the data of the next block, or gives up.  That of a file
\* gives what the file has from the offset on.
RequestLen == IF DataLen - offset < BlockSize THEN DataLen - offset ELSE BlockSize
FileData ==
  {IF fileLen - offset < RequestLen THEN fileLen - offset ELSE RequestLen} \cap (1 .. RequestLen)
Data == IF source = "file" THEN FileData
        ELSE IF ShortReads THEN 1 .. RequestLen ELSE {RequestLen}

Request ==
  /\ state = "request"
  /\ \/ /\ bytesRead' \in Data
        /\ retry' = 0
        /\ state' = "write"
        /\ UNCHANGED <<blockNum, offset, result, application>>
     \/ Return(-4)
  /\ UNCHANGED <<toReceiver, toSender, receiver, nFaults>>

\* Somebody shortens the file.
FileShrinks ==
  /\ Sending /\ source = "file"
  /\ nFaults < MaxFaults
  /\ nFaults' = nFaults + 1
  /\ fileLen' \in 0 .. fileLen - 1
  /\ UNCHANGED <<state, progress, result, source, nSends, toReceiver, toSender, receiver>>

\* One more turn of the loop of xmodemSendBlock(), if there is one
AgainUncounted ==
  /\ state' = "write"
  /\ UNCHANGED <<progress, result, application>>
Again ==
  IF retry + 1 < MaxRetries
  THEN /\ retry' = retry + 1
       /\ state' = "write"
       /\ UNCHANGED <<blockNum, offset, bytesRead, result, application>>
  ELSE Return(-1)

WriteBlock ==
  /\ state = "write"
  /\ toReceiver' = Append(toReceiver, Packet(blockNum, offset, bytesRead))
  /\ state' = "wait"
  /\ UNCHANGED <<progress, result, application, toSender, receiver, nFaults>>

\* uPortUartWrite() writes less than the packet: none of it, since what a part
\* of it does is to damage the packet that follows.
WriteFails ==
  /\ state = "write"
  /\ nFaults < MaxFaults
  /\ nFaults' = nFaults + 1
  /\ Again
  /\ UNCHANGED <<toReceiver, toSender, receiver>>

NextBlockNumFromOne(num) == IF num + 1 = UINT8_RANGE THEN 1 ELSE num + 1
NextBlockNum(num) == (num + 1) % UINT8_RANGE

\* uCxXmodemSend() after xmodemSendBlock() returned 0
NextBlock ==
  /\ offset' = offset + bytesRead
  /\ blockNum' = NextBlockNum(blockNum)
  /\ state' = IF offset' < DataLen THEN "request" ELSE "writeEot"
  /\ UNCHANGED <<bytesRead, retry, result, application>>

\* The responses to a block that end the waiting for one
AcceptsStart == {"ACK", "C"}
Accepts == {"ACK"}

WaitForResponse ==
  \/ (\E byte \in Accepts : Read("wait", byte)) /\ NextBlock
  \/ Read("wait", "NAK") /\ Again
  \/ TimeIsUp("wait") /\ Again
  \/ Read("wait", "CAN") /\ Return(-3)
  \/ Ignore("wait", {"C", "garbled"} \ Accepts)

\* xmodemSendEot(): the EOT is sent once.
WriteEot ==
  /\ state = "writeEot"
  /\ toReceiver' = Append(toReceiver, EOT)
  /\ state' = "waitEot"
  /\ UNCHANGED <<progress, result, application, toSender, receiver, nFaults>>

WriteEotFails ==
  /\ state = "writeEot"
  /\ nFaults < MaxFaults
  /\ nFaults' = nFaults + 1
  /\ Return(-1)
  /\ UNCHANGED <<toReceiver, toSender, receiver>>

\* Whatever is not an ACK is ignored, a CAN too.
WaitForEotResponse ==
  \/ Read("waitEot", "ACK") /\ Return(0)
  \/ TimeIsUp("waitEot") /\ Return(-1)
  \/ Ignore("waitEot", {"NAK", "CAN", "C", "garbled"})

Sender == \/ WaitForStart
          \/ Request
          \/ WriteBlock \/ WriteFails \/ WaitForResponse
          \/ WriteEot \/ WriteEotFails \/ WaitForEotResponse

-----------------------------------------------------------------------------
(* The receiver, code outside of the repository                            *)

ReceiverStarts ==
  /\ receiving = "waiting"
  /\ Sending
  /\ Len(toSender) < MaxUnread
  /\ toSender' = Append(toSender, startChar)
  /\ UNCHANGED <<sender, toReceiver, receiver, nFaults>>

Answer(byte) ==
  /\ toReceiver' = Tail(toReceiver)
  /\ toSender' = Append(toSender, byte)
  /\ UNCHANGED <<sender, startChar, nFaults>>

Gets(kind) ==
  /\ receiving \in {"waiting", "blocks"}
  /\ toReceiver # <<>>
  /\ Head(toReceiver).kind = kind

\* The block that is due is stored, the one before it was stored already, and
\* any other means that the two are out of step.
ReceiveBlock ==
  /\ Gets("block")
  /\ LET packet == Head(toReceiver)
     IN  \/ /\ packet.num = expected % UINT8_RANGE
            /\ received' = received \o packet.data
            /\ expected' = expected + 1
            /\ receiving' = "blocks"
            /\ Answer("ACK")
         \/ /\ packet.num = (expected - 1) % UINT8_RANGE
            /\ Answer("ACK")
            /\ UNCHANGED <<receiving, expected, received>>
         \/ /\ packet.num \notin {expected % UINT8_RANGE, (expected - 1) % UINT8_RANGE}
            /\ receiving' = "outOfStep"
            /\ Answer("CAN")
            /\ UNCHANGED <<expected, received>>

ReceiveDamaged ==
  /\ Gets("damaged")
  /\ Answer("NAK")
  /\ UNCHANGED <<receiving, expected, received>>

ReceiveEot ==
  /\ Gets("EOT")
  /\ receiving' = "complete"
  /\ Answer("ACK")
  /\ UNCHANGED <<expected, received>>

\* Nothing came for a while: it asks for the block again. Its timer is longer
\* than a read of the sender's answer takes to begin, so it runs out only while
\* the sender waits and the line is silent.
ReceiverTimeout ==
  /\ receiving = "blocks"
  /\ state \in {"wait", "waitEot"}
  /\ toReceiver = <<>> /\ toSender = <<>>
  /\ toSender' = <<"NAK">>
  /\ UNCHANGED <<sender, toReceiver, receiver, nFaults>>

ReceiverCancels ==
  /\ receiving \in {"waiting", "blocks"}
  /\ nFaults < MaxFaults
  /\ nFaults' = nFaults + 1
  /\ receiving' = "cancelled"
  /\ toSender' = Append(toSender, "CAN")
  /\ UNCHANGED <<sender, toReceiver, startChar, expected, received>>

\* It no longer listens.
Unheard ==
  /\ receiving \in {"complete", "cancelled", "outOfStep"}
  /\ toReceiver # <<>>
  /\ toReceiver' = Tail(toReceiver)
  /\ UNCHANGED <<sender, toSender, receiver, nFaults>>

Receiver == \/ ReceiverStarts \/ ReceiveBlock \/ ReceiveDamaged \/ ReceiveEot
            \/ ReceiverTimeout \/ ReceiverCancels \/ Unheard

\* The line loses or damages what it carries.
Fault ==
  /\ nFaults < MaxFaults
  /\ nFaults' = nFaults + 1
  /\ \/ /\ toReceiver # <<>>
        /\ toReceiver' \in {Tail(toReceiver), [toReceiver EXCEPT ![1] = Damaged]}
        /\ UNCHANGED toSender
     \/ /\ toSender # <<>>
        /\ toSender' \in {Tail(toSender), [toSender EXCEPT ![1] = "garbled"]}
        /\ UNCHANGED toReceiver
  /\ UNCHANGED <<sender, receiver>>

Rest == ~Sending /\ UNCHANGED vars

Next == Application \/ Sender \/ Receiver \/ FileShrinks \/ Fault \/ Rest

Spec == Init /\ [][Next]_vars

Timeout == \/ TimeIsUp("start") /\ Return(-1)
           \/ TimeIsUp("wait") /\ Again
           \/ TimeIsUp("waitEot") /\ Return(-1)

\* The sender runs and its time passes, also when something comes now and
\* then; the receiver reacts to what it gets.
FairSpec == /\ Spec
            /\ WF_vars(Sender)
            /\ SF_vars(Timeout)
            /\ WF_vars(ReceiveBlock \/ ReceiveDamaged \/ ReceiveEot \/ Unheard)

-----------------------------------------------------------------------------
(* Properties                                                              *)

\* "0 on success": when uCxXmodemSend() returns 0, the receiver has all of the
\* data, each byte once and in order, followed by nothing but padding.
TransferComplete ==
  result = 0 =>
    /\ receiving = "complete"
    /\ Len(received) >= DataLen
    /\ \A k \in 1 .. Len(received) : received[k] = IF k <= DataLen THEN k ELSE Pad

\* When answers come in time, sender and receiver agree on which block is next,
\* whatever is lost, repeated or damaged, also past the wrap of the number.
NeverOutOfStep == receiving # "outOfStep"

\* uCxXmodemSend() returns, whatever happens on the line.
SendReturns == Sending ~> ~Sending
=============================================================================
