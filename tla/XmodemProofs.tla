---------------------------- MODULE XmodemProofs ----------------------------
(***************************************************************************)
(* XMODEM transfers of any length and number, whatever the line loses and  *)
(* damages: sender and receiver stay in step while answers come in time,   *)
(* and a transfer that succeeded is complete.                              *)
(***************************************************************************)
EXTENDS Xmodem, TLAPS

USE SizeAssumption

-----------------------------------------------------------------------------
(* Block numbers                                                            *)

LEMMA DivFacts ==
  ASSUME NEW R \in Nat \ {0}, NEW x \in Int
  PROVE  /\ x \div R \in Int /\ (x % R) \in 0 .. R - 1
         /\ x = R * (x \div R) + (x % R)
OBVIOUS

LEMMA TimesAtLeast ==
  ASSUME NEW R \in Nat \ {0}, NEW d \in Int
  PROVE  /\ d >= 1 => R * d >= R
         /\ d <= -1 => R * d <= -R
<1>1. d >= 1 => R * d >= R
  OBVIOUS
<1>2. d <= -1 => R * d <= -R
  OBVIOUS
<1> QED
  BY <1>1, <1>2

LEMMA RemainderIsUnique ==
  ASSUME NEW R \in Nat \ {0}, NEW q \in Int, NEW m \in 0 .. R - 1,
         NEW p \in Int, NEW n \in 0 .. R - 1, R * q + m = R * p + n
  PROVE  m = n
<1> DEFINE d == q - p
<1>1. d \in Int /\ R * d = n - m /\ n - m < R /\ n - m > -R
  <2>1. R * (q - p) = n - m
    OBVIOUS
  <2> QED
    BY <2>1
<1> HIDE DEF d
<1>2. d = 0
  BY <1>1, TimesAtLeast
<1> QED
  BY <1>1, <1>2

LEMMA RemainderIs ==
  ASSUME NEW R \in Nat \ {0}, NEW q \in Int, NEW m \in 0 .. R - 1, NEW x \in Int,
         x = R * q + m
  PROVE  (x % R) = m
<1>1. /\ x \div R \in Int /\ (x % R) \in 0 .. R - 1
      /\ R * q + m = R * (x \div R) + (x % R)
  BY DivFacts
<1> DEFINE p == x \div R
           n == x % R
<1>2. p \in Int /\ n \in 0 .. R - 1 /\ R * q + m = R * p + n
  BY <1>1
<1> HIDE DEF p, n
<1>3. m = n
  BY <1>2, RemainderIsUnique
<1> QED
  BY <1>3 DEF n

\* The number after that of the last block is that of the next.
LEMMA NextNumber ==
  ASSUME NEW R \in Nat, R > 2, NEW e \in Nat \ {0}
  PROVE  /\ (((e - 1) % R) + 1) % R = (e % R)
         /\ ((e - 1) % R) # (e % R)
<1> DEFINE q == (e - 1) \div R
           m == (e - 1) % R
<1>1. /\ q \in Int /\ m \in 0 .. R - 1 /\ e = R * q + (m + 1)
  BY DivFacts
<1> HIDE DEF q, m
<1>2. CASE m + 1 < R
  <2>1. m + 1 \in 0 .. R - 1
    BY <1>1, <1>2
  <2>2. (e % R) = m + 1
    BY <1>1, <2>1, RemainderIs
  <2>3. (m + 1) % R = m + 1
    <3>1. m + 1 = R * 0 + (m + 1)
      BY <1>1
    <3> QED
      BY <2>1, <3>1, RemainderIs
  <2>4. m # e % R
    BY <1>1, <2>2
  <2> QED
    BY <2>2, <2>3, <2>4 DEF m
<1>3. CASE m + 1 = R
  <2>1. \A z \in 0 .. R - 1, p \in Int, x \in Int : x = R * p + z => (x % R) = z
    BY RemainderIs
  <2>2. (e % R) = 0
    <3>1. e = R * (q + 1) + 0 /\ q + 1 \in Int /\ 0 \in 0 .. R - 1
      BY <1>1, <1>3
    <3> QED
      BY <2>1, <3>1
  <2>3. (m + 1) % R = 0
    <3>1. m + 1 = R * 1 + 0 /\ m + 1 \in Int /\ 0 \in 0 .. R - 1
      BY <1>1, <1>3
    <3> QED
      BY <2>1, <3>1
  <2>4. m # e % R
    BY <1>1, <1>3, <2>2
  <2> QED
    BY <2>2, <2>3, <2>4 DEF m
<1> QED
  BY <1>1, <1>2, <1>3

-----------------------------------------------------------------------------
(* In step                                                                  *)

Byte == {"C", "NAK", "CAN", "ACK", "garbled"}

Types ==
  /\ state \in {"closed", "opened", "start", "request", "write", "wait", "writeEot",
                "waitEot"}
  /\ receiving \in {"waiting", "blocks", "complete", "cancelled"}
  /\ startChar \in {"C", "NAK"}
  /\ toSender \in Seq(Byte)
  /\ expected \in Nat \ {0}

\* The block that is being sent is the one that the receiver expects, or the
\* one it has got last.
InStep == blockNum = expected % UINT8_RANGE
Ahead == blockNum = (expected - 1) % UINT8_RANGE

Numbers ==
  /\ state = "start" => blockNum = 1 /\ expected = 1
  /\ state = "request" => InStep
  /\ state \in {"write", "wait"} => InStep \/ Ahead

\* At most one thing that is to be answered is on the line, and only while
\* the sender waits for the answer.
ToReceiver ==
  /\ state \in {"start", "request", "write", "writeEot"} => toReceiver = <<>>
  /\ state = "wait" =>
       toReceiver \in {<<>>, <<Packet(blockNum, offset, bytesRead)>>, <<Damaged>>}
  /\ state = "waitEot" => toReceiver \in {<<>>, <<EOT>>, <<Damaged>>}
  /\ ~Sending => toReceiver = <<>> \/ receiving = "cancelled"
  /\ Sending /\ receiving = "complete" => state = "waitEot" /\ toReceiver = <<>>

IsAnswer(byte) == byte \in {"ACK", "NAK"}

\* What the sender has yet to read
Unread == {toSender[i] : i \in 1 .. Len(toSender)}

OneAnswer ==
  \A i, j \in 1 .. Len(toSender) : IsAnswer(toSender[i]) /\ IsAnswer(toSender[j]) => i = j

\* So at most one answer is, and it is to the block that is being sent.
ToSender ==
  /\ "C" \in Unread => startChar = "C"
  /\ "CAN" \in Unread /\ Sending => receiving = "cancelled"
  /\ "ACK" \in Unread => /\ state # "start"
                         /\ state = "wait" => Ahead
                         /\ state = "waitEot" => receiving = "complete"
  /\ "NAK" \in Unread /\ state = "start" => startChar = "NAK"
  /\ (\E byte \in Unread : IsAnswer(byte)) =>
       /\ state \notin {"request", "write", "writeEot"}
       /\ state = "wait" => toReceiver = <<>> /\ OneAnswer
  /\ Sending /\ state # "start" => startChar = "C"

Agreement == Types /\ Numbers /\ ToReceiver /\ ToSender

\* A byte is read or lost.
LEMMA ReadFacts ==
  ASSUME Types, toSender # <<>>, toSender' = Tail(toSender)
  PROVE  /\ toSender' \in Seq(Byte)
         /\ Head(toSender) \in Unread
         /\ Unread' \subseteq Unread
         /\ OneAnswer => /\ OneAnswer'
                         /\ IsAnswer(Head(toSender)) => \A byte \in Unread' : ~IsAnswer(byte)
<1>1. /\ toSender \in Seq(Byte) /\ Len(toSender) \in Nat /\ Len(toSender) >= 1
      /\ Head(toSender) = toSender[1] /\ 1 \in 1 .. Len(toSender)
      /\ Tail(toSender) \in Seq(Byte)
  BY DEF Types
<1>2. \A i \in 1 .. Len(toSender') : i + 1 \in 1 .. Len(toSender) /\ toSender'[i] = toSender[i + 1]
  BY <1>1
<1>3. Head(toSender) \in Unread /\ Unread' \subseteq Unread
  BY <1>1, <1>2 DEF Unread
<1>4. ASSUME OneAnswer, NEW i \in 1 .. Len(toSender'), NEW j \in 1 .. Len(toSender'),
             IsAnswer(toSender'[i]), IsAnswer(toSender'[j])
      PROVE  i = j
  <2>1. i + 1 = j + 1
    BY <1>2, <1>4 DEF OneAnswer
  <2> QED
    BY <2>1
<1>5. ASSUME OneAnswer, IsAnswer(Head(toSender)), NEW i \in 1 .. Len(toSender'),
             IsAnswer(toSender'[i])
      PROVE  FALSE
  <2>1. 1 = i + 1
    BY <1>1, <1>2, <1>5 DEF OneAnswer
  <2> QED
    BY <2>1
<1>6. OneAnswer => OneAnswer'
  BY <1>4 DEF OneAnswer, IsAnswer
<1>7. OneAnswer /\ IsAnswer(Head(toSender)) => \A byte \in Unread' : ~IsAnswer(byte)
  BY <1>5 DEF Unread
<1> QED
  BY <1>1, <1>3, <1>6, <1>7

\* The receiver sends a byte.
LEMMA AppendFacts ==
  ASSUME Types, NEW b \in Byte, toSender' = Append(toSender, b)
  PROVE  /\ toSender' \in Seq(Byte)
         /\ Unread' \subseteq Unread \union {b}
         /\ IF IsAnswer(b) THEN (\A byte \in Unread : ~IsAnswer(byte)) => OneAnswer'
            ELSE OneAnswer => OneAnswer'
<1>1. /\ Len(toSender) \in Nat /\ Len(toSender') = Len(toSender) + 1
      /\ \A i \in 1 .. Len(toSender) : toSender'[i] = toSender[i]
      /\ toSender'[Len(toSender')] = b
      /\ toSender' \in Seq(Byte)
  BY DEF Types
<1>2. \A i \in 1 .. Len(toSender') : i \in 1 .. Len(toSender) \/ i = Len(toSender')
  BY <1>1
<1>3. Unread' \subseteq Unread \union {b}
  BY <1>1, <1>2 DEF Unread
<1>4. ASSUME IsAnswer(b), \A byte \in Unread : ~IsAnswer(byte)
      PROVE  OneAnswer'
  <2>1. \A i \in 1 .. Len(toSender) : ~IsAnswer(toSender'[i])
    BY <1>1, <1>4 DEF Unread
  <2> QED
    BY <1>2, <2>1 DEF OneAnswer, IsAnswer
<1>5. ASSUME ~IsAnswer(b), OneAnswer
      PROVE  OneAnswer'
  BY <1>1, <1>2, <1>5 DEF OneAnswer, IsAnswer
<1> QED
  BY <1>1, <1>3, <1>4, <1>5

\* A byte is damaged.
LEMMA GarbleFacts ==
  ASSUME Types, toSender # <<>>, toSender' = [toSender EXCEPT ![1] = "garbled"]
  PROVE  /\ toSender' \in Seq(Byte)
         /\ Unread' \subseteq Unread \union {"garbled"}
         /\ OneAnswer => OneAnswer'
<1>1. toSender \in Seq(Byte) /\ "garbled" \in Byte
  BY DEF Types, Byte
<1>2. /\ Len(toSender') = Len(toSender) /\ toSender' \in Seq(Byte)
      /\ \A i \in 1 .. Len(toSender) : toSender'[i] \in {toSender[i], "garbled"}
  BY <1>1
<1>3. OneAnswer => OneAnswer'
  <2>1. \A i \in 1 .. Len(toSender) : IsAnswer(toSender'[i]) => IsAnswer(toSender[i])
    BY <1>2 DEF IsAnswer
  <2> QED
    BY <1>2, <2>1 DEF OneAnswer, IsAnswer
<1> QED
  BY <1>2, <1>3 DEF Unread

\* Nothing that is to be answered, and no answer
LEMMA NothingOnItsWay ==
  ASSUME ~AnswerOnItsWay
  PROVE  toReceiver = <<>> /\ Unread \subseteq {"C", "garbled"}
BY DEF AnswerOnItsWay, Unread

\* The application calls, and opens and closes.
LEMMA ApplicationAgrees ==
  ASSUME Agreement, Timely, Application
  PROVE  Agreement'
<1> USE DEF Agreement, Sending, progress, application, receiver, Send
<1>1. CASE Open
  BY <1>1 DEF Open, Types, Numbers, ToReceiver, ToSender, Unread, OneAnswer
<1>2. CASE Close
  <2>1. /\ state' = "closed" /\ toSender' = <<>> /\ ~Sending /\ ~Sending'
        /\ UNCHANGED <<toReceiver, receiving, expected, startChar>>
    BY <1>2 DEF Close
  <2>2. Types' /\ Unread' = {}
    BY <2>1 DEF Types, Unread
  <2> QED
    BY <2>1, <2>2 DEF Numbers, ToReceiver, ToSender
<1>3. ASSUME NEW from \in {"callback", "file"}, StartSending(from)
      PROVE  Agreement'
  <2>1. /\ state' = "start" /\ blockNum' = 1 /\ expected' = 1 /\ receiving' = "waiting"
        /\ toReceiver' = <<>> /\ UNCHANGED <<toSender, startChar>>
    BY <1>3 DEF StartSending
  <2>2. Unread' = Unread /\ Unread \subseteq {"C", "garbled"}
    BY <1>3, <2>1, NothingOnItsWay DEF StartSending, Unread
  <2> QED
    BY <2>1, <2>2 DEF Types, Numbers, ToReceiver, ToSender, IsAnswer
<1>4. ASSUME NEW from \in {"callback", "file"}, RefuseToSend(from)
      PROVE  Agreement'
  <2>1. /\ ~Sending /\ UNCHANGED <<state, toSender, startChar>> /\ expected' = 1
        /\ receiving' = "waiting" /\ toReceiver' = <<>>
    BY <1>4 DEF RefuseToSend
  <2>2. Unread' = Unread
    BY <2>1 DEF Unread
  <2> QED
    BY <2>1, <2>2 DEF Types, Numbers, ToReceiver, ToSender, IsAnswer
<1> QED
  BY <1>1, <1>2, <1>3, <1>4 DEF Application

\* A byte that says nothing is read.
LEMMA IgnoreAgrees ==
  ASSUME Agreement, NEW where, NEW bytes, Ignore(where, bytes)
  PROVE  Agreement'
<1>1. /\ toSender # <<>> /\ toSender' = Tail(toSender)
      /\ UNCHANGED <<state, blockNum, offset, bytesRead, toReceiver, receiving, expected,
                     startChar>>
  BY DEF Ignore, Read, sender, progress, receiver
<1>2. /\ toSender' \in Seq(Byte) /\ Unread' \subseteq Unread
      /\ OneAnswer => OneAnswer'
  BY <1>1, ReadFacts DEF Agreement
<1>3. Types' /\ Numbers' /\ ToReceiver'
  BY <1>1, <1>2 DEF Agreement, Types, Numbers, ToReceiver, InStep, Ahead, Sending, Packet, Block
<1> QED
  BY <1>1, <1>2, <1>3 DEF Agreement, ToSender, Sending, Ahead

\* uCxXmodemSend() returns: nothing is left that the receiver would answer.
LEMMA ReturnAgrees ==
  ASSUME Agreement, NEW code, Return(code), UNCHANGED <<toReceiver, receiver>>,
         toReceiver = <<>> \/ receiving = "cancelled",
         toSender' \in Seq(Byte), Unread' \subseteq Unread
  PROVE  Agreement'
<1>1. state' = "opened" /\ UNCHANGED <<toReceiver, receiving, expected, startChar>>
  BY DEF Return, receiver
<1>2. Types' /\ Numbers' /\ ToReceiver'
  BY <1>1 DEF Agreement, Types, Numbers, ToReceiver, Sending
<1> QED
  BY <1>1, <1>2 DEF Agreement, ToSender, Sending

\* The block is sent again, or is given up.
LEMMA AgainAgrees ==
  ASSUME Agreement, state \in {"write", "wait"}, Again, UNCHANGED <<toReceiver, receiver>>,
         toReceiver = <<>>, toSender' \in Seq(Byte), Unread' \subseteq Unread,
         \A byte \in Unread' : ~IsAnswer(byte)
  PROVE  Agreement'
<1>1. CASE retry + 1 < MaxRetries
  <2>1. /\ state' = "write"
        /\ UNCHANGED <<blockNum, toReceiver, receiving, expected, startChar>>
    BY <1>1 DEF Again, receiver
  <2>2. Types' /\ Numbers' /\ ToReceiver'
    BY <2>1 DEF Agreement, Types, Numbers, ToReceiver, InStep, Ahead, Sending
  <2> QED
    BY <2>1, <2>2 DEF Agreement, ToSender, Sending, IsAnswer
<1>2. CASE ~(retry + 1 < MaxRetries)
  BY <1>2, ReturnAgrees DEF Again
<1> QED
  BY <1>1, <1>2

LEMMA StartAgrees ==
  ASSUME Agreement, Timely, WaitForStart
  PROVE  Agreement'
<1>1. ASSUME NEW byte, Read("start", byte)
      PROVE  /\ state = "start" /\ toReceiver = <<>> /\ byte \in Unread
             /\ toSender' \in Seq(Byte) /\ Unread' \subseteq Unread
             /\ UNCHANGED <<toReceiver, receiver>>
  BY <1>1, ReadFacts DEF Read, Agreement, ToReceiver, Sending
<1>2. CASE Read("start", "C") /\ state' = "request" /\ UNCHANGED <<progress, result, application>>
  <2>1. startChar = "C" /\ "NAK" \notin Unread /\ "ACK" \notin Unread
    BY <1>1, <1>2 DEF Agreement, ToSender
  <2>2. /\ blockNum = 1 /\ expected = 1
        /\ UNCHANGED <<blockNum, toReceiver, receiving, expected, startChar>>
    BY <1>1, <1>2 DEF Agreement, Numbers, progress, receiver
  <2>3. 1 % UINT8_RANGE = 1
    OBVIOUS
  <2>4. Types' /\ Numbers' /\ ToReceiver'
    BY <1>1, <1>2, <2>2, <2>3 DEF Agreement, Types, Numbers, ToReceiver, InStep, Sending
  <2> QED
    BY <1>1, <1>2, <2>1, <2>2, <2>4 DEF Agreement, ToSender, Sending, IsAnswer
<1>3. ASSUME NEW byte, Read("start", byte), NEW code, Return(code)
      PROVE  Agreement'
  BY <1>1, <1>3, ReturnAgrees
<1>4. CASE TimeIsUp("start") /\ Return(-1)
  <2>1. toReceiver = <<>> /\ UNCHANGED <<toReceiver, receiver, toSender>>
    BY <1>4, NothingOnItsWay DEF TimeIsUp
  <2> QED
    BY <1>4, <2>1, ReturnAgrees DEF Unread, Agreement, Types
<1>5. CASE Ignore("start", {"ACK", "garbled"})
  BY <1>5, IgnoreAgrees
<1> QED
  BY <1>2, <1>3, <1>4, <1>5 DEF WaitForStart

LEMMA RequestAgrees ==
  ASSUME Agreement, Request
  PROVE  Agreement'
<1>1. /\ state = "request" /\ toReceiver = <<>>
      /\ UNCHANGED <<toReceiver, toSender, receiver>>
  BY DEF Request, Agreement, ToReceiver, Sending
<1>2. CASE Return(-4)
  BY <1>1, <1>2, ReturnAgrees DEF Unread, Agreement, Types
<1>3. CASE state' = "write" /\ UNCHANGED blockNum
  <2>1. UNCHANGED <<Unread, receiving, expected, startChar>>
    BY <1>1 DEF Unread, receiver
  <2>2. Types' /\ Numbers' /\ ToReceiver'
    BY <1>1, <1>3, <2>1 DEF Agreement, Types, Numbers, ToReceiver, InStep, Sending
  <2> QED
    BY <1>1, <1>3, <2>1, <2>2 DEF Agreement, ToSender, Sending, IsAnswer
<1> QED
  BY <1>2, <1>3 DEF Request

LEMMA WriteAgrees ==
  ASSUME Agreement, WriteBlock \/ WriteFails
  PROVE  Agreement'
<1>1. /\ state = "write" /\ toReceiver = <<>> /\ \A byte \in Unread : ~IsAnswer(byte)
      /\ receiving # "complete" /\ UNCHANGED <<toSender, Unread, receiver>>
  BY DEF WriteBlock, WriteFails, Agreement, ToReceiver, ToSender, Sending, Unread
<1>2. CASE WriteBlock
  <2>1. /\ state' = "wait" /\ toReceiver' = <<Packet(blockNum, offset, bytesRead)>>
        /\ UNCHANGED <<blockNum, offset, bytesRead, receiving, expected, startChar>>
    BY <1>1, <1>2 DEF WriteBlock, receiver, progress
  <2>2. Types' /\ Numbers'
    BY <1>1, <2>1 DEF Agreement, Types, Numbers, InStep, Ahead
  <2>3. ToReceiver'
    BY <1>1, <2>1 DEF ToReceiver, Packet, Block, Sending
  <2> QED
    BY <1>1, <2>1, <2>2, <2>3 DEF Agreement, ToSender, Sending, IsAnswer
<1>3. CASE WriteFails
  <2>1. Again /\ UNCHANGED toReceiver /\ toSender' \in Seq(Byte) /\ Unread' \subseteq Unread
    BY <1>1, <1>3 DEF WriteFails, Agreement, Types
  <2> QED
    BY <1>1, <2>1, AgainAgrees
<1> QED
  BY <1>2, <1>3

LEMMA ResponseAgrees ==
  ASSUME Agreement, Timely, WaitForResponse
  PROVE  Agreement'
<1>1. ASSUME NEW byte, Read("wait", byte)
      PROVE  /\ state = "wait" /\ byte \in Unread
             /\ toSender' \in Seq(Byte) /\ Unread' \subseteq Unread
             /\ UNCHANGED <<toReceiver, receiver>>
             /\ IsAnswer(byte) => toReceiver = <<>> /\ \A b \in Unread' : ~IsAnswer(b)
  BY <1>1, ReadFacts DEF Read, Agreement, ToSender
<1>2. CASE Read("wait", "ACK") /\ NextBlock
  <2>1. /\ state = "wait" /\ "ACK" \in Unread /\ toReceiver = <<>>
        /\ toSender' \in Seq(Byte) /\ Unread' \subseteq Unread
        /\ UNCHANGED <<toReceiver, receiving, expected, startChar>>
        /\ \A b \in Unread' : ~IsAnswer(b)
    BY <1>1, <1>2 DEF IsAnswer, receiver
  <2>2. Ahead /\ startChar = "C"
    BY <2>1 DEF Agreement, ToSender, Sending
  <2>3. blockNum' = (blockNum + 1) % UINT8_RANGE /\ state' \in {"request", "writeEot"}
    BY <1>2 DEF NextBlock, NextBlockNum
  <2>4. InStep'
    BY <2>1, <2>2, <2>3, NextNumber DEF Ahead, InStep, Agreement, Types
  <2>5. Types' /\ Numbers' /\ ToReceiver'
    BY <2>1, <2>3, <2>4 DEF Agreement, Types, Numbers, ToReceiver, Sending
  <2> QED
    BY <2>1, <2>2, <2>3, <2>5 DEF Agreement, ToSender, Sending, IsAnswer
<1>3. CASE Read("wait", "NAK") /\ Again
  BY <1>1, <1>3, AgainAgrees DEF IsAnswer
<1>4. CASE TimeIsUp("wait") /\ Again
  <2>1. /\ state = "wait" /\ toReceiver = <<>> /\ Unread \subseteq {"C", "garbled"}
        /\ UNCHANGED <<toReceiver, receiver, toSender, Unread>>
    BY <1>4, NothingOnItsWay DEF TimeIsUp, Unread
  <2> QED
    BY <1>4, <2>1, AgainAgrees DEF Agreement, Types, IsAnswer
<1>5. CASE Read("wait", "CAN") /\ Return(-3)
  <2>1. receiving = "cancelled"
    BY <1>1, <1>5 DEF Agreement, ToSender, Sending
  <2> QED
    BY <1>1, <1>5, <2>1, ReturnAgrees
<1>6. CASE Ignore("wait", {"C", "garbled"} \ Accepts)
  BY <1>6, IgnoreAgrees
<1> QED
  BY <1>2, <1>3, <1>4, <1>5, <1>6 DEF WaitForResponse, Accepts

LEMMA EotAgrees ==
  ASSUME Agreement, Timely, WriteEot \/ WriteEotFails \/ WaitForEotResponse
  PROVE  Agreement'
<1>1. CASE WriteEot
  <2>1. /\ state = "writeEot" /\ toReceiver = <<>> /\ \A byte \in Unread : ~IsAnswer(byte)
        /\ state' = "waitEot" /\ toReceiver' = <<EOT>> /\ startChar = "C"
        /\ UNCHANGED <<toSender, Unread, receiving, expected, startChar>>
    BY <1>1 DEF WriteEot, Agreement, ToReceiver, ToSender, Sending, receiver, Unread
  <2>2. Types' /\ Numbers' /\ ToReceiver'
    BY <2>1 DEF Agreement, Types, Numbers, ToReceiver, Sending
  <2> QED
    BY <2>1, <2>2 DEF Agreement, ToSender, Sending, IsAnswer
<1>2. CASE WriteEotFails
  <2>1. /\ toReceiver = <<>> /\ Return(-1) /\ UNCHANGED <<toReceiver, receiver, toSender>>
    BY <1>2 DEF WriteEotFails, Agreement, ToReceiver, Sending
  <2> QED
    BY <2>1, ReturnAgrees DEF Unread, Agreement, Types
<1>3. CASE Read("waitEot", "ACK") /\ Return(0)
  <2>1. /\ "ACK" \in Unread /\ toSender' \in Seq(Byte) /\ Unread' \subseteq Unread
        /\ state = "waitEot" /\ UNCHANGED <<toReceiver, receiver>>
    BY <1>3, ReadFacts DEF Read, Agreement
  <2>2. receiving = "complete"
    BY <2>1 DEF Agreement, ToSender
  <2>3. toReceiver = <<>>
    BY <2>1, <2>2 DEF Agreement, ToReceiver, Sending
  <2> QED
    BY <1>3, <2>1, <2>3, ReturnAgrees
<1>4. CASE TimeIsUp("waitEot") /\ Return(-1)
  <2>1. toReceiver = <<>> /\ UNCHANGED <<toReceiver, receiver, toSender>>
    BY <1>4, NothingOnItsWay DEF TimeIsUp
  <2> QED
    BY <1>4, <2>1, ReturnAgrees DEF Unread, Agreement, Types
<1>5. CASE Ignore("waitEot", {"NAK", "CAN", "C", "garbled"})
  BY <1>5, IgnoreAgrees
<1> QED
  BY <1>1, <1>2, <1>3, <1>4, <1>5 DEF WaitForEotResponse

LEMMA SameAnswer ==
  ASSUME Types, NEW a \in Byte, NEW b \in Byte, Answer(a), Answer(b)
  PROVE  a = b
<1>1. toSender \in Seq(Byte) /\ Append(toSender, a) = Append(toSender, b)
  BY DEF Answer, Types
<1>2. /\ Append(toSender, a)[Len(toSender) + 1] = a
      /\ Append(toSender, b)[Len(toSender) + 1] = b
  BY <1>1
<1> QED
  BY <1>1, <1>2

\* The receiver answers what it has got.
LEMMA ReceiveAgrees ==
  ASSUME Agreement, ReceiveBlock \/ ReceiveDamaged \/ ReceiveEot
  PROVE  Agreement'
<1>1. PICK byte \in {"ACK", "NAK", "CAN"} : Answer(byte)
  BY DEF ReceiveBlock, ReceiveDamaged, ReceiveEot
<1>2. /\ receiving \in {"waiting", "blocks"} /\ toReceiver # <<>>
      /\ toReceiver' = Tail(toReceiver) /\ toSender' = Append(toSender, byte)
      /\ UNCHANGED <<state, blockNum, offset, bytesRead, startChar>>
  BY <1>1 DEF ReceiveBlock, ReceiveDamaged, ReceiveEot, Gets, Answer, sender, progress
<1>3. /\ state \in {"wait", "waitEot"} /\ toReceiver' = <<>>
      /\ state = "wait" =>
           toReceiver \in {<<Packet(blockNum, offset, bytesRead)>>, <<Damaged>>}
      /\ state = "waitEot" => toReceiver \in {<<EOT>>, <<Damaged>>}
  <2>1. state \in {"wait", "waitEot"}
    BY <1>2 DEF Agreement, Types, ToReceiver, Sending
  <2>2. /\ state = "wait" =>
             toReceiver \in {<<Packet(blockNum, offset, bytesRead)>>, <<Damaged>>}
        /\ state = "waitEot" => toReceiver \in {<<EOT>>, <<Damaged>>}
    BY <1>2, <2>1 DEF Agreement, ToReceiver
  <2>3. \E m : toReceiver = <<m>>
    BY <2>1, <2>2
  <2>4. toReceiver' = <<>>
    BY <1>2, <2>3
  <2> QED
    BY <2>1, <2>2, <2>4
<1>4. /\ toSender' \in Seq(Byte) /\ Unread' \subseteq Unread \union {byte}
      /\ IF IsAnswer(byte) THEN (\A b \in Unread : ~IsAnswer(b)) => OneAnswer'
         ELSE OneAnswer => OneAnswer'
  BY <1>2, AppendFacts DEF Agreement, Byte
<1>5. /\ Sending /\ Sending' /\ startChar = "C" /\ "CAN" \notin Unread
      /\ state = "wait" => \A b \in Unread : ~IsAnswer(b)
      /\ state = "waitEot" => "ACK" \notin Unread
  BY <1>2, <1>3 DEF Agreement, ToSender, Sending
<1>6. CASE ReceiveBlock
  <2>1. /\ Head(toReceiver) = Packet(blockNum, offset, bytesRead) /\ state = "wait"
    BY <1>3, <1>6 DEF ReceiveBlock, Gets, Packet, EOT, Damaged
  <2>2. Head(toReceiver).num = blockNum /\ (InStep \/ Ahead)
    BY <2>1 DEF Packet, Agreement, Numbers
  <2>3. expected \in Nat \ {0} /\ (expected + 1) - 1 = expected
    BY DEF Agreement, Types
  <2>4. /\ receiving' \in {"waiting", "blocks"} /\ expected' \in Nat \ {0}
        /\ Ahead' /\ byte = "ACK"
    <3>1. CASE InStep
      <4>1. blockNum = expected % UINT8_RANGE /\ blockNum # (expected - 1) % UINT8_RANGE
        BY <2>3, <3>1, NextNumber DEF InStep
      <4>2. receiving' = "blocks" /\ expected' = expected + 1 /\ Answer("ACK")
        BY <1>6, <2>2, <4>1 DEF ReceiveBlock
      <4>3. byte = "ACK"
        BY <1>1, <4>2, SameAnswer DEF Agreement, Byte
      <4> QED
        BY <1>2, <2>3, <4>1, <4>2, <4>3 DEF Ahead
    <3>2. CASE Ahead
      <4>1. blockNum = (expected - 1) % UINT8_RANGE /\ blockNum # expected % UINT8_RANGE
        BY <2>3, <3>2, NextNumber DEF Ahead
      <4>2. UNCHANGED <<receiving, expected>> /\ Answer("ACK")
        BY <1>6, <2>2, <4>1 DEF ReceiveBlock
      <4>3. byte = "ACK"
        BY <1>1, <4>2, SameAnswer DEF Agreement, Byte
      <4> QED
        BY <1>2, <2>3, <4>1, <4>2, <4>3 DEF Ahead
    <3> QED
      BY <2>2, <3>1, <3>2
  <2>5. Types' /\ Numbers' /\ ToReceiver'
    BY <1>2, <1>3, <1>4, <1>5, <2>1, <2>4 DEF Agreement, Types, Numbers, ToReceiver
  <2> QED
    BY <1>2, <1>3, <1>4, <1>5, <2>1, <2>4, <2>5 DEF Agreement, ToSender, IsAnswer
<1>7. CASE ReceiveDamaged
  <2>1. UNCHANGED <<receiving, expected>> /\ Answer("NAK")
    BY <1>7 DEF ReceiveDamaged
  <2>2. byte = "NAK"
    BY <1>1, <2>1, SameAnswer DEF Agreement, Byte
  <2>3. Types' /\ Numbers' /\ ToReceiver'
    BY <1>2, <1>3, <1>4, <1>5, <2>1 DEF Agreement, Types, Numbers, ToReceiver, InStep, Ahead
  <2> QED
    BY <1>2, <1>3, <1>4, <1>5, <2>1, <2>2, <2>3 DEF Agreement, ToSender, IsAnswer
<1>8. CASE ReceiveEot
  <2>1. receiving' = "complete" /\ UNCHANGED expected /\ Answer("ACK")
    BY <1>8 DEF ReceiveEot
  <2>2. byte = "ACK" /\ state = "waitEot"
    <3>1. byte = "ACK"
      BY <1>1, <2>1, SameAnswer DEF Agreement, Byte
    <3>2. Head(toReceiver).kind = "EOT"
      BY <1>8 DEF ReceiveEot, Gets
    <3> QED
      BY <1>3, <3>1, <3>2 DEF Packet, Damaged
  <2>3. Types' /\ Numbers' /\ ToReceiver'
    BY <1>2, <1>3, <1>4, <1>5, <2>1, <2>2 DEF Agreement, Types, Numbers, ToReceiver
  <2> QED
    BY <1>2, <1>3, <1>4, <1>5, <2>1, <2>2, <2>3 DEF Agreement, ToSender, IsAnswer
<1> QED
  BY <1>6, <1>7, <1>8

\* The receiver sends of its own accord.
LEMMA ReceiverSends ==
  ASSUME Agreement, ReceiverStarts \/ ReceiverTimeout \/ ReceiverCancels
  PROVE  Agreement'
<1>1. CASE ReceiverStarts
  <2>1. /\ receiving = "waiting" /\ Sending /\ startChar \in Byte
        /\ toSender' = Append(toSender, startChar)
        /\ UNCHANGED <<state, blockNum, offset, bytesRead, toReceiver, receiving, expected,
                       startChar>>
    BY <1>1 DEF ReceiverStarts, sender, progress, receiver, Agreement, Types, Byte
  <2>2. /\ toSender' \in Seq(Byte) /\ Unread' \subseteq Unread \union {startChar}
        /\ ~IsAnswer(startChar) /\ OneAnswer => OneAnswer'
    BY <2>1, AppendFacts DEF Agreement
  <2>3. Types' /\ Numbers' /\ ToReceiver'
    BY <2>1, <2>2 DEF Agreement, Types, Numbers, ToReceiver, InStep, Ahead, Sending, Packet, Block
  <2>4. startChar \in {"C", "NAK"} /\ (state # "start" => startChar = "C")
    BY <2>1 DEF Agreement, Types, ToSender
  <2> QED
    BY <2>1, <2>2, <2>3, <2>4 DEF Agreement, ToSender, Sending, IsAnswer, Ahead
<1>2. CASE ReceiverTimeout
  <2>1. /\ receiving = "blocks" /\ state \in {"wait", "waitEot"} /\ toReceiver = <<>>
        /\ toSender' = Append(toSender, "NAK") /\ Unread = {}
        /\ UNCHANGED <<state, blockNum, offset, bytesRead, toReceiver, receiving, expected,
                       startChar>>
    BY <1>2 DEF ReceiverTimeout, sender, progress, receiver, Unread
  <2>2. toSender' \in Seq(Byte) /\ Unread' \subseteq {"NAK"} /\ OneAnswer'
    BY <2>1, AppendFacts DEF Agreement, Byte, IsAnswer
  <2>3. Types' /\ Numbers' /\ ToReceiver'
    BY <2>1, <2>2 DEF Agreement, Types, Numbers, ToReceiver, InStep, Ahead, Sending
  <2> QED
    BY <2>1, <2>2, <2>3 DEF Agreement, ToSender, Sending, IsAnswer
<1>3. CASE ReceiverCancels
  <2>1. /\ receiving \in {"waiting", "blocks"} /\ receiving' = "cancelled"
        /\ toSender' = Append(toSender, "CAN")
        /\ UNCHANGED <<state, blockNum, offset, bytesRead, toReceiver, expected, startChar>>
    BY <1>3 DEF ReceiverCancels, sender, progress
  <2>2. /\ toSender' \in Seq(Byte) /\ Unread' \subseteq Unread \union {"CAN"}
        /\ OneAnswer => OneAnswer'
    BY <2>1, AppendFacts DEF Agreement, Byte, IsAnswer
  <2>3. Types' /\ Numbers' /\ ToReceiver'
    BY <2>1, <2>2 DEF Agreement, Types, Numbers, ToReceiver, InStep, Ahead, Sending, Packet, Block
  <2> QED
    BY <2>1, <2>2, <2>3 DEF Agreement, ToSender, Sending, IsAnswer, Ahead
<1> QED
  BY <1>1, <1>2, <1>3

\* What is on the line is lost, damaged or not heard.
LEMMA LineAgrees ==
  ASSUME Agreement, Fault \/ Unheard
  PROVE  Agreement'
<1>1. UNCHANGED <<state, blockNum, offset, bytesRead, receiving, expected, startChar>>
  BY DEF Fault, Unheard, sender, progress, receiver
<1>2. CASE /\ toReceiver # <<>> /\ UNCHANGED toSender
           /\ \/ toReceiver' = Tail(toReceiver)
              \/ Fault /\ toReceiver' = [toReceiver EXCEPT ![1] = Damaged]
  <2>1. Unread' = Unread
    BY <1>2 DEF Unread
  <2>2. ToReceiver'
    <3>1. CASE Sending
      <4>1. \E m : toReceiver = <<m>>
        BY <1>2, <3>1 DEF Agreement, Types, ToReceiver, Sending
      <4>2. toReceiver' \in {<<>>, <<Damaged>>}
        BY <1>2, <4>1
      <4> QED
        BY <1>1, <1>2, <3>1, <4>2 DEF Agreement, Types, ToReceiver, Sending
    <3>2. CASE ~Sending
      BY <1>1, <1>2, <3>2 DEF Agreement, ToReceiver, Sending
    <3> QED
      BY <3>1, <3>2
  <2>3. Types' /\ Numbers'
    BY <1>1, <1>2 DEF Agreement, Types, Numbers, InStep, Ahead
  <2> QED
    BY <1>1, <1>2, <2>1, <2>2, <2>3 DEF Agreement, ToSender, Sending, OneAnswer, Ahead
<1>3. CASE /\ toSender # <<>> /\ UNCHANGED toReceiver
           /\ toSender' \in {Tail(toSender), [toSender EXCEPT ![1] = "garbled"]}
  <2>1. /\ toSender' \in Seq(Byte) /\ Unread' \subseteq Unread \union {"garbled"}
        /\ OneAnswer => OneAnswer'
    BY <1>3, ReadFacts, GarbleFacts DEF Agreement
  <2>2. Types' /\ Numbers' /\ ToReceiver'
    BY <1>1, <1>3, <2>1 DEF Agreement, Types, Numbers, ToReceiver, InStep, Ahead, Sending,
                            Packet, Block
  <2> QED
    BY <1>1, <1>3, <2>1, <2>2 DEF Agreement, ToSender, Sending, IsAnswer, Ahead
<1> QED
  BY <1>2, <1>3 DEF Fault, Unheard

LEMMA NextAgrees ==
  ASSUME Agreement, Timely, [Next]_vars
  PROVE  Agreement'
<1>1. CASE FileShrinks \/ Rest \/ UNCHANGED vars
  <2>1. UNCHANGED <<state, blockNum, offset, bytesRead, toReceiver, toSender, receiver>>
    BY <1>1 DEF FileShrinks, Rest, vars, sender, progress
  <2> QED
    BY <2>1 DEF Agreement, Types, Numbers, ToReceiver, ToSender, InStep, Ahead, Sending,
                Packet, Block, OneAnswer, Unread, receiver
<1> QED
  BY <1>1, ApplicationAgrees, StartAgrees, RequestAgrees, WriteAgrees, ResponseAgrees,
     EotAgrees, ReceiveAgrees, ReceiverSends, LineAgrees
     DEF Next, Sender, Receiver

LEMMA InitAgrees == Init => Agreement
<1> SUFFICES ASSUME Init PROVE Agreement
  OBVIOUS
<1>1. /\ state = "closed" /\ receiving = "waiting" /\ startChar \in {"C", "NAK"}
      /\ toSender = <<>> /\ expected = 1 /\ toReceiver = <<>>
  BY DEF Init
<1>2. toSender \in Seq(Byte) /\ Unread = {}
  BY <1>1 DEF Unread
<1> QED
  BY <1>1, <1>2 DEF Agreement, Types, Numbers, ToReceiver, ToSender, Sending

LEMMA AgreementInvariant ==
  ASSUME Timely
  PROVE  Spec => []Agreement
<1>1. Agreement /\ [Next]_vars => Agreement'
  BY NextAgrees
<1> QED
  BY <1>1, InitAgrees, PTL DEF Spec

\* Sender and receiver never disagree on which block is next, however long the
\* file is, how often the number wraps and what is lost, damaged, repeated or
\* cancelled, when each answer comes in time.
THEOREM StaysInStep ==
  ASSUME Timely
  PROVE  Spec => []NeverOutOfStep
<1>1. Agreement => NeverOutOfStep
  BY DEF Agreement, Types, NeverOutOfStep
<1> QED
  BY <1>1, AgreementInvariant, PTL

-----------------------------------------------------------------------------
(* The data                                                                 *)

\* The receiver has m bytes: n of the file, and padding.
Holds(n, m) ==
  /\ Len(received) = m
  /\ \A k \in 1 .. m : received[k] = IF k <= n THEN k ELSE Pad

\* The file got too short for another block.
Short == source = "file" /\ fileLen <= offset

DataTypes ==
  /\ received \in Seq(Nat)
  /\ offset \in Nat /\ bytesRead \in Nat /\ fileLen \in Nat

Contents ==
  /\ state = "start" => offset = 0 /\ received = <<>>
  /\ state = "request" => offset < DataLen /\ (Holds(offset, offset) \/ Short)
  /\ state \in {"write", "wait"} =>
       /\ offset < DataLen
       /\ bytesRead \in 1 .. RequestLen
       /\ bytesRead = RequestLen \/ (source = "file" /\ fileLen <= offset + bytesRead)
       /\ InStep => Holds(offset, offset)
       /\ Ahead => Holds(offset + bytesRead, offset + BlockSize)
  /\ state \in {"writeEot", "waitEot"} =>
       Len(received) >= DataLen /\ Holds(DataLen, Len(received))
  /\ result = 0 =>
       /\ ~Sending /\ receiving = "complete"
       /\ Len(received) >= DataLen /\ Holds(DataLen, Len(received))

Delivered == DataTypes /\ Contents

\* Steps that neither the data nor the sender's place in the transfer are part of
LEMMA NothingDelivered ==
  ASSUME Delivered,
         UNCHANGED <<state, blockNum, offset, bytesRead, source, expected, received, result>>,
         fileLen' \in Nat, fileLen' <= fileLen,
         result = 0 => UNCHANGED receiving
  PROVE  Delivered'
BY DEF Delivered, DataTypes, Contents, Holds, Short, InStep, Ahead, RequestLen, Sending

LEMMA RequestLenFacts ==
  ASSUME offset \in Nat, offset < DataLen
  PROVE  /\ RequestLen \in Nat \ {0} /\ RequestLen <= BlockSize
         /\ offset + RequestLen <= DataLen
         /\ offset + BlockSize < DataLen => RequestLen = BlockSize
         /\ offset + RequestLen < DataLen => RequestLen = BlockSize
         /\ offset + RequestLen >= DataLen => offset + BlockSize >= DataLen
BY DEF RequestLen

\* The receiver stores a block.
LEMMA StoresBlock ==
  ASSUME DataTypes, Holds(offset, offset), bytesRead <= BlockSize,
         received' = received \o Block(offset, bytesRead)
  PROVE  /\ received' \in Seq(Nat) /\ Len(received') = offset + BlockSize
         /\ \A k \in 1 .. offset + BlockSize :
              received'[k] = IF k <= offset + bytesRead THEN k ELSE Pad
<1> DEFINE data == Block(offset, bytesRead)
<1>1. /\ data \in Seq(Nat) /\ Len(data) = BlockSize
      /\ \A k \in 1 .. BlockSize : data[k] = IF k <= bytesRead THEN offset + k ELSE Pad
  <2>1. data = [k \in 1 .. BlockSize |-> IF k <= bytesRead THEN offset + k ELSE Pad]
    BY DEF Block
  <2>2. \A k \in 1 .. BlockSize : (IF k <= bytesRead THEN offset + k ELSE Pad) \in Nat
    BY DEF DataTypes, Pad
  <2> HIDE DEF data
  <2>3. BlockSize \in Nat
    OBVIOUS
  <2> QED
    BY <2>1, <2>2, <2>3
<1>2. /\ received \in Seq(Nat) /\ Len(received) = offset /\ offset \in Nat /\ bytesRead \in Nat
      /\ \A k \in 1 .. offset : received[k] = k
  BY DEF DataTypes, Holds
<1> HIDE DEF data
<1>3. /\ received \o data \in Seq(Nat) /\ Len(received \o data) = offset + BlockSize
      /\ \A k \in 1 .. offset : (received \o data)[k] = received[k]
      /\ \A k \in 1 .. BlockSize : (received \o data)[offset + k] = data[k]
  <2>1. received \in Seq(Nat) /\ data \in Seq(Nat)
    BY <1>1, <1>2
  <2>2. /\ received \o data \in Seq(Nat)
        /\ Len(received \o data) = Len(received) + Len(data)
        /\ \A k \in 1 .. Len(received) : (received \o data)[k] = received[k]
        /\ \A k \in 1 .. Len(data) : (received \o data)[Len(received) + k] = data[k]
    BY <2>1
  <2> QED
    BY <1>1, <1>2, <2>2
<1>4. ASSUME NEW k \in 1 .. offset + BlockSize
      PROVE  (received \o data)[k] = IF k <= offset + bytesRead THEN k ELSE Pad
  <2> offset \in Nat /\ BlockSize \in Nat
    BY <1>2 DEF SizeAssumption
  <2>1. CASE k <= offset
    BY <1>2, <1>3, <2>1
  <2>2. CASE k > offset
    <3>1. k - offset \in 1 .. BlockSize /\ offset + (k - offset) = k
      BY <1>2, <2>2
    <3>2. (received \o data)[k] = data[k - offset]
      BY <1>3, <3>1
    <3>3. data[k - offset] = IF k - offset <= bytesRead THEN offset + (k - offset) ELSE Pad
      BY <1>1, <3>1
    <3> QED
      BY <1>2, <3>1, <3>2, <3>3
  <2>3. k <= offset \/ k > offset
    OBVIOUS
  <2> QED
    BY <2>1, <2>2, <2>3
<1> QED
  BY <1>3, <1>4 DEF data

LEMMA ApplicationDelivers ==
  ASSUME Delivered, Application
  PROVE  Delivered'
<1>1. CASE Open \/ Close
  <2>1. /\ UNCHANGED <<offset, bytesRead, source, fileLen, received, receiving, result>>
        /\ ~Sending /\ ~Sending' /\ state' \in {"opened", "closed"}
    BY <1>1 DEF Open, Close, progress, application, receiver, Sending
  <2> QED
    BY <2>1 DEF Delivered, DataTypes, Contents, Holds, Sending
<1>2. ASSUME NEW from \in {"callback", "file"}, StartSending(from) \/ RefuseToSend(from)
      PROVE  Delivered'
  <2>1. /\ received' = <<>> /\ fileLen' \in Nat /\ result' \in {NoResult, -1}
        /\ UNCHANGED bytesRead
        /\ \/ state' = "start" /\ offset' = 0
           \/ ~Sending /\ UNCHANGED <<state, offset>>
    BY <1>2 DEF StartSending, RefuseToSend, Send, NoResult, progress, Sending
  <2>2. received' \in Seq(Nat)
    BY <2>1
  <2> QED
    BY <2>1, <2>2 DEF Delivered, DataTypes, Contents, Sending, NoResult
<1> QED
  BY <1>1, <1>2 DEF Application

\* uCxXmodemSend() returns an error.
LEMMA FailureDelivers ==
  ASSUME Delivered, NEW code, code # 0, Return(code), UNCHANGED <<received, receiving>>
  PROVE  Delivered'
BY DEF Delivered, DataTypes, Contents, Return, progress, application, Sending

LEMMA AgainDelivers ==
  ASSUME Delivered, state \in {"write", "wait"}, Again, UNCHANGED receiver
  PROVE  Delivered'
<1>1. CASE retry + 1 < MaxRetries
  <2>1. /\ state' = "write"
        /\ UNCHANGED <<blockNum, offset, bytesRead, source, fileLen, expected, received,
                       receiving, result>>
    BY <1>1 DEF Again, receiver, application
  <2> QED
    BY <2>1 DEF Delivered, DataTypes, Contents, Holds, InStep, Ahead, RequestLen, Sending
<1>2. CASE ~(retry + 1 < MaxRetries)
  BY <1>2, FailureDelivers DEF Again, receiver
<1> QED
  BY <1>1, <1>2

LEMMA IgnoreDelivers ==
  ASSUME Delivered, NEW where, NEW bytes, Ignore(where, bytes)
  PROVE  Delivered'
BY NothingDelivered DEF Ignore, Read, sender, progress, application, receiver, Delivered,
   DataTypes

LEMMA StartDelivers ==
  ASSUME Delivered, WaitForStart
  PROVE  Delivered'
<1>1. CASE Read("start", "C") /\ state' = "request" /\ UNCHANGED <<progress, result, application>>
  <2>1. /\ state = "start" /\ state' = "request"
        /\ UNCHANGED <<offset, bytesRead, source, fileLen, received, receiving, result>>
    BY <1>1 DEF Read, progress, application, receiver
  <2> QED
    BY <2>1 DEF Delivered, DataTypes, Contents, Holds, Sending
<1>2. ASSUME NEW code, code # 0, Return(code), UNCHANGED receiver
      PROVE  Delivered'
  BY <1>2, FailureDelivers DEF receiver
<1>3. CASE Ignore("start", {"ACK", "garbled"})
  BY <1>3, IgnoreDelivers
<1> QED
  BY <1>1, <1>2, <1>3 DEF WaitForStart, Read, TimeIsUp

\* What the callback gives is what the block lacks, or all that the file still has.
LEMMA RequestDelivers ==
  ASSUME Agreement, Delivered, ~ShortReads, Request
  PROVE  Delivered'
<1>1. state = "request" /\ UNCHANGED <<toReceiver, toSender, receiver>>
  BY DEF Request
<1>2. CASE Return(-4)
  BY <1>1, <1>2, FailureDelivers DEF receiver
<1>3. CASE /\ bytesRead' \in Data /\ state' = "write"
           /\ UNCHANGED <<blockNum, offset, result, application>>
  <2>1. /\ offset \in Nat /\ offset < DataLen /\ fileLen \in Nat
        /\ UNCHANGED <<source, fileLen, received, receiving, expected, RequestLen>>
    BY <1>1, <1>3 DEF Delivered, DataTypes, Contents, application, receiver, RequestLen
  <2>2. RequestLen \in Nat \ {0}
    BY <2>1, RequestLenFacts
  <2>3. /\ bytesRead' \in 1 .. RequestLen
        /\ bytesRead' = RequestLen \/ (source = "file" /\ fileLen <= offset + bytesRead')
        /\ ~Short
    <3>1. CASE source = "file"
      <4>1. /\ bytesRead' = (IF fileLen - offset < RequestLen THEN fileLen - offset
                             ELSE RequestLen)
            /\ bytesRead' \in 1 .. RequestLen
        BY <1>3, <3>1 DEF Data, FileData
      <4>2. CASE fileLen - offset < RequestLen
        BY <2>1, <2>2, <3>1, <4>1, <4>2 DEF Short
      <4>3. CASE ~(fileLen - offset < RequestLen)
        BY <2>1, <2>2, <4>1, <4>3 DEF Short
      <4> QED
        BY <4>2, <4>3
    <3>2. CASE source # "file"
      BY <1>3, <2>2, <3>2 DEF Data, Short
    <3> QED
      BY <3>1, <3>2
  <2>4. Holds(offset, offset)
    BY <1>1, <2>3 DEF Delivered, Contents
  <2>5. InStep' /\ ~Ahead'
    <3>1. InStep /\ expected \in Nat \ {0}
      BY <1>1 DEF Agreement, Numbers, Types
    <3>2. ~Ahead
      BY <3>1, NextNumber DEF InStep, Ahead
    <3> QED
      BY <1>3, <2>1, <3>1, <3>2 DEF InStep, Ahead
  <2>6. Holds(offset, offset)'
    BY <1>3, <2>1, <2>4 DEF Holds
  <2>7. DataTypes'
    BY <1>3, <2>1, <2>2, <2>3 DEF Delivered, DataTypes
  <2> QED
    BY <1>1, <1>3, <2>1, <2>3, <2>5, <2>6, <2>7 DEF Delivered, Contents, Sending
<1> QED
  BY <1>2, <1>3 DEF Request

LEMMA WriteDelivers ==
  ASSUME Delivered, WriteBlock \/ WriteFails
  PROVE  Delivered'
<1>1. CASE WriteBlock
  <2>1. /\ state = "write" /\ state' = "wait"
        /\ UNCHANGED <<blockNum, offset, bytesRead, source, fileLen, expected, received,
                       receiving, result>>
    BY <1>1 DEF WriteBlock, progress, application, receiver
  <2> QED
    BY <2>1 DEF Delivered, DataTypes, Contents, Holds, InStep, Ahead, RequestLen, Sending
<1>2. CASE WriteFails
  BY <1>2, AgainDelivers DEF WriteFails
<1> QED
  BY <1>1, <1>2

\* The block was acknowledged, so that the receiver has it.
LEMMA NextBlockDelivers ==
  ASSUME Agreement, Delivered, Read("wait", "ACK"), NextBlock
  PROVE  Delivered'
<1>1. /\ state = "wait" /\ offset' = offset + bytesRead
      /\ state' = IF offset' < DataLen THEN "request" ELSE "writeEot"
      /\ UNCHANGED <<bytesRead, source, fileLen, expected, received, receiving, result>>
  BY DEF Read, NextBlock, application, receiver
<1>2. Ahead
  BY <1>1, ReadFacts DEF Read, Agreement, ToSender
<1>3. /\ offset \in Nat /\ offset < DataLen /\ bytesRead \in 1 .. RequestLen
      /\ bytesRead = RequestLen \/ (source = "file" /\ fileLen <= offset + bytesRead)
      /\ Holds(offset + bytesRead, offset + BlockSize)
      /\ result # 0 /\ RequestLen <= BlockSize /\ RequestLen \in Nat
      /\ offset + RequestLen <= DataLen
      /\ offset + RequestLen < DataLen => RequestLen = BlockSize
      /\ offset' \in Nat /\ fileLen \in Nat
  BY <1>1, <1>2, RequestLenFacts DEF Delivered, DataTypes, Contents, Sending
<1>4. DataTypes'
  BY <1>1, <1>3 DEF Delivered, DataTypes
<1>5. CASE offset' < DataLen
  <2>1. Holds(offset, offset)' \/ Short'
    <3>1. CASE bytesRead = RequestLen
      BY <1>1, <1>3, <1>5, <3>1 DEF Holds
    <3>2. CASE source = "file" /\ fileLen <= offset + bytesRead
      BY <1>1, <3>2 DEF Short
    <3> QED
      BY <1>3, <3>1, <3>2
  <2> QED
    BY <1>1, <1>3, <1>4, <1>5, <2>1 DEF Delivered, Contents
<1>6. CASE ~(offset' < DataLen)
  <2>1. offset + bytesRead = DataLen /\ offset + BlockSize >= DataLen
    BY <1>1, <1>3, <1>6
  <2>2. /\ received' = received /\ Len(received) = offset + BlockSize
        /\ Holds(DataLen, Len(received))
    BY <1>1, <1>3, <2>1 DEF Holds
  <2>3. Holds(DataLen, Len(received))'
    BY <2>2 DEF Holds
  <2> QED
    BY <1>1, <1>3, <1>4, <1>6, <2>1, <2>2, <2>3 DEF Delivered, Contents
<1> QED
  BY <1>5, <1>6

LEMMA ResponseDelivers ==
  ASSUME Agreement, Delivered, WaitForResponse
  PROVE  Delivered'
<1>1. CASE (\E byte \in Accepts : Read("wait", byte)) /\ NextBlock
  BY <1>1, NextBlockDelivers DEF Accepts
<1>2. CASE (Read("wait", "NAK") \/ TimeIsUp("wait")) /\ Again
  BY <1>2, AgainDelivers DEF Read, TimeIsUp
<1>3. CASE Read("wait", "CAN") /\ Return(-3)
  BY <1>3, FailureDelivers DEF Read, receiver
<1>4. CASE Ignore("wait", {"C", "garbled"} \ Accepts)
  BY <1>4, IgnoreDelivers
<1> QED
  BY <1>1, <1>2, <1>3, <1>4 DEF WaitForResponse

LEMMA EotDelivers ==
  ASSUME Agreement, Delivered, WriteEot \/ WriteEotFails \/ WaitForEotResponse
  PROVE  Delivered'
<1>1. CASE WriteEot
  <2>1. /\ state = "writeEot" /\ state' = "waitEot"
        /\ UNCHANGED <<offset, bytesRead, source, fileLen, received, receiving, result>>
    BY <1>1 DEF WriteEot, progress, application, receiver
  <2> QED
    BY <2>1 DEF Delivered, DataTypes, Contents, Holds, Sending
<1>2. CASE \/ WriteEotFails
           \/ TimeIsUp("waitEot") /\ Return(-1)
  BY <1>2, FailureDelivers DEF WriteEotFails, TimeIsUp, receiver
<1>3. CASE Read("waitEot", "ACK") /\ Return(0)
  <2>1. /\ state = "waitEot" /\ state' = "opened"
        /\ UNCHANGED <<offset, bytesRead, source, fileLen, received, receiving>>
    BY <1>3 DEF Read, Return, progress, application, receiver
  <2>2. receiving = "complete"
    BY <1>3, ReadFacts DEF Read, Agreement, ToSender
  <2> QED
    BY <2>1, <2>2 DEF Delivered, DataTypes, Contents, Holds, Sending
<1>4. CASE Ignore("waitEot", {"NAK", "CAN", "C", "garbled"})
  BY <1>4, IgnoreDelivers
<1> QED
  BY <1>1, <1>2, <1>3, <1>4 DEF WaitForEotResponse

\* The receiver stores the block when it is the one that is due, and else has it.
LEMMA BlockDelivers ==
  ASSUME Agreement, Delivered, ReceiveBlock
  PROVE  Delivered'
<1>1. /\ receiving \in {"waiting", "blocks"} /\ toReceiver # <<>>
      /\ UNCHANGED <<state, blockNum, offset, bytesRead, source, fileLen, result>>
  BY DEF ReceiveBlock, Gets, Answer, sender, progress, application
<1>2. state = "wait" /\ Head(toReceiver) = Packet(blockNum, offset, bytesRead)
  <2>1. state \in {"wait", "waitEot"}
    BY <1>1 DEF Agreement, Types, ToReceiver, Sending
  <2>2. Head(toReceiver).kind = "block"
    BY DEF ReceiveBlock, Gets
  <2>3. CASE state = "waitEot"
    BY <1>1, <2>2, <2>3 DEF Agreement, ToReceiver, EOT, Damaged
  <2>4. CASE state = "wait"
    BY <1>1, <2>2, <2>4 DEF Agreement, ToReceiver, Damaged
  <2> QED
    BY <2>1, <2>3, <2>4
<1>3. /\ Head(toReceiver).num = blockNum
      /\ Head(toReceiver).data = Block(offset, bytesRead)
  BY <1>2 DEF Packet
<1>4. /\ InStep \/ Ahead
      /\ expected \in Nat \ {0} /\ (expected + 1) - 1 = expected
  BY <1>2 DEF Agreement, Numbers, Types
<1>5. /\ offset \in Nat /\ offset < DataLen /\ bytesRead \in 1 .. RequestLen
      /\ RequestLen <= BlockSize /\ RequestLen \in Nat
      /\ bytesRead = RequestLen \/ (source = "file" /\ fileLen <= offset + bytesRead)
      /\ result # 0
  BY <1>2, RequestLenFacts DEF Delivered, DataTypes, Contents, Sending
<1>6. CASE Ahead
  <2>1. ~InStep
    BY <1>4, <1>6, NextNumber DEF InStep, Ahead
  <2>2. UNCHANGED <<receiving, expected, received>>
    BY <1>3, <1>6, <2>1 DEF ReceiveBlock, InStep, Ahead
  <2> QED
    BY <1>1, <2>2, NothingDelivered DEF Delivered, DataTypes
<1>7. CASE InStep
  <2>1. ~Ahead
    BY <1>4, <1>7, NextNumber DEF InStep, Ahead
  <2>2. /\ received' = received \o Block(offset, bytesRead)
        /\ expected' = expected + 1
    BY <1>3, <1>7, <2>1 DEF ReceiveBlock, InStep, Ahead
  <2>3. ~InStep'
    <3>1. expected' \in Nat \ {0} /\ expected' - 1 = expected
      BY <1>4, <2>2
    <3>2. expected % UINT8_RANGE # expected' % UINT8_RANGE
      BY <3>1, NextNumber
    <3> QED
      BY <1>1, <1>7, <3>2 DEF InStep
  <2>4. Holds(offset, offset) /\ bytesRead <= BlockSize
    BY <1>2, <1>5, <1>7 DEF Delivered, Contents
  <2>5. /\ received' \in Seq(Nat)
        /\ Holds(offset + bytesRead, offset + BlockSize)'
    BY <1>1, <1>5, <2>2, <2>4, StoresBlock DEF Delivered, Holds
  <2>6. DataTypes' /\ RequestLen' = RequestLen
    BY <1>1, <2>5 DEF Delivered, DataTypes, RequestLen
  <2> QED
    BY <1>1, <1>2, <1>5, <2>3, <2>5, <2>6 DEF Delivered, Contents
<1> QED
  BY <1>4, <1>6, <1>7

LEMMA NextDelivers ==
  ASSUME Agreement, Delivered, ~ShortReads, [Next]_vars
  PROVE  Delivered'
<1>1. CASE \/ ReceiveDamaged \/ ReceiveEot
           \/ ReceiverStarts \/ ReceiverTimeout \/ ReceiverCancels
           \/ Fault \/ Unheard \/ Rest \/ UNCHANGED vars
  <2>1. /\ UNCHANGED <<state, blockNum, offset, bytesRead, source, fileLen, expected,
                       received, result>>
        /\ receiving = "complete" => UNCHANGED receiving
    BY <1>1 DEF ReceiveDamaged, ReceiveEot, ReceiverStarts, ReceiverTimeout, ReceiverCancels,
       Fault, Unheard, Rest, vars, sender, progress, application, receiver, Gets, Answer
  <2> QED
    BY <2>1, NothingDelivered DEF Delivered, DataTypes, Contents
<1>2. CASE FileShrinks
  <2>1. /\ UNCHANGED <<state, blockNum, offset, bytesRead, source, expected, received,
                       result, receiving>>
        /\ fileLen \in Nat /\ fileLen' \in 0 .. fileLen - 1
    BY <1>2 DEF FileShrinks, progress, receiver, Delivered, DataTypes
  <2>2. fileLen' \in Nat /\ fileLen' <= fileLen
    BY <2>1
  <2> QED
    BY <2>1, <2>2, NothingDelivered
<1> QED
  BY <1>1, <1>2, ApplicationDelivers, StartDelivers, RequestDelivers, WriteDelivers,
     ResponseDelivers, EotDelivers, BlockDelivers DEF Next, Sender, Receiver

LEMMA InitDelivers == Init => Delivered
BY DEF Init, Delivered, DataTypes, Contents, Sending, NoResult

\* When uCxXmodemSend() returns 0 the receiver has all of the data, each byte
\* once and in order, followed by nothing but padding: for a transfer of any
\* length, also when the file gets shorter while it is sent, when each answer
\* comes in time and the data callback of an application gives all that is
\* requested.
THEOREM SuccessIsComplete ==
  ASSUME Timely, ~ShortReads
  PROVE  Spec => []TransferComplete
<1>1. Agreement /\ Agreement' /\ Delivered /\ [Next]_vars => Delivered'
  BY NextDelivers
<1>2. Delivered => TransferComplete
  BY DEF Delivered, Contents, Holds, TransferComplete
<1>3. Spec => []Agreement
  BY AgreementInvariant
<1> QED
  BY <1>1, <1>2, <1>3, InitDelivers, PTL DEF Spec

-----------------------------------------------------------------------------
(* What there is of a file when it fails                                    *)

\* The receiver has the beginning of the data, and padding.
BeginningReceived == \E n \in 0 .. DataLen : n <= Len(received) /\ Holds(n, Len(received))

\* What is received is the block behind all that was, or it is nothing new.
LEMMA NextBlockIsStored ==
  ASSUME Agreement, Delivered, ReceiveBlock
  PROVE  \/ UNCHANGED received
         \/ /\ DataTypes /\ Holds(offset, offset)
            /\ offset + bytesRead \in 0 .. DataLen /\ bytesRead <= BlockSize
            /\ received' = received \o Block(offset, bytesRead)
<1>1. /\ state = "wait" /\ Head(toReceiver) = Packet(blockNum, offset, bytesRead)
  <2>1. receiving \in {"waiting", "blocks"} /\ toReceiver # <<>>
        /\ Head(toReceiver).kind = "block"
    BY DEF ReceiveBlock, Gets
  <2>2. state \in {"wait", "waitEot"}
    BY <2>1 DEF Agreement, Types, ToReceiver, Sending
  <2>3. CASE state = "waitEot"
    BY <2>1, <2>3 DEF Agreement, ToReceiver, EOT, Damaged
  <2>4. CASE state = "wait"
    BY <2>1, <2>4 DEF Agreement, ToReceiver, Damaged
  <2> QED
    BY <2>2, <2>3, <2>4
<1>2. /\ Head(toReceiver).num = blockNum
      /\ Head(toReceiver).data = Block(offset, bytesRead)
  BY <1>1 DEF Packet
<1>3. /\ DataTypes /\ offset \in Nat /\ bytesRead \in 1 .. RequestLen
      /\ RequestLen \in Nat /\ RequestLen <= BlockSize /\ offset + RequestLen <= DataLen
      /\ InStep => Holds(offset, offset)
  BY <1>1, RequestLenFacts DEF Delivered, DataTypes, Contents
<1>4. CASE InStep
  <2>1. offset + bytesRead \in 0 .. DataLen /\ bytesRead <= BlockSize
    BY <1>3, SizeAssumption
  <2>2. UNCHANGED received \/ received' = received \o Block(offset, bytesRead)
    BY <1>2 DEF ReceiveBlock
  <2> QED
    BY <1>3, <1>4, <2>1, <2>2
<1>5. CASE ~InStep
  BY <1>2, <1>5 DEF ReceiveBlock, InStep
<1> QED
  BY <1>4, <1>5

LEMMA NextReceives ==
  ASSUME Agreement, Delivered, BeginningReceived, [Next]_vars
  PROVE  BeginningReceived'
<1>1. CASE UNCHANGED received
  BY <1>1 DEF BeginningReceived, Holds
<1>2. CASE received' = <<>>
  <2>1. 0 \in 0 .. DataLen /\ Len(received') = 0
    BY <1>2, SizeAssumption
  <2>2. Holds(0, 0)'
    BY <2>1 DEF Holds
  <2> QED
    BY <2>1, <2>2 DEF BeginningReceived
<1>3. CASE ReceiveBlock /\ ~UNCHANGED received
  <2>1. /\ DataTypes /\ Holds(offset, offset)
        /\ offset + bytesRead \in 0 .. DataLen /\ bytesRead <= BlockSize
        /\ received' = received \o Block(offset, bytesRead)
    BY <1>3, NextBlockIsStored
  <2> DEFINE n == offset + bytesRead
  <2>2. /\ Len(received') = offset + BlockSize
        /\ \A k \in 1 .. offset + BlockSize : received'[k] = IF k <= n THEN k ELSE Pad
    BY <2>1, StoresBlock
  <2>3. n \in 0 .. DataLen /\ n <= Len(received')
    BY <2>1, <2>2, SizeAssumption DEF DataTypes
  <2> HIDE DEF n
  <2>4. \E m \in 0 .. DataLen :
          /\ m <= Len(received')
          /\ \A k \in 1 .. Len(received') : received'[k] = IF k <= m THEN k ELSE Pad
    BY <2>2, <2>3
  <2> QED
    BY <2>4 DEF BeginningReceived, Holds
<1>4. UNCHANGED received \/ received' = <<>> \/ ReceiveBlock
  <2>1. CASE Application
    BY <2>1 DEF Application, Open, Close, StartSending, RefuseToSend, Send, receiver
  <2>2. CASE Sender
    <3>1. UNCHANGED receiver
      BY <2>2 DEF Sender, WaitForStart, Request, WriteBlock, WriteFails, WaitForResponse,
         WriteEot, WriteEotFails, WaitForEotResponse, Read, TimeIsUp, Ignore
    <3> QED
      BY <3>1 DEF receiver
  <2>3. CASE Receiver
    BY <2>3 DEF Receiver, ReceiverStarts, ReceiveDamaged, ReceiveEot, ReceiverTimeout,
       ReceiverCancels, Unheard, receiver
  <2>4. CASE FileShrinks \/ Fault \/ Rest \/ UNCHANGED vars
    BY <2>4 DEF FileShrinks, Fault, Rest, vars, receiver
  <2> QED
    BY <2>1, <2>2, <2>3, <2>4 DEF Next
<1> QED
  BY <1>1, <1>2, <1>3, <1>4

\* Whenever a transfer ends, and while it lasts, the receiver has the beginning of the
\* data, each byte once and in order, and behind it nothing but padding: what is left
\* behind when uCxXmodemSend() fails is never mixed up. Padding may be behind a block
\* when the file gets shorter, and no block comes behind that.
THEOREM BeginningIsIntact ==
  ASSUME Timely, ~ShortReads
  PROVE  Spec => []BeginningReceived
<1>1. Init => BeginningReceived
  <2> SUFFICES ASSUME Init
               PROVE  BeginningReceived
    OBVIOUS
  <2>1. 0 \in 0 .. DataLen /\ received = <<>> /\ Len(received) = 0
    BY SizeAssumption DEF Init
  <2>2. Holds(0, 0)
    BY <2>1 DEF Holds
  <2> QED
    BY <2>1, <2>2 DEF BeginningReceived
<1>2. Agreement /\ Delivered /\ BeginningReceived /\ [Next]_vars => BeginningReceived'
  BY NextReceives
<1>3. Agreement /\ Agreement' /\ Delivered /\ [Next]_vars => Delivered'
  BY NextDelivers
<1>4. Spec => []Agreement
  BY AgreementInvariant
<1> QED
  BY <1>1, <1>2, <1>3, <1>4, InitDelivers, PTL DEF Spec
=============================================================================
