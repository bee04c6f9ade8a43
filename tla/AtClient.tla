------------------------------ MODULE AtClient ------------------------------
(***************************************************************************)
(* The AT client of u_cx_at_client.c with U_CX_USE_URC_QUEUE 1: threads of *)
(* the application that execute AT commands, a worker that calls           *)
(* uCxAtClientHandleRx*() in between, and the module at the other end of   *)
(* the UART, which answers commands in order and sends URCs when it likes. *)
(*                                                                         *)
(* One step takes one line (or one piece of a binary transfer) from the    *)
(* UART; what lines are made of is left to the parser.  The URC queue is   *)
(* the FIFO of UrcFifo, which the ring of UrcQueue implements.             *)
(*                                                                         *)
(* A thread inside a command holds cmdMutex.  A URC callback runs in any   *)
(* thread that processes URCs, holds dequeueMutex, and may itself execute  *)
(* commands, so commands nest: stack[t] has the commands that t is in.     *)
(***************************************************************************)
EXTENDS Integers, Sequences

CONSTANTS
  App,         \* the threads that execute commands
  Worker,      \* the threads that handle RX data in the background
  NoThread,    \* a mutex that is free
  Ports,       \* the ports that the system may run on, see Wake
  MaxCmds,     \* bound: commands executed
  MaxUrcs,     \* bound: URCs sent by the module
  MaxTimeouts, \* bound: commands that time out
  MaxIoErrors, \* bound: failing reads
  MaxCloses,   \* bound: times the client is closed
  QueueCap     \* how many URCs the queue takes

Thread == App \union Worker

ASSUME ThreadAssumption ==
  /\ App \cap Worker = {}
  /\ NoThread \notin Thread

ASSUME BoundAssumption ==
  /\ Ports \subseteq {"polling", "posix", "windows", "freertos", "zephyr"}
  /\ {MaxCmds, MaxUrcs, MaxTimeouts, MaxIoErrors, MaxCloses, QueueCap} \subseteq Nat

VARIABLES
  cmdMutex, executingCmd, isBinaryRx, pExpectedRsp, opened,
  status,        \* status, and the command that the value belongs to
  pRspParams,    \* the command whose response line was parsed last, 0 for NULL
  queue, pending, reader,     \* the URC queue, see UrcFifo
  dequeueMutex,
  rx,            \* what the UART has received and nobody has read
  todo,          \* what the module has to answer
  sending,       \* the URC whose payload the module is sending, 0 for none
  pc,            \* where each thread is
  stack,         \* the commands each thread is in, innermost first
  port,
  bgTask,        \* the background task: "none", "running", "stopping" or "ended"
  signalled,     \* uPortUartRxSignalFromIsr() has a call of the worker pending
  handled,       \* history: what the URC callback was called with
  nCmds, nUrcs, nTimeouts, nIoErrors, nCloses

client == <<executingCmd, isBinaryRx, pExpectedRsp, opened, status, pRspParams>>
urcs == <<queue, pending, reader>>
module == <<todo, sending, nUrcs>>
bg == <<port, bgTask, signalled>>
counters == <<nCmds, nTimeouts, nIoErrors, nCloses>>
vars == <<cmdMutex, client, urcs, dequeueMutex, rx, module, pc, stack, bg,
          handled, counters>>

CmdId == 1 .. MaxCmds
UrcId == 1 .. MaxUrcs

\* A command either just returns a status or queries something first.  The
\* response line of a query starts with its prefix.
Kind == {"simple", "query"}
NoPrefix == "none"
Prefix == "query"

\* A '+' line, as it goes to the queue: a URC, or a response line that no
\* command was waiting for.
PlusLine == [kind : {"urc", "bin"}, id : UrcId] \union
            [kind : {"rsp"}, id : CmdId]
BinEnd(u) == [kind |-> "binEnd", id |-> u]
NoUrc == [kind |-> "none", id |-> 0]

NoStatus == [val |-> "NO_STATUS", cmd |-> 0]

Fifo == INSTANCE UrcFifo WITH Urc <- PlusLine, PayloadSize <- {0, 1}

Init ==
  /\ cmdMutex = NoThread
  /\ executingCmd = FALSE
  /\ isBinaryRx = FALSE
  /\ pExpectedRsp = NoPrefix
  /\ opened = TRUE
  /\ status = NoStatus
  /\ pRspParams = 0
  /\ Fifo!Init
  /\ dequeueMutex = NoThread
  /\ rx = <<>>
  /\ todo = <<>>
  /\ sending = 0
  /\ pc = [t \in Thread |-> "idle"]
  /\ stack = [t \in Thread |-> <<>>]
  /\ port \in Ports
  /\ bgTask = "running"
  /\ signalled = FALSE
  /\ handled = <<>>
  /\ nCmds = 0 /\ nUrcs = 0 /\ nTimeouts = 0 /\ nIoErrors = 0 /\ nCloses = 0

Goto(t, where) == pc' = [pc EXCEPT ![t] = where]

-----------------------------------------------------------------------------
(* The module: code outside of the repository.  A closed UART hears nothing. *)

\* Two ports have the interrupt signal the worker.
Receive(item) ==
  /\ rx' = IF opened THEN Append(rx, item) ELSE rx
  /\ signalled' = (signalled \/ (port \in {"freertos", "zephyr"} /\ opened
                                  /\ bgTask = "running"))

\* It answers its oldest command: the response line of a query, the status.
ModuleRespond ==
  /\ todo # <<>>
  /\ sending = 0
  /\ Head(todo).kind = "query"
  /\ Receive([kind |-> "rsp", id |-> Head(todo).id])
  /\ todo' = [todo EXCEPT ![1].kind = "simple"]
  /\ UNCHANGED <<cmdMutex, client, urcs, dequeueMutex, sending, nUrcs, pc, stack,
                 port, bgTask, handled, counters>>

ModuleFinish(answer) ==
  /\ todo # <<>>
  /\ sending = 0
  /\ Head(todo).kind = "simple"
  /\ Receive([kind |-> answer, id |-> Head(todo).id])
  /\ todo' = Tail(todo)
  /\ UNCHANGED <<cmdMutex, client, urcs, dequeueMutex, sending, nUrcs, pc, stack,
                 port, bgTask, handled, counters>>

\* It sends a URC, in one line or as a line that is followed by a payload.
ModuleUrc(kind) ==
  /\ nUrcs < MaxUrcs
  /\ sending = 0
  /\ nUrcs' = nUrcs + 1
  /\ Receive([kind |-> kind, id |-> nUrcs + 1])
  /\ sending' = IF kind = "bin" THEN nUrcs + 1 ELSE 0
  /\ UNCHANGED <<cmdMutex, client, urcs, dequeueMutex, todo, pc, stack, port, bgTask,
                 handled, counters>>

ModulePayload ==
  /\ sending # 0
  /\ Receive(BinEnd(sending))
  /\ sending' = 0
  /\ UNCHANGED <<cmdMutex, client, urcs, dequeueMutex, todo, nUrcs, pc, stack,
                 port, bgTask, handled, counters>>

Module == \/ ModuleRespond
          \/ \E answer \in {"OK", "ERROR"} : ModuleFinish(answer)
          \/ \E kind \in {"urc", "bin"} : ModuleUrc(kind)
          \/ ModulePayload

-----------------------------------------------------------------------------
(* handleRxData(): the thread at "getRsp", "cmdEnd" or "rx" holds cmdMutex  *)
(* and reads until the function returns to its caller.                      *)

Reading(t) == pc[t] \in {"getRsp", "cmdEnd", "rx"}

\* Where each caller goes on.
Returns(t) == Goto(t, CASE pc[t] = "getRsp" -> "getRspCheck"
                        [] pc[t] = "cmdEnd" -> "cmdEndCheck"
                        [] pc[t] = "rx" -> "rxDone")

\* The command that t executes.
Current(t) == IF stack[t] = <<>> THEN 0 ELSE Head(stack[t])

NextIs(t, kinds) ==
  /\ Reading(t)
  /\ opened
  /\ rx # <<>>
  /\ Head(rx).kind \in kinds

\* A status line ends the command that is executing, whichever command the
\* module meant; nobody waits for it otherwise.
ParseStatus(t) ==
  /\ NextIs(t, {"OK", "ERROR"})
  /\ ~isBinaryRx
  /\ rx' = Tail(rx)
  /\ IF executingCmd
     THEN /\ status' = [val |-> Head(rx).kind, cmd |-> Head(rx).id]
          /\ Returns(t)
     ELSE UNCHANGED <<status, pc>>
  /\ UNCHANGED <<cmdMutex, executingCmd, isBinaryRx, pExpectedRsp, opened,
                 pRspParams, urcs, dequeueMutex, module, stack, bg, handled,
                 counters>>

IsExpected(line) ==
  executingCmd /\ line.kind = "rsp" /\ pExpectedRsp = Prefix

ParseResponse(t) ==
  /\ NextIs(t, {"rsp"})
  /\ ~isBinaryRx
  /\ IsExpected(Head(rx))
  /\ rx' = Tail(rx)
  /\ pRspParams' = Head(rx).id
  /\ IF pc[t] = "getRsp" THEN Goto(t, "begun") ELSE Returns(t)
  /\ UNCHANGED <<cmdMutex, executingCmd, isBinaryRx, pExpectedRsp, opened, status,
                 urcs, dequeueMutex, module, stack, bg, handled, counters>>

\* A URC is dropped when the queue is full.
EnqueueDroppingOldest(line) ==
  queue' = Append(IF Len(queue) < QueueCap THEN queue ELSE Tail(queue),
                  [urc |-> line, payloadSize |-> 0])
Enqueue(line) ==
  queue' = IF Len(queue) < QueueCap
           THEN Append(queue, [urc |-> line, payloadSize |-> 0])
           ELSE queue

\* Any other '+' line is a URC.
ParseUrc(t) ==
  /\ NextIs(t, {"urc", "rsp"})
  /\ ~isBinaryRx
  /\ ~IsExpected(Head(rx))
  /\ rx' = Tail(rx)
  /\ Enqueue(Head(rx))
  /\ UNCHANGED <<cmdMutex, client, pending, reader, dequeueMutex, module, pc,
                 stack, bg, handled, counters>>

\* The line of a URC with a payload, the SOH and the length: it is begun, or
\* flushed when there is no room for the line or for the payload.
ParseBinaryUrc(t) ==
  /\ NextIs(t, {"bin"})
  /\ ~isBinaryRx
  /\ rx' = Tail(rx)
  /\ isBinaryRx' = TRUE
  /\ IF Len(queue) < QueueCap THEN Fifo!Begin(Head(rx)) ELSE UNCHANGED urcs
  /\ UNCHANGED <<cmdMutex, executingCmd, pExpectedRsp, opened, status, pRspParams,
                 dequeueMutex, module, pc, stack, bg, handled, counters>>

\* The rest of the payload: handleRxData() returns to its caller even when
\* there is more to read.
ReceivePayload(t) ==
  /\ NextIs(t, {"binEnd"})
  /\ isBinaryRx
  /\ rx' = Tail(rx)
  /\ isBinaryRx' = FALSE
  /\ IF pending # NoUrc THEN Fifo!Commit(1) ELSE UNCHANGED urcs
  /\ Returns(t)
  /\ UNCHANGED <<cmdMutex, executingCmd, pExpectedRsp, opened, status, pRspParams,
                 dequeueMutex, module, stack, bg, handled, counters>>

\* A payload whose beginning was lost in a close is not a line that says
\* anything.
ParseUnexpected(t) ==
  /\ NextIs(t, {"binEnd"})
  /\ ~isBinaryRx
  /\ rx' = Tail(rx)
  /\ UNCHANGED <<cmdMutex, client, urcs, dequeueMutex, module, pc, stack, bg,
                 handled, counters>>

\* CHECK_READ_ERROR: a read fails, as it always does without an open UART.
\* The thread of u_port_windows.c ends then.
ReadError(t) ==
  /\ Reading(t)
  /\ ~opened \/ nIoErrors < MaxIoErrors
  /\ status' = [val |-> "ERROR_IO", cmd |-> IF pc[t] = "rx" THEN 0 ELSE Current(t)]
  /\ nIoErrors' = IF opened THEN nIoErrors + 1 ELSE nIoErrors
  /\ bgTask' = IF port = "windows" /\ pc[t] = "rx" /\ bgTask = "running"
               THEN "ended" ELSE bgTask
  /\ Returns(t)
  /\ UNCHANGED <<cmdMutex, executingCmd, isBinaryRx, pExpectedRsp, opened,
                 pRspParams, urcs, dequeueMutex, rx, module, stack, port, signalled,
                 handled, nCmds, nTimeouts, nCloses>>

HandleRxData(t) == \/ ParseStatus(t)
                   \/ ParseResponse(t)
                   \/ ParseUrc(t)
                   \/ ParseBinaryUrc(t)
                   \/ ReceivePayload(t)
                   \/ ParseUnexpected(t)
                   \/ ReadError(t)

-----------------------------------------------------------------------------
(* Executing a command                                                      *)

InCallback(t) == pc[t] = "callback"

\* The application calls an execute function, in a URC callback perhaps.
Call(t) ==
  /\ nCmds < MaxCmds
  /\ (t \in App /\ pc[t] = "idle") \/ InCallback(t)
  /\ nCmds' = nCmds + 1
  /\ stack' = [stack EXCEPT ![t] = <<nCmds + 1>> \o @]
  /\ Goto(t, "cmdLock")
  /\ UNCHANGED <<cmdMutex, client, urcs, dequeueMutex, rx, module, bg, handled,
                 nTimeouts, nIoErrors, nCloses>>

\* pExpectedRsp is left as the last command set it.
BeginKeepingResponse ==
  /\ executingCmd' = TRUE
  /\ status' = NoStatus
  /\ UNCHANGED <<pRspParams, pExpectedRsp>>
Begin ==
  /\ pRspParams' = 0
  /\ executingCmd' = TRUE
  /\ status' = NoStatus
  /\ UNCHANGED pExpectedRsp

\* cmdBeginF()
CmdBegin(t, kind) ==
  /\ pc[t] = "cmdLock"
  /\ cmdMutex = NoThread
  /\ cmdMutex' = t
  /\ Begin
  /\ todo' = IF opened THEN Append(todo, [kind |-> kind, id |-> Current(t)])
                       ELSE todo
  /\ Goto(t, IF kind = "query" THEN "query" ELSE "begun")
  /\ UNCHANGED <<isBinaryRx, opened, urcs, dequeueMutex, rx, sending, nUrcs,
                 stack, bg, handled, counters>>

\* uCxAtClientCmdGetRspParamLine()
GetRspParamLine(t) ==
  /\ pc[t] = "query"
  /\ pRspParams' = 0
  /\ pExpectedRsp' = Prefix
  /\ Goto(t, "getRsp")
  /\ UNCHANGED <<cmdMutex, executingCmd, isBinaryRx, opened, status, urcs,
                 dequeueMutex, rx, module, stack, bg, handled, counters>>

\* The time is checked each time handleRxData() returned.  On a timeout NULL
\* is returned, and status stays as it is.
GetRspCheck(t) ==
  /\ pc[t] = "getRspCheck"
  /\ \/ status # NoStatus /\ Goto(t, "begun")
     \/ status = NoStatus /\ Goto(t, "getRsp")
  /\ UNCHANGED <<cmdMutex, client, urcs, dequeueMutex, rx, module, stack, bg,
                 handled, counters>>

GetRspTimeout(t) ==
  /\ nTimeouts < MaxTimeouts
  /\ nTimeouts' = nTimeouts + 1
  /\ pc[t] = "getRspCheck" \/ (pc[t] = "getRsp" /\ rx = <<>>)
  /\ Goto(t, "begun")
  /\ UNCHANGED <<cmdMutex, client, urcs, dequeueMutex, rx, module, stack, bg,
                 handled, nCmds, nIoErrors, nCloses>>

\* cmdEnd(): while there is no status, read.
CmdEndLoop(t) ==
  /\ pc[t] \in {"begun", "cmdEndCheck"}
  /\ status = NoStatus
  /\ Goto(t, "cmdEnd")
  /\ UNCHANGED <<cmdMutex, client, urcs, dequeueMutex, rx, module, stack, bg,
                 handled, counters>>

\* The time is checked after the read, and a status it brought is overwritten.
CmdEndTimeout(t) ==
  /\ nTimeouts < MaxTimeouts
  /\ nTimeouts' = nTimeouts + 1
  /\ pc[t] = "cmdEndCheck" \/ (pc[t] = "cmdEnd" /\ rx = <<>>)
  /\ status' = [val |-> "CMD_TIMEOUT", cmd |-> Current(t)]
  /\ Goto(t, "begun")
  /\ UNCHANGED <<cmdMutex, executingCmd, isBinaryRx, pExpectedRsp, opened,
                 pRspParams, urcs, dequeueMutex, rx, module, stack, bg, handled,
                 nCmds, nIoErrors, nCloses>>

CmdEndUnlock(t) ==
  /\ pc[t] \in {"begun", "cmdEndCheck"}
  /\ status # NoStatus
  /\ executingCmd' = FALSE
  /\ cmdMutex' = NoThread
  /\ Goto(t, "urcs")
  /\ UNCHANGED <<isBinaryRx, pExpectedRsp, opened, status, pRspParams, urcs,
                 dequeueMutex, rx, module, stack, bg, handled, counters>>

\* return pClient->status: no lock is held.
CmdReturn(t) ==
  /\ pc[t] = "cmdReturn"
  /\ stack' = [stack EXCEPT ![t] = Tail(@)]
  /\ Goto(t, IF dequeueMutex = t THEN "callback" ELSE "idle")
  /\ UNCHANGED <<cmdMutex, client, urcs, dequeueMutex, rx, module, bg, handled,
                 counters>>

Command(t) == \/ Call(t)
              \/ \E kind \in Kind : CmdBegin(t, kind)
              \/ GetRspParamLine(t)
              \/ GetRspCheck(t)
              \/ GetRspTimeout(t)
              \/ CmdEndLoop(t)
              \/ CmdEndTimeout(t)
              \/ CmdEndUnlock(t)
              \/ CmdReturn(t)

-----------------------------------------------------------------------------
(* handleRx()                                                               *)

\* The thread of u_port_posix.c and u_port_windows.c waits for data to be there.
WakeWaiting == bgTask = "running" /\ rx # <<>> /\ UNCHANGED signalled

\* The task of u_port_freertos.c and the work of u_port_zephyr.c wait for the
\* signal, which does not count.
WakeSignalled == bgTask = "running" /\ signalled /\ signalled' = FALSE

\* The application calls uCxAtClientHandleRx() now and then (u_port_no_os.c).
WakePolling == UNCHANGED signalled

Wake(t) ==
  /\ t \in Worker
  /\ pc[t] = "idle"
  /\ CASE port \in {"posix", "windows"} -> WakeWaiting
       [] port \in {"freertos", "zephyr"} -> WakeSignalled
       [] port = "polling" -> WakePolling
  /\ Goto(t, "rxLock")
  /\ UNCHANGED <<cmdMutex, client, urcs, dequeueMutex, rx, module, stack, port, bgTask,
                 handled, counters>>

RxLockSkippingBinary(t) ==
  /\ pc[t] = "rxLock"
  /\ cmdMutex = NoThread
  /\ cmdMutex' = t
  /\ Goto(t, IF opened /\ ~executingCmd /\ ~isBinaryRx THEN "rx" ELSE "rxDone")
  /\ UNCHANGED <<client, urcs, dequeueMutex, rx, module, stack, bg, handled,
                 counters>>

RxLock(t) ==
  /\ pc[t] = "rxLock"
  /\ cmdMutex = NoThread
  /\ cmdMutex' = t
  /\ Goto(t, IF opened /\ ~executingCmd THEN "rx" ELSE "rxDone")
  /\ UNCHANGED <<client, urcs, dequeueMutex, rx, module, stack, bg, handled,
                 counters>>

\* handleRxData() returns for want of data.
RxNoData(t) ==
  /\ pc[t] = "rx"
  /\ rx = <<>>
  /\ Goto(t, "rxDone")
  /\ UNCHANGED <<cmdMutex, client, urcs, dequeueMutex, rx, module, stack, bg,
                 handled, counters>>

RxUnlockOnly(t) ==
  /\ pc[t] = "rxDone"
  /\ cmdMutex' = NoThread
  /\ Goto(t, "idle")
  /\ UNCHANGED <<client, urcs, dequeueMutex, rx, module, stack, bg, handled,
                 counters>>

\* URCs are processed unless one is half received.
RxUnlock(t) ==
  /\ pc[t] = "rxDone"
  /\ cmdMutex' = NoThread
  /\ Goto(t, IF isBinaryRx THEN "idle" ELSE "urcs")
  /\ UNCHANGED <<client, urcs, dequeueMutex, rx, module, stack, bg, handled,
                 counters>>

HandleRx(t) == Wake(t) \/ RxLock(t) \/ RxNoData(t) \/ RxUnlock(t)

-----------------------------------------------------------------------------
(* processUrcs()                                                            *)

\* Where the thread goes on: it returns from a command or from handleRx().
AfterUrcs(t) == IF stack[t] = <<>> THEN "idle" ELSE "cmdReturn"

\* Somebody (the thread itself, when in a callback) is processing URCs.
UrcsBusy(t) ==
  /\ pc[t] = "urcs"
  /\ dequeueMutex # NoThread
  /\ Goto(t, AfterUrcs(t))
  /\ UNCHANGED <<cmdMutex, client, urcs, dequeueMutex, rx, module, stack, bg,
                 handled, counters>>

UrcsTryLock(t) ==
  /\ pc[t] = "urcs"
  /\ dequeueMutex = NoThread
  /\ dequeueMutex' = t
  /\ Goto(t, "urcsLook")
  /\ UNCHANGED <<cmdMutex, client, urcs, rx, module, stack, bg, handled,
                 counters>>

\* The oldest URC goes to the callback ...
UrcTake(t) ==
  /\ pc[t] = "urcsLook"
  /\ Fifo!Take
  /\ handled' = Append(handled, Head(queue).urc)
  /\ Goto(t, "callback")
  /\ UNCHANGED <<cmdMutex, client, dequeueMutex, rx, module, stack, bg,
                 counters>>

\* ... or there is none to be taken, and dequeueMutex is released after
\* queueMutex.
UrcsNone(t) ==
  /\ pc[t] = "urcsLook"
  /\ queue = <<>> \/ pending # NoUrc
  /\ Goto(t, "urcsUnlock")
  /\ UNCHANGED <<cmdMutex, client, urcs, dequeueMutex, rx, module, stack, bg,
                 handled, counters>>

UrcsUnlockAgain(t) ==
  /\ pc[t] = "urcsUnlock"
  /\ dequeueMutex' = NoThread
  /\ Goto(t, "urcs")
  /\ UNCHANGED <<cmdMutex, client, urcs, rx, module, stack, bg, handled,
                 counters>>

UrcsUnlock(t) ==
  /\ pc[t] = "urcsUnlock"
  /\ dequeueMutex' = NoThread
  /\ Goto(t, AfterUrcs(t))
  /\ UNCHANGED <<cmdMutex, client, urcs, rx, module, stack, bg, handled,
                 counters>>

UrcFinishKeeping(t) ==
  /\ InCallback(t)
  /\ reader' = <<>>
  /\ Goto(t, "urcRelease")
  /\ UNCHANGED <<cmdMutex, client, queue, pending, dequeueMutex, rx, module, stack,
                 bg, handled, counters>>

\* The callback returns and the URC is removed.
UrcFinish(t) ==
  /\ InCallback(t)
  /\ Fifo!Finish
  /\ Goto(t, "urcRelease")
  /\ UNCHANGED <<cmdMutex, client, dequeueMutex, rx, module, stack, bg, handled,
                 counters>>

UrcRelease(t) ==
  /\ pc[t] = "urcRelease"
  /\ dequeueMutex' = NoThread
  /\ Goto(t, "urcs")
  /\ UNCHANGED <<cmdMutex, client, urcs, rx, module, stack, bg, handled,
                 counters>>

ProcessUrcs(t) == \/ UrcsBusy(t)
                  \/ UrcsTryLock(t)
                  \/ UrcTake(t)
                  \/ UrcsNone(t)
                  \/ UrcsUnlock(t)
                  \/ UrcFinish(t)
                  \/ UrcRelease(t)

-----------------------------------------------------------------------------
(* Opening and closing                                                      *)

\* resetReceiveState(): a URC that is half received is aborted; the URCs in
\* the queue stay.
ResetReceiveStateKeepingPending ==
  /\ UNCHANGED urcs
  /\ pExpectedRsp' = NoPrefix
  /\ pRspParams' = 0
  /\ isBinaryRx' = FALSE

ResetReceiveState ==
  /\ IF pending # NoUrc THEN Fifo!Abort ELSE UNCHANGED urcs
  /\ pExpectedRsp' = NoPrefix
  /\ pRspParams' = 0
  /\ isBinaryRx' = FALSE

\* uCxAtClientClose() on an open client: the background task is told to stop
\* (uPortBgRxTaskDestroy()) ...
Close(t) ==
  /\ t \in App
  /\ pc[t] = "idle"
  /\ nCloses < MaxCloses
  /\ opened
  /\ nCloses' = nCloses + 1
  /\ bgTask' = "stopping"
  /\ signalled' = FALSE
  /\ Goto(t, "join")
  /\ UNCHANGED <<cmdMutex, client, urcs, dequeueMutex, rx, module, stack, port, handled,
                 nCmds, nTimeouts, nIoErrors>>

\* ... and waited for, on POSIX and FreeRTOS however long it takes, on Windows
\* for 5 s and on Zephyr not at all ...
IsJoined == port \in {"posix", "freertos"} => \A w \in Worker : pc[w] = "idle"

Join(t) ==
  /\ pc[t] = "join"
  /\ IsJoined
  /\ bgTask' = "none"
  /\ Goto(t, "closeLock")
  /\ UNCHANGED <<cmdMutex, client, urcs, dequeueMutex, rx, module, stack, port,
                 signalled, handled, counters>>

CloseUartInCommand(t) ==
  /\ pc[t] = "closeLock"
  /\ opened' = FALSE
  /\ ResetReceiveState
  /\ rx' = <<>>
  /\ Goto(t, "idle")
  /\ UNCHANGED <<cmdMutex, executingCmd, status, dequeueMutex, module, stack,
                 bg, handled, counters>>

\* ... and the UART is closed, between two commands.
CloseUart(t) ==
  /\ pc[t] = "closeLock"
  /\ cmdMutex = NoThread
  /\ opened' = FALSE
  /\ ResetReceiveState
  /\ rx' = <<>>
  /\ Goto(t, "idle")
  /\ UNCHANGED <<cmdMutex, executingCmd, status, dequeueMutex, module, stack,
                 bg, handled, counters>>

\* uCxAtClientOpen() on a closed client, when the UART can be opened
Open(t) ==
  /\ t \in App
  /\ pc[t] = "idle"
  /\ cmdMutex = NoThread
  /\ ~opened
  /\ opened' = TRUE
  /\ ResetReceiveState
  /\ Goto(t, "taskCreate")
  /\ UNCHANGED <<cmdMutex, executingCmd, status, dequeueMutex, rx, module, stack,
                 bg, handled, counters>>

\* uPortBgRxTaskCreate(): a worker that waits for a signal gets the first here.
TaskCreate(t) ==
  /\ pc[t] = "taskCreate"
  /\ bgTask' = "running"
  /\ signalled' = (port \in {"freertos", "zephyr"})
  /\ Goto(t, "idle")
  /\ UNCHANGED <<cmdMutex, client, urcs, dequeueMutex, rx, module, stack, port, handled,
                 counters>>

Lifecycle(t) == Close(t) \/ Join(t) \/ CloseUart(t) \/ Open(t) \/ TaskCreate(t)

-----------------------------------------------------------------------------

Step(t) == HandleRxData(t) \/ Command(t) \/ HandleRx(t) \/ ProcessUrcs(t)
           \/ Lifecycle(t)

\* Nobody has anything to do: what TLC should not take for a deadlock.
Rest ==
  /\ \A t \in Thread : pc[t] = "idle"
  /\ UNCHANGED vars

Next == Module \/ Rest \/ \E t \in Thread : Step(t)

Spec == Init /\ [][Next]_vars

\* What runs does not stop in the middle, a mutex that is free infinitely
\* often is taken in the end, and the module sends what it has to send.
Busy(t) == HandleRxData(t) \/ HandleRx(t) \/ ProcessUrcs(t) \/ GetRspParamLine(t)
           \/ GetRspCheck(t) \/ GetRspTimeout(t) \/ CmdEndLoop(t)
           \/ CmdEndTimeout(t) \/ CmdEndUnlock(t) \/ CmdReturn(t) \/ Join(t)
           \/ TaskCreate(t)
TakesCmdMutex(t) == (\E kind \in Kind : CmdBegin(t, kind)) \/ RxLock(t) \/ CloseUart(t)

ModuleAnswers == \/ ModuleRespond
                 \/ \E answer \in {"OK", "ERROR"} : ModuleFinish(answer)
                 \/ ModulePayload

Fairness == /\ \A t \in Thread : WF_vars(Busy(t)) /\ SF_vars(TakesCmdMutex(t))
            /\ WF_vars(ModuleAnswers)

FairSpec == Spec /\ Fairness

-----------------------------------------------------------------------------
(* Properties                                                              *)

\* A command ends with the answer the module gave to this command, whoever
\* else executes commands, in a callback or not, and although the worker
\* reads from the same UART: until something times out or a read fails.
AnswerIsOwn ==
  nTimeouts = 0 /\ nIoErrors = 0 /\ executingCmd /\ status.val \in {"OK", "ERROR"} =>
    status.cmd = Current(cmdMutex)

\* So does the response line that a query gets.
ResponseIsOwn ==
  nTimeouts = 0 /\ nIoErrors = 0 /\ executingCmd /\ pRspParams # 0 => pRspParams = Current(cmdMutex)

\* The URC that a callback was given stays the first of the queue until the
\* callback returned, also while it executes commands, which process URCs
\* when they end.
CallbackKeepsUrc ==
  \A t \in Thread :
    dequeueMutex = t /\ pc[t] \notin {"urcsLook", "urcsUnlock", "urcRelease"} =>
      queue # <<>> /\ reader = <<Head(queue)>>

\* URCs reach the callback in the order in which the module sent them, each at
\* most once, whichever threads received and processed them.
HandledInOrder ==
  \A i, j \in 1 .. Len(handled) :
    i < j /\ handled[i].kind # "rsp" /\ handled[j].kind # "rsp" =>
      handled[i].id < handled[j].id

\* The assertions of uCxAtUrcQueueEnqueueBegin() and ...End(): an entry is open
\* exactly while its payload is received, and it is the payload of this URC
\* that the UART delivers next.
PayloadOfPending ==
  pending # NoUrc =>
    /\ isBinaryRx
    /\ pending.kind = "bin"
    /\ opened => IF rx = <<>> THEN sending = pending.id
                              ELSE Head(rx) = BinEnd(pending.id)

\* Every thread of the application gets back from what it called.
CallsReturn == \A t \in App : pc[t] # "idle" ~> pc[t] = "idle"

\* What the UART received does not stay there while the client is open.
RxIsRead == rx # <<>> ~> rx = <<>>

\* It does not for a worker that looks for data itself.
RxIsReadWithoutSignals ==
  port \in {"polling", "posix", "windows"} /\ rx # <<>> ~> rx = <<>>

\* A URC that was received is handled.
UrcsAreHandled == queue # <<>> ~> queue = <<>>

\* It is when the application polls.
UrcsAreHandledByPolling == port = "polling" /\ queue # <<>> ~> queue = <<>>

\* The documentation of uCxAtClientExecSimpleCmd(): the return value tells the
\* status that the module answered to this command.
ReturnsOwnStatus ==
  [][\A t \in Thread : CmdReturn(t) => status.cmd = Current(t)]_vars
=============================================================================
