--------------------------- MODULE AtClientProofs ---------------------------
(***************************************************************************)
(* The AT client is correct for any number of threads, commands, URCs and  *)
(* failures, on every port: who holds which mutex, what is in the queue    *)
(* and what is on its way between the module and the thread that waits.    *)
(***************************************************************************)
EXTENDS AtClient, TLAPS

USE ThreadAssumption, BoundAssumption

-----------------------------------------------------------------------------
(* Who holds the mutexes                                                    *)

InCommand == {"query", "begun", "getRsp", "getRspCheck", "cmdEnd", "cmdEndCheck"}
HoldsCmd == InCommand \union {"rx", "rxDone"}
Processing == {"urcsLook", "callback", "urcsUnlock", "urcRelease"}
Where == HoldsCmd \union Processing \union
         {"idle", "cmdLock", "rxLock", "urcs", "cmdReturn", "join", "closeLock",
          "taskCreate"}

ControlTypes ==
  /\ cmdMutex \in Thread \union {NoThread}
  /\ dequeueMutex \in Thread \union {NoThread}
  /\ executingCmd \in BOOLEAN
  /\ pc \in [Thread -> Where]
  /\ stack \in [Thread -> Seq(Nat)]
  /\ nCmds \in Nat

\* cmdMutex is held from cmdBeginF() to the end of cmdEnd(), and by the worker
\* while it reads; executingCmd is set in the first case only.
CmdLock ==
  /\ \A t \in Thread : pc[t] \in HoldsCmd <=> cmdMutex = t
  /\ executingCmd <=> \E t \in Thread : pc[t] \in InCommand

\* A thread in a command knows which.
InsideCommand ==
  \A t \in Thread : pc[t] \in InCommand \union {"cmdLock", "cmdReturn"} => stack[t] # <<>>

\* dequeueMutex is held while URCs are processed, in the commands of a callback too.
DequeueLock ==
  \A t \in Thread :
    /\ pc[t] \in Processing => dequeueMutex = t
    /\ dequeueMutex = t =>
         /\ pc[t] \in Processing \union InCommand \union {"cmdLock", "urcs", "cmdReturn"}
         /\ pc[t] = "urcs" => stack[t] # <<>>

Control == ControlTypes /\ CmdLock /\ InsideCommand /\ DequeueLock

LEMMA InitControl == Init => Control
<1> SUFFICES ASSUME Init PROVE Control
  OBVIOUS
<1>1. /\ cmdMutex = NoThread /\ dequeueMutex = NoThread /\ executingCmd = FALSE
      /\ pc = [t \in Thread |-> "idle"] /\ stack = [t \in Thread |-> <<>>]
      /\ nCmds = 0
  BY DEF Init
<1>2. ControlTypes
  <2>1. /\ cmdMutex \in Thread \union {NoThread} /\ dequeueMutex \in Thread \union {NoThread}
        /\ executingCmd \in BOOLEAN /\ nCmds \in Nat
    BY <1>1
  <2>2. pc \in [Thread -> Where]
    BY <1>1 DEF Where
  <2>3. stack \in [Thread -> Seq(Nat)]
    BY <1>1
  <2> QED
    BY <2>1, <2>2, <2>3 DEF ControlTypes
<1>3. \A t \in Thread : pc[t] = "idle"
  BY <1>1
<1>4. CmdLock /\ InsideCommand /\ DequeueLock
  BY <1>1, <1>3 DEF CmdLock, InsideCommand, DequeueLock, InCommand, HoldsCmd, Processing
<1> QED
  BY <1>2, <1>4 DEF Control

\* A thread that moves between two points without taking or releasing a lock.
Moves(t, w) == Goto(t, w) /\ UNCHANGED <<cmdMutex, executingCmd, dequeueMutex, stack, nCmds>>

control == <<cmdMutex, executingCmd, dequeueMutex, stack, nCmds, pc>>

LEMMA MoveControl ==
  ASSUME Control, NEW t \in Thread, NEW w \in Where, Moves(t, w),
         \/ pc[t] \in InCommand /\ w \in InCommand
         \/ pc[t] = "rx" /\ w = "rxDone"
         \/ pc[t] = "urcsLook" /\ w \in {"callback", "urcsUnlock"}
         \/ pc[t] = "callback" /\ w = "urcRelease"
         \/ pc[t] = "urcs" /\ w = AfterUrcs(t)
         \/ pc[t] = "idle" /\ w \in {"rxLock", "join", "taskCreate"}
         \/ pc[t] \in {"join", "closeLock", "taskCreate"} /\ w \in {"idle", "closeLock"}
  PROVE  Control'
<1>1. ControlTypes'
  BY DEF Control, ControlTypes, Moves, Goto
<1>2. pc' = [pc EXCEPT ![t] = w] /\ pc \in [Thread -> Where]
  BY DEF Moves, Goto, Control, ControlTypes
<1>3. \A s \in Thread : s # t => pc'[s] = pc[s]
  BY <1>2
<1>4. pc'[t] = w
  BY <1>2
<1>5. UNCHANGED <<cmdMutex, executingCmd, dequeueMutex, stack, nCmds>>
  BY DEF Moves
<1> USE DEF InCommand, HoldsCmd, Processing, Where
<1>6. CmdLock'
  BY <1>3, <1>4, <1>5 DEF Control, CmdLock, AfterUrcs
<1>7. InsideCommand'
  BY <1>3, <1>4, <1>5 DEF Control, InsideCommand, AfterUrcs
<1>8. DequeueLock'
  BY <1>3, <1>4, <1>5 DEF Control, DequeueLock, AfterUrcs
<1> QED
  BY <1>1, <1>6, <1>7, <1>8 DEF Control

\* The steps that take or release a lock, or enter or leave a command
LEMMA CallControl ==
  ASSUME Control, NEW t \in Thread, Call(t)
  PROVE  Control'
<1> USE DEF InCommand, HoldsCmd, Processing, Where
<1>1. /\ pc' = [pc EXCEPT ![t] = "cmdLock"]
      /\ stack' = [stack EXCEPT ![t] = <<nCmds + 1>> \o stack[t]]
      /\ pc[t] \in {"idle", "callback"} /\ nCmds' = nCmds + 1
      /\ UNCHANGED <<cmdMutex, executingCmd, dequeueMutex>>
  BY DEF Call, Goto, InCallback, client
<1>2. stack[t] \in Seq(Nat) /\ nCmds \in Nat
  BY DEF Control, ControlTypes
<1>3. <<nCmds + 1>> \o stack[t] \in Seq(Nat) /\ <<nCmds + 1>> \o stack[t] # <<>>
  BY <1>2
<1> DEFINE new == <<nCmds + 1>> \o stack[t]
<1> HIDE DEF new
<1>4. ControlTypes'
  BY <1>1, <1>2, <1>3 DEF Control, ControlTypes, new
<1>5. /\ pc'[t] = "cmdLock" /\ stack'[t] # <<>>
      /\ \A s \in Thread : s # t => pc'[s] = pc[s] /\ stack'[s] = stack[s]
  BY <1>1, <1>3 DEF Control, ControlTypes, new
<1>6. CmdLock' /\ InsideCommand' /\ DequeueLock'
  BY <1>1, <1>5 DEF Control, CmdLock, InsideCommand, DequeueLock
<1> QED
  BY <1>4, <1>6 DEF Control

LEMMA CmdReturnControl ==
  ASSUME Control, NEW t \in Thread, CmdReturn(t)
  PROVE  Control'
<1> USE DEF InCommand, HoldsCmd, Processing, Where
<1> DEFINE w == IF dequeueMutex = t THEN "callback" ELSE "idle"
<1>1. /\ pc' = [pc EXCEPT ![t] = w]
      /\ stack' = [stack EXCEPT ![t] = Tail(stack[t])]
      /\ pc[t] = "cmdReturn"
      /\ UNCHANGED <<cmdMutex, executingCmd, dequeueMutex, nCmds>>
  BY DEF CmdReturn, Goto, client, counters
<1>2. stack[t] \in Seq(Nat) /\ stack[t] # <<>>
  BY <1>1 DEF Control, ControlTypes, InsideCommand
<1>3. Tail(stack[t]) \in Seq(Nat)
  BY <1>2
<1>4. ControlTypes'
  BY <1>1, <1>3 DEF Control, ControlTypes
<1>5. /\ pc'[t] = w
      /\ \A s \in Thread : s # t => pc'[s] = pc[s] /\ stack'[s] = stack[s]
  BY <1>1 DEF Control, ControlTypes
<1>6. CmdLock' /\ InsideCommand' /\ DequeueLock'
  BY <1>1, <1>5 DEF Control, CmdLock, InsideCommand, DequeueLock
<1> QED
  BY <1>4, <1>6 DEF Control

\* The steps that only take or release a mutex
Locks(t, w, cmd, exec, deq) ==
  /\ pc' = [pc EXCEPT ![t] = w]
  /\ cmdMutex' = cmd
  /\ executingCmd' = exec
  /\ dequeueMutex' = deq
  /\ UNCHANGED <<stack, nCmds>>

LEMMA CmdMutexControl ==
  ASSUME Control, NEW t \in Thread,
         \/ (\E kind \in Kind : CmdBegin(t, kind)) \/ CmdEndUnlock(t)
         \/ RxLock(t) \/ RxUnlock(t)
  PROVE  Control'
<1> USE DEF InCommand, HoldsCmd, Processing, Where
<1>1. PICK w \in Where :
        \/ /\ pc[t] = "cmdLock" /\ w \in {"query", "begun"} /\ cmdMutex = NoThread
           /\ Locks(t, w, t, TRUE, dequeueMutex)
        \/ /\ pc[t] \in {"begun", "cmdEndCheck"} /\ w = "urcs"
           /\ Locks(t, w, NoThread, FALSE, dequeueMutex)
        \/ /\ pc[t] = "rxLock" /\ cmdMutex = NoThread
           /\ w \in {"rx", "rxDone"}
           /\ Locks(t, w, t, executingCmd, dequeueMutex)
        \/ /\ pc[t] = "rxDone" /\ w \in {"idle", "urcs"}
           /\ Locks(t, w, NoThread, executingCmd, dequeueMutex)
  BY DEF CmdBegin, CmdEndUnlock, RxLock, RxUnlock, Goto, Begin, Locks, client, counters
<1>2. pc \in [Thread -> Where]
  BY DEF Control, ControlTypes
<1>3. /\ pc'[t] = w
      /\ \A s \in Thread : s # t => pc'[s] = pc[s]
      /\ UNCHANGED <<stack, nCmds, dequeueMutex>>
  BY <1>1, <1>2 DEF Locks
<1>4. ControlTypes'
  BY <1>1 DEF Control, ControlTypes, Locks
<1>5. CmdLock'
  BY <1>1, <1>3 DEF Control, CmdLock, Locks
<1>6. InsideCommand'
  BY <1>1, <1>3 DEF Control, InsideCommand
<1>7. DequeueLock'
  BY <1>1, <1>3 DEF Control, DequeueLock, InsideCommand
<1> QED
  BY <1>4, <1>5, <1>6, <1>7 DEF Control

LEMMA DequeueMutexControl ==
  ASSUME Control, NEW t \in Thread,
         UrcsTryLock(t) \/ UrcsUnlock(t) \/ UrcRelease(t)
  PROVE  Control'
<1> USE DEF InCommand, HoldsCmd, Processing, Where
<1>1. PICK w \in Where :
        \/ /\ pc[t] = "urcs" /\ dequeueMutex = NoThread /\ w = "urcsLook"
           /\ Locks(t, w, cmdMutex, executingCmd, t)
        \/ /\ pc[t] = "urcsUnlock" /\ w = AfterUrcs(t)
           /\ Locks(t, w, cmdMutex, executingCmd, NoThread)
        \/ /\ pc[t] = "urcRelease" /\ w = "urcs"
           /\ Locks(t, w, cmdMutex, executingCmd, NoThread)
  BY DEF UrcsTryLock, UrcsUnlock, UrcRelease, Goto, Locks, client, counters, AfterUrcs
<1>2. pc \in [Thread -> Where]
  BY DEF Control, ControlTypes
<1>3. /\ pc'[t] = w
      /\ \A s \in Thread : s # t => pc'[s] = pc[s]
      /\ UNCHANGED <<stack, nCmds, cmdMutex, executingCmd>>
  BY <1>1, <1>2 DEF Locks
<1>4. ControlTypes'
  BY <1>1 DEF Control, ControlTypes, Locks
<1>5. CmdLock'
  BY <1>1, <1>3 DEF Control, CmdLock, AfterUrcs
<1>6. InsideCommand'
  BY <1>1, <1>3 DEF Control, InsideCommand, AfterUrcs
<1>7. DequeueLock'
  <2>1. CASE UrcsTryLock(t)
    <3>1. dequeueMutex = NoThread /\ dequeueMutex' = t /\ pc'[t] = "urcsLook"
      BY <2>1, <1>2 DEF UrcsTryLock, Goto
    <3> QED
      BY <1>3, <3>1 DEF Control, DequeueLock
  <2>2. CASE UrcsUnlock(t) \/ UrcRelease(t)
    <3>1. pc[t] \in Processing /\ dequeueMutex' = NoThread /\ w \notin Processing
      BY <1>3, <2>2, <1>2 DEF UrcsUnlock, UrcRelease, AfterUrcs, Goto
    <3>2. dequeueMutex = t
      BY <3>1 DEF Control, DequeueLock
    <3> QED
      BY <1>3, <3>1, <3>2 DEF Control, DequeueLock
  <2> QED
    BY <2>1, <2>2
<1> QED
  BY <1>4, <1>5, <1>6, <1>7 DEF Control

LEMMA StutterControl ==
  ASSUME Control, UNCHANGED control
  PROVE  Control'
BY DEF control, Control, ControlTypes, CmdLock, InsideCommand, DequeueLock

LEMMA HandleRxDataControl ==
  ASSUME Control, NEW t \in Thread, HandleRxData(t)
  PROVE  Control'
<1> DEFINE back == CASE pc[t] = "getRsp" -> "getRspCheck"
                     [] pc[t] = "cmdEnd" -> "cmdEndCheck"
                     [] pc[t] = "rx" -> "rxDone"
<1> USE DEF client, counters
<1>1. pc[t] \in {"getRsp", "cmdEnd", "rx"}
  BY DEF HandleRxData, ParseStatus, ParseResponse, ParseUrc, ParseBinaryUrc,
         ReceivePayload, ParseUnexpected, ReadError, NextIs, Reading
<1>2. UNCHANGED control \/ Moves(t, back) \/ (Moves(t, "begun") /\ pc[t] = "getRsp")
  <2>1. CASE ParseStatus(t)
    BY <2>1 DEF ParseStatus, Moves, control, Returns, Goto
  <2>2. CASE ParseResponse(t)
    BY <2>2 DEF ParseResponse, Moves, Returns
  <2>3. CASE ParseUrc(t) \/ ParseBinaryUrc(t) \/ ParseUnexpected(t)
    BY <2>3 DEF ParseUrc, ParseBinaryUrc, ParseUnexpected, control
  <2>4. CASE ReceivePayload(t)
    BY <2>4 DEF ReceivePayload, Moves, Returns
  <2>5. CASE ReadError(t)
    BY <2>5 DEF ReadError, Moves, Returns
  <2> QED
    BY <2>1, <2>2, <2>3, <2>4, <2>5 DEF HandleRxData
<1>3. back \in Where /\ (pc[t] \in InCommand => back \in InCommand) /\ "begun" \in Where
  BY <1>1 DEF Where, HoldsCmd, InCommand, Processing
<1>4. /\ pc[t] \in InCommand \/ (pc[t] = "rx" /\ back = "rxDone")
      /\ "begun" \in InCommand /\ "getRsp" \in InCommand
  BY <1>1 DEF InCommand
<1>5. CASE UNCHANGED control
  BY <1>5, StutterControl
<1>6. CASE Moves(t, back)
  <2> HIDE DEF back
  <2> QED
    BY <1>3, <1>4, <1>6, MoveControl
<1>7. CASE Moves(t, "begun") /\ pc[t] = "getRsp"
  BY <1>3, <1>4, <1>7, MoveControl
<1> QED
  BY <1>2, <1>5, <1>6, <1>7

LEMMA CommandControl ==
  ASSUME Control, NEW t \in Thread, Command(t)
  PROVE  Control'
<1>1. CASE \/ GetRspParamLine(t) \/ GetRspCheck(t) \/ GetRspTimeout(t)
           \/ CmdEndLoop(t) \/ CmdEndTimeout(t)
  <2>1. PICK w \in InCommand : pc[t] \in InCommand /\ Moves(t, w)
    BY <1>1 DEF GetRspParamLine, GetRspCheck, GetRspTimeout, CmdEndLoop, CmdEndTimeout,
                InCommand, Moves, client, counters
  <2> QED
    BY <2>1, MoveControl DEF Where, HoldsCmd
<1> QED
  BY <1>1, CallControl, CmdReturnControl, CmdMutexControl DEF Command

LEMMA HandleRxControl ==
  ASSUME Control, NEW t \in Thread, HandleRx(t)
  PROVE  Control'
<1>1. CASE Wake(t)
  <2>1. pc[t] = "idle" /\ Moves(t, "rxLock") /\ "rxLock" \in Where
    BY <1>1 DEF Wake, Moves, client, counters, Where
  <2> QED
    BY <2>1, MoveControl
<1>2. CASE RxNoData(t)
  <2>1. pc[t] = "rx" /\ Moves(t, "rxDone") /\ "rxDone" \in Where
    BY <1>2 DEF RxNoData, Moves, client, counters, Where, HoldsCmd
  <2> QED
    BY <2>1, MoveControl
<1> QED
  BY <1>1, <1>2, CmdMutexControl DEF HandleRx

LEMMA ProcessUrcsControl ==
  ASSUME Control, NEW t \in Thread, ProcessUrcs(t)
  PROVE  Control'
<1> USE DEF client, counters
<1>1. CASE UrcsBusy(t)
  <2>1. pc[t] = "urcs" /\ Moves(t, AfterUrcs(t)) /\ AfterUrcs(t) \in Where
    BY <1>1 DEF UrcsBusy, Moves, AfterUrcs, Where
  <2> QED
    BY <2>1, MoveControl
<1>2. CASE UrcTake(t) \/ UrcsNone(t)
  <2>1. PICK w \in {"callback", "urcsUnlock"} : pc[t] = "urcsLook" /\ Moves(t, w)
    BY <1>2 DEF UrcTake, UrcsNone, Moves
  <2> QED
    BY <2>1, MoveControl DEF Where, Processing
<1>3. CASE UrcFinish(t)
  <2>1. pc[t] = "callback" /\ Moves(t, "urcRelease") /\ "urcRelease" \in Where
    BY <1>3 DEF UrcFinish, InCallback, Moves, Where, Processing
  <2> QED
    BY <2>1, MoveControl
<1> QED
  BY <1>1, <1>2, <1>3, DequeueMutexControl DEF ProcessUrcs

LEMMA LifecycleControl ==
  ASSUME Control, NEW t \in Thread, Lifecycle(t)
  PROVE  Control'
<1>1. PICK w \in {"join", "closeLock", "idle", "taskCreate"} :
        /\ Moves(t, w)
        /\ \/ pc[t] = "idle" /\ w \in {"join", "taskCreate"}
           \/ pc[t] \in {"join", "closeLock", "taskCreate"} /\ w \in {"idle", "closeLock"}
  BY DEF Lifecycle, Close, Join, CloseUart, Open, TaskCreate, Moves, client, counters
<1>2. w \in Where
  BY DEF Where
<1> QED
  BY <1>1, <1>2, MoveControl

LEMMA NextControl ==
  ASSUME Control, [Next]_vars
  PROVE  Control'
<1>1. CASE Module \/ Rest \/ UNCHANGED vars
  BY <1>1, StutterControl
     DEF Module, ModuleRespond, ModuleFinish, ModuleUrc, ModulePayload, Rest, vars,
         control, client, counters
<1>2. ASSUME NEW t \in Thread, Step(t)
      PROVE  Control'
  BY <1>2, HandleRxDataControl, CommandControl, HandleRxControl, ProcessUrcsControl,
     LifecycleControl DEF Step
<1> QED
  BY <1>1, <1>2 DEF Next

\* Mutual exclusion: the mutexes are held by who the code thinks holds them.
THEOREM LocksAreHeld == Spec => []Control
<1>1. Init => Control
  BY InitControl
<1>2. Control /\ [Next]_vars => Control'
  BY NextControl
<1> QED
  BY <1>1, <1>2, PTL DEF Spec

-----------------------------------------------------------------------------
(* The URC in the callback                                                  *)

\* What goes over the UART and through the queue, and its types
Line == [kind : {"OK", "ERROR", "rsp", "urc", "bin", "binEnd", "none"}, id : Nat]

Queued == [urc : Line, payloadSize : {0, 1}]
Asked == [kind : Kind, id : Nat]

FlowTypes ==
  /\ queue \in Seq(Queued)
  /\ pending \in Line
  /\ handled \in Seq(Line)
  /\ rx \in Seq(Line)
  /\ todo \in Seq(Asked)
  /\ nUrcs \in Nat
  /\ sending \in Nat
  /\ isBinaryRx \in BOOLEAN
  /\ opened \in BOOLEAN

flow == <<urcs, handled, rx, nUrcs, sending, isBinaryRx, opened>>

\* The steps of a thread that move a line on
FlowStep(t) == \/ ParseStatus(t)
               \/ ParseResponse(t)
               \/ ParseUrc(t)
               \/ ParseBinaryUrc(t)
               \/ ReceivePayload(t)
               \/ ParseUnexpected(t)
               \/ UrcTake(t)
               \/ UrcFinish(t)
               \/ CloseUart(t)
               \/ Open(t)

\* No other step does.
LEMMA NextFlow ==
  ASSUME [Next]_vars
  PROVE  \/ Module /\ UNCHANGED <<urcs, handled, isBinaryRx, opened>>
         \/ \E t \in Thread : FlowStep(t) /\ UNCHANGED module
         \/ /\ UNCHANGED flow
            /\ \/ UNCHANGED todo
               \/ \E t \in Thread, kind \in Kind : CmdBegin(t, kind)
<1> USE DEF client, counters, urcs, flow, module, bg
<1>1. CASE Module
  BY <1>1 DEF Module, ModuleRespond, ModuleFinish, ModuleUrc, ModulePayload
<1>2. CASE Rest \/ UNCHANGED vars
  BY <1>2 DEF Rest, vars
<1>3. ASSUME NEW t \in Thread, Step(t)
      PROVE  \/ FlowStep(t) /\ UNCHANGED module
             \/ /\ UNCHANGED flow
                /\ UNCHANGED todo \/ \E kind \in Kind : CmdBegin(t, kind)
  <2>1. CASE HandleRxData(t)
    BY <2>1 DEF HandleRxData, ParseStatus, ParseResponse, ParseUrc, ParseBinaryUrc,
                ReceivePayload, ParseUnexpected, ReadError, FlowStep
  <2>2. CASE Command(t)
    BY <2>2 DEF Command, Call, CmdBegin, GetRspParamLine, GetRspCheck, GetRspTimeout,
                CmdEndLoop, CmdEndTimeout, CmdEndUnlock, CmdReturn
  <2>3. CASE HandleRx(t)
    BY <2>3 DEF HandleRx, Wake, RxLock, RxNoData, RxUnlock
  <2>4. CASE ProcessUrcs(t)
    BY <2>4 DEF ProcessUrcs, UrcsBusy, UrcsTryLock, UrcTake, UrcsNone, UrcsUnlock,
                UrcFinish, UrcRelease, FlowStep
  <2>5. CASE Lifecycle(t)
    BY <2>5 DEF Lifecycle, Close, Join, CloseUart, Open, TaskCreate, FlowStep
  <2> QED
    BY <1>3, <2>1, <2>2, <2>3, <2>4, <2>5 DEF Step
<1> QED
  BY <1>1, <1>2, <1>3 DEF Next

\* The reader has the first of the queue while its callback runs, and the
\* commands in it, and nothing otherwise.
BetweenUrcs == {"urcsLook", "urcsUnlock", "urcRelease"}

ReaderHas ==
  /\ dequeueMutex = NoThread => reader = <<>>
  /\ \A t \in Thread : dequeueMutex = t =>
       IF pc[t] \in BetweenUrcs THEN reader = <<>>
       ELSE queue # <<>> /\ reader = <<Head(queue)>>

\* What the head and the rest of what was received are.
LEMMA SeqFacts ==
  ASSUME NEW S, NEW s \in Seq(S)
  PROVE  /\ Len(s) \in Nat
         /\ \A i \in 1 .. Len(s) : s[i] \in S
         /\ \A x \in S : /\ Append(s, x) \in Seq(S)
                         /\ Append(s, x) # <<>>
                         /\ Len(Append(s, x)) = Len(s) + 1
                         /\ \A i \in 1 .. Len(s) : Append(s, x)[i] = s[i]
                         /\ Append(s, x)[Len(s) + 1] = x
         /\ s # <<>> => /\ Len(s) >= 1
                        /\ Head(s) = s[1] /\ Head(s) \in S
                        /\ Tail(s) \in Seq(S)
                        /\ Len(Tail(s)) = Len(s) - 1
                        /\ \A i \in 1 .. Len(s) - 1 : Tail(s)[i] = s[i + 1]
                        /\ \A x \in S : Head(Append(s, x)) = Head(s)
<1>1. Len(s) \in Nat /\ \A i \in 1 .. Len(s) : s[i] \in S
  OBVIOUS
<1>2. ASSUME NEW x \in S
      PROVE  /\ Append(s, x) \in Seq(S)
             /\ Append(s, x) # <<>>
             /\ Len(Append(s, x)) = Len(s) + 1
             /\ \A i \in 1 .. Len(s) : Append(s, x)[i] = s[i]
             /\ Append(s, x)[Len(s) + 1] = x
  OBVIOUS
<1>3. ASSUME s # <<>>
      PROVE  /\ Len(s) >= 1
             /\ Head(s) = s[1] /\ Head(s) \in S
             /\ Tail(s) \in Seq(S)
             /\ Len(Tail(s)) = Len(s) - 1
             /\ \A i \in 1 .. Len(s) - 1 : Tail(s)[i] = s[i + 1]
  BY <1>3
<1>4. ASSUME s # <<>>, NEW x \in S
      PROVE  Head(Append(s, x)) = Head(s)
  BY <1>4
<1> QED
  BY <1>1, <1>2, <1>3, <1>4

LEMMA HeadOfRx ==
  ASSUME FlowTypes, rx # <<>>
  PROVE  /\ Head(rx) \in Line /\ Tail(rx) \in Seq(Line)
         /\ Head(rx) = rx[1] /\ Len(rx) >= 1 /\ Len(rx) \in Nat
         /\ Len(Tail(rx)) = Len(rx) - 1
         /\ \A i \in 1 .. Len(rx) - 1 : Tail(rx)[i] = rx[i + 1]
BY DEF FlowTypes

LEMMA InitFlowTypes == Init => FlowTypes
<1> SUFFICES ASSUME Init PROVE FlowTypes
  OBVIOUS
<1>1. NoUrc \in Line
  BY DEF NoUrc, Line
<1>2. /\ queue = <<>> /\ pending = NoUrc /\ handled = <<>> /\ rx = <<>> /\ todo = <<>>
      /\ nUrcs = 0 /\ sending = 0 /\ isBinaryRx = FALSE /\ opened = TRUE
  BY DEF Init, Fifo!Init
<1>3. ASSUME NEW S
      PROVE  <<>> \in Seq(S)
  OBVIOUS
<1> QED
  BY <1>1, <1>2, <1>3 DEF FlowTypes

LEMMA ModuleFlowTypes ==
  ASSUME FlowTypes, Module
  PROVE  FlowTypes'
<1>1. UNCHANGED <<queue, pending, handled, isBinaryRx, opened>>
  BY DEF Module, ModuleRespond, ModuleFinish, ModuleUrc, ModulePayload, urcs, client
<1>2. ASSUME NEW item \in Line, Receive(item)
      PROVE  rx' \in Seq(Line)
  BY <1>2 DEF Receive, FlowTypes
<1>3. CASE ModuleRespond
  <2> DEFINE item == [kind |-> "rsp", id |-> Head(todo).id]
  <2>1. todo \in Seq(Asked) /\ todo # <<>>
    BY <1>3 DEF ModuleRespond, FlowTypes
  <2>2. todo' = [todo EXCEPT ![1].kind = "simple"] /\ Receive(item)
        /\ UNCHANGED <<nUrcs, sending>>
    BY <1>3 DEF ModuleRespond
  <2>3. item \in Line
    <3>1. Head(todo) \in Asked
      BY <2>1, SeqFacts
    <3> QED
      BY <3>1 DEF Asked, Line
  <2>4. todo' \in Seq(Asked)
    <3>1. 1 \in 1 .. Len(todo) /\ todo[1] \in Asked
      BY <2>1, SeqFacts
    <3>2. [todo[1] EXCEPT !.kind = "simple"] \in Asked
      BY <3>1 DEF Asked, Kind
    <3> QED
      BY <2>1, <2>2, <3>1, <3>2
  <2> QED
    BY <1>1, <1>2, <2>2, <2>3, <2>4 DEF FlowTypes
<1>4. ASSUME NEW answer \in {"OK", "ERROR"}, ModuleFinish(answer)
      PROVE  FlowTypes'
  <2> DEFINE item == [kind |-> answer, id |-> Head(todo).id]
  <2>1. todo \in Seq(Asked) /\ todo # <<>>
    BY <1>4 DEF ModuleFinish, FlowTypes
  <2>2. todo' = Tail(todo) /\ Receive(item) /\ UNCHANGED <<nUrcs, sending>>
    BY <1>4 DEF ModuleFinish
  <2>3. item \in Line
    <3>1. Head(todo) \in Asked
      BY <2>1, SeqFacts
    <3> QED
      BY <3>1 DEF Asked, Line
  <2>4. todo' \in Seq(Asked)
    BY <2>1, <2>2
  <2> QED
    BY <1>1, <1>2, <2>2, <2>3, <2>4 DEF FlowTypes
<1>5. ASSUME NEW kind \in {"urc", "bin"}, ModuleUrc(kind)
      PROVE  FlowTypes'
  <2>1. nUrcs \in Nat /\ nUrcs' = nUrcs + 1 /\ UNCHANGED todo
    BY <1>5 DEF ModuleUrc, FlowTypes
  <2>2. Receive([kind |-> kind, id |-> nUrcs + 1])
    BY <1>5 DEF ModuleUrc
  <2>3. sending' = IF kind = "bin" THEN nUrcs + 1 ELSE 0
    BY <1>5 DEF ModuleUrc
  <2>4. [kind |-> kind, id |-> nUrcs + 1] \in Line
    BY <2>1 DEF Line
  <2>5. sending' \in Nat /\ nUrcs' \in Nat
    BY <2>1, <2>3
  <2> QED
    BY <1>1, <1>2, <2>1, <2>2, <2>4, <2>5 DEF FlowTypes
<1>6. CASE ModulePayload
  <2>1. Receive(BinEnd(sending)) /\ sending' = 0 /\ UNCHANGED <<todo, nUrcs>>
    BY <1>6 DEF ModulePayload
  <2>2. BinEnd(sending) \in Line
    BY DEF FlowTypes, BinEnd, Line
  <2> QED
    BY <1>1, <1>2, <2>1, <2>2 DEF FlowTypes
<1> QED
  BY <1>3, <1>4, <1>5, <1>6 DEF Module

LEMMA FlowStepTypes ==
  ASSUME Control, FlowTypes, ReaderHas, NEW t \in Thread, FlowStep(t), UNCHANGED module
  PROVE  FlowTypes'
<1> USE DEF urcs, client, module
<1>1. UNCHANGED <<todo, nUrcs, sending>>
  OBVIOUS
<1>2. NoUrc \in Line
  BY DEF NoUrc, Line
<1>3. CASE ParseStatus(t) \/ ParseResponse(t) \/ ParseUnexpected(t)
  <2>1. rx # <<>> /\ rx' = Tail(rx)
        /\ UNCHANGED <<queue, pending, handled, isBinaryRx, opened>>
    BY <1>3 DEF ParseStatus, ParseResponse, ParseUnexpected, NextIs
  <2> QED
    BY <1>1, <2>1, HeadOfRx DEF FlowTypes
<1>4. CASE ParseUrc(t)
  <2>1. rx # <<>> /\ rx' = Tail(rx) /\ Enqueue(Head(rx))
        /\ UNCHANGED <<pending, handled, isBinaryRx, opened>>
    BY <1>4 DEF ParseUrc, NextIs
  <2>2. queue' \in Seq(Queued)
    <3>1. [urc |-> Head(rx), payloadSize |-> 0] \in Queued
      BY <2>1, HeadOfRx DEF Queued
    <3> QED
      BY <2>1, <3>1, SeqFacts DEF Enqueue, FlowTypes
  <2> QED
    BY <1>1, <2>1, <2>2, HeadOfRx DEF FlowTypes
<1>5. CASE ParseBinaryUrc(t)
  <2>1. /\ rx # <<>> /\ rx' = Tail(rx) /\ isBinaryRx' = TRUE
        /\ UNCHANGED <<handled, opened>>
        /\ Fifo!Begin(Head(rx)) \/ UNCHANGED urcs
    BY <1>5 DEF ParseBinaryUrc, NextIs
  <2>2. pending' \in Line /\ queue' = queue
    BY <2>1, HeadOfRx DEF Fifo!Begin, FlowTypes
  <2>3. rx' \in Seq(Line)
    BY <2>1, HeadOfRx
  <2> QED
    BY <1>1, <2>1, <2>2, <2>3 DEF FlowTypes
<1>6. CASE ReceivePayload(t)
  <2>1. /\ rx # <<>> /\ rx' = Tail(rx) /\ isBinaryRx' = FALSE
        /\ UNCHANGED <<handled, opened>>
        /\ Fifo!Commit(1) \/ UNCHANGED urcs
    BY <1>6 DEF ReceivePayload, NextIs
  <2>2. pending' \in Line /\ queue' \in Seq(Queued)
    <3>1. [urc |-> pending, payloadSize |-> 1] \in Queued
      BY DEF Queued, FlowTypes
    <3>2. CASE Fifo!Commit(1)
      BY <1>2, <3>1, <3>2, SeqFacts DEF Fifo!Commit, FlowTypes
    <3>3. CASE UNCHANGED urcs
      BY <3>3 DEF FlowTypes
    <3> QED
      BY <2>1, <3>2, <3>3
  <2>3. rx' \in Seq(Line)
    BY <2>1, HeadOfRx
  <2> QED
    BY <1>1, <2>1, <2>2, <2>3 DEF FlowTypes
<1>7. CASE UrcTake(t)
  <2>1. queue # <<>> /\ handled' = Append(handled, Head(queue).urc)
        /\ UNCHANGED <<queue, pending, rx, isBinaryRx, opened>>
    BY <1>7 DEF UrcTake, Fifo!Take
  <2>2. handled' \in Seq(Line)
    <3>1. Head(queue) \in Queued
      BY <2>1, SeqFacts DEF FlowTypes
    <3>2. Head(queue).urc \in Line
      BY <3>1 DEF Queued
    <3> QED
      BY <2>1, <3>2, SeqFacts DEF FlowTypes
  <2> QED
    BY <1>1, <2>1, <2>2 DEF FlowTypes
<1>8. CASE UrcFinish(t)
  <2>1. queue' = Tail(queue) /\ UNCHANGED <<pending, rx, handled, isBinaryRx, opened>>
    BY <1>8 DEF UrcFinish, Fifo!Finish
  <2>2. queue' \in Seq(Queued)
    <3>1. pc[t] = "callback" /\ dequeueMutex = t
      BY <1>8 DEF UrcFinish, InCallback, Control, DequeueLock, Processing
    <3>2. queue # <<>>
      BY <3>1 DEF ReaderHas, BetweenUrcs
    <3> QED
      BY <2>1, <3>2, SeqFacts DEF FlowTypes
  <2> QED
    BY <1>1, <2>1, <2>2 DEF FlowTypes
<1>9. CASE CloseUart(t) \/ Open(t)
  <2>1. opened' \in BOOLEAN /\ isBinaryRx' = FALSE /\ rx' \in {rx, <<>>}
        /\ pending' \in {pending, NoUrc} /\ UNCHANGED <<queue, handled>>
    BY <1>9 DEF CloseUart, Open, ResetReceiveState, Fifo!Abort
  <2>2. <<>> \in Seq(Line)
    OBVIOUS
  <2>3. rx' \in Seq(Line) /\ pending' \in Line
    BY <1>2, <2>1, <2>2 DEF FlowTypes
  <2> QED
    BY <1>1, <2>1, <2>3 DEF FlowTypes
<1> QED
  BY <1>3, <1>4, <1>5, <1>6, <1>7, <1>8, <1>9 DEF FlowStep

LEMMA NextFlowTypes ==
  ASSUME Control, FlowTypes, ReaderHas, [Next]_vars
  PROVE  FlowTypes'
<1>1. CASE UNCHANGED flow /\ UNCHANGED todo
  BY <1>1 DEF flow, urcs, FlowTypes
<1>2. ASSUME UNCHANGED flow, NEW t \in Thread, NEW kind \in Kind, CmdBegin(t, kind)
      PROVE  FlowTypes'
  <2>1. todo' \in {todo, Append(todo, [kind |-> kind, id |-> Current(t)])}
    BY <1>2 DEF CmdBegin
  <2>2. Current(t) \in Nat
    BY DEF Current, Control, ControlTypes
  <2>3. [kind |-> kind, id |-> Current(t)] \in Asked
    BY <2>2 DEF Asked
  <2>4. todo' \in Seq(Asked)
    <3>1. todo \in Seq(Asked)
      BY DEF FlowTypes
    <3> QED
      BY <2>1, <2>3, <3>1, SeqFacts
  <2> QED
    BY <1>2, <2>4 DEF flow, urcs, FlowTypes
<1> QED
  BY <1>1, <1>2, NextFlow, ModuleFlowTypes, FlowStepTypes

\* Steps that neither give the reader a URC nor take it away.
LEMMA ReaderStays ==
  ASSUME Control, ReaderHas, NEW t \in Thread, NEW w,
         pc' = [pc EXCEPT ![t] = w], pc[t] \in BetweenUrcs <=> w \in BetweenUrcs,
         UNCHANGED <<dequeueMutex, reader>>,
         queue # <<>> => queue' # <<>> /\ Head(queue') = Head(queue)
  PROVE  ReaderHas'
<1>1. \A s \in Thread : pc'[s] \in BetweenUrcs <=> pc[s] \in BetweenUrcs
  BY DEF Control, ControlTypes
<1> QED
  BY <1>1 DEF ReaderHas

\* A URC that comes in goes to the end of the queue.
LEMMA QueueGrows ==
  ASSUME FlowTypes, NEW t \in Thread, HandleRxData(t)
  PROVE  /\ queue # <<>> => queue' # <<>> /\ Head(queue') = Head(queue)
         /\ UNCHANGED reader
<1> USE DEF urcs
<1>1. queue \in Seq(Queued) /\ pending \in Line
  BY DEF FlowTypes
<1>2. CASE ParseUrc(t)
  <2>1. Head(rx) \in Line /\ Enqueue(Head(rx)) /\ UNCHANGED reader
    BY <1>2, HeadOfRx DEF ParseUrc, NextIs
  <2>2. [urc |-> Head(rx), payloadSize |-> 0] \in Queued
    BY <2>1 DEF Queued
  <2> QED
    BY <1>1, <2>1, <2>2, SeqFacts DEF Enqueue
<1>3. CASE ReceivePayload(t)
  <2>1. [urc |-> pending, payloadSize |-> 1] \in Queued
    BY <1>1 DEF Queued
  <2>2. CASE Fifo!Commit(1)
    BY <1>1, <2>1, <2>2, SeqFacts DEF Fifo!Commit
  <2>3. CASE UNCHANGED urcs
    BY <2>3
  <2> QED
    BY <1>3, <2>2, <2>3 DEF ReceivePayload
<1>4. CASE ParseStatus(t) \/ ParseResponse(t) \/ ParseBinaryUrc(t) \/ ParseUnexpected(t)
           \/ ReadError(t)
  BY <1>4 DEF ParseStatus, ParseResponse, ParseBinaryUrc, ParseUnexpected, ReadError,
              Fifo!Begin
<1> QED
  BY <1>2, <1>3, <1>4 DEF HandleRxData

LEMMA NextReader ==
  ASSUME Control, FlowTypes, ReaderHas, [Next]_vars
  PROVE  ReaderHas'
<1> USE DEF urcs, client, counters
<1>1. CASE Module \/ Rest \/ UNCHANGED vars
  <2>1. UNCHANGED <<dequeueMutex, reader, queue, pc>>
    BY <1>1 DEF Module, ModuleRespond, ModuleFinish, ModuleUrc, ModulePayload, Rest, vars
  <2> QED
    BY <2>1 DEF ReaderHas
<1>2. ASSUME NEW t \in Thread, HandleRxData(t)
      PROVE  ReaderHas'
  <2>1. PICK w : /\ pc' = [pc EXCEPT ![t] = w] /\ w \notin BetweenUrcs
                 /\ UNCHANGED dequeueMutex /\ pc[t] \notin BetweenUrcs
    <3>1. pc[t] \in {"getRsp", "cmdEnd", "rx"} /\ UNCHANGED dequeueMutex
      BY <1>2 DEF HandleRxData, ParseStatus, ParseResponse, ParseUrc, ParseBinaryUrc,
             ReceivePayload, ParseUnexpected, ReadError, NextIs, Reading
    <3>2. Goto(t, "begun") \/ Returns(t) \/ UNCHANGED pc
      BY <1>2 DEF HandleRxData, ParseStatus, ParseResponse, ParseUrc, ParseBinaryUrc,
             ReceivePayload, ParseUnexpected, ReadError
    <3>3. pc \in [Thread -> Where]
      BY DEF Control, ControlTypes
    <3>4. CASE UNCHANGED pc
      <4>1. pc' = [pc EXCEPT ![t] = pc[t]]
        BY <3>3, <3>4
      <4> QED
        BY <3>1, <4>1 DEF BetweenUrcs
    <3> QED
      BY <3>1, <3>2, <3>4 DEF Goto, Returns, BetweenUrcs
  <2> QED
    BY <1>2, <2>1, QueueGrows, ReaderStays
<1>3. ASSUME NEW t \in Thread, Command(t) \/ HandleRx(t) \/ Lifecycle(t)
      PROVE  ReaderHas'
  <2>1. PICK w : /\ pc' = [pc EXCEPT ![t] = w] /\ w \notin BetweenUrcs
                 /\ pc[t] \notin BetweenUrcs
                 /\ UNCHANGED <<dequeueMutex, reader, queue>>
    <3>1. CASE Command(t)
      BY <3>1 DEF Command, Call, CmdBegin, GetRspParamLine, GetRspCheck, GetRspTimeout,
                  CmdEndLoop, CmdEndTimeout, CmdEndUnlock, CmdReturn, Goto, InCallback,
                  BetweenUrcs
    <3>2. CASE HandleRx(t)
      BY <3>2 DEF HandleRx, Wake, RxLock, RxNoData, RxUnlock, Goto, BetweenUrcs
    <3>3. CASE Lifecycle(t)
      BY <3>3 DEF Lifecycle, Close, Join, CloseUart, Open, TaskCreate, Goto, BetweenUrcs,
                  ResetReceiveState, Fifo!Abort
    <3> QED
      BY <1>3, <3>1, <3>2, <3>3
  <2> QED
    BY <2>1, ReaderStays
<1>4. ASSUME NEW t \in Thread, ProcessUrcs(t)
      PROVE  ReaderHas'
  <2>1. /\ pc \in [Thread -> Where] /\ NoThread \notin Thread
        /\ pc[t] \in Processing => dequeueMutex = t
    BY DEF Control, ControlTypes, DequeueLock
  <2>2. CASE UrcsBusy(t) \/ UrcsNone(t)
    <3>1. PICK w : /\ pc' = [pc EXCEPT ![t] = w]
                   /\ pc[t] \in BetweenUrcs <=> w \in BetweenUrcs
                   /\ UNCHANGED <<dequeueMutex, reader, queue>>
      BY <2>2 DEF UrcsBusy, UrcsNone, Goto, AfterUrcs, BetweenUrcs
    <3> QED
      BY <3>1, ReaderStays
  <2>3. CASE UrcsTryLock(t)
    <3>1. /\ dequeueMutex = NoThread /\ dequeueMutex' = t /\ reader' = reader
          /\ pc'[t] = "urcsLook"
      BY <2>1, <2>3 DEF UrcsTryLock, Goto
    <3> QED
      BY <2>1, <3>1 DEF ReaderHas, BetweenUrcs
  <2>4. CASE UrcTake(t)
    <3>1. /\ dequeueMutex = t /\ UNCHANGED <<dequeueMutex, queue>> /\ pc'[t] = "callback"
          /\ queue # <<>> /\ reader' = <<Head(queue)>>
      BY <2>1, <2>4 DEF UrcTake, Goto, Processing, Fifo!Take
    <3> QED
      BY <2>1, <3>1 DEF ReaderHas, BetweenUrcs
  <2>5. CASE UrcFinish(t)
    <3>1. /\ dequeueMutex = t /\ UNCHANGED dequeueMutex /\ pc'[t] = "urcRelease"
          /\ reader' = <<>>
      BY <2>1, <2>5 DEF UrcFinish, InCallback, Goto, Processing, Fifo!Finish
    <3> QED
      BY <2>1, <3>1 DEF ReaderHas, BetweenUrcs
  <2>6. CASE UrcsUnlock(t) \/ UrcRelease(t)
    <3>1. /\ dequeueMutex = t /\ dequeueMutex' = NoThread /\ reader' = reader
          /\ pc[t] \in BetweenUrcs
      BY <2>1, <2>6 DEF UrcsUnlock, UrcRelease, Processing, BetweenUrcs
    <3> QED
      BY <2>1, <3>1 DEF ReaderHas
  <2> QED
    BY <1>4, <2>2, <2>3, <2>4, <2>5, <2>6 DEF ProcessUrcs
<1> QED
  BY <1>1, <1>2, <1>3, <1>4 DEF Next, Step

\* What is proved together from here on
Base == Control /\ FlowTypes /\ ReaderHas

LEMMA BaseInvariant == Spec => []Base
<1>1. Init => Base
  <2>1. Init => ReaderHas
    BY DEF Init, Fifo!Init, ReaderHas
  <2> QED
    BY <2>1, InitControl, InitFlowTypes DEF Base
<1>2. Base /\ [Next]_vars => Base'
  BY NextControl, NextFlowTypes, NextReader DEF Base
<1> QED
  BY <1>1, <1>2, PTL DEF Spec

\* The URC that a callback reads stays the first of the queue, whatever other
\* threads receive and whatever commands the callback executes, until the
\* callback returns; processUrcs() of these commands does not touch it.
THEOREM UrcStaysInCallback == Spec => []CallbackKeepsUrc
<1>1. Base => CallbackKeepsUrc
  BY DEF Base, ReaderHas, BetweenUrcs, CallbackKeepsUrc
<1> QED
  BY <1>1, BaseInvariant, PTL

-----------------------------------------------------------------------------
(* The payload of a URC                                                     *)

\* Behind the line of a URC with a payload comes this payload, or the module is
\* sending it.
PayloadFollows ==
  \A i \in 1 .. Len(rx) : rx[i].kind = "bin" =>
    /\ rx[i].id # 0
    /\ IF i = Len(rx) THEN sending = rx[i].id ELSE rx[i + 1] = BinEnd(rx[i].id)

PayloadIsNext(id) == IF rx = <<>> THEN sending = id ELSE Head(rx) = BinEnd(id)

PendingBinary ==
  pending # NoUrc => /\ isBinaryRx
                     /\ pending.kind = "bin"
                     /\ pending.id # 0
                     /\ PayloadIsNext(pending.id)

ClosedIsEmpty == ~opened => rx = <<>> /\ pending = NoUrc

Payloads == PayloadFollows /\ PendingBinary /\ ClosedIsEmpty

\* The module sends something: while it sends a payload nothing else, so that
\* the payload comes next.
LEMMA ModulePayloads ==
  ASSUME Base, Payloads, Module
  PROVE  Payloads'
<1>1. UNCHANGED <<pending, isBinaryRx, opened>>
  BY DEF Module, ModuleRespond, ModuleFinish, ModuleUrc, ModulePayload, urcs, client
<1>2. PICK item \in Line :
        /\ Receive(item)
        /\ \/ sending = 0 /\ (IF item.kind = "bin" THEN sending' = item.id /\ item.id # 0
                                                  ELSE sending' = 0)
           \/ sending # 0 /\ sending' = 0 /\ item = BinEnd(sending)
  <2>1. FlowTypes
    BY DEF Base
  <2>2. CASE ModuleRespond
    <3>1. Head(todo) \in Asked
      BY <2>1, <2>2, SeqFacts DEF ModuleRespond, FlowTypes
    <3>2. [kind |-> "rsp", id |-> Head(todo).id] \in Line
      BY <3>1 DEF Asked, Line
    <3> QED
      BY <2>2, <3>2 DEF ModuleRespond
  <2>3. ASSUME NEW answer \in {"OK", "ERROR"}, ModuleFinish(answer)
        PROVE  \E item \in Line : Receive(item) /\ sending = 0 /\ sending' = 0
                                  /\ item.kind # "bin"
    <3>1. Head(todo) \in Asked
      BY <2>1, <2>3, SeqFacts DEF ModuleFinish, FlowTypes
    <3>2. [kind |-> answer, id |-> Head(todo).id] \in Line
      BY <3>1 DEF Asked, Line
    <3> QED
      BY <2>3, <3>2 DEF ModuleFinish
  <2>4. ASSUME NEW kind \in {"urc", "bin"}, ModuleUrc(kind)
        PROVE  \E item \in Line : /\ Receive(item) /\ sending = 0
                                  /\ IF item.kind = "bin"
                                     THEN sending' = item.id /\ item.id # 0
                                     ELSE sending' = 0
    <3>1. nUrcs \in Nat
      BY <2>1 DEF FlowTypes
    <3>2. [kind |-> kind, id |-> nUrcs + 1] \in Line
      BY <3>1 DEF Line
    <3>3. nUrcs + 1 # 0
      BY <3>1
    <3> QED
      BY <2>4, <3>2, <3>3 DEF ModuleUrc
  <2>5. CASE ModulePayload
    <3>1. BinEnd(sending) \in Line
      BY <2>1 DEF FlowTypes, BinEnd, Line
    <3> QED
      BY <2>5, <3>1 DEF ModulePayload
  <2> QED
    BY <2>2, <2>3, <2>4, <2>5 DEF Module
<1>3. CASE ~opened
  <2>1. rx' = <<>> /\ pending' = NoUrc /\ ~opened'
    BY <1>1, <1>2, <1>3 DEF Receive, Payloads, ClosedIsEmpty
  <2> QED
    BY <2>1 DEF Payloads, PayloadFollows, PendingBinary, ClosedIsEmpty
<1>4. CASE opened
  <2> DEFINE n == Len(rx)
  <2>1. rx' = Append(rx, item) /\ opened'
    BY <1>1, <1>2, <1>4 DEF Receive
  <2>2. /\ rx \in Seq(Line) /\ n \in Nat /\ Len(rx') = n + 1
        /\ \A i \in 1 .. n : rx'[i] = rx[i]
        /\ rx'[n + 1] = item
        /\ rx' # <<>> /\ rx' \in Seq(Line)
    <3>1. rx \in Seq(Line)
      BY DEF Base, FlowTypes
    <3> QED
      BY <2>1, <3>1, SeqFacts
  <2>3. sending # 0 => item.kind # "bin"
    BY <1>2 DEF BinEnd
  <2>4. PayloadFollows'
    <3>1. ASSUME NEW i \in 1 .. n + 1, rx'[i].kind = "bin"
          PROVE  /\ rx'[i].id # 0
                 /\ IF i = n + 1 THEN sending' = rx'[i].id
                    ELSE rx'[i + 1] = BinEnd(rx'[i].id)
      <4>1. CASE i = n + 1
        BY <1>2, <2>2, <2>3, <3>1, <4>1
      <4>2. CASE i = n
        <5>1. n \in 1 .. n /\ rx'[n] = rx[n]
          BY <2>2, <4>2
        <5>2. rx[n].id # 0 /\ sending = rx[n].id
          BY <3>1, <4>2, <5>1 DEF Payloads, PayloadFollows
        <5> QED
          BY <1>2, <2>2, <4>2, <5>1, <5>2
      <4>3. CASE i # n + 1 /\ i # n
        <5>1. i \in 1 .. n /\ i + 1 \in 1 .. n
          BY <2>2, <4>3
        <5> QED
          BY <2>2, <3>1, <4>3, <5>1 DEF Payloads, PayloadFollows
      <4> QED
        BY <4>1, <4>2, <4>3
    <3> QED
      BY <2>2, <3>1 DEF PayloadFollows
  <2>5. PendingBinary'
    <3> SUFFICES ASSUME pending # NoUrc
                 PROVE  Head(rx') = BinEnd(pending.id)
      BY <1>1, <2>2 DEF Payloads, PendingBinary, PayloadIsNext
    <3>1. pending.id # 0 /\ PayloadIsNext(pending.id)
      BY DEF Payloads, PendingBinary
    <3>2. CASE rx = <<>>
      <4>1. item = BinEnd(pending.id) /\ n = 0
        BY <1>2, <3>1, <3>2 DEF PayloadIsNext
      <4> QED
        BY <2>1, <2>2, <4>1, SeqFacts
    <3>3. CASE rx # <<>>
      BY <2>1, <2>2, <3>1, <3>3, SeqFacts DEF PayloadIsNext
    <3> QED
      BY <3>2, <3>3
  <2> QED
    BY <2>1, <2>4, <2>5 DEF Payloads, ClosedIsEmpty
<1> QED
  BY <1>3, <1>4

\* The rest of what was received is as it was.
LEMMA RestFollows ==
  ASSUME Base, Payloads, rx # <<>>, rx' = Tail(rx), UNCHANGED sending,
         NEW u, u = Head(rx).id
  PROVE  /\ PayloadFollows'
         /\ Head(rx).kind = "bin" => u # 0 /\ PayloadIsNext(u)'
<1>1. rx \in Seq(Line) /\ Len(rx) \in Nat /\ Len(rx) >= 1
  BY HeadOfRx DEF Base, FlowTypes
<1>2. /\ Head(rx) = rx[1] /\ Len(rx') = Len(rx) - 1
      /\ \A i \in 1 .. Len(rx) - 1 : rx'[i] = rx[i + 1]
      /\ rx' \in Seq(Line)
  BY HeadOfRx DEF Base
<1>3. PayloadFollows'
  <2>1. ASSUME NEW i \in 1 .. Len(rx'), rx'[i].kind = "bin"
        PROVE  /\ rx'[i].id # 0
               /\ IF i = Len(rx') THEN sending = rx'[i].id
                  ELSE rx'[i + 1] = BinEnd(rx'[i].id)
    <3>1. /\ i + 1 \in 1 .. Len(rx) /\ rx'[i] = rx[i + 1]
          /\ i = Len(rx') <=> i + 1 = Len(rx)
          /\ i # Len(rx') => rx'[i + 1] = rx[(i + 1) + 1]
      BY <1>1, <1>2
    <3> QED
      BY <2>1, <3>1 DEF Payloads, PayloadFollows
  <2> QED
    BY <2>1 DEF PayloadFollows
<1>4. ASSUME rx[1].kind = "bin"
      PROVE  u # 0 /\ PayloadIsNext(u)'
  <2>1. 1 \in 1 .. Len(rx)
    BY <1>1
  <2>2. u = rx[1].id
    BY <1>2
  <2>3. u # 0 /\ IF 1 = Len(rx) THEN sending = u ELSE rx[1 + 1] = BinEnd(u)
    BY <1>4, <2>1, <2>2 DEF Payloads, PayloadFollows
  <2>4. CASE Len(rx) = 1
    <3>1. rx' = <<>>
      BY <1>1, <1>2, <2>4
    <3> QED
      BY <2>3, <2>4, <3>1 DEF PayloadIsNext
  <2>5. CASE Len(rx) # 1
    <3>1. rx' # <<>>
      <4>1. Len(rx') # 0 /\ Len(<<>>) = 0
        BY <1>1, <1>2, <2>5
      <4> QED
        BY <4>1
    <3>2. Head(rx') = rx'[1]
      BY <1>2, <3>1
    <3>3. rx'[1] = rx[1 + 1]
      BY <1>1, <1>2, <2>5
    <3> QED
      BY <2>3, <2>5, <3>1, <3>2, <3>3 DEF PayloadIsNext
  <2> QED
    BY <2>4, <2>5
<1> QED
  BY <1>2, <1>3, <1>4

\* The threads take lines from what was received, and close and open.
LEMMA FlowStepPayloads ==
  ASSUME Base, Payloads, NEW t \in Thread, FlowStep(t), UNCHANGED module
  PROVE  Payloads'
<1> USE DEF urcs, client, module
<1>1. CASE ParseStatus(t) \/ ParseResponse(t) \/ ParseUnexpected(t) \/ ParseUrc(t)
  <2>1. /\ opened /\ rx # <<>> /\ rx' = Tail(rx) /\ ~isBinaryRx
        /\ UNCHANGED <<pending, isBinaryRx, opened, sending>>
    BY <1>1 DEF ParseStatus, ParseResponse, ParseUnexpected, ParseUrc, NextIs
  <2>2. pending = NoUrc
    BY <2>1 DEF Payloads, PendingBinary
  <2> QED
    BY <2>1, <2>2, RestFollows DEF Payloads, PendingBinary, ClosedIsEmpty
<1>2. CASE ParseBinaryUrc(t)
  <2>1. /\ opened /\ rx # <<>> /\ rx' = Tail(rx) /\ ~isBinaryRx /\ isBinaryRx'
        /\ UNCHANGED <<opened, sending>>
        /\ Head(rx).kind = "bin"
        /\ pending' \in {Head(rx), pending}
    BY <1>2 DEF ParseBinaryUrc, NextIs, Fifo!Begin
  <2>2. pending = NoUrc
    BY <2>1 DEF Payloads, PendingBinary
  <2>3. PICK u : u = Head(rx).id
    OBVIOUS
  <2>4. PayloadFollows' /\ u # 0 /\ PayloadIsNext(u)'
    BY <2>1, <2>3, RestFollows
  <2>5. PendingBinary'
    <3>1. CASE pending' = NoUrc
      BY <3>1 DEF PendingBinary, NoUrc
    <3>2. CASE pending' = Head(rx)
      BY <2>1, <2>3, <2>4, <3>2 DEF PendingBinary, PayloadIsNext, NoUrc
    <3> QED
      BY <2>1, <2>2, <3>1, <3>2
  <2> QED
    BY <2>1, <2>4, <2>5 DEF Payloads, ClosedIsEmpty
<1>3. CASE ReceivePayload(t)
  <2>1. /\ opened /\ rx # <<>> /\ rx' = Tail(rx) /\ pending' = NoUrc
        /\ UNCHANGED <<opened, sending>>
    BY <1>3 DEF ReceivePayload, NextIs, Fifo!Commit
  <2> QED
    BY <2>1, RestFollows DEF Payloads, PendingBinary, ClosedIsEmpty, NoUrc
<1>4. CASE UrcTake(t) \/ UrcFinish(t)
  <2>1. UNCHANGED <<rx, pending, isBinaryRx, opened, sending>>
    BY <1>4 DEF UrcTake, UrcFinish, Fifo!Take, Fifo!Finish
  <2> QED
    BY <2>1 DEF Payloads, PayloadFollows, PendingBinary, PayloadIsNext, ClosedIsEmpty
<1>5. CASE CloseUart(t) \/ Open(t)
  <2>1. rx' = <<>> /\ pending' = NoUrc
    BY <1>5 DEF CloseUart, Open, ResetReceiveState, Fifo!Abort, Payloads, ClosedIsEmpty
  <2> QED
    BY <2>1 DEF Payloads, PayloadFollows, PendingBinary, ClosedIsEmpty, NoUrc
<1> QED
  BY <1>1, <1>2, <1>3, <1>4, <1>5 DEF FlowStep

LEMMA NextPayloads ==
  ASSUME Base, Payloads, [Next]_vars
  PROVE  Payloads'
<1>1. CASE UNCHANGED flow
  BY <1>1 DEF flow, urcs, Payloads, PayloadFollows, PendingBinary, PayloadIsNext,
              ClosedIsEmpty
<1> QED
  BY <1>1, NextFlow, ModulePayloads, FlowStepPayloads

LEMMA PayloadsInvariant == Spec => []Payloads
<1>1. Init => Payloads
  BY DEF Init, Fifo!Init, Payloads, PayloadFollows, PendingBinary, ClosedIsEmpty
<1>2. Base /\ Payloads /\ [Next]_vars => Payloads'
  BY NextPayloads
<1> QED
  BY <1>1, <1>2, BaseInvariant, PTL DEF Spec

\* The assertions of uCxAtUrcQueueEnqueueBegin() and ...End(): whatever is lost
\* in a close or a failing read, the payload that comes next is that of the
\* entry that is open.
THEOREM PayloadIsOfPending == Spec => []PayloadOfPending
<1>1. Payloads => PayloadOfPending
  BY DEF Payloads, PendingBinary, PayloadIsNext, PayloadOfPending
<1> QED
  BY <1>1, PayloadsInvariant, PTL

-----------------------------------------------------------------------------
(* Whose answer it is                                                       *)

Clean == nTimeouts = 0 /\ nIoErrors = 0

IsStatus(line) == line.kind \in {"OK", "ERROR"}
IsAnswer(line) == line.kind \in {"OK", "ERROR", "rsp"}

\* Somebody is in a command and has no status yet.
Awaits == executingCmd /\ status = NoStatus

\* What the module has to answer is the command that is executing, and its
\* status is not on its way.
AsksOne ==
  todo # <<>> => /\ Awaits /\ opened
                 /\ Len(todo) = 1 /\ todo[1].id = Current(cmdMutex)
                 /\ \A i \in 1 .. Len(rx) : ~IsStatus(rx[i])

\* The answers on their way are to the command that is executing, and behind
\* the status nothing comes.
AnswersOne ==
  \A i \in 1 .. Len(rx) :
    /\ IsAnswer(rx[i]) => Awaits /\ rx[i].id = Current(cmdMutex)
    /\ IsStatus(rx[i]) => /\ todo = <<>>
                          /\ \A j \in 1 .. Len(rx) : j > i => ~IsAnswer(rx[j])

\* What the client has read is of this command too.
ReadOwn ==
  executingCmd =>
    /\ status.val \in {"OK", "ERROR"} => status.cmd = Current(cmdMutex)
    /\ pRspParams # 0 => pRspParams = Current(cmdMutex)

Exchange == AsksOne /\ AnswersOne /\ ReadOwn

CleanExchange ==
  /\ nTimeouts \in Nat /\ nIoErrors \in Nat
  /\ Clean => Exchange

\* The thread that executes a command holds cmdMutex.
LEMMA Executes ==
  ASSUME Control
  PROVE  /\ executingCmd => cmdMutex \in Thread /\ pc[cmdMutex] \in InCommand
         /\ cmdMutex = NoThread => ~executingCmd
         /\ \A t \in Thread : pc[t] \in {"rx", "rxDone"} => ~executingCmd
<1>1. ASSUME executingCmd
      PROVE  cmdMutex \in Thread /\ pc[cmdMutex] \in InCommand
  BY <1>1 DEF Control, CmdLock, HoldsCmd
<1>2. ASSUME NEW t \in Thread, pc[t] \in {"rx", "rxDone"}
      PROVE  ~executingCmd
  BY <1>1, <1>2 DEF Control, CmdLock, HoldsCmd, InCommand
<1> QED
  BY <1>1, <1>2

\* A command stays the current one while it executes.
LEMMA CurrentStays ==
  ASSUME Control, NEW t \in Thread, Step(t), executingCmd, executingCmd'
  PROVE  UNCHANGED Current(cmdMutex)
<1>1. cmdMutex \in Thread /\ pc[cmdMutex] \in InCommand /\ cmdMutex # NoThread
  BY Executes
<1>2. UNCHANGED cmdMutex
  BY <1>1, Executes
     DEF Step, HandleRxData, ParseStatus, ParseResponse, ParseUrc, ParseBinaryUrc,
         ReceivePayload, ParseUnexpected, ReadError, Command, Call, CmdBegin,
         GetRspParamLine, GetRspCheck, GetRspTimeout, CmdEndLoop, CmdEndTimeout,
         CmdEndUnlock, CmdReturn, HandleRx, Wake, RxLock, RxNoData, RxUnlock,
         ProcessUrcs, UrcsBusy, UrcsTryLock, UrcTake, UrcsNone, UrcsUnlock, UrcFinish,
         UrcRelease, Lifecycle, Close, Join, CloseUart, Open, TaskCreate
<1>3. stack'[cmdMutex] = stack[cmdMutex]
  <2>1. CASE Call(t) \/ CmdReturn(t)
    <3>1. pc[t] \in {"idle", "callback", "cmdReturn"}
      BY <2>1 DEF Call, CmdReturn, InCallback
    <3>2. t # cmdMutex
      BY <1>1, <3>1 DEF InCommand
    <3>3. stack \in [Thread -> Seq(Nat)]
      BY DEF Control, ControlTypes
    <3> QED
      BY <1>1, <2>1, <3>2, <3>3 DEF Call, CmdReturn
  <2>2. CASE ~(Call(t) \/ CmdReturn(t))
    <3>1. UNCHANGED stack
      BY <2>2
         DEF Step, HandleRxData, ParseStatus, ParseResponse, ParseUrc, ParseBinaryUrc,
             ReceivePayload, ParseUnexpected, ReadError, Command, CmdBegin,
             GetRspParamLine, GetRspCheck, GetRspTimeout, CmdEndLoop, CmdEndTimeout,
             CmdEndUnlock, HandleRx, Wake, RxLock, RxNoData, RxUnlock,
             ProcessUrcs, UrcsBusy, UrcsTryLock, UrcTake, UrcsNone, UrcsUnlock, UrcFinish,
             UrcRelease, Lifecycle, Close, Join, CloseUart, Open, TaskCreate
    <3> QED
      BY <3>1
  <2> QED
    BY <2>1, <2>2
<1> QED
  BY <1>2, <1>3 DEF Current

\* Steps that no answer is concerned with
LEMMA ExchangeStays ==
  ASSUME Exchange, UNCHANGED <<rx, todo, opened, executingCmd, status>>,
         pRspParams' \in {0, pRspParams},
         executingCmd => UNCHANGED Current(cmdMutex)
  PROVE  Exchange'
<1>1. Awaits' <=> Awaits
  BY DEF Awaits
<1>2. AsksOne'
  BY <1>1 DEF Exchange, AsksOne, Awaits
<1>3. AnswersOne'
  BY <1>1 DEF Exchange, AnswersOne, Awaits
<1>4. ReadOwn'
  BY DEF Exchange, ReadOwn
<1> QED
  BY <1>2, <1>3, <1>4 DEF Exchange

\* A line is taken that is no status.
LEMMA TakeOther ==
  ASSUME Base, Exchange, rx # <<>>, rx' = Tail(rx), ~IsStatus(Head(rx)),
         UNCHANGED <<todo, opened, executingCmd, status>>,
         \/ UNCHANGED pRspParams
         \/ IsAnswer(Head(rx)) /\ pRspParams' = Head(rx).id,
         executingCmd => UNCHANGED Current(cmdMutex)
  PROVE  Exchange'
<1>1. /\ Head(rx) = rx[1] /\ Len(rx) \in Nat /\ Len(rx) >= 1 /\ Len(rx') = Len(rx) - 1
      /\ \A i \in 1 .. Len(rx) - 1 : rx'[i] = rx[i + 1]
  BY HeadOfRx DEF Base
<1>2. \A i \in 1 .. Len(rx') : i + 1 \in 1 .. Len(rx) /\ rx'[i] = rx[i + 1]
  BY <1>1
<1>3. Awaits' <=> Awaits
  BY DEF Awaits
<1>4. AsksOne'
  BY <1>2, <1>3 DEF Exchange, AsksOne, Awaits
<1>5. AnswersOne'
  <2>1. ASSUME NEW i \in 1 .. Len(rx'), IsAnswer(rx'[i])
        PROVE  Awaits' /\ rx'[i].id = Current(cmdMutex)'
    BY <1>2, <1>3, <2>1 DEF Exchange, AnswersOne, Awaits
  <2>2. ASSUME NEW i \in 1 .. Len(rx'), IsStatus(rx'[i])
        PROVE  todo' = <<>> /\ \A j \in 1 .. Len(rx') : j > i => ~IsAnswer(rx'[j])
    <3>1. /\ i + 1 \in 1 .. Len(rx) /\ IsStatus(rx[i + 1])
          /\ \A j \in 1 .. Len(rx') : j + 1 \in 1 .. Len(rx) /\ (j > i => j + 1 > i + 1)
      BY <1>1, <1>2, <2>2
    <3> QED
      BY <1>2, <3>1 DEF Exchange, AnswersOne
  <2> QED
    BY <2>1, <2>2 DEF AnswersOne
<1>6. ReadOwn'
  <2>1. IsAnswer(Head(rx)) => Head(rx).id = Current(cmdMutex)
    <3>1. 1 \in 1 .. Len(rx)
      BY <1>1
    <3> QED
      BY <1>1, <3>1 DEF Exchange, AnswersOne
  <2> QED
    BY <2>1 DEF Exchange, ReadOwn
<1> QED
  BY <1>4, <1>5, <1>6 DEF Exchange

\* The status is taken: what is left says nothing about the command.
LEMMA TakeStatus ==
  ASSUME Base, Exchange, NEW t \in Thread, ParseStatus(t)
  PROVE  Exchange'
<1>1. /\ rx # <<>> /\ rx' = Tail(rx) /\ IsStatus(Head(rx))
      /\ UNCHANGED <<todo, opened, executingCmd, pRspParams, cmdMutex, stack>>
  BY DEF ParseStatus, NextIs, IsStatus, module
<1>2. /\ Head(rx) = rx[1] /\ Len(rx) \in Nat /\ Len(rx) >= 1 /\ Len(rx') = Len(rx) - 1
      /\ \A i \in 1 .. Len(rx) - 1 : rx'[i] = rx[i + 1]
  BY <1>1, HeadOfRx DEF Base
<1>3. 1 \in 1 .. Len(rx) /\ IsStatus(rx[1]) /\ IsAnswer(rx[1])
  BY <1>1, <1>2 DEF IsStatus, IsAnswer
<1>4. /\ Awaits /\ todo = <<>> /\ rx[1].id = Current(cmdMutex)
      /\ \A j \in 1 .. Len(rx) : j > 1 => ~IsAnswer(rx[j])
  BY <1>3 DEF Exchange, AnswersOne
<1>5. ASSUME NEW i \in 1 .. Len(rx')
      PROVE  ~IsAnswer(rx'[i])
  <2>1. i + 1 \in 1 .. Len(rx) /\ i + 1 > 1 /\ rx'[i] = rx[i + 1]
    BY <1>2
  <2> QED
    BY <1>4, <2>1
<1>6. status' = [val |-> Head(rx).kind, cmd |-> Head(rx).id]
  BY <1>4 DEF ParseStatus, Awaits
<1>7. UNCHANGED Current(cmdMutex)
  BY <1>1 DEF Current
<1>8. AsksOne'
  BY <1>1, <1>4 DEF AsksOne
<1>9. AnswersOne'
  BY <1>5 DEF AnswersOne, IsAnswer, IsStatus
<1>10. ReadOwn'
  BY <1>1, <1>2, <1>4, <1>6, <1>7 DEF Exchange, ReadOwn
<1> QED
  BY <1>8, <1>9, <1>10 DEF Exchange

\* Without a command that awaits something nothing is asked or answered.
LEMMA NothingAsked ==
  ASSUME Exchange, ~Awaits
  PROVE  todo = <<>> /\ \A i \in 1 .. Len(rx) : ~IsAnswer(rx[i])
BY DEF Exchange, AsksOne, AnswersOne

LEMMA BeginExchange ==
  ASSUME Base, Exchange, NEW t \in Thread, NEW kind \in Kind, CmdBegin(t, kind)
  PROVE  Exchange'
<1>1. /\ cmdMutex = NoThread /\ cmdMutex' = t /\ UNCHANGED <<rx, opened, stack>>
      /\ executingCmd' = TRUE /\ status' = NoStatus /\ pRspParams' = 0
      /\ todo' = IF opened THEN Append(todo, [kind |-> kind, id |-> Current(t)]) ELSE todo
  BY DEF CmdBegin, Begin
<1>2. ~Awaits
  BY <1>1, Executes DEF Base, Awaits
<1>3. todo = <<>> /\ \A i \in 1 .. Len(rx) : ~IsAnswer(rx[i])
  BY <1>2, NothingAsked
<1>4. Awaits' /\ Current(cmdMutex)' = Current(t)
  BY <1>1 DEF Awaits, Current
<1>5. AsksOne'
  <2> DEFINE ask == [kind |-> kind, id |-> Current(t)]
  <2>1. ask.id = Current(t)
    OBVIOUS
  <2> HIDE DEF ask
  <2>2. todo' # <<>> => todo' = <<ask>> /\ opened
    BY <1>1, <1>3 DEF ask
  <2>3. todo' # <<>> => opened' /\ Len(todo') = 1 /\ todo'[1].id = Current(cmdMutex)'
    BY <1>1, <1>4, <2>1, <2>2
  <2> QED
    BY <1>1, <1>3, <1>4, <2>3 DEF AsksOne, IsStatus, IsAnswer
<1>6. AnswersOne'
  BY <1>1, <1>3 DEF AnswersOne, IsStatus, IsAnswer
<1>7. ReadOwn'
  BY <1>1 DEF ReadOwn, NoStatus
<1> QED
  BY <1>5, <1>6, <1>7 DEF Exchange

\* A line that the module sends.
LEMMA Received ==
  ASSUME FlowTypes, NEW item \in Line, Receive(item)
  PROVE  \/ rx' = rx /\ ~opened
         \/ /\ rx' \in Seq(Line) /\ Len(rx) \in Nat /\ Len(rx') = Len(rx) + 1
            /\ \A i \in 1 .. Len(rx) : rx'[i] = rx[i]
            /\ rx'[Len(rx) + 1] = item
<1>1. rx \in Seq(Line)
  BY DEF FlowTypes
<1>2. rx' = IF opened THEN Append(rx, item) ELSE rx
  BY DEF Receive
<1> QED
  BY <1>1, <1>2, SeqFacts

LEMMA ModuleExchange ==
  ASSUME Base, Exchange, Module
  PROVE  Exchange'
<1>1. UNCHANGED <<cmdMutex, stack, executingCmd, status, pRspParams, opened>>
  BY DEF Module, ModuleRespond, ModuleFinish, ModuleUrc, ModulePayload, client
<1>2. UNCHANGED Current(cmdMutex) /\ (Awaits' <=> Awaits)
  BY <1>1 DEF Current, Awaits
<1>3. ReadOwn'
  BY <1>1, <1>2 DEF Exchange, ReadOwn
<1>4. CASE ModuleRespond \/ \E answer \in {"OK", "ERROR"} : ModuleFinish(answer)
  <2>1. todo # <<>>
    BY <1>4 DEF ModuleRespond, ModuleFinish
  <2>2. /\ Awaits /\ opened /\ Len(todo) = 1 /\ todo[1].id = Current(cmdMutex)
        /\ \A i \in 1 .. Len(rx) : ~IsStatus(rx[i])
    BY <2>1 DEF Exchange, AsksOne
  <2>3. todo \in Seq(Asked) /\ Head(todo) = todo[1] /\ todo[1] \in Asked
    BY <2>1, SeqFacts DEF Base, FlowTypes
  <2>4. PICK item : /\ item \in Line /\ IsAnswer(item) /\ item.id = todo[1].id
                    /\ Receive(item)
                    /\ \/ ~IsStatus(item) /\ todo' = [todo EXCEPT ![1].kind = "simple"]
                       \/ IsStatus(item) /\ todo' = Tail(todo)
    <3>1. ASSUME NEW kind \in {"OK", "ERROR", "rsp"}
          PROVE  /\ [kind |-> kind, id |-> Head(todo).id] \in Line
                 /\ IsAnswer([kind |-> kind, id |-> Head(todo).id])
      BY <2>3 DEF Asked, Line, IsAnswer
    <3>2. CASE ModuleRespond
      BY <2>3, <3>1, <3>2 DEF ModuleRespond, IsStatus
    <3>3. ASSUME NEW answer \in {"OK", "ERROR"}, ModuleFinish(answer)
          PROVE  /\ Receive([kind |-> answer, id |-> Head(todo).id])
                 /\ todo' = Tail(todo)
                 /\ IsStatus([kind |-> answer, id |-> Head(todo).id])
      BY <3>3 DEF ModuleFinish, IsStatus
    <3> QED
      BY <1>4, <2>3, <3>1, <3>2, <3>3
  <2>5. /\ Len(rx) \in Nat /\ Len(rx') = Len(rx) + 1
        /\ \A i \in 1 .. Len(rx) : rx'[i] = rx[i]
        /\ rx'[Len(rx) + 1] = item
    BY <2>2, <2>4, Received DEF Base
  <2>6. \A i \in 1 .. Len(rx') : i \in 1 .. Len(rx) \/ i = Len(rx')
    BY <2>5
  <2>7. /\ \A i \in 1 .. Len(rx) : ~IsStatus(rx'[i])
        /\ rx'[Len(rx')] = item
    BY <2>2, <2>5
  <2>8. IsStatus(item) => todo' = <<>>
    <3>1. Tail(todo) \in Seq(Asked) /\ Len(Tail(todo)) = 0
      BY <2>1, <2>2, <2>3, SeqFacts
    <3>2. Tail(todo) = <<>>
      BY <3>1, SeqFacts
    <3> QED
      BY <2>4, <3>2
  <2>9. ~IsStatus(item) => Len(todo') = 1 /\ todo'[1].id = todo[1].id
    BY <2>2, <2>3, <2>4 DEF IsStatus, Asked
  <2>10. AsksOne'
    BY <1>1, <1>2, <2>2, <2>6, <2>7, <2>8, <2>9 DEF AsksOne, IsStatus, IsAnswer
  <2>11. AnswersOne'
    <3>1. ASSUME NEW i \in 1 .. Len(rx')
          PROVE  IsAnswer(rx'[i]) => Awaits' /\ rx'[i].id = Current(cmdMutex)'
      <4>1. CASE i \in 1 .. Len(rx)
        BY <1>2, <2>2, <2>5, <4>1 DEF Exchange, AnswersOne
      <4>2. CASE i = Len(rx')
        BY <1>2, <2>2, <2>4, <2>7, <4>2
      <4> QED
        BY <2>6, <4>1, <4>2
    <3>2. ASSUME NEW i \in 1 .. Len(rx'), IsStatus(rx'[i])
          PROVE  todo' = <<>> /\ \A j \in 1 .. Len(rx') : j > i => ~IsAnswer(rx'[j])
      <4>1. i = Len(rx')
        BY <2>6, <2>7, <3>2
      <4>2. IsStatus(item)
        BY <2>7, <3>2, <4>1
      <4>3. \A j \in 1 .. Len(rx') : ~(j > i)
        BY <2>5, <4>1
      <4> QED
        BY <2>8, <4>2, <4>3
    <3> QED
      BY <3>1, <3>2 DEF AnswersOne
  <2> QED
    BY <1>3, <2>10, <2>11 DEF Exchange
<1>5. CASE (\E kind \in {"urc", "bin"} : ModuleUrc(kind)) \/ ModulePayload
  <2>1. PICK item : item \in Line /\ ~IsAnswer(item) /\ Receive(item) /\ UNCHANGED todo
    <3>1. nUrcs \in Nat /\ sending \in Nat
      BY DEF Base, FlowTypes
    <3>2. ASSUME NEW kind \in {"urc", "bin"}, ModuleUrc(kind)
          PROVE  /\ [kind |-> kind, id |-> nUrcs + 1] \in Line
                 /\ ~IsAnswer([kind |-> kind, id |-> nUrcs + 1])
                 /\ Receive([kind |-> kind, id |-> nUrcs + 1]) /\ UNCHANGED todo
      BY <3>1, <3>2 DEF ModuleUrc, Line, IsAnswer
    <3>3. CASE ModulePayload
      BY <3>1, <3>3 DEF ModulePayload, BinEnd, Line, IsAnswer
    <3> QED
      BY <1>5, <3>2, <3>3
  <2>2. CASE rx' = rx
    BY <1>1, <1>2, <2>1, <2>2, ExchangeStays
  <2>3. CASE /\ Len(rx) \in Nat /\ Len(rx') = Len(rx) + 1
             /\ \A i \in 1 .. Len(rx) : rx'[i] = rx[i]
             /\ rx'[Len(rx) + 1] = item
    <3>1. \A i \in 1 .. Len(rx') : IsAnswer(rx'[i]) => i \in 1 .. Len(rx) /\ rx'[i] = rx[i]
      BY <2>1, <2>3
    <3>2. \A i \in 1 .. Len(rx') : IsStatus(rx'[i]) => IsAnswer(rx'[i])
      BY DEF IsStatus, IsAnswer
    <3>3. AsksOne'
      BY <1>1, <1>2, <2>1, <3>1, <3>2 DEF Exchange, AsksOne, IsStatus
    <3>4. AnswersOne'
      BY <1>2, <2>1, <3>1, <3>2 DEF Exchange, AnswersOne, IsStatus, IsAnswer
    <3> QED
      BY <1>3, <3>3, <3>4 DEF Exchange
  <2> QED
    BY <2>1, <2>2, <2>3, Received DEF Base
<1> QED
  BY <1>4, <1>5 DEF Module

\* A command ends when it has a status.
LEMMA EndExchange ==
  ASSUME Exchange, NEW t \in Thread, CmdEndUnlock(t)
  PROVE  Exchange'
<1>1. status # NoStatus /\ executingCmd' = FALSE /\ UNCHANGED <<rx, todo>>
  BY DEF CmdEndUnlock, module
<1>2. todo = <<>> /\ \A i \in 1 .. Len(rx) : ~IsAnswer(rx[i])
  BY <1>1, NothingAsked DEF Awaits
<1> QED
  BY <1>1, <1>2 DEF Exchange, AsksOne, AnswersOne, ReadOwn, IsStatus, IsAnswer

\* Without failing reads there is nothing to be read when a read fails: the
\* UART is closed.
LEMMA ClosedExchange ==
  ASSUME Base, Payloads, Exchange, NEW t \in Thread, ReadError(t), ~opened
  PROVE  Exchange'
<1>1. /\ status' = [val |-> "ERROR_IO", cmd |-> IF pc[t] = "rx" THEN 0 ELSE Current(t)]
      /\ UNCHANGED <<rx, todo, executingCmd, pRspParams, cmdMutex, stack>>
  BY DEF ReadError, module
<1>2. rx = <<>> /\ todo = <<>>
  BY DEF Payloads, ClosedIsEmpty, Exchange, AsksOne
<1>3. status'.val = "ERROR_IO" /\ UNCHANGED Current(cmdMutex)
  BY <1>1 DEF Current
<1>4. ReadOwn'
  BY <1>1, <1>3 DEF Exchange, ReadOwn
<1> QED
  BY <1>1, <1>2, <1>4 DEF Exchange, AsksOne, AnswersOne

\* The UART is opened and closed between two commands.
LEMMA OpenExchange ==
  ASSUME Base, Exchange, NEW t \in Thread, CloseUart(t) \/ Open(t)
  PROVE  Exchange'
<1>1. /\ cmdMutex = NoThread /\ rx' \in {rx, <<>>}
      /\ UNCHANGED <<todo, executingCmd>>
  BY DEF CloseUart, Open, module
<1>2. ~executingCmd /\ ~Awaits
  BY <1>1, Executes DEF Base, Awaits
<1>3. todo = <<>> /\ \A i \in 1 .. Len(rx) : ~IsAnswer(rx[i])
  BY <1>2, NothingAsked
<1>4. \A i \in 1 .. Len(rx') : ~IsAnswer(rx'[i])
  BY <1>1, <1>3
<1> QED
  BY <1>1, <1>2, <1>3, <1>4
     DEF Exchange, AsksOne, AnswersOne, ReadOwn, IsStatus, IsAnswer

LEMMA HandleRxDataExchange ==
  ASSUME Base, Payloads, Exchange, NEW t \in Thread, HandleRxData(t), Clean'
  PROVE  nIoErrors \in Nat => Exchange'
<1> USE DEF client, module
<1>1. executingCmd => UNCHANGED Current(cmdMutex)
  BY DEF HandleRxData, ParseStatus, ParseResponse, ParseUrc, ParseBinaryUrc,
         ReceivePayload, ParseUnexpected, ReadError, Current
<1>2. CASE ParseStatus(t)
  BY <1>2, TakeStatus
<1>3. CASE ParseResponse(t)
  <2>1. /\ rx # <<>> /\ rx' = Tail(rx) /\ ~IsStatus(Head(rx)) /\ IsAnswer(Head(rx))
        /\ pRspParams' = Head(rx).id
        /\ UNCHANGED <<todo, opened, executingCmd, status>>
    BY <1>3 DEF ParseResponse, NextIs, IsStatus, IsAnswer
  <2> QED
    BY <1>1, <2>1, TakeOther
<1>4. CASE ParseUrc(t) \/ ParseBinaryUrc(t) \/ ReceivePayload(t) \/ ParseUnexpected(t)
  <2>1. /\ rx # <<>> /\ rx' = Tail(rx) /\ ~IsStatus(Head(rx))
        /\ UNCHANGED <<todo, opened, executingCmd, status, pRspParams>>
    BY <1>4 DEF ParseUrc, ParseBinaryUrc, ReceivePayload, ParseUnexpected, NextIs, IsStatus
  <2> QED
    BY <1>1, <2>1, TakeOther
<1>5. CASE ReadError(t)
  <2>1. nIoErrors' = 0 /\ nIoErrors' = IF opened THEN nIoErrors + 1 ELSE nIoErrors
    BY <1>5 DEF ReadError, Clean
  <2>2. nIoErrors \in Nat => ~opened
    BY <2>1
  <2> QED
    BY <1>5, <2>2, ClosedExchange
<1> QED
  BY <1>2, <1>3, <1>4, <1>5 DEF HandleRxData

\* The errors are counted, and the count does not go back.
LEMMA NextClean ==
  ASSUME nTimeouts \in Nat, nIoErrors \in Nat, [Next]_vars
  PROVE  nTimeouts' \in Nat /\ nIoErrors' \in Nat /\ (Clean' => Clean)
<1>1. /\ nTimeouts' = nTimeouts \/ nTimeouts' = nTimeouts + 1
      /\ nIoErrors' = nIoErrors \/ nIoErrors' = nIoErrors + 1
  <2> USE DEF counters
  <2>1. CASE Module \/ Rest \/ UNCHANGED vars
    BY <2>1 DEF Module, ModuleRespond, ModuleFinish, ModuleUrc, ModulePayload, Rest, vars
  <2>2. ASSUME NEW t \in Thread, Step(t)
        PROVE  /\ nTimeouts' = nTimeouts \/ nTimeouts' = nTimeouts + 1
               /\ nIoErrors' = nIoErrors \/ nIoErrors' = nIoErrors + 1
    <3>1. CASE HandleRxData(t)
      BY <3>1 DEF HandleRxData, ParseStatus, ParseResponse, ParseUrc, ParseBinaryUrc,
                  ReceivePayload, ParseUnexpected, ReadError
    <3>2. CASE Command(t)
      BY <3>2 DEF Command, Call, CmdBegin, GetRspParamLine, GetRspCheck, GetRspTimeout,
                  CmdEndLoop, CmdEndTimeout, CmdEndUnlock, CmdReturn
    <3>3. CASE HandleRx(t)
      BY <3>3 DEF HandleRx, Wake, RxLock, RxNoData, RxUnlock
    <3>4. CASE ProcessUrcs(t)
      BY <3>4 DEF ProcessUrcs, UrcsBusy, UrcsTryLock, UrcTake, UrcsNone, UrcsUnlock,
                  UrcFinish, UrcRelease
    <3>5. CASE Lifecycle(t)
      BY <3>5 DEF Lifecycle, Close, Join, CloseUart, Open, TaskCreate
    <3> QED
      BY <2>2, <3>1, <3>2, <3>3, <3>4, <3>5 DEF Step
  <2> QED
    BY <2>1, <2>2 DEF Next
<1> QED
  BY <1>1 DEF Clean

LEMMA NextExchange ==
  ASSUME Base, Payloads, CleanExchange, [Next]_vars
  PROVE  CleanExchange'
<1> USE DEF client, module
<1>1. nTimeouts' \in Nat /\ nIoErrors' \in Nat /\ (Clean' => Clean)
  BY NextClean DEF CleanExchange
<1> SUFFICES ASSUME Clean' PROVE Exchange'
  BY <1>1 DEF CleanExchange
<1>2. Exchange /\ nTimeouts \in Nat /\ nIoErrors \in Nat
  BY <1>1 DEF CleanExchange
<1>3. CASE Module
  BY <1>2, <1>3, ModuleExchange
<1>4. CASE Rest \/ UNCHANGED vars
  <2>1. UNCHANGED <<rx, todo, opened, executingCmd, status, pRspParams, cmdMutex, stack>>
    BY <1>4 DEF Rest, vars
  <2> QED
    BY <1>2, <2>1, ExchangeStays DEF Current
<1>5. ASSUME NEW t \in Thread, Step(t)
      PROVE  Exchange'
  <2>1. executingCmd /\ executingCmd' => UNCHANGED Current(cmdMutex)
    BY <1>5, CurrentStays DEF Base
  <2>2. CASE HandleRxData(t)
    BY <1>2, <2>2, HandleRxDataExchange
  <2>3. CASE Command(t)
    <3>1. CASE (\E kind \in Kind : CmdBegin(t, kind)) \/ CmdEndUnlock(t)
      BY <1>2, <3>1, BeginExchange, EndExchange
    <3>2. CASE GetRspTimeout(t) \/ CmdEndTimeout(t)
      BY <1>2, <3>2 DEF GetRspTimeout, CmdEndTimeout, Clean
    <3>3. CASE \/ Call(t) \/ GetRspParamLine(t) \/ GetRspCheck(t)
               \/ CmdEndLoop(t) \/ CmdReturn(t)
      <4>1. /\ UNCHANGED <<rx, todo, opened, executingCmd, status>>
            /\ pRspParams' \in {0, pRspParams}
        BY <3>3 DEF Call, GetRspParamLine, GetRspCheck, CmdEndLoop, CmdReturn
      <4> QED
        BY <1>2, <2>1, <4>1, ExchangeStays
    <3> QED
      BY <2>3, <3>1, <3>2, <3>3 DEF Command
  <2>4. CASE HandleRx(t) \/ ProcessUrcs(t)
    <3>1. UNCHANGED <<rx, todo, opened, executingCmd, status, pRspParams>>
      BY <2>4 DEF HandleRx, Wake, RxLock, RxNoData, RxUnlock, ProcessUrcs, UrcsBusy,
                  UrcsTryLock, UrcTake, UrcsNone, UrcsUnlock, UrcFinish, UrcRelease
    <3> QED
      BY <1>2, <2>1, <3>1, ExchangeStays
  <2>5. CASE Lifecycle(t)
    <3>1. CASE CloseUart(t) \/ Open(t)
      BY <1>2, <3>1, OpenExchange
    <3>2. CASE Close(t) \/ Join(t) \/ TaskCreate(t)
      <4>1. UNCHANGED <<rx, todo, opened, executingCmd, status, pRspParams>>
        BY <3>2 DEF Close, Join, TaskCreate
      <4> QED
        BY <1>2, <2>1, <4>1, ExchangeStays
    <3> QED
      BY <2>5, <3>1, <3>2 DEF Lifecycle
  <2> QED
    BY <1>5, <2>2, <2>3, <2>4, <2>5 DEF Step
<1> QED
  BY <1>3, <1>4, <1>5 DEF Next

LEMMA CleanExchangeInvariant == Spec => []CleanExchange
<1>1. Init => CleanExchange
  BY DEF Init, CleanExchange, Exchange, AsksOne, AnswersOne, ReadOwn
<1>2. Base /\ Payloads /\ CleanExchange /\ [Next]_vars => CleanExchange'
  BY NextExchange
<1> QED
  BY <1>1, <1>2, BaseInvariant, PayloadsInvariant, PTL DEF Spec

\* A command gets the status that the module answered to this command and no
\* other: for any number of threads that execute commands, in URC callbacks or
\* not, with a worker that reads from the same UART and a client that is closed
\* and opened, as long as nothing timed out and no read failed.
THEOREM StatusIsOwn == Spec => []AnswerIsOwn
<1>1. CleanExchange => AnswerIsOwn
  BY DEF CleanExchange, Clean, Exchange, ReadOwn, AnswerIsOwn
<1> QED
  BY <1>1, CleanExchangeInvariant, PTL

\* A query gets the response line to this query under the same conditions.
THEOREM ResponseLineIsOwn == Spec => []ResponseIsOwn
<1>1. CleanExchange => ResponseIsOwn
  BY DEF CleanExchange, Clean, Exchange, ReadOwn, ResponseIsOwn
<1> QED
  BY <1>1, CleanExchangeInvariant, PTL

-----------------------------------------------------------------------------
(* The order of URCs                                                        *)

Numbered(line) == line.kind \in {"urc", "bin"}
Before(x, y) == Numbered(x) /\ Numbered(y) => x.id < y.id

\* The URC that the module sends next
NextUrc == [kind |-> "urc", id |-> nUrcs + 1]

\* What has yet to be read from the UART, and to be sent
Incoming == {rx[i] : i \in 1 .. Len(rx)} \union {NextUrc}

IncomingInOrder ==
  /\ \A i, j \in 1 .. Len(rx) : i < j => Before(rx[i], rx[j])
  /\ \A i \in 1 .. Len(rx) : Before(rx[i], NextUrc)

\* All that was handled and all in the queue was sent before x.
Behind(x) == /\ \A i \in 1 .. Len(handled) : Before(handled[i], x)
             /\ \A i \in 1 .. Len(queue) : Before(queue[i].urc, x)

\* The first of the queue was handled before, in the callback.
HandledFirst ==
  \A i \in 1 .. Len(handled), j \in 1 .. Len(queue) :
    j > 1 \/ reader = <<>> => Before(handled[i], queue[j].urc)

ReceivedInOrder ==
  /\ \A i, j \in 1 .. Len(handled) : i < j => Before(handled[i], handled[j])
  /\ \A i, j \in 1 .. Len(queue) : i < j => Before(queue[i].urc, queue[j].urc)
  /\ HandledFirst

PendingNext ==
  pending # NoUrc => Behind(pending) /\ \A x \in Incoming : Before(pending, x)

\* What came in through the parser and the queue
UrcKinds ==
  /\ \A i \in 1 .. Len(queue) : queue[i].urc.kind \in {"urc", "bin", "rsp"}
  /\ \A i \in 1 .. Len(handled) : handled[i].kind \in {"urc", "bin", "rsp"}

Ordered ==
  /\ IncomingInOrder
  /\ ReceivedInOrder
  /\ \A x \in Incoming : Behind(x)
  /\ PendingNext
  /\ UrcKinds

\* A line is taken: it was sent before what is left.
LEMMA TakeNext ==
  ASSUME Base, IncomingInOrder, rx # <<>>, rx' = Tail(rx), UNCHANGED nUrcs
  PROVE  /\ IncomingInOrder'
         /\ Head(rx) \in Incoming
         /\ Incoming' \subseteq Incoming
         /\ \A y \in Incoming' : Before(Head(rx), y)
<1>1. /\ Head(rx) = rx[1] /\ Len(rx) \in Nat /\ Len(rx) >= 1 /\ Len(rx') = Len(rx) - 1
      /\ \A i \in 1 .. Len(rx) - 1 : rx'[i] = rx[i + 1]
  BY HeadOfRx DEF Base
<1>2. ASSUME NEW i \in 1 .. Len(rx')
      PROVE  i + 1 \in 1 .. Len(rx) /\ rx'[i] = rx[i + 1] /\ i + 1 > 1
  BY <1>1
<1>3. NextUrc' = NextUrc /\ 1 \in 1 .. Len(rx)
  BY <1>1 DEF NextUrc
<1>4. IncomingInOrder'
  <2>1. ASSUME NEW i \in 1 .. Len(rx'), NEW j \in 1 .. Len(rx'), i < j
        PROVE  Before(rx'[i], rx'[j])
    <3>1. i + 1 < j + 1
      BY <1>1, <2>1
    <3> QED
      BY <1>2, <3>1 DEF IncomingInOrder
  <2>2. ASSUME NEW i \in 1 .. Len(rx')
        PROVE  Before(rx'[i], NextUrc')
    BY <1>2, <1>3 DEF IncomingInOrder
  <2> QED
    BY <2>1, <2>2 DEF IncomingInOrder, Before, Numbered
<1>5. Incoming' \subseteq Incoming
  BY <1>2, <1>3 DEF Incoming
<1>6. ASSUME NEW y \in Incoming'
      PROVE  Before(Head(rx), y)
  <2>1. CASE y = NextUrc
    BY <1>1, <1>3, <2>1 DEF IncomingInOrder
  <2>2. ASSUME NEW i \in 1 .. Len(rx'), y = rx'[i]
        PROVE  Before(Head(rx), y)
    <3>1. i + 1 \in 1 .. Len(rx) /\ y = rx[i + 1] /\ 1 < i + 1
      BY <1>1, <1>2, <2>2
    <3> QED
      BY <1>1, <1>3, <3>1 DEF IncomingInOrder
  <2> QED
    BY <1>3, <2>1, <2>2 DEF Incoming
<1> QED
  BY <1>1, <1>3, <1>4, <1>5, <1>6 DEF Incoming

\* A line is sent: a URC has the next number.
LEMMA SendNext ==
  ASSUME Base, IncomingInOrder, NEW item \in Line, Receive(item),
         \/ Numbered(item) /\ item.id = nUrcs + 1 /\ nUrcs' = nUrcs + 1
         \/ ~Numbered(item) /\ UNCHANGED nUrcs
  PROVE  /\ IncomingInOrder'
         /\ \A x \in Line, y \in Incoming' :
              Before(x, NextUrc) => Before(x, y) \/ y \in Incoming
<1>1. nUrcs \in Nat /\ item.id \in Nat /\ \A i \in 1 .. Len(rx) : rx[i] \in Line
  <2>1. nUrcs \in Nat /\ rx \in Seq(Line)
    BY DEF Base, FlowTypes
  <2>2. item.id \in Nat
    BY DEF Line
  <2> QED
    BY <2>1, <2>2, SeqFacts
<1>2. NextUrc'.id = nUrcs' + 1 /\ Numbered(NextUrc') /\ Numbered(NextUrc)
      /\ NextUrc.id = nUrcs + 1
  BY DEF NextUrc, Numbered
<1>3. \A x \in Line : x.id \in Nat
  BY DEF Line
<1>4. ASSUME NEW x \in Line, Before(x, NextUrc)
      PROVE  Before(x, NextUrc') /\ Before(x, item)
  BY <1>1, <1>2, <1>3, <1>4 DEF Before
<1>5. CASE rx' = rx
  <2>1. IncomingInOrder'
    <3>1. \A i \in 1 .. Len(rx') : Before(rx'[i], NextUrc')
      BY <1>1, <1>4, <1>5 DEF IncomingInOrder
    <3> QED
      BY <1>5, <3>1 DEF IncomingInOrder, Before, Numbered
  <2>2. \A y \in Incoming' : y \in Incoming \/ y = NextUrc'
    BY <1>5 DEF Incoming
  <2> QED
    BY <1>4, <2>1, <2>2
<1>6. CASE /\ Len(rx) \in Nat /\ Len(rx') = Len(rx) + 1
           /\ \A i \in 1 .. Len(rx) : rx'[i] = rx[i]
           /\ rx'[Len(rx) + 1] = item
  <2>1. \A i \in 1 .. Len(rx') : i \in 1 .. Len(rx) \/ i = Len(rx')
    BY <1>6
  <2>2. Before(item, NextUrc')
    BY <1>1, <1>2 DEF Before
  <2>3. \A i \in 1 .. Len(rx) : Before(rx[i], NextUrc)
    BY DEF IncomingInOrder
  <2>4. \A i \in 1 .. Len(rx') : Before(rx'[i], NextUrc')
    BY <1>1, <1>4, <1>6, <2>1, <2>2, <2>3
  <2>5. ASSUME NEW i \in 1 .. Len(rx'), NEW j \in 1 .. Len(rx'), i < j
        PROVE  Before(rx'[i], rx'[j])
    <3>1. i \in 1 .. Len(rx)
      BY <1>6, <2>5
    <3>2. CASE j \in 1 .. Len(rx)
      BY <1>6, <2>5, <3>1, <3>2 DEF IncomingInOrder
    <3>3. CASE j = Len(rx')
      BY <1>1, <1>4, <1>6, <2>3, <3>1, <3>3
    <3> QED
      BY <2>1, <3>2, <3>3
  <2>6. IncomingInOrder'
    BY <2>4, <2>5 DEF IncomingInOrder, Before, Numbered
  <2>7. \A y \in Incoming' : y \in Incoming \/ y = NextUrc' \/ y = item
    BY <1>6, <2>1 DEF Incoming
  <2> QED
    BY <1>4, <2>6, <2>7
<1> QED
  BY <1>5, <1>6, Received DEF Base

\* A line goes to the end of the queue.
LEMMA EnqueueInOrder ==
  ASSUME Base, ReceivedInOrder, UrcKinds, NEW x \in Line, Behind(x),
         x.kind \in {"urc", "bin", "rsp"}, NEW n \in {0, 1},
         queue' = Append(queue, [urc |-> x, payloadSize |-> n]),
         UNCHANGED <<handled, reader>>
  PROVE  /\ ReceivedInOrder' /\ UrcKinds'
         /\ \A y : Behind(y) /\ Before(x, y) => Behind(y)'
<1> DEFINE e == [urc |-> x, payloadSize |-> n]
<1>1. e \in Queued /\ e.urc = x
  BY DEF Queued
<1> HIDE DEF e
<1>2. queue \in Seq(Queued) /\ queue' = Append(queue, e)
  BY DEF Base, FlowTypes, e
<1>3. /\ Len(queue) \in Nat /\ Len(queue') = Len(queue) + 1
      /\ \A i \in 1 .. Len(queue) : queue'[i] = queue[i]
      /\ queue'[Len(queue')] = e
  BY <1>1, <1>2, SeqFacts
<1>4. \A i \in 1 .. Len(queue') : i \in 1 .. Len(queue) \/ i = Len(queue')
  BY <1>3
<1>5. ASSUME NEW i \in 1 .. Len(queue'), NEW j \in 1 .. Len(queue'), i < j
      PROVE  Before(queue'[i].urc, queue'[j].urc)
  <2>1. i \in 1 .. Len(queue)
    BY <1>3, <1>5
  <2>2. CASE j \in 1 .. Len(queue)
    BY <1>3, <1>5, <2>1, <2>2 DEF ReceivedInOrder
  <2>3. CASE j = Len(queue')
    BY <1>1, <1>3, <2>1, <2>3 DEF Behind
  <2> QED
    BY <1>4, <2>2, <2>3
<1>6. ASSUME NEW i \in 1 .. Len(handled), NEW j \in 1 .. Len(queue'), j > 1 \/ reader = <<>>
      PROVE  Before(handled[i], queue'[j].urc)
  <2>1. CASE j \in 1 .. Len(queue)
    BY <1>3, <1>6, <2>1 DEF ReceivedInOrder, HandledFirst
  <2>2. CASE j = Len(queue')
    BY <1>1, <1>3, <2>2 DEF Behind
  <2> QED
    BY <1>4, <2>1, <2>2
<1>7. ReceivedInOrder'
  BY <1>5, <1>6 DEF ReceivedInOrder, HandledFirst, Before, Numbered
<1>8. UrcKinds'
  BY <1>1, <1>3, <1>4 DEF UrcKinds
<1>9. ASSUME NEW y, Behind(y), Before(x, y)
      PROVE  Behind(y)'
  <2>1. \A i \in 1 .. Len(queue') : Before(queue'[i].urc, y)
    BY <1>1, <1>3, <1>4, <1>9 DEF Behind
  <2> QED
    BY <1>9, <2>1 DEF Behind, Before, Numbered
<1> QED
  BY <1>7, <1>8, <1>9

\* The callback is called with the first of the queue.
LEMMA TakeInOrder ==
  ASSUME Base, Ordered, NEW t \in Thread, UrcTake(t)
  PROVE  Ordered'
<1>1. /\ queue # <<>> /\ reader = <<>> /\ pending = NoUrc
      /\ reader' = <<Head(queue)>>
      /\ handled' = Append(handled, Head(queue).urc)
      /\ UNCHANGED <<queue, pending, rx, nUrcs>>
  BY DEF UrcTake, Fifo!Take, module
<1> DEFINE h == Head(queue).urc
<1>2. /\ queue \in Seq(Queued) /\ handled \in Seq(Line)
      /\ Len(queue) \in Nat /\ Len(queue) >= 1 /\ Head(queue) = queue[1]
      /\ Head(queue) \in Queued
  BY <1>1, SeqFacts DEF Base, FlowTypes
<1>3. h \in Line /\ h = queue[1].urc /\ 1 \in 1 .. Len(queue)
  BY <1>2 DEF Queued
<1> HIDE DEF h
<1>4. /\ Len(handled) \in Nat /\ Len(handled') = Len(handled) + 1
      /\ \A i \in 1 .. Len(handled) : handled'[i] = handled[i]
      /\ handled'[Len(handled')] = h
  BY <1>1, <1>2, <1>3, SeqFacts DEF h
<1>5. \A i \in 1 .. Len(handled') : i \in 1 .. Len(handled) \/ i = Len(handled')
  BY <1>4
<1>6. ASSUME NEW i \in 1 .. Len(handled)
      PROVE  Before(handled[i], h)
  BY <1>1, <1>3 DEF Ordered, ReceivedInOrder, HandledFirst
<1>7. ASSUME NEW i \in 1 .. Len(handled'), NEW j \in 1 .. Len(handled'), i < j
      PROVE  Before(handled'[i], handled'[j])
  <2>1. i \in 1 .. Len(handled)
    BY <1>4, <1>7
  <2>2. CASE j \in 1 .. Len(handled)
    BY <1>4, <1>7, <2>1, <2>2 DEF Ordered, ReceivedInOrder
  <2>3. CASE j = Len(handled')
    BY <1>4, <1>6, <2>1, <2>3
  <2> QED
    BY <1>5, <2>2, <2>3
<1>8. ASSUME NEW i \in 1 .. Len(handled'), NEW j \in 1 .. Len(queue), j > 1
      PROVE  Before(handled'[i], queue[j].urc)
  <2>1. CASE i \in 1 .. Len(handled)
    BY <1>4, <1>8, <2>1 DEF Ordered, ReceivedInOrder, HandledFirst
  <2>2. CASE i = Len(handled')
    BY <1>3, <1>4, <1>8, <2>2 DEF Ordered, ReceivedInOrder
  <2> QED
    BY <1>5, <2>1, <2>2
<1>9. ReceivedInOrder'
  BY <1>1, <1>7, <1>8 DEF Ordered, ReceivedInOrder, HandledFirst, Before, Numbered
<1>10. ASSUME NEW y, Behind(y)
       PROVE  Behind(y)'
  <2>1. \A i \in 1 .. Len(handled') : Before(handled'[i], y)
    BY <1>3, <1>4, <1>5, <1>10 DEF Behind
  <2> QED
    BY <1>1, <1>10, <2>1 DEF Behind, Before, Numbered
<1>11. UrcKinds'
  BY <1>1, <1>3, <1>4, <1>5 DEF Ordered, UrcKinds
<1>12. UNCHANGED <<Incoming, NextUrc>> /\ IncomingInOrder'
  BY <1>1 DEF Ordered, IncomingInOrder, Incoming, NextUrc, Before, Numbered
<1> QED
  BY <1>1, <1>9, <1>10, <1>11, <1>12 DEF Ordered, PendingNext

\* The first of the queue is removed.
LEMMA FinishInOrder ==
  ASSUME Base, Ordered, NEW t \in Thread, UrcFinish(t)
  PROVE  Ordered'
<1>1. /\ queue' = Tail(queue) /\ reader # <<>> /\ reader' = <<>>
      /\ UNCHANGED <<pending, handled, rx, nUrcs>>
  BY DEF UrcFinish, Fifo!Finish, module
<1>2. pc[t] = "callback" /\ dequeueMutex = t
  BY DEF UrcFinish, InCallback, Base, Control, DequeueLock, Processing
<1>3. queue # <<>> /\ queue \in Seq(Queued)
  BY <1>2 DEF Base, FlowTypes, ReaderHas, BetweenUrcs
<1>4. /\ Len(queue) \in Nat /\ Len(queue') = Len(queue) - 1
      /\ \A i \in 1 .. Len(queue) - 1 : queue'[i] = queue[i + 1]
  BY <1>1, <1>3, SeqFacts
<1>5. ASSUME NEW i \in 1 .. Len(queue')
      PROVE  i + 1 \in 1 .. Len(queue) /\ i + 1 > 1 /\ queue'[i] = queue[i + 1]
  BY <1>4
<1>6. ASSUME NEW i \in 1 .. Len(queue'), NEW j \in 1 .. Len(queue'), i < j
      PROVE  Before(queue'[i].urc, queue'[j].urc)
  <2>1. i + 1 < j + 1
    BY <1>4, <1>6
  <2> QED
    BY <1>5, <2>1 DEF Ordered, ReceivedInOrder
<1>7. ReceivedInOrder'
  BY <1>1, <1>5, <1>6 DEF Ordered, ReceivedInOrder, HandledFirst, Before, Numbered
<1>8. ASSUME NEW y, Behind(y)
      PROVE  Behind(y)'
  BY <1>1, <1>5, <1>8 DEF Behind, Before, Numbered
<1>9. UrcKinds'
  BY <1>1, <1>5 DEF Ordered, UrcKinds
<1>10. UNCHANGED <<Incoming, NextUrc>> /\ IncomingInOrder'
  BY <1>1 DEF Ordered, IncomingInOrder, Incoming, NextUrc, Before, Numbered
<1> QED
  BY <1>1, <1>7, <1>8, <1>9, <1>10 DEF Ordered, PendingNext

\* What was received stays in order when nothing of it moves.
LEMMA ReceivedStays ==
  ASSUME ReceivedInOrder, UrcKinds, UNCHANGED <<queue, handled, reader>>
  PROVE  ReceivedInOrder' /\ UrcKinds' /\ \A y : Behind(y) => Behind(y)'
BY DEF ReceivedInOrder, HandledFirst, UrcKinds, Behind, Before, Numbered

\* The parser drops a line or hands it on.
LEMMA ParseInOrder ==
  ASSUME Base, Payloads, Ordered, NEW t \in Thread,
         \/ ParseStatus(t) \/ ParseResponse(t) \/ ParseUnexpected(t) \/ ParseUrc(t)
         \/ ParseBinaryUrc(t) \/ ReceivePayload(t),
         UNCHANGED module
  PROVE  Ordered'
<1> USE DEF client, urcs, module
<1>1. rx # <<>> /\ rx' = Tail(rx) /\ UNCHANGED <<handled, reader, nUrcs>>
  BY DEF ParseStatus, ParseResponse, ParseUnexpected, ParseUrc, ParseBinaryUrc,
         ReceivePayload, NextIs, Fifo!Begin, Fifo!Commit
<1>2. PICK x : x = Head(rx)
  OBVIOUS
<1>3. /\ IncomingInOrder' /\ Incoming' \subseteq Incoming /\ x \in Line
      /\ Behind(x)
      /\ \A y \in Incoming' : Before(x, y) /\ Behind(y)
      /\ ReceivedInOrder /\ UrcKinds
  BY <1>1, <1>2, TakeNext, HeadOfRx DEF Ordered, Base
<1>4. CASE ParseStatus(t) \/ ParseResponse(t) \/ ParseUnexpected(t)
  <2>1. UNCHANGED <<queue, pending>>
    BY <1>4 DEF ParseStatus, ParseResponse, ParseUnexpected
  <2> QED
    BY <1>1, <1>3, <2>1, ReceivedStays DEF Ordered, PendingNext, Before, Numbered
<1>5. CASE ParseUrc(t)
  <2>1. /\ UNCHANGED pending /\ pending = NoUrc /\ x.kind \in {"urc", "rsp"}
        /\ \/ queue' = Append(queue, [urc |-> x, payloadSize |-> 0])
           \/ UNCHANGED queue
    BY <1>2, <1>5 DEF ParseUrc, NextIs, Enqueue, Payloads, PendingBinary
  <2>2. ReceivedInOrder' /\ UrcKinds' /\ \A y : Behind(y) /\ Before(x, y) => Behind(y)'
    BY <1>1, <1>3, <2>1, EnqueueInOrder, ReceivedStays
  <2> QED
    BY <1>3, <2>1, <2>2 DEF Ordered, PendingNext
<1>6. CASE ParseBinaryUrc(t)
  <2>1. UNCHANGED queue /\ pending' \in {pending, x} /\ pending = NoUrc
    BY <1>2, <1>6 DEF ParseBinaryUrc, NextIs, Fifo!Begin, Payloads, PendingBinary
  <2>2. ReceivedInOrder' /\ UrcKinds' /\ \A y : Behind(y) => Behind(y)'
    BY <1>1, <1>3, <2>1, ReceivedStays
  <2>3. pending' # NoUrc => pending' = x
    BY <2>1
  <2>4. PendingNext'
    <3> SUFFICES ASSUME pending' # NoUrc
                 PROVE  Behind(x)' /\ \A y \in Incoming' : Before(x, y)
      BY <2>3 DEF PendingNext, Behind, Before, Numbered
    <3> QED
      BY <1>3, <2>2
  <2> QED
    BY <1>3, <2>2, <2>4 DEF Ordered
<1>7. CASE ReceivePayload(t)
  <2>1. \/ pending # NoUrc /\ queue' = Append(queue, [urc |-> pending, payloadSize |-> 1])
           /\ pending' = NoUrc
        \/ pending = NoUrc /\ UNCHANGED <<queue, pending>>
    BY <1>7 DEF ReceivePayload, Fifo!Commit
  <2>2. CASE pending = NoUrc /\ UNCHANGED <<queue, pending>>
    BY <1>1, <1>3, <2>2, ReceivedStays DEF Ordered, PendingNext
  <2>3. CASE pending # NoUrc /\ queue' = Append(queue, [urc |-> pending, payloadSize |-> 1])
             /\ pending' = NoUrc
    <3>1. pending.kind = "bin" /\ pending \in Line
      BY <2>3 DEF Payloads, PendingBinary, Base, FlowTypes
    <3>2. Behind(pending) /\ \A y \in Incoming' : Before(pending, y)
      BY <1>3, <2>3 DEF Ordered, PendingNext
    <3>3. ReceivedInOrder' /\ UrcKinds'
          /\ \A y : Behind(y) /\ Before(pending, y) => Behind(y)'
      BY <1>1, <1>3, <2>3, <3>1, <3>2, EnqueueInOrder
    <3> QED
      BY <1>3, <2>3, <3>2, <3>3 DEF Ordered, PendingNext
  <2> QED
    BY <2>1, <2>2, <2>3
<1> QED
  BY <1>4, <1>5, <1>6, <1>7

\* What is lost in a close does not change the order of the rest.
LEMMA OpenInOrder ==
  ASSUME Base, Payloads, Ordered, NEW t \in Thread, CloseUart(t) \/ Open(t),
         UNCHANGED module
  PROVE  Ordered'
<1>1. /\ rx' = <<>> /\ pending' = NoUrc
      /\ UNCHANGED <<queue, handled, reader, nUrcs>>
  BY DEF CloseUart, Open, ResetReceiveState, Fifo!Abort, urcs, module, Payloads,
         ClosedIsEmpty
<1>2. ReceivedInOrder' /\ UrcKinds' /\ \A y : Behind(y) => Behind(y)'
  BY <1>1, ReceivedStays DEF Ordered
<1>3. Incoming' = {NextUrc} /\ IncomingInOrder'
  BY <1>1 DEF Incoming, NextUrc, IncomingInOrder
<1> QED
  BY <1>1, <1>2, <1>3 DEF Ordered, PendingNext, Incoming

\* What the module sends is behind all it sent before.
LEMMA ModuleInOrder ==
  ASSUME Base, Ordered, Module, UNCHANGED <<urcs, handled>>
  PROVE  Ordered'
<1>1. UNCHANGED <<queue, pending, reader, handled>>
  BY DEF urcs
<1>2. PICK item \in Line :
        /\ Receive(item)
        /\ \/ Numbered(item) /\ item.id = nUrcs + 1 /\ nUrcs' = nUrcs + 1
           \/ ~Numbered(item) /\ UNCHANGED nUrcs
  <2>1. nUrcs \in Nat /\ sending \in Nat /\ todo \in Seq(Asked)
    BY DEF Base, FlowTypes
  <2>2. ASSUME NEW kind \in {"urc", "bin"}, ModuleUrc(kind)
        PROVE  /\ [kind |-> kind, id |-> nUrcs + 1] \in Line
               /\ Numbered([kind |-> kind, id |-> nUrcs + 1])
               /\ Receive([kind |-> kind, id |-> nUrcs + 1]) /\ nUrcs' = nUrcs + 1
    BY <2>1, <2>2 DEF ModuleUrc, Line, Numbered
  <2>3. CASE ModulePayload
    BY <2>1, <2>3 DEF ModulePayload, BinEnd, Line, Numbered
  <2>4. CASE ModuleRespond \/ \E answer \in {"OK", "ERROR"} : ModuleFinish(answer)
    <3>1. todo # <<>> /\ UNCHANGED nUrcs
      BY <2>4 DEF ModuleRespond, ModuleFinish
    <3>2. Head(todo).id \in Nat
      <4>1. Head(todo) \in Asked
        BY <2>1, <3>1, SeqFacts
      <4> QED
        BY <4>1 DEF Asked
    <3>3. ASSUME NEW kind \in {"OK", "ERROR", "rsp"}
          PROVE  /\ [kind |-> kind, id |-> Head(todo).id] \in Line
                 /\ ~Numbered([kind |-> kind, id |-> Head(todo).id])
      BY <3>2 DEF Line, Numbered
    <3> QED
      BY <2>4, <3>1, <3>3 DEF ModuleRespond, ModuleFinish
  <2> QED
    BY <2>2, <2>3, <2>4 DEF Module
<1>3. /\ IncomingInOrder'
      /\ \A x \in Line, y \in Incoming' :
           Before(x, NextUrc) => Before(x, y) \/ y \in Incoming
  BY <1>2, SendNext DEF Ordered
<1>4. ReceivedInOrder' /\ UrcKinds' /\ \A y : Behind(y) => Behind(y)'
  BY <1>1, ReceivedStays DEF Ordered
<1>5. /\ \A i \in 1 .. Len(handled) : handled[i] \in Line
      /\ \A i \in 1 .. Len(queue) : queue[i].urc \in Line
      /\ pending \in Line
  <2>1. queue \in Seq(Queued) /\ handled \in Seq(Line) /\ pending \in Line
    BY DEF Base, FlowTypes
  <2>2. \A e \in Queued : e.urc \in Line
    BY DEF Queued
  <2> QED
    BY <2>1, <2>2, SeqFacts
<1>6. NextUrc \in Incoming /\ \A y \in Incoming : Behind(y)
  BY DEF Incoming, Ordered
<1>7. ASSUME NEW y \in Incoming'
      PROVE  Behind(y)
  <2>1. CASE y \in Incoming
    BY <1>6, <2>1
  <2>2. CASE y \notin Incoming
    BY <1>3, <1>5, <1>6, <2>2 DEF Behind
  <2> QED
    BY <2>1, <2>2
<1>8. PendingNext'
  <2> SUFFICES ASSUME pending # NoUrc
               PROVE  Behind(pending)' /\ \A y \in Incoming' : Before(pending, y)
    BY <1>1 DEF PendingNext, Before, Numbered
  <2>1. Behind(pending) /\ \A y \in Incoming : Before(pending, y)
    BY DEF Ordered, PendingNext
  <2>2. Behind(pending)'
    BY <1>1, <2>1 DEF Behind, Before, Numbered
  <2> QED
    BY <1>3, <1>5, <1>6, <2>1, <2>2
<1> QED
  BY <1>3, <1>4, <1>7, <1>8 DEF Ordered

LEMMA NextInOrder ==
  ASSUME Base, Payloads, Ordered, [Next]_vars
  PROVE  Ordered'
<1>1. CASE UNCHANGED flow
  <2>1. UNCHANGED <<queue, handled, reader, pending, rx, nUrcs>>
    BY <1>1 DEF flow, urcs
  <2>2. ReceivedInOrder' /\ UrcKinds' /\ \A y : Behind(y) => Behind(y)'
    BY <2>1, ReceivedStays DEF Ordered
  <2>3. UNCHANGED <<Incoming, NextUrc>> /\ IncomingInOrder'
    BY <2>1 DEF Ordered, IncomingInOrder, Incoming, NextUrc, Before, Numbered
  <2> QED
    BY <2>1, <2>2, <2>3 DEF Ordered, PendingNext
<1>2. ASSUME NEW t \in Thread, FlowStep(t), UNCHANGED module
      PROVE  Ordered'
  BY <1>2, ParseInOrder, TakeInOrder, FinishInOrder, OpenInOrder DEF FlowStep
<1> QED
  BY <1>1, <1>2, NextFlow, ModuleInOrder

\* URCs are handled in the order in which the module sent them, each at most
\* once, whatever the threads that receive and process them do, and whatever
\* is lost when the queue is full or the client is closed.
THEOREM UrcsInOrder == Spec => []HandledInOrder
<1>1. Init => Ordered
  <2> SUFFICES ASSUME Init PROVE Ordered
    OBVIOUS
  <2>1. queue = <<>> /\ handled = <<>> /\ rx = <<>> /\ pending = NoUrc
    BY DEF Init, Fifo!Init
  <2> QED
    BY <2>1 DEF Ordered, IncomingInOrder, ReceivedInOrder, HandledFirst, Behind,
                PendingNext, UrcKinds
<1>2. Base /\ Payloads /\ Ordered /\ [Next]_vars => Ordered'
  BY NextInOrder
<1>3. Ordered => HandledInOrder
  <2> SUFFICES ASSUME Ordered,
                      NEW i \in 1 .. Len(handled), NEW j \in 1 .. Len(handled), i < j,
                      handled[i].kind # "rsp", handled[j].kind # "rsp"
               PROVE  handled[i].id < handled[j].id
    BY DEF HandledInOrder
  <2>1. Numbered(handled[i]) /\ Numbered(handled[j])
    BY DEF Ordered, UrcKinds, Numbered
  <2> QED
    BY <2>1 DEF Ordered, ReceivedInOrder, Before
<1> QED
  BY <1>1, <1>2, <1>3, BaseInvariant, PayloadsInvariant, PTL DEF Spec

=============================================================================
