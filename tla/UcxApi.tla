------------------------------- MODULE UcxApi -------------------------------
(***************************************************************************)
(* The generated command API over the AT client: threads of the            *)
(* application that call its functions as the headers say, the module that *)
(* answers, and a worker that receives URCs in between.                    *)
(*                                                                         *)
(* The functions and declarations are the tables of Calls* and Decls*.     *)
(* Functions that differ in nothing that matters here act alike and are    *)
(* one behaviour.  The client is the one of AtClient, in larger steps: who *)
(* holds cmdMutex, what the current command has been answered, and which   *)
(* line is in the RX buffer, into which the results of a response point.   *)
(***************************************************************************)
EXTENDS Integers, Sequences, ApiForms

CONSTANTS
  App,          \* the threads that call the API
  NoThread,     \* a mutex that is free
  ShortEnums,   \* TRUE: the compiler gives an enum the smallest type it fits
  MaxCalls,     \* bound: functions called
  MaxEntries,   \* bound: response lines of one command
  MaxFaults,    \* bound: timeouts, missing and malformed responses
  MaxUrcs       \* bound: URCs sent by the module

ASSUME ApiAssumption ==
  /\ NoThread \notin App
  /\ ShortEnums \in BOOLEAN
  /\ {MaxCalls, MaxEntries, MaxFaults, MaxUrcs} \subseteq Nat

CallsW == INSTANCE CallsW36X
CallsB == INSTANCE CallsB26X
DeclsW == INSTANCE DeclsW36X
DeclsB == INSTANCE DeclsB26X

\* The application is built for one of the products.
Product == {"W36X", "B26X"}
Api == [W36X |-> [calls |-> CallsW!Calls, urcs |-> CallsW!Urcs,
                  parser |-> CallsW!UrcParser, decls |-> DeclsW!Decls,
                  structs |-> DeclsW!Structs, enums |-> DeclsW!Enums,
                  callbacks |-> DeclsW!CallbackTypes],
        B26X |-> [calls |-> CallsB!Calls, urcs |-> CallsB!Urcs,
                  parser |-> CallsB!UrcParser, decls |-> DeclsB!Decls,
                  structs |-> DeclsB!Structs, enums |-> DeclsB!Enums,
                  callbacks |-> DeclsB!CallbackTypes]]

-----------------------------------------------------------------------------
(* From the tables to behaviours                                           *)

\* An enum is passed as an int; a pointer to one is a pointer to an int only
\* when the compiler gives it that size.
Passed(type, enums) == IF type \in DOMAIN enums THEN "int" ELSE type
Pointed(type, enums) ==
  IF type \notin DOMAIN enums THEN type
  ELSE IF ShortEnums /\ enums[type] < 65536 THEN "short enum" ELSE "int"

SendsDeclared(c, d, enums) ==
  /\ c.cmd = d.cmd
  /\ [i \in DOMAIN c.args |-> SentType(c.args[i])] =
       [i \in DOMAIN d.ins |-> Passed(d.ins[i], enums)]

\* What the response is parsed into, per case, and what the caller gave for it:
\* a structure, which may be a union of cases, or a pointer per result.
ParsedTypes(c) ==
  {LET w == Written(k.format) IN [i \in DOMAIN w |-> ParsedType(w[i])] : k \in c.cases}
ResultTypes(c, d, api) ==
  LET outs == SelectSeq(d.outs, LAMBDA type : type # "buffer") IN
  IF c.form = "value" THEN {<<"int">>}
  ELSE IF c.cases = {} THEN {}
  ELSE IF Len(outs) = 1 /\ outs[1] \in DOMAIN api.structs
       THEN {[i \in DOMAIN fields |-> Pointed(fields[i], api.enums)] :
               fields \in api.structs[outs[1]]}
       ELSE {[i \in DOMAIN outs |-> Pointed(outs[i], api.enums)]}

\* The declaration of a function; GetNext has the one of the entry.
DeclarationOf(c, decls) ==
  CHOOSE d \in decls : d.name = c.name /\ (c.form = "getNext") = (d.returns = "nextEntry")

Behaviour(c, api) ==
  LET d == DeclarationOf(c, api.decls) IN
  [form |-> c.form,
   returns |-> d.returns,
   sendsDeclared |-> SendsDeclared(c, d, api.enums),
   fillsDeclared |-> ParsedTypes(c) = ResultTypes(c, d, api),
   pointers |-> \E k \in c.cases : \E i \in DOMAIN k.format : PointsIntoLine(k.format[i]),
   probed |-> Len(c.probe),
   takesUrc |-> c.rsp \in {"+" \o u \o ":" : u \in DOMAIN api.parser}]

Commands ==
  [p \in Product |->
     {Behaviour(c, Api[p]) :
        c \in {f \in Api[p].calls : f.form \notin {"getNext", "register"}}}]
Entries ==
  [p \in Product |->
     {Behaviour(c, Api[p]) : c \in {f \in Api[p].calls : f.form = "getNext"}}]

\* urcCallback() and uCxUrcParse(): where the name of a URC leads, and whether
\* the callback gets what its type says.
UrcParserOfAnother(u, api) == CHOOSE x \in api.urcs : x.name # api.parser[u]
UrcParserOf(u, api) == CHOOSE x \in api.urcs : x.name = api.parser[u]
Channel(u, api) ==
  [dispatched |-> u \in DOMAIN api.parser /\ UrcParserOf(u, api).callback = u,
   registers |-> \E c \in api.calls :
                   /\ c.form = "register" /\ c.callback = u
                   /\ DeclarationOf(c, api.decls).cmd = u,
   typed |-> LET format == UrcParserOf(u, api).format IN
             [i \in DOMAIN format |-> ParsedType(format[i])] =
               [i \in DOMAIN api.callbacks[u] |-> Passed(api.callbacks[u][i], api.enums)]]
Channels == [p \in Product |-> {Channel(u, Api[p]) : u \in DOMAIN Api[p].callbacks}]

-----------------------------------------------------------------------------

VARIABLES
  product,     \* the product that the application is built for
  cmdMutex,
  answer,      \* the status line of the current command, "none" before it
  sent,        \* the response lines that the module sent for it
  rxBuffer,    \* the response line that is in the RX buffer, 0 for another line
  pc,          \* where each thread is
  call,        \* the function each thread is in
  ret,         \* what it returned, or will
  end,         \* what uCxAtClientCmdEnd() returned
  result,      \* the line that the results were parsed from, 0 for none
  taken,       \* the entries that the caller of a list was given
  missed,      \* the entries that it was not given
  gaveUp,      \* history: threads that left a function without its end
  registered,  \* whether the application has registered its callbacks
  urcs,        \* the URCs in the queue
  urcPc,       \* where the processing of the first of them is
  delivered,   \* what became of the last URC
  nHandled,    \* history: URCs processed
  nLines, nCalls, nFaults, nUrcs

client == <<cmdMutex, answer, sent, rxBuffer>>
caller == <<pc, call, ret, end, result, taken, missed, gaveUp>>
urcState == <<registered, urcs, urcPc, delivered, nHandled, nUrcs>>
vars == <<product, client, caller, urcState, nLines, nCalls, nFaults>>

NoCall == [form |-> "none", returns |-> "none", sendsDeclared |-> TRUE,
           fillsDeclared |-> TRUE, pointers |-> FALSE, probed |-> 0,
           takesUrc |-> FALSE]

Return == {"none", "ok", "error"}

\* uCxInit(): no callback is registered.
Init ==
  /\ product \in Product
  /\ cmdMutex = NoThread
  /\ answer = "none"
  /\ sent = 0
  /\ rxBuffer = 0
  /\ pc = [t \in App |-> "idle"]
  /\ call = [t \in App |-> NoCall]
  /\ ret = [t \in App |-> "none"]
  /\ end = [t \in App |-> "none"]
  /\ result = [t \in App |-> 0]
  /\ taken = [t \in App |-> 0]
  /\ missed = [t \in App |-> 0]
  /\ gaveUp = {}
  /\ registered = FALSE
  /\ urcs = <<>>
  /\ urcPc = "idle"
  /\ delivered = "none"
  /\ nHandled = 0
  /\ nLines = 0 /\ nCalls = 0 /\ nFaults = 0 /\ nUrcs = 0

Goto(t, where) == pc' = [pc EXCEPT ![t] = where]
Set(f, t, value) == [f EXCEPT ![t] = value]
Fault == nFaults < MaxFaults /\ nFaults' = nFaults + 1
IsList(b) == b.form = "list"
IsVariant(b) == b.form \in {"variantQuery", "variantBegin"}
\* uCxEnd() is left to the caller.
IsOpen(b) == b.form \in {"begin", "beginRead", "variantBegin", "list"}

\* What the tables of both products say: a probe reads the discriminator of the
\* response, or skips it and reads on.
ASSUME TableAssumption ==
  \A p \in Product : \A b \in Commands[p] : IsVariant(b) => b.probed \in {1, 2}

-----------------------------------------------------------------------------
(* What the functions do                                                   *)

\* The application calls a function.  A list is a Begin and a GetNext.
Call(t, b) ==
  /\ pc[t] = "idle"
  /\ nCalls < MaxCalls
  /\ nCalls' = nCalls + 1
  /\ IF IsList(b)
     THEN \E e \in Entries[product] :
            call' = Set(call, t, [b EXCEPT !.pointers = e.pointers,
                                           !.fillsDeclared = e.fillsDeclared,
                                           !.takesUrc = e.takesUrc])
     ELSE call' = Set(call, t, b)
  /\ Goto(t, "lock")
  /\ UNCHANGED <<product, client, ret, end, result, taken, missed, gaveUp, urcState,
                 nLines, nFaults>>

\* uCxAtClientCmdBeginF(): the function waits for cmdMutex and sends its
\* command.  What comes next is up to its form; the Begin of a list returns.
CmdBeginF(t) ==
  /\ pc[t] = "lock"
  /\ cmdMutex = NoThread
  /\ cmdMutex' = t
  /\ ret' = Set(ret, t, IF IsList(call[t]) THEN "ok" ELSE "none")
  /\ Goto(t, CASE call[t].form = "exec" -> "end"
               [] call[t].form = "list" -> "returned"
               [] OTHER -> "getRsp")
  /\ UNCHANGED <<product, answer, sent, rxBuffer, call, end, result, taken, missed,
                 gaveUp, urcState, nLines, nCalls, nFaults>>

\* A function with a discriminator gives up when the probe does not parse
\* exactly one parameter, or the switch has no case for it: "return false".
GivesUp(b, line) == IsVariant(b) /\ (b.probed # 1 \/ line \in {"none", "unknown"})

\* What a function returns for a response line, or for none.
Parsed(b, line) ==
  IF GivesUp(b, line) THEN IF b.form = "variantQuery" THEN "ok" ELSE "error"
  ELSE IF line = "parsed" THEN "ok" ELSE "error"

AfterResponseEarlyReturn(b, line) ==
  CASE IsOpen(b) -> "returned"
    [] ~IsOpen(b) /\ (GivesUp(b, line) \/ Parsed(b, line) = "error") -> "done"
    [] OTHER -> "end"
AfterResponse(b, line) ==
  CASE IsOpen(b) -> "returned"
    [] b.form = "variantQuery" /\ GivesUp(b, line) -> "done"
    [] OTHER -> "end"

GotResponse(t, line) ==
  /\ ret' = Set(ret, t, Parsed(call[t], line))
  /\ Goto(t, AfterResponse(call[t], line))
  /\ gaveUp' = IF call[t].form = "variantQuery" /\ GivesUp(call[t], line)
               THEN gaveUp \cup {t} ELSE gaveUp

\* uCxAtClientCmdGetRspParamsF(), or ...ParamLine() and two times
\* uCxAtUtilParseParamsF(): a line parses, also when it has fewer parameters
\* than the format, or it does not.
ResponseLine(t, line) ==
  /\ pc[t] = "getRsp"
  /\ answer = "none"
  /\ sent < IF IsList(call[t]) THEN MaxEntries ELSE 1
  /\ IF line = "parsed" THEN UNCHANGED nFaults ELSE Fault
  /\ line = "unknown" => IsVariant(call[t])
  /\ sent' = sent + 1
  /\ nLines' = nLines + 1
  /\ rxBuffer' = nLines + 1
  /\ GotResponse(t, line)
  /\ result' = Set(result, t, IF Parsed(call[t], line) = "ok" /\ ~GivesUp(call[t], line)
                              THEN nLines + 1 ELSE 0)
  /\ taken' = IF Parsed(call[t], line) = "ok" THEN Set(taken, t, taken[t] + 1) ELSE taken
  /\ UNCHANGED <<product, cmdMutex, answer, call, end, missed, urcState, nCalls>>

\* The status comes instead of a response line, or has come already ...
NoResponse(t) ==
  /\ pc[t] = "getRsp"
  /\ IF answer = "none"
     THEN /\ answer' \in {"OK", "ERROR"}
          /\ rxBuffer' = 0
          /\ IF answer' = "OK" /\ ~IsList(call[t]) THEN Fault ELSE UNCHANGED nFaults
     ELSE UNCHANGED <<answer, rxBuffer, nFaults>>
  /\ GotResponse(t, "none")
  /\ result' = Set(result, t, 0)
  /\ UNCHANGED <<product, cmdMutex, sent, call, end, taken, missed, urcState, nLines,
                 nCalls>>

\* ... or nothing does in time.
ResponseTimeout(t) ==
  /\ pc[t] = "getRsp"
  /\ answer = "none"
  /\ Fault
  /\ GotResponse(t, "none")
  /\ result' = Set(result, t, 0)
  /\ UNCHANGED <<product, client, call, end, taken, missed, urcState, nLines, nCalls>>

\* While the status is waited for, further response lines are ignored.
IgnoredLine(t) ==
  /\ pc[t] = "end"
  /\ IsList(call[t])
  /\ answer = "none"
  /\ sent < MaxEntries
  /\ sent' = sent + 1
  /\ nLines' = nLines + 1
  /\ rxBuffer' = nLines + 1
  /\ UNCHANGED <<product, cmdMutex, answer, caller, urcState, nCalls, nFaults>>

\* What is returned in the end: the error of the response comes first.  A
\* function that is ended by uCxEnd() has returned before.
FinalReturnOfEnd(b, r, e) == IF IsOpen(b) THEN r ELSE e
FinalReturn(b, r, e) ==
  IF IsOpen(b) THEN r ELSE IF b.form = "exec" \/ r = "ok" THEN e ELSE r

StatusOfAnyLine(a) == IF a = "none" THEN "error" ELSE "ok"
StatusOf(a) == IF a = "OK" THEN "ok" ELSE "error"

\* uCxAtClientCmdEnd(): waits for the status and releases cmdMutex.
CmdEnd(t) ==
  /\ pc[t] = "end"
  /\ cmdMutex = t
  /\ cmdMutex' = NoThread
  /\ rxBuffer' = 0
  /\ \E status \in IF answer = "none" THEN {"OK", "ERROR", "none"} ELSE {answer} :
       /\ end' = Set(end, t, StatusOf(status))
       /\ IF status = "none" THEN Fault ELSE UNCHANGED nFaults
  /\ ret' = Set(ret, t, FinalReturn(call[t], ret[t], end'[t]))
  /\ missed' = Set(missed, t, sent - taken[t])
  /\ answer' = "none" /\ sent' = 0
  /\ Goto(t, "done")
  /\ UNCHANGED <<product, call, result, taken, gaveUp, urcState, nLines, nCalls>>

\* The caller of a Begin: it asks for the next entry while there was one, and
\* calls uCxEnd() whatever the Begin returned, perhaps before the last entry.
CallGetNext(t) ==
  /\ pc[t] = "returned"
  /\ IsList(call[t])
  /\ ret[t] = "ok"
  /\ Goto(t, "getRsp")
  /\ UNCHANGED <<product, client, call, ret, end, result, taken, missed, gaveUp,
                 urcState, nLines, nCalls, nFaults>>

CallEnd(t) ==
  /\ pc[t] = "returned"
  /\ Goto(t, "end")
  /\ UNCHANGED <<product, client, call, ret, end, result, taken, missed, gaveUp,
                 urcState, nLines, nCalls, nFaults>>

\* The caller is through with what it called.
Finish(t) ==
  /\ pc[t] = "done"
  /\ Goto(t, "idle")
  /\ call' = Set(call, t, NoCall)
  /\ ret' = Set(ret, t, "none")
  /\ end' = Set(end, t, "none")
  /\ result' = Set(result, t, 0)
  /\ taken' = Set(taken, t, 0)
  /\ missed' = Set(missed, t, 0)
  /\ UNCHANGED <<product, client, gaveUp, urcState, nLines, nCalls, nFaults>>

Step(t) == \/ \E line \in {"parsed", "bad", "unknown"} : ResponseLine(t, line)
           \/ NoResponse(t)
           \/ ResponseTimeout(t)
           \/ IgnoredLine(t)
           \/ CmdEnd(t)
           \/ CallGetNext(t)
           \/ CallEnd(t)
           \/ Finish(t)

-----------------------------------------------------------------------------
(* URCs                                                                    *)

\* A Register function sets the callback of the handle, without a lock; NULL
\* unregisters it.
RegisterCallback(t, callback) ==
  /\ pc[t] = "idle"
  /\ nCalls < MaxCalls
  /\ nCalls' = nCalls + 1
  /\ registered' = callback
  /\ UNCHANGED <<product, client, caller, urcs, urcPc, delivered, nHandled, nUrcs,
                 nLines, nFaults>>

\* A URC is received by whoever reads: the worker between two commands, or the
\* thread that waits in one.  It is overwritten in the RX buffer when it has
\* been put in the queue.
WorkerReceivesInCommand(k) == TRUE
WorkerReceives(k) == cmdMutex = NoThread

AnyLineIsResponse(t) == TRUE
IsResponse(t) == call[t].takesUrc

UrcReceived(k) ==
  /\ nUrcs < MaxUrcs
  /\ nUrcs' = nUrcs + 1
  /\ WorkerReceives(k) \/ \E t \in App : cmdMutex = t /\ pc[t] \in {"getRsp", "end"}
  /\ urcs' = IF \E t \in App : pc[t] = "getRsp" /\ IsResponse(t)
             THEN urcs ELSE Append(urcs, k)
  /\ rxBuffer' = 0
  /\ UNCHANGED <<product, cmdMutex, answer, sent, caller, registered, urcPc,
                 delivered, nHandled, nLines, nCalls, nFaults>>

Handled(what) ==
  /\ urcs' = Tail(urcs)
  /\ urcPc' = "idle"
  /\ delivered' = what
  /\ nHandled' = nHandled + 1

\* urcCallback() and the parse function that uCxUrcParse() finds: when the
\* parameters parse and the callback is set ...
UrcParse(ok) ==
  /\ urcs # <<>>
  /\ urcPc = "idle"
  /\ IF ok THEN UNCHANGED nFaults ELSE Fault
  /\ IF ok /\ registered /\ Head(urcs).dispatched /\ Head(urcs).registers
     THEN urcPc' = "call" /\ UNCHANGED <<urcs, delivered, nHandled>>
     ELSE Handled(IF ok THEN "unregistered" ELSE "malformed")
  /\ UNCHANGED <<product, client, caller, registered, nLines, nCalls, nUrcs>>

\* ... it is called.  Whether it is read once or twice is up to the compiler.
UrcCallback ==
  /\ urcPc = "call"
  /\ \/ Handled("callback")
     \/ ~registered /\ Handled("null")
  /\ UNCHANGED <<product, client, caller, registered, nLines, nCalls, nFaults, nUrcs>>

Urc_ == \/ \E k \in Channels[product] : UrcReceived(k)
        \/ \E ok \in BOOLEAN : UrcParse(ok)
        \/ UrcCallback

Next == \/ \E t \in App : \/ \E b \in Commands[product] : Call(t, b)
                          \/ \E callback \in BOOLEAN : RegisterCallback(t, callback)
                          \/ CmdBeginF(t)
                          \/ Step(t)
        \/ Urc_

Spec == Init /\ [][Next]_vars

-----------------------------------------------------------------------------
(* Properties                                                              *)

\* A function sends the command of its documentation with the parameters of
\* its prototype, and every result is parsed into memory of the type that the
\* format writes: 397 and 198 functions of u_cx_*.c against u_cx_*.h and
\* u_cx_types.h.  It does not hold for ShortEnums.
AsDeclared == \A t \in App : /\ call[t].sendsDeclared
                             /\ result[t] # 0 => call[t].fillsDeclared

\* "Always call uCxAtClientCmdEnd() even if any previous function failed": a
\* thread holds cmdMutex from the first line of a function to its end or to
\* uCxEnd(), on every path but those of the functions with a discriminator
\* that return false.
LockBalanced ==
  \A t \in App \ gaveUp : cmdMutex = t <=> pc[t] \in {"getRsp", "returned", "end"}

\* "Each call to uCxAtClientCmdBeginF() must always be terminated with a call
\* to uCxAtClientCmdEnd()": a function that is not a Begin has released
\* cmdMutex when it returns.
LockReturned == \A t \in App : pc[t] \in {"idle", "done"} => cmdMutex # t

\* A function returns success when its results were parsed from a response and
\* the module answered OK, and only then: neither the error of the response nor
\* that of the status is lost.
SuccessIsAnswered ==
  \A t \in App \ gaveUp :
    pc[t] = "done" /\ ~IsOpen(call[t]) =>
      (ret[t] = "ok" <=> /\ end[t] = "ok"
                         /\ call[t].form = "exec" \/ result[t] # 0)

\* The strings, lists and arrays that a Begin or a GetNext has given to the
\* caller point into the RX buffer.  They stay until uCxEnd() or the next
\* GetNext(): that is what a Begin keeps cmdMutex for.
PointersIntact ==
  \A t \in App : pc[t] = "returned" /\ call[t].pointers /\ ret[t] = "ok" /\ result[t] # 0
                   => rxBuffer = result[t]

\* "True on success, false when there are no more entries or on error (uCxEnd()
\* will return error code in this case)": whoever reads until false and then
\* gets 0 from uCxEnd() has all entries, and false from a Begin is an error of
\* uCxEnd() ...
FalseIsReported(t) ==
  pc[t] = "done" /\ IsOpen(call[t]) /\ ret[t] = "error" /\ end[t] = "ok" =>
    IsList(call[t]) /\ missed[t] = 0
ErrorsAreReported == \A t \in App : FalseIsReported(t)

\* ... as long as each response comes in time, parses, and has no
\* discriminator that is read with "-d".
ErrorsOfModuleAreReported ==
  nFaults = 0 => \A t \in App : call[t].probed # 2 => FalseIsReported(t)

\* Every URC that the module sends reaches urcCallback(), in the queue or done:
\* no function expects a response that has the name of a URC.
NoUrcTaken == nUrcs = nHandled + Len(urcs)

\* A URC whose parameters parse is given to the callback of its own name that
\* was registered, with the parameters that the type of the callback says.
CallbackGetsUrc ==
  [][nHandled' > nHandled /\ nFaults' = nFaults /\ registered /\ Head(urcs).registers
     => delivered' = "callback" /\ Head(urcs).typed]_vars
=============================================================================
