---------------------------- MODULE UcxApiProofs ----------------------------
(***************************************************************************)
(* The generated command API with any number of threads, calls, entries    *)
(* and faults: who holds cmdMutex, what a function returns and what its    *)
(* results point into.                                                     *)
(***************************************************************************)
EXTENDS UcxApi, TLAPS

-----------------------------------------------------------------------------
(* The invariant                                                           *)

Places == {"idle", "lock", "getRsp", "returned", "end", "done"}
Open == {"getRsp", "returned", "end"}

TypeInv ==
  /\ cmdMutex \in App \cup {NoThread}
  /\ answer \in {"none", "OK", "ERROR"} /\ sent \in Nat
  /\ pc \in [App -> Places] /\ ret \in [App -> Return] /\ end \in [App -> Return]
  /\ result \in [App -> Nat] /\ taken \in [App -> Nat] /\ missed \in [App -> Int]
  /\ call = [t \in App |-> call[t]]
  /\ gaveUp \subseteq App
  /\ nLines \in Nat /\ nFaults \in Nat

\* A probe reads its discriminator or skips it.
Known(b) == IsVariant(b) => b.probed \in {1, 2}

\* Who holds cmdMutex: also who has given up, for good.
Holds(t) ==
  /\ cmdMutex = t <=> pc[t] \in Open \/ t \in gaveUp
  /\ t \in gaveUp => /\ pc[t] \in {"idle", "lock", "done"}
                     /\ pc[t] = "done" => ~IsOpen(call[t])

\* Where the forms of functions lead.
Flow(t) ==
  /\ pc[t] \in {"idle", "lock"} => result[t] = 0 /\ taken[t] = 0
  /\ pc[t] = "getRsp" => call[t].form # "exec" /\ answer = "none"
  /\ pc[t] = "returned" => IsOpen(call[t]) /\ (ret[t] = "ok" => answer = "none")

\* Before the end a function knows what it will return without an error.
Parses(t) ==
  pc[t] = "end" /\ ~IsOpen(call[t]) /\ call[t].form # "exec" =>
    ret[t] \in {"ok", "error"} /\ (ret[t] = "ok" <=> result[t] # 0)
Succeeds(t) ==
  t \notin gaveUp /\ pc[t] = "done" /\ ~IsOpen(call[t]) =>
    (ret[t] = "ok" <=> /\ end[t] = "ok"
                       /\ call[t].form = "exec" \/ result[t] # 0)

Points(t) ==
  pc[t] = "returned" /\ ret[t] = "ok" /\ result[t] # 0 => rxBuffer = result[t]

\* Without a fault every response line is an entry taken, until the status.
Reports(t) ==
  nFaults = 0 /\ call[t].probed # 2 =>
    /\ pc[t] \in {"getRsp", "returned"} => sent = taken[t]
    /\ pc[t] \in {"returned", "end"} /\ IsOpen(call[t]) /\ ret[t] = "error" =>
         \/ answer = "ERROR"
         \/ IsList(call[t]) /\ answer = "OK" /\ sent = taken[t]
    /\ FalseIsReported(t)

ThreadInv(t) ==
  Known(call[t]) /\ Holds(t) /\ Flow(t) /\ Parses(t) /\ Succeeds(t) /\ Points(t) /\ Reports(t)

FreeInv == cmdMutex = NoThread => answer = "none" /\ sent = 0

ApiInv == TypeInv /\ FreeInv /\ \A t \in App : ThreadInv(t)

LEMMA Bounds == NoThread \notin App
BY ApiAssumption DEF ApiAssumption

LEMMA ApiInitially == Init => ApiInv
<1> SUFFICES ASSUME Init PROVE ApiInv
  OBVIOUS
<1>1. TypeInv
  BY DEF Init, TypeInv, Places, Return
<1>2. ASSUME NEW t \in App
      PROVE  ThreadInv(t)
  BY <1>2, Bounds DEF Init, ThreadInv, Known, Holds, Flow, Parses, Succeeds, Points, Reports,
     FalseIsReported, IsVariant, NoCall, Open
<1>3. FreeInv
  BY DEF Init, FreeInv
<1> QED
  BY <1>1, <1>2, <1>3 DEF ApiInv

-----------------------------------------------------------------------------
(* The other threads                                                       *)

\* What a thread relies on: its own state, and the client while it holds cmdMutex.
Undisturbed(u) ==
  /\ UNCHANGED <<pc[u], call[u], ret[u], end[u], result[u], taken[u], missed[u]>>
  /\ u \in gaveUp' <=> u \in gaveUp
  /\ cmdMutex' = u <=> cmdMutex = u
  /\ cmdMutex = u => /\ UNCHANGED <<answer, sent>>
                     /\ rxBuffer' = rxBuffer \/ pc[u] # "returned"
  /\ nFaults' = 0 => nFaults = 0

LEMMA UndisturbedKeeps ==
  ASSUME NEW u \in App, ThreadInv(u), Undisturbed(u)
  PROVE  (ThreadInv(u))'
<1>1. /\ Known(call[u]) /\ Holds(u) /\ Flow(u) /\ Parses(u) /\ Succeeds(u) /\ Points(u)
      /\ Reports(u)
  BY DEF ThreadInv
<1>2. /\ pc'[u] = pc[u] /\ call'[u] = call[u] /\ ret'[u] = ret[u] /\ end'[u] = end[u]
      /\ result'[u] = result[u] /\ taken'[u] = taken[u] /\ missed'[u] = missed[u]
      /\ u \in gaveUp' <=> u \in gaveUp
      /\ cmdMutex' = u <=> cmdMutex = u
      /\ nFaults' = 0 => nFaults = 0
  BY DEF Undisturbed
<1>3. pc[u] \in Open => /\ answer' = answer /\ sent' = sent
                        /\ rxBuffer' = rxBuffer \/ pc[u] # "returned"
  BY <1>1 DEF Undisturbed, Holds
<1>4. Known(call'[u])
  BY <1>1, <1>2
<1>5. (Holds(u))'
  BY <1>1, <1>2 DEF Holds, IsOpen
<1>6. (Flow(u))'
  BY <1>1, <1>2, <1>3 DEF Flow, IsOpen, Open
<1>7. (Parses(u))' /\ (Succeeds(u))'
  BY <1>1, <1>2 DEF Parses, Succeeds, IsOpen
<1>8. (Points(u))'
  BY <1>1, <1>2, <1>3 DEF Points, Open
<1>9. (Reports(u))'
  BY <1>1, <1>2, <1>3 DEF Reports, FalseIsReported, IsOpen, IsList, Open
<1> QED
  BY <1>4, <1>5, <1>6, <1>7, <1>8, <1>9 DEF ThreadInv

\* A step in which one thread uses the client leaves the others alone.
OwnStep(t) == (\E b \in Commands[product] : Call(t, b)) \/ CmdBeginF(t) \/ Step(t)

LEMMA OthersKeep ==
  ASSUME ApiInv, NEW t \in App, NEW u \in App, u # t, OwnStep(t)
  PROVE  (ThreadInv(u))'
<1>1. /\ pc \in [App -> Places] /\ ret \in [App -> Return] /\ end \in [App -> Return]
      /\ result \in [App -> Nat] /\ taken \in [App -> Nat] /\ missed \in [App -> Int]
      /\ call = [x \in App |-> call[x]] /\ nFaults \in Nat
      /\ ThreadInv(u) /\ Holds(t)
  BY DEF ApiInv, TypeInv, ThreadInv
<1>2. UNCHANGED <<pc[u], call[u], ret[u], end[u], result[u], taken[u], missed[u]>>
  <2>1. CASE \E b \in Commands[product] : Call(t, b)
    BY <1>1, <2>1 DEF Call, Goto, Set
  <2>2. CASE CmdBeginF(t) \/ NoResponse(t) \/ ResponseTimeout(t) \/ IgnoredLine(t)
    BY <1>1, <2>2 DEF CmdBeginF, NoResponse, ResponseTimeout, IgnoredLine, GotResponse, Goto,
       Set, caller
  <2>3. ASSUME NEW line, ResponseLine(t, line)
        PROVE  UNCHANGED <<pc[u], call[u], ret[u], end[u], result[u], taken[u], missed[u]>>
    BY <1>1, <2>3 DEF ResponseLine, GotResponse, Goto, Set
  <2>4. CASE CmdEnd(t) \/ CallGetNext(t) \/ CallEnd(t) \/ Finish(t)
    BY <1>1, <2>4 DEF CmdEnd, CallGetNext, CallEnd, Finish, Goto, Set
  <2> QED
    BY <2>1, <2>2, <2>3, <2>4 DEF OwnStep, Step
<1>3. u \in gaveUp' <=> u \in gaveUp
  BY DEF OwnStep, Step, Call, CmdBeginF, ResponseLine, NoResponse, ResponseTimeout,
     IgnoredLine, CmdEnd, CallGetNext, CallEnd, Finish, GotResponse, caller
<1>4. nFaults' = 0 => nFaults = 0
  <2>1. nFaults' = nFaults \/ nFaults' = nFaults + 1
    BY DEF OwnStep, Step, Call, CmdBeginF, ResponseLine, NoResponse, ResponseTimeout,
       IgnoredLine, CmdEnd, CallGetNext, CallEnd, Finish, Fault
  <2> QED
    BY <1>1, <2>1
<1>5. \/ cmdMutex = t /\ cmdMutex' \in {t, NoThread}
      \/ cmdMutex = NoThread /\ cmdMutex' = t
      \/ UNCHANGED client
  <2>1. CASE (\E b \in Commands[product] : Call(t, b)) \/ CallGetNext(t) \/ CallEnd(t)
             \/ Finish(t)
    BY <2>1 DEF Call, CallGetNext, CallEnd, Finish
  <2>2. CASE CmdBeginF(t)
    BY <2>2 DEF CmdBeginF
  <2>3. CASE CmdEnd(t)
    BY <2>3 DEF CmdEnd
  <2>4. CASE \/ \E line \in {"parsed", "bad", "unknown"} : ResponseLine(t, line)
             \/ NoResponse(t) \/ ResponseTimeout(t) \/ IgnoredLine(t)
    <3>1. pc[t] \in Open /\ cmdMutex' = cmdMutex
      BY <2>4 DEF ResponseLine, NoResponse, ResponseTimeout, IgnoredLine, Open, client
    <3> QED
      BY <1>1, <3>1 DEF Holds
  <2> QED
    BY <2>1, <2>2, <2>3, <2>4 DEF OwnStep, Step
<1>6. Undisturbed(u)
  BY <1>2, <1>3, <1>4, <1>5, Bounds DEF Undisturbed, client
<1> QED
  BY <1>1, <1>6, UndisturbedKeeps

-----------------------------------------------------------------------------
(* The thread that steps                                                   *)

LEMMA BehaviourShape ==
  ASSUME NEW p \in Product, NEW b \in Commands[p]
  PROVE  b = [form |-> b.form, returns |-> b.returns, sendsDeclared |-> b.sendsDeclared,
              fillsDeclared |-> b.fillsDeclared, pointers |-> b.pointers,
              probed |-> b.probed, takesUrc |-> b.takesUrc]
BY DEF Commands, Behaviour

LEMMA CallKeeps ==
  ASSUME ApiInv, product \in Product, NEW t \in App, NEW b \in Commands[product], Call(t, b)
  PROVE  (ThreadInv(t))' /\ TypeInv' /\ FreeInv'
<1>1. /\ pc \in [App -> Places] /\ call = [x \in App |-> call[x]] /\ ThreadInv(t) /\ TypeInv
      /\ FreeInv
  BY DEF ApiInv, TypeInv
<1>2. Known(b)
  BY TableAssumption DEF TableAssumption, Known
<1>3. /\ pc[t] = "idle" /\ pc' = [pc EXCEPT ![t] = "lock"]
      /\ UNCHANGED <<client, ret, end, result, taken, missed, gaveUp, nLines, nFaults>>
  BY DEF Call, Goto
<1>4. PICK c : call' = [call EXCEPT ![t] = c] /\ Known(c)
  <2>1. CASE ~IsList(b)
    BY <1>2, <2>1 DEF Call, Set
  <2>2. CASE IsList(b)
    <3>1. PICK e \in Entries[product] :
            call' = [call EXCEPT ![t] = [b EXCEPT !.pointers = e.pointers,
                                                  !.fillsDeclared = e.fillsDeclared,
                                                  !.takesUrc = e.takesUrc]]
      BY <2>2 DEF Call, Set
    <3> DEFINE c == [b EXCEPT !.pointers = e.pointers, !.fillsDeclared = e.fillsDeclared,
                              !.takesUrc = e.takesUrc]
    <3>2. c.form = b.form
      BY BehaviourShape
    <3>3. Known(c)
      BY <1>2, <2>2, <3>2 DEF Known, IsList, IsVariant
    <3> QED
      BY <3>1, <3>3
  <2> QED
    BY <2>1, <2>2
<1>5. pc'[t] = "lock" /\ Known(call'[t])
  BY <1>1, <1>3, <1>4
<1>6. (ThreadInv(t))'
  BY <1>1, <1>3, <1>5
     DEF ThreadInv, Holds, Flow, Parses, Succeeds, Points, Reports, FalseIsReported, client,
     Open
<1>7. TypeInv'
  BY <1>1, <1>3, <1>4 DEF TypeInv, client, Places
<1>8. FreeInv'
  BY <1>1, <1>3 DEF FreeInv, client
<1> QED
  BY <1>6, <1>7, <1>8

LEMMA BeginKeeps ==
  ASSUME ApiInv, NEW t \in App, CmdBeginF(t)
  PROVE  (ThreadInv(t))' /\ TypeInv' /\ FreeInv'
<1>1. /\ pc \in [App -> Places] /\ ret \in [App -> Return] /\ ThreadInv(t) /\ TypeInv
      /\ FreeInv
  BY DEF ApiInv, TypeInv
<1> DEFINE where == CASE call[t].form = "exec" -> "end"
                      [] call[t].form = "list" -> "returned"
                      [] OTHER -> "getRsp"
           r == IF IsList(call[t]) THEN "ok" ELSE "none"
<1>2. /\ pc[t] = "lock" /\ pc' = [pc EXCEPT ![t] = where] /\ ret' = [ret EXCEPT ![t] = r]
      /\ cmdMutex = NoThread /\ cmdMutex' = t
      /\ UNCHANGED <<answer, sent, rxBuffer, call, end, result, taken, missed, gaveUp,
                     nLines, nFaults>>
  BY DEF CmdBeginF, Goto, Set
<1>3. pc'[t] = where /\ ret'[t] = r
  BY <1>1, <1>2
<1>4. result[t] = 0 /\ taken[t] = 0 /\ t \notin gaveUp /\ answer = "none" /\ sent = 0
  BY <1>1, <1>2, Bounds DEF ThreadInv, Flow, Holds, FreeInv
<1>5. (Holds(t))' /\ (Flow(t))' /\ (Points(t))'
  BY <1>1, <1>2, <1>3, <1>4 DEF Holds, Flow, Points, Open, IsOpen
<1>6. (Parses(t))' /\ (Succeeds(t))'
  BY <1>2, <1>3 DEF Parses, Succeeds
<1>7. (Reports(t))'
  BY <1>2, <1>3, <1>4 DEF Reports, FalseIsReported, IsList, IsOpen
<1>8. (ThreadInv(t))'
  BY <1>1, <1>2, <1>5, <1>6, <1>7 DEF ThreadInv
<1>9. TypeInv'
  BY <1>1, <1>2 DEF TypeInv, Places, Return
<1>10. FreeInv'
  BY <1>2, Bounds DEF FreeInv
<1> QED
  BY <1>8, <1>9, <1>10

\* What a function has returned or will, for a response line.
LEMMA ParsedFacts ==
  ASSUME NEW b, NEW line, Known(b)
  PROVE  /\ Parsed(b, line) \in {"ok", "error"}
         /\ line = "none" /\ Parsed(b, line) = "ok" => b.form = "variantQuery" /\ GivesUp(b, line)
         /\ line = "parsed" /\ Parsed(b, line) = "error" => b.probed = 2
         /\ AfterResponse(b, line) =
              IF IsOpen(b) THEN "returned"
              ELSE IF b.form = "variantQuery" /\ GivesUp(b, line) THEN "done" ELSE "end"
         /\ GivesUp(b, line) => b.form = "variantQuery" \/ IsOpen(b)
BY DEF Parsed, GivesUp, AfterResponse, IsOpen, IsVariant, Known

LEMMA GotResponseFacts ==
  ASSUME ApiInv, NEW t \in App, NEW line, pc[t] = "getRsp", GotResponse(t, line)
  PROVE  /\ ret' = [ret EXCEPT ![t] = Parsed(call[t], line)]
         /\ ret'[t] = Parsed(call[t], line) /\ ret'[t] \in {"ok", "error"}
         /\ pc'[t] = IF IsOpen(call[t]) THEN "returned"
                     ELSE IF call[t].form = "variantQuery" /\ GivesUp(call[t], line)
                          THEN "done" ELSE "end"
         /\ pc' \in [App -> Places] /\ ret' \in [App -> Return]
         /\ gaveUp' = IF call[t].form = "variantQuery" /\ GivesUp(call[t], line)
                      THEN gaveUp \cup {t} ELSE gaveUp
         /\ t \notin gaveUp /\ cmdMutex = t /\ call[t].form # "exec"
<1>1. /\ pc \in [App -> Places] /\ ret \in [App -> Return] /\ Known(call[t])
      /\ Holds(t) /\ Flow(t)
  BY DEF ApiInv, TypeInv, ThreadInv
<1>2. Parsed(call[t], line) \in {"ok", "error"}
  BY <1>1, ParsedFacts
<1>3. /\ ret' = [ret EXCEPT ![t] = Parsed(call[t], line)]
      /\ pc' = [pc EXCEPT ![t] = AfterResponse(call[t], line)]
      /\ gaveUp' = IF call[t].form = "variantQuery" /\ GivesUp(call[t], line)
                   THEN gaveUp \cup {t} ELSE gaveUp
  BY DEF GotResponse, Goto, Set
<1>4. AfterResponse(call[t], line) =
        IF IsOpen(call[t]) THEN "returned"
        ELSE IF call[t].form = "variantQuery" /\ GivesUp(call[t], line) THEN "done" ELSE "end"
  BY <1>1, ParsedFacts
<1>5. AfterResponse(call[t], line) \in Places
  BY <1>4 DEF Places
<1>6. t \notin gaveUp /\ cmdMutex = t /\ call[t].form # "exec"
  BY <1>1 DEF Holds, Flow, Open
<1> QED
  BY <1>1, <1>2, <1>3, <1>4, <1>5, <1>6 DEF Return

\* Who gives up keeps cmdMutex, and has not begun anything.
LEMMA GotResponseHolds ==
  ASSUME ApiInv, NEW t \in App, NEW line, pc[t] = "getRsp", GotResponse(t, line),
         UNCHANGED <<cmdMutex, call>>
  PROVE  (Holds(t))' /\ (Known(call[t]))' /\ (t \in gaveUp' <=> pc'[t] = "done")
         /\ gaveUp' \subseteq App
<1>1. Known(call[t]) /\ gaveUp \subseteq App
  BY DEF ApiInv, ThreadInv, TypeInv
<1>2. call[t].form = "variantQuery" => ~IsOpen(call[t])
  BY DEF IsOpen
<1>3. t \in gaveUp' <=> pc'[t] = "done"
  BY <1>2, GotResponseFacts
<1>4. gaveUp' \subseteq App
  BY <1>1, GotResponseFacts
<1>5. (Holds(t))'
  BY <1>2, <1>3, GotResponseFacts DEF Holds, Open
<1> QED
  BY <1>1, <1>3, <1>4, <1>5

LEMMA ResponseKeeps ==
  ASSUME ApiInv, NEW t \in App, NEW line \in {"parsed", "bad", "unknown"},
         ResponseLine(t, line)
  PROVE  (ThreadInv(t))' /\ TypeInv' /\ FreeInv'
<1> DEFINE p == Parsed(call[t], line)
           gone == GivesUp(call[t], line)
           res == IF p = "ok" /\ ~gone THEN nLines + 1 ELSE 0
<1>1. /\ pc[t] = "getRsp" /\ answer = "none" /\ GotResponse(t, line)
      /\ IF line = "parsed" THEN nFaults' = nFaults ELSE nFaults' = nFaults + 1
      /\ sent' = sent + 1 /\ nLines' = nLines + 1 /\ rxBuffer' = nLines + 1
      /\ result' = [result EXCEPT ![t] = res]
      /\ taken' = IF p = "ok" THEN [taken EXCEPT ![t] = taken[t] + 1] ELSE taken
      /\ UNCHANGED <<cmdMutex, answer, call, end, missed>>
  BY DEF ResponseLine, Set, Fault
<1>2. /\ TypeInv /\ ThreadInv(t) /\ nLines \in Nat /\ nFaults \in Nat /\ sent \in Nat
      /\ result \in [App -> Nat] /\ taken \in [App -> Nat]
  BY DEF ApiInv, TypeInv
<1>3. /\ ret' = [ret EXCEPT ![t] = p]
      /\ ret'[t] = p /\ p \in {"ok", "error"}
      /\ pc'[t] = IF IsOpen(call[t]) THEN "returned"
                  ELSE IF call[t].form = "variantQuery" /\ gone THEN "done" ELSE "end"
      /\ pc' \in [App -> Places] /\ ret' \in [App -> Return]
      /\ cmdMutex = t
  BY <1>1, GotResponseFacts
<1>4. (Holds(t))' /\ (Known(call[t]))' /\ (t \in gaveUp' <=> pc'[t] = "done")
      /\ gaveUp' \subseteq App
  BY <1>1, GotResponseHolds
<1>5. /\ line = "parsed" /\ p = "error" => call[t].probed = 2
      /\ gone => call[t].form = "variantQuery" \/ IsOpen(call[t])
  BY <1>2, ParsedFacts DEF ThreadInv
<1> HIDE DEF p, gone
<1>6. /\ res \in Nat /\ result'[t] = res /\ result' \in [App -> Nat]
      /\ taken' \in [App -> Nat] /\ (p = "ok" => taken'[t] = taken[t] + 1)
  BY <1>1, <1>2
<1>7. (Flow(t))' /\ (Points(t))'
  BY <1>1, <1>2, <1>3, <1>6 DEF Flow, Points
<1>8. (Parses(t))' /\ (Succeeds(t))'
  BY <1>1, <1>2, <1>3, <1>4, <1>5, <1>6 DEF Parses, Succeeds
<1>9. (Reports(t))'
  <2>1. nFaults' = 0 => line = "parsed" /\ nFaults = 0
    BY <1>1, <1>2
  <2>2. nFaults' = 0 /\ call'[t].probed # 2 => p = "ok"
    BY <1>1, <1>3, <1>5, <2>1
  <2>3. nFaults' = 0 /\ call'[t].probed # 2 => sent' = taken'[t]
    BY <1>1, <1>2, <1>6, <2>1, <2>2 DEF ThreadInv, Reports
  <2> QED
    BY <1>3, <2>2, <2>3 DEF Reports, FalseIsReported
<1>10. (ThreadInv(t))'
  BY <1>4, <1>7, <1>8, <1>9 DEF ThreadInv
<1>11. TypeInv'
  <2>1. nFaults' \in Nat /\ nLines' \in Nat /\ sent' \in Nat
    BY <1>1, <1>2
  <2> QED
    BY <1>1, <1>2, <1>3, <1>4, <1>6, <2>1 DEF TypeInv
<1>12. FreeInv'
  BY <1>1, <1>3, Bounds DEF FreeInv
<1> QED
  BY <1>10, <1>11, <1>12

\* The status instead of a response, or nothing in time
LEMMA NoResponseKeeps ==
  ASSUME ApiInv, NEW t \in App, NoResponse(t) \/ ResponseTimeout(t)
  PROVE  (ThreadInv(t))' /\ TypeInv' /\ FreeInv'
<1> DEFINE p == Parsed(call[t], "none")
           gone == GivesUp(call[t], "none")
<1>1. /\ TypeInv /\ ThreadInv(t) /\ nFaults \in Nat /\ result \in [App -> Nat]
  BY DEF ApiInv, TypeInv
<1>2. pc[t] = "getRsp" /\ answer = "none"
  BY <1>1 DEF NoResponse, ResponseTimeout, ThreadInv, Flow
<1>3. /\ GotResponse(t, "none")
      /\ result' = [result EXCEPT ![t] = 0]
      /\ UNCHANGED <<cmdMutex, sent, call, end, taken, missed, nLines>>
      /\ answer' \in {"none", "OK", "ERROR"}
      /\ nFaults' = nFaults \/ nFaults' = nFaults + 1
      /\ nFaults' = nFaults => answer' = "ERROR" \/ (answer' = "OK" /\ IsList(call[t]))
  <2>1. CASE NoResponse(t)
    BY <1>1, <1>2, <2>1 DEF NoResponse, Set, Fault
  <2>2. CASE ResponseTimeout(t)
    BY <1>1, <1>2, <2>2 DEF ResponseTimeout, Set, Fault, client
  <2> QED
    BY <2>1, <2>2
<1>4. /\ ret' = [ret EXCEPT ![t] = p]
      /\ ret'[t] = p /\ p \in {"ok", "error"}
      /\ pc'[t] = IF IsOpen(call[t]) THEN "returned"
                  ELSE IF call[t].form = "variantQuery" /\ gone THEN "done" ELSE "end"
      /\ pc' \in [App -> Places] /\ ret' \in [App -> Return]
      /\ cmdMutex = t
  BY <1>2, <1>3, GotResponseFacts
<1>5. (Holds(t))' /\ (Known(call[t]))' /\ (t \in gaveUp' <=> pc'[t] = "done")
      /\ gaveUp' \subseteq App
  BY <1>2, <1>3, GotResponseHolds
<1>6. p = "ok" => pc'[t] = "done"
  <2>1. p = "ok" => call[t].form = "variantQuery" /\ gone
    BY <1>1, ParsedFacts DEF ThreadInv
  <2>2. call[t].form = "variantQuery" => ~IsOpen(call[t])
    BY DEF IsOpen
  <2> QED
    BY <1>4, <2>1, <2>2
<1> HIDE DEF p, gone
<1>7. result'[t] = 0 /\ result' \in [App -> Nat]
  BY <1>1, <1>3
<1>8. (Flow(t))' /\ (Points(t))'
  BY <1>3, <1>4, <1>6, <1>7 DEF Flow, Points
<1>9. (Parses(t))' /\ (Succeeds(t))'
  BY <1>3, <1>4, <1>5, <1>6, <1>7 DEF Parses, Succeeds
<1>10. (Reports(t))'
  <2>1. nFaults' = 0 => nFaults' = nFaults
    BY <1>1, <1>3
  <2>2. nFaults = 0 /\ call[t].probed # 2 => sent = taken[t]
    BY <1>1, <1>2 DEF ThreadInv, Reports
  <2>3. pc'[t] = "done" => ~IsOpen(call'[t])
    BY <1>3, <1>4
  <2> QED
    BY <1>3, <1>4, <2>1, <2>2, <2>3 DEF Reports, FalseIsReported
<1>11. (ThreadInv(t))'
  BY <1>5, <1>8, <1>9, <1>10 DEF ThreadInv
<1>12. TypeInv'
  <2>1. nFaults' \in Nat
    BY <1>1, <1>3
  <2> QED
    BY <1>1, <1>3, <1>4, <1>5, <1>7, <2>1 DEF TypeInv
<1>13. FreeInv'
  BY <1>3, <1>4, Bounds DEF FreeInv
<1> QED
  BY <1>11, <1>12, <1>13

LEMMA IgnoredKeeps ==
  ASSUME ApiInv, NEW t \in App, IgnoredLine(t)
  PROVE  (ThreadInv(t))' /\ TypeInv' /\ FreeInv'
<1>1. /\ TypeInv /\ ThreadInv(t) /\ sent \in Nat /\ nLines \in Nat
  BY DEF ApiInv, TypeInv
<1>2. /\ pc[t] = "end" /\ IsList(call[t]) /\ answer = "none"
      /\ sent' = sent + 1 /\ nLines' = nLines + 1
      /\ UNCHANGED <<cmdMutex, answer, pc, call, ret, end, result, taken, missed, gaveUp,
                     nFaults>>
  BY DEF IgnoredLine, caller
<1>3. cmdMutex = t
  BY <1>1, <1>2 DEF ThreadInv, Holds, Open
<1>4. (Holds(t))' /\ (Flow(t))' /\ (Points(t))' /\ (Known(call[t]))'
  BY <1>1, <1>2 DEF ThreadInv, Holds, Flow, Points, IsOpen
<1>5. (Parses(t))' /\ (Succeeds(t))'
  BY <1>1, <1>2 DEF ThreadInv, Parses, Succeeds, IsOpen
<1>6. (Reports(t))'
  BY <1>1, <1>2 DEF ThreadInv, Reports, FalseIsReported, IsOpen, IsList
<1>7. (ThreadInv(t))'
  BY <1>4, <1>5, <1>6 DEF ThreadInv
<1>8. TypeInv'
  <2>1. sent' \in Nat /\ nLines' \in Nat
    BY <1>1, <1>2
  <2> QED
    BY <1>1, <1>2, <2>1 DEF TypeInv
<1>9. FreeInv'
  BY <1>2, <1>3, Bounds DEF FreeInv
<1> QED
  BY <1>7, <1>8, <1>9

LEMMA CmdEndKeeps ==
  ASSUME ApiInv, NEW t \in App, CmdEnd(t)
  PROVE  (ThreadInv(t))' /\ TypeInv' /\ FreeInv'
<1>1. /\ TypeInv /\ ThreadInv(t) /\ nFaults \in Nat /\ sent \in Nat
      /\ pc \in [App -> Places] /\ ret \in [App -> Return] /\ end \in [App -> Return]
      /\ missed \in [App -> Int] /\ taken \in [App -> Nat]
  BY DEF ApiInv, TypeInv
<1>2. PICK status : /\ end' = [end EXCEPT ![t] = StatusOf(status)]
                    /\ answer # "none" => status = answer
                    /\ IF status = "none" THEN nFaults' = nFaults + 1 ELSE nFaults' = nFaults
  BY DEF CmdEnd, Set, Fault
<1> DEFINE e == StatusOf(status)
           r == FinalReturn(call[t], ret[t], e)
<1>3. e \in {"ok", "error"} /\ (e = "ok" <=> status = "OK")
  BY DEF StatusOf
<1>4. end'[t] = e /\ end' \in [App -> Return]
  BY <1>1, <1>2, <1>3 DEF Return
<1>5. /\ pc[t] = "end" /\ cmdMutex = t /\ cmdMutex' = NoThread
      /\ pc' = [pc EXCEPT ![t] = "done"]
      /\ ret' = [ret EXCEPT ![t] = r]
      /\ missed' = [missed EXCEPT ![t] = sent - taken[t]]
      /\ answer' = "none" /\ sent' = 0
      /\ UNCHANGED <<call, result, taken, gaveUp, nLines>>
  BY <1>4 DEF CmdEnd, Goto, Set
<1>6. t \notin gaveUp /\ pc'[t] = "done" /\ ret'[t] = r /\ missed'[t] = sent - taken[t]
  BY <1>1, <1>5 DEF ThreadInv, Holds
<1>7. r = IF IsOpen(call[t]) THEN ret[t]
          ELSE IF call[t].form = "exec" \/ ret[t] = "ok" THEN e ELSE ret[t]
  BY DEF FinalReturn
<1> HIDE DEF e, r
<1>8. (Holds(t))' /\ (Flow(t))' /\ (Points(t))' /\ (Known(call[t]))' /\ (Parses(t))'
  BY <1>1, <1>5, <1>6, Bounds DEF ThreadInv, Holds, Flow, Points, Parses, Open
<1>9. (Succeeds(t))'
  <2> SUFFICES ASSUME ~IsOpen(call[t])
               PROVE  r = "ok" <=> /\ e = "ok"
                                   /\ call[t].form = "exec" \/ result[t] # 0
    BY <1>4, <1>5, <1>6 DEF Succeeds, IsOpen
  <2>1. call[t].form # "exec" =>
          ret[t] \in {"ok", "error"} /\ (ret[t] = "ok" <=> result[t] # 0)
    BY <1>1, <1>5 DEF ThreadInv, Parses
  <2> QED
    BY <1>3, <1>7, <2>1
<1>10. (Reports(t))'
  <2> SUFFICES ASSUME nFaults' = 0, call[t].probed # 2, IsOpen(call[t]), r = "error", e = "ok"
               PROVE  IsList(call[t]) /\ missed'[t] = 0
    BY <1>4, <1>5, <1>6 DEF Reports, FalseIsReported, IsOpen, IsList
  <2>1. nFaults = 0 /\ ret[t] = "error"
    BY <1>1, <1>2, <1>7
  <2>2. \/ answer = "ERROR"
        \/ IsList(call[t]) /\ answer = "OK" /\ sent = taken[t]
    BY <1>1, <1>5, <2>1 DEF ThreadInv, Reports
  <2>3. answer # "ERROR"
    BY <1>2, <1>3
  <2> QED
    BY <1>1, <1>6, <2>2, <2>3
<1>11. (ThreadInv(t))'
  BY <1>8, <1>9, <1>10 DEF ThreadInv
<1>12. TypeInv'
  <2>1. r \in Return
    BY <1>1, <1>3, <1>7 DEF Return
  <2>2. nFaults' \in Nat /\ sent - taken[t] \in Int
    BY <1>1, <1>2
  <2>3. pc' \in [App -> Places] /\ ret' \in [App -> Return] /\ missed' \in [App -> Int]
    BY <1>1, <1>5, <2>1, <2>2 DEF Places
  <2> QED
    BY <1>1, <1>4, <1>5, <2>2, <2>3 DEF TypeInv
<1>13. FreeInv'
  BY <1>5 DEF FreeInv
<1> QED
  BY <1>11, <1>12, <1>13

\* The caller goes on with a list, ends what was begun, or is through.
LEMMA CallerKeeps ==
  ASSUME ApiInv, NEW t \in App, CallGetNext(t) \/ CallEnd(t) \/ Finish(t)
  PROVE  (ThreadInv(t))' /\ TypeInv' /\ FreeInv'
<1>1. /\ TypeInv /\ FreeInv /\ ThreadInv(t)
      /\ pc \in [App -> Places] /\ ret \in [App -> Return] /\ end \in [App -> Return]
      /\ result \in [App -> Nat] /\ missed \in [App -> Int] /\ taken \in [App -> Nat]
      /\ call = [x \in App |-> call[x]]
  BY DEF ApiInv, TypeInv
<1>2. CASE CallGetNext(t)
  <2>1. /\ pc[t] = "returned" /\ IsList(call[t]) /\ ret[t] = "ok"
        /\ pc' = [pc EXCEPT ![t] = "getRsp"]
        /\ UNCHANGED <<client, call, ret, end, result, taken, missed, gaveUp, nLines, nFaults>>
    BY <1>2 DEF CallGetNext, Goto
  <2>2. pc'[t] = "getRsp"
    BY <1>1, <2>1
  <2>3. (ThreadInv(t))'
    BY <1>1, <2>1, <2>2
       DEF ThreadInv, Holds, Flow, Parses, Succeeds, Points, Reports, FalseIsReported, client,
       Open, IsOpen, IsList
  <2> QED
    BY <1>1, <2>1, <2>3 DEF TypeInv, FreeInv, client, Places
<1>3. CASE CallEnd(t)
  <2>1. /\ pc[t] = "returned" /\ pc' = [pc EXCEPT ![t] = "end"]
        /\ UNCHANGED <<client, call, ret, end, result, taken, missed, gaveUp, nLines, nFaults>>
    BY <1>3 DEF CallEnd, Goto
  <2>2. pc'[t] = "end"
    BY <1>1, <2>1
  <2>3. (ThreadInv(t))'
    BY <1>1, <2>1, <2>2
       DEF ThreadInv, Holds, Flow, Parses, Succeeds, Points, Reports, FalseIsReported, client,
       Open, IsOpen, IsList
  <2> QED
    BY <1>1, <2>1, <2>3 DEF TypeInv, FreeInv, client, Places
<1>4. CASE Finish(t)
  <2>1. /\ pc[t] = "done" /\ pc' = [pc EXCEPT ![t] = "idle"]
        /\ call' = [call EXCEPT ![t] = NoCall]
        /\ ret' = [ret EXCEPT ![t] = "none"] /\ end' = [end EXCEPT ![t] = "none"]
        /\ result' = [result EXCEPT ![t] = 0] /\ taken' = [taken EXCEPT ![t] = 0]
        /\ missed' = [missed EXCEPT ![t] = 0]
        /\ UNCHANGED <<client, gaveUp, nLines, nFaults>>
    BY <1>4 DEF Finish, Goto, Set
  <2>2. pc'[t] = "idle" /\ call'[t] = NoCall /\ result'[t] = 0 /\ taken'[t] = 0
    BY <1>1, <2>1
  <2>3. Known(NoCall)
    BY DEF Known, NoCall, IsVariant
  <2>4. (ThreadInv(t))'
    BY <1>1, <2>1, <2>2, <2>3
       DEF ThreadInv, Holds, Flow, Parses, Succeeds, Points, Reports, FalseIsReported, client,
       Open
  <2>5. TypeInv'
    <3>1. pc' \in [App -> Places] /\ ret' \in [App -> Return] /\ end' \in [App -> Return]
      BY <1>1, <2>1 DEF Places, Return
    <3>2. result' \in [App -> Nat] /\ taken' \in [App -> Nat] /\ missed' \in [App -> Int]
      BY <1>1, <2>1
    <3>3. call' = [x \in App |-> call'[x]]
      BY <1>1, <2>1
    <3> QED
      BY <1>1, <2>1, <3>1, <3>2, <3>3 DEF TypeInv, client
  <2> QED
    BY <1>1, <2>1, <2>4, <2>5 DEF FreeInv, client
<1> QED
  BY <1>2, <1>3, <1>4

-----------------------------------------------------------------------------
(* URCs                                                                    *)

\* A URC is received while no thread has results to read.
LEMMA UrcKeepsThreads ==
  ASSUME ApiInv, Urc_
  PROVE  ApiInv'
<1>1. TypeInv /\ FreeInv /\ nFaults \in Nat
  BY DEF ApiInv, TypeInv
<1>2. /\ UNCHANGED <<cmdMutex, answer, sent, caller, nLines>>
      /\ nFaults' = nFaults \/ nFaults' = nFaults + 1
  BY DEF Urc_, UrcReceived, UrcParse, UrcCallback, Fault, client
<1>3. \/ rxBuffer' = rxBuffer
      \/ cmdMutex = NoThread
      \/ \E t \in App : cmdMutex = t /\ pc[t] \in {"getRsp", "end"}
  BY DEF Urc_, UrcReceived, UrcParse, UrcCallback, client, WorkerReceives
<1>4. ASSUME NEW u \in App
      PROVE  (ThreadInv(u))'
  <2>1. Undisturbed(u)
    BY <1>1, <1>2, <1>3, Bounds DEF Undisturbed, caller
  <2> QED
    BY <2>1, UndisturbedKeeps DEF ApiInv
<1>5. TypeInv' /\ FreeInv'
  <2>1. nFaults' \in Nat
    BY <1>1, <1>2
  <2> QED
    BY <1>1, <1>2, <2>1 DEF TypeInv, FreeInv, caller
<1> QED
  BY <1>4, <1>5 DEF ApiInv

ProductInv == product \in Product

LEMMA NextApi == ApiInv /\ ProductInv /\ [Next]_vars => ApiInv' /\ ProductInv'
<1> SUFFICES ASSUME ApiInv, product \in Product, [Next]_vars
             PROVE  ApiInv' /\ ProductInv'
  BY DEF ProductInv
<1>1. ProductInv'
  BY DEF ProductInv, Next, Call, RegisterCallback, CmdBeginF, Step, ResponseLine, NoResponse,
     ResponseTimeout, IgnoredLine, CmdEnd, CallGetNext, CallEnd, Finish, Urc_, UrcReceived,
     UrcParse, UrcCallback, vars
<1>2. ASSUME NEW t \in App, OwnStep(t)
      PROVE  ApiInv'
  <2>1. (ThreadInv(t))' /\ TypeInv' /\ FreeInv'
    BY <1>2, CallKeeps, BeginKeeps, ResponseKeeps, NoResponseKeeps, IgnoredKeeps, CmdEndKeeps,
       CallerKeeps DEF OwnStep, Step
  <2>2. ASSUME NEW u \in App
        PROVE  (ThreadInv(u))'
    BY <1>2, <2>1, <2>2, OthersKeep
  <2> QED
    BY <2>1, <2>2 DEF ApiInv
<1>3. ASSUME Urc_
      PROVE  ApiInv'
  BY <1>3, UrcKeepsThreads
<1>4. ASSUME \/ \E t \in App, callback \in BOOLEAN : RegisterCallback(t, callback)
             \/ UNCHANGED vars
      PROVE  ApiInv'
  <2>1. UNCHANGED <<client, caller, nLines, nFaults>>
    BY <1>4 DEF RegisterCallback, vars
  <2>2. TypeInv' /\ FreeInv'
    BY <2>1 DEF ApiInv, TypeInv, FreeInv, client, caller
  <2>3. ASSUME NEW u \in App
        PROVE  (ThreadInv(u))'
    <3>1. Undisturbed(u)
      BY <2>1 DEF Undisturbed, client, caller
    <3> QED
      BY <3>1, UndisturbedKeeps DEF ApiInv
  <2> QED
    BY <2>2, <2>3 DEF ApiInv
<1> QED
  BY <1>1, <1>2, <1>3, <1>4 DEF Next, OwnStep

LEMMA ApiInvariant == Spec => []ApiInv
<1>1. Init => ApiInv /\ ProductInv
  BY ApiInitially DEF Init, ProductInv
<1> QED
  BY <1>1, NextApi, PTL DEF Spec

\* Who holds cmdMutex is in the middle of a function, and who is there holds it:
\* only a function with a discriminator that returns false keeps it.
THEOREM LockIsBalanced == Spec => []LockBalanced
<1>1. ApiInv => LockBalanced
  BY DEF ApiInv, ThreadInv, Holds, Open, LockBalanced
<1> QED
  BY <1>1, ApiInvariant, PTL

\* A function returns success exactly when its results were parsed from a response
\* and the module answered OK.
THEOREM SuccessMeansAnswered == Spec => []SuccessIsAnswered
<1>1. ApiInv => SuccessIsAnswered
  BY DEF ApiInv, ThreadInv, Succeeds, SuccessIsAnswered
<1> QED
  BY <1>1, ApiInvariant, PTL

\* What a Begin or a GetNext has given to the caller is not overwritten before
\* uCxEnd() or the next GetNext().
THEOREM PointersStayIntact == Spec => []PointersIntact
<1>1. ApiInv => PointersIntact
  BY DEF ApiInv, ThreadInv, Points, PointersIntact
<1> QED
  BY <1>1, ApiInvariant, PTL

\* When a Begin or a GetNext returns false, uCxEnd() returns the error, or there
\* are no more entries, as long as each response comes and parses.
THEOREM ModuleErrorsAreReported == Spec => []ErrorsOfModuleAreReported
<1>1. ApiInv => ErrorsOfModuleAreReported
  BY DEF ApiInv, ThreadInv, Reports, ErrorsOfModuleAreReported
<1> QED
  BY <1>1, ApiInvariant, PTL
=============================================================================
