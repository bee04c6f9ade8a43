------------------------------ MODULE ApiForms ------------------------------
(***************************************************************************)
(* The shapes of the functions of the generated command API and of their   *)
(* declarations, and the format characters that functions and the client   *)
(* have in common.                                                         *)
(***************************************************************************)
EXTENDS Sequences, TLC

\* What a function does with the client.  A response that has a discriminator
\* is parsed twice: with the probe, and then with the format of its case.
Function(name, form, cmd, args, rsp, probe, cases, callback) ==
  [name |-> name, form |-> form, cmd |-> cmd, args |-> args, rsp |-> rsp,
   probe |-> probe, cases |-> cases, callback |-> callback]

Case(values, format) == [values |-> values, format |-> format]
Only(format) == {Case({}, format)}

Exec(name, cmd, args) == Function(name, "exec", cmd, args, "", <<>>, {}, "")
Query(name, cmd, args, rsp, res) ==
  Function(name, "query", cmd, args, rsp, <<>>, Only(res), "")
\* A query that returns what it parsed, or the length of what it read.
Value(name, cmd, args, rsp, res) ==
  Function(name, "value", cmd, args, rsp, <<>>, Only(res), "")
Read(name, cmd, args, rsp, res) ==
  Function(name, "read", cmd, args, rsp, <<>>, Only(res), "")
\* The command is left open for uCxEnd().
Begin(name, cmd, args, rsp, res) ==
  Function(name, "begin", cmd, args, rsp, <<>>, Only(res), "")
BeginRead(name, cmd, args, rsp, res) ==
  Function(name, "beginRead", cmd, args, rsp, <<>>, Only(res), "")
List(name, cmd, args) == Function(name, "list", cmd, args, "", <<>>, {}, "")
GetNext(name, rsp, res) ==
  Function(name, "getNext", "", <<>>, rsp, <<>>, Only(res), "")
VariantQuery(name, cmd, args, rsp, probe, cases) ==
  Function(name, "variantQuery", cmd, args, rsp, probe, cases, "")
VariantBegin(name, cmd, args, rsp, probe, cases) ==
  Function(name, "variantBegin", cmd, args, rsp, probe, cases, "")
Register(name, callback) ==
  Function(name, "register", "", <<>>, "", <<>>, {}, callback)

\* A URC: how it is parsed, and the callback it is given to.
Urc(name, format, callback) ==
  [name |-> name, format |-> format, callback |-> callback]

\* What the headers say a function returns.
Declaration(name, returns, cmd, ins, outs) ==
  [name |-> name, returns |-> returns, cmd |-> cmd, ins |-> ins, outs |-> outs]

\* 0 on success; an amount on success; a negative value on error.
Status(name, cmd, ins, outs) == Declaration(name, "status", cmd, ins, outs)
Amount(name, cmd, ins, outs) == Declaration(name, "amount", cmd, ins, outs)
\* true on success; must be terminated by calling uCxEnd().
Begun(name, cmd, ins, outs) == Declaration(name, "begun", cmd, ins, outs)
ReadBegun(name, cmd, ins, outs) == Declaration(name, "readBegun", cmd, ins, outs)
Listed(name, cmd, ins) == Declaration(name, "listed", cmd, ins, <<>>)
\* true on success, false when there are no more entries or on error.
NextEntry(name, outs) == Declaration(name, "nextEntry", "", <<>>, outs)
Callback(name, type) == Declaration(name, "callback", type, <<>>, <<>>)

-----------------------------------------------------------------------------
(* uCxAtClientSendCmdVaList() and uCxAtUtilParseParamsVaList()             *)

\* The C type that a format character takes from the argument list when the
\* parameters of a command are written ...
SentTypeSwapped(ch) == CASE ch = "d" -> "int"
                         [] ch = "s" -> "str"
                         [] ch = "i" -> "mac"
                         [] ch = "m" -> "ip"
                         [] ch = "b" -> "bt"
                         [] ch = "l" -> "ints"
                         [] ch = "$" -> "bstr"
                         [] ch \in {"h", "B"} -> "bytes"

SentType(ch) == CASE ch = "d" -> "int"
                  [] ch = "s" -> "str"
                  [] ch = "i" -> "ip"
                  [] ch = "m" -> "mac"
                  [] ch = "b" -> "bt"
                  [] ch = "l" -> "ints"
                  [] ch = "$" -> "bstr"
                  [] ch \in {"h", "B"} -> "bytes"

\* ... and that it writes to when a response is parsed.  A uBinaryString_t and
\* a uByteArray_t have the same layout.
ParsedType(ch) == IF ch = "$" THEN "bytes" ELSE SentType(ch)

\* A string, a list or an array points into the line; the rest is copied.
PointsIntoLine(ch) == ch \in {"s", "$", "l", "h"}

\* '-' skips a parameter.
Written(format) == SelectSeq(format, LAMBDA ch : ch # "-")
=============================================================================
