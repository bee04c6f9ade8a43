------------------------------- MODULE MCAtText -------------------------------
(***************************************************************************)
(* What the client reads and writes: the parser of RxParser, step by step, *)
(* and the conversions of AtUtil and AtParams, on one sample per state.    *)
(***************************************************************************)
EXTENDS RxParser, AtParams

CONSTANTS MaxText, MaxListText, EscapeBuf

ASSUME TextAssumption == {MaxText, MaxListText, EscapeBuf} \subseteq Nat

VARIABLE sample   \* what is converted, or that the parser runs

\* Messages of the module: URCs, one too long for the buffer and with a character
\* that is not printed, one with a payload that looks like lines; responses with
\* and without a prefix and data; the end of a command.
Plain(l, f) == [line |-> l, isBinary |-> FALSE, payload |-> <<>>, for |-> f]
Binary(l, p, f) == [line |-> l, isBinary |-> TRUE, payload |-> p, for |-> f]
MCMessages ==
  {Plain(<<PLUS, OK>>, "nobody"),
   Plain(<<PLUS, OK, UNPRINTED, LETTER, LETTER, OK>>, "nobody"),
   Binary(<<PLUS, OK>>, <<EOL, SOH, OK>>, "nobody"),
   Binary(<<PLUS, LETTER>>, <<SOH, UNPRINTED, EOL>>, "query"),
   Plain(<<PLUS, LETTER>>, "query"),
   Binary(<<LETTER>>, <<>>, "query"),
   Plain(<<OK>>, "end")}
MCPrefixes == {<<>>, <<PLUS, LETTER>>}

\* Texts of characters that mean something to the conversions.
Upto(S, n) == UNION {[1 .. k -> S] : k \in 0 .. n}
TextChars == {NUL, Quote, Comma, Zero, 70, BracketOpen, Backslash, BracketClose, 120, 240}
ListChars == {BracketOpen, BracketClose, Comma, 45, 49}
Numbers16 == {-32768, -1, 0, 12, 11308, 32767}

Samples ==
  [kind : {"text"}, value : Upto(TextChars, MaxText) \union Upto(ListChars, MaxListText)]
  \union [kind : {"l"}, value : Upto(Numbers16, 3)]
  \union [kind : {"m"}, value : [1 .. ADDR_LEN -> {0, 10, 171}]]
  \union [kind : {"b"}, value : [type : {"RANDOM", "PUBLIC"},
                                  address : [1 .. ADDR_LEN -> {0, 171}]]]
  \union [kind : {"i"}, value : [type : {"V4"}, numbers : [1 .. 4 -> {0, 9, 10, 255}]]
                                 \union [type : {"V6"},
                                         numbers : [1 .. 8 -> {0, 2571}]]]

MCInit == RxInit /\ sample \in Samples \union {[kind |-> "rx", value |-> <<>>]}
MCNext == RxNext /\ sample.kind = "rx" /\ UNCHANGED sample
MCSpec == MCInit /\ [][MCNext]_<<rxVars, sample>>

-----------------------------------------------------------------------------
(* Properties                                                              *)

\* What a command or a response with these parameters looks like.  A string that
\* does not fit in the buffer of the escaping survives if nothing is to be escaped.
Arrives(str) ==
  WriteEscString(str, EscapeBuf) # <<>>
  \/ \A i \in 1 .. Len(str) : IsPrint(str[i]) /\ str[i] \notin {Quote, Backslash}
TwoStrings(one, two) ==
  LET wire == SendString(one, EscapeBuf) \o <<Comma>> \o SendString(two, EscapeBuf)
  IN  {[text |-> wire, format |-> <<"$", "$">>, values |-> <<one, two>>],
       [text |-> wire, format |-> <<"s", "s">>, values |-> <<CString(one), CString(two)>>]}
Strings(str) ==
  UNION {TwoStrings(SubSeq(str, 1, k), SubSeq(str, k + 1, Len(str))) :
         k \in {n \in 0 .. Len(str) : Arrives(SubSeq(str, 1, n))
                                      /\ Arrives(SubSeq(str, n + 1, Len(str)))}}

Text(v, kind, bufSize) == CASE kind = "l" -> IntListToString(v, bufSize)
                            [] kind = "m" -> MacAddressToString(v, bufSize)
                            [] kind = "b" -> BdAddressToString(v, bufSize)
                            [] kind = "i" -> IpAddressToString(v, bufSize)
BufSize == [l |-> 23, m |-> 13, b |-> 14, i |-> 42]
Parameters ==
  CASE sample.kind = "text" -> Strings(sample.value)
    [] sample.kind \in DOMAIN BufSize ->
         {[text |-> Text(sample.value, sample.kind, BufSize[sample.kind]).value,
           format |-> <<sample.kind>>, values |-> <<sample.value>>]}
    [] OTHER -> {}

\* Parameters survive the way through a line: strings with '$' whatever they
\* contain, lists and addresses in their own type, two in one line apart from
\* each other.  No text is longer than the buffer given for it.
ParametersSurvive ==
  /\ \A p \in Parameters :
       ParseParams(p.text, p.format) = [i \in DOMAIN p.values |-> Valid(p.values[i])]
  /\ sample.kind \in DOMAIN BufSize =>
       \A n \in 0 .. BufSize[sample.kind] :
         \E text \in {Text(sample.value, sample.kind, n)} : text.ok => Len(text.value) < n
  /\ sample.kind = "text" =>
       \A n \in 0 .. EscapeBuf : Len(WriteEscString(sample.value, n)) < n + 1

\* uCxAtUtilFindParamEnd() "will handle escaped characters ('\') and disregards
\* commas inside strings": parameters end at the commas that are not escaped and
\* not in a string or in a list, as counted from the beginning of the line.  One
\* that is not closed has no end.
Escaped(t, i) ==
  LET run == {j \in 1 .. i - 1 : \A k \in j .. i - 1 : t[k] = Backslash}
  IN  Cardinality(run) % 2 = 1
InString(t, i) ==
  Cardinality({j \in 1 .. i - 1 : t[j] = Quote /\ ~Escaped(t, j)}) % 2 = 1
InList(t, i) ==
  LET brackets == {j \in 1 .. i - 1 : /\ t[j] \in {BracketOpen, BracketClose}
                                      /\ ~Escaped(t, j) /\ ~InString(t, j)}
  IN  brackets # {} /\ t[Max(brackets)] = BracketOpen
Outside(t, i) == ~Escaped(t, i) /\ ~InString(t, i) /\ ~InList(t, i)
SplitAsDefined ==
  sample.kind = "text" /\ NUL \notin ToSet(sample.value) =>
    LET t == sample.value
        commas == {i \in 1 .. Len(t) : t[i] = Comma /\ Outside(t, i)}
        end(from) == IF \E i \in commas : i >= from THEN Min({i \in commas : i >= from})
                     ELSE IF Outside(t, Len(t) + 1) THEN Len(t) + 1
                     ELSE 0
    IN  \A from \in {1} \union {i + 1 : i \in commas} : FindParamEnd(t, from) = end(from)

\* A conversion that writes over its own text reads nothing that it has written:
\* strings, byte arrays and lists are what a conversion to another place gives.
InPlaceIsSafe ==
  sample.kind = "text" /\ NUL \notin ToSet(sample.value) =>
    /\ UnescapeString(sample.value, TRUE) = UnescapeString(sample.value, FALSE)
    /\ StringToIntList(sample.value, TRUE) = StringToIntList(sample.value, FALSE)
    /\ ByteArray(sample.value, TRUE) = ByteArray(sample.value, FALSE)
=============================================================================
