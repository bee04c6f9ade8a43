------------------------------ MODULE AtParams ------------------------------
(***************************************************************************)
(* u_cx_at_params.c, the addresses and integer lists of AT parameters, and *)
(* uCxAtUtilParseParamsVaList(), which takes a line of parameters apart.   *)
(***************************************************************************)
EXTENDS AtUtil

ADDR_LEN == 6              \* U_MAC_ADDR_LEN and U_BD_ADDR_LEN
IPV6_DIGIT_COUNT == 8
INT16 == -32768 .. 32767

Invalid == [ok |-> FALSE]
Valid(value) == [ok |-> TRUE, value |-> value]

\* Decimal digits, with a sign.
Digits[n \in Nat] == IF n < 10 THEN <<Zero + n>> ELSE Append(Digits[n \div 10], Zero + (n % 10))
Decimal(n) == IF n < 0 THEN <<45>> \o Digits[-n] ELSE Digits[n]

\* strtol(), of text without blanks: the value, and where it ends.  A base of 16
\* is used without a sign.
DigitsEnd(text, first, base) ==
  Min({i \in first .. Len(text) + 1 : hexToNibble[CharAt(text, i)] \notin 0 .. base - 1})
DigitsValue(text, first, n, base) ==
  LET value[k \in 0 .. n] ==
        IF k = 0 THEN 0 ELSE base * value[k - 1] + hexToNibble[text[first + k - 1]]
  IN  value[n]
Strtol(text, from, base) ==
  LET sign == CharAt(text, from)
      first == IF base = 10 /\ sign \in {43, 45} THEN from + 1 ELSE from
      end == DigitsEnd(text, first, base)
      value == DigitsValue(text, first, end - first, base)
  IN  [value |-> IF sign = 45 THEN -value ELSE value,
       end |-> IF end = first THEN from ELSE end]

-----------------------------------------------------------------------------
(* Addresses                                                                *)

StringToMacAddress(text) ==
  LET address == HexToBinary(text, ADDR_LEN)
  IN  IF Len(text) = 2 * ADDR_LEN /\ Len(address) = ADDR_LEN THEN Valid(address) ELSE Invalid

MacAddressToString(mac, bufSize) ==
  LET text == BinaryToHex(mac, bufSize, FALSE) IN IF text = <<>> THEN Invalid ELSE Valid(text)

\* A Bluetooth address is followed by 'r' (random) or 'p' (public).
findBdAddressType(text) ==
  IF Last(text) = 114 THEN "RANDOM"
  ELSE IF Last(text) = 112 \/ Len(text) = 2 * ADDR_LEN THEN "PUBLIC"
  ELSE "none"

\* The text is not empty: the code reads the character before it then.
StringToBdAddress(text) ==
  LET address == HexToBinary(text, ADDR_LEN)
  IN  IF findBdAddressType(text) # "none" /\ Len(address) = ADDR_LEN
      THEN Valid([type |-> findBdAddressType(text), address |-> address]) ELSE Invalid

BdAddressToString(bd, bufSize) ==
  IF bufSize < 2 * ADDR_LEN + 2 THEN Invalid
  ELSE Valid(Append(BinaryToHex(bd.address, bufSize, FALSE),
                    IF bd.type = "RANDOM" THEN 114 ELSE 112))

\* The numbers of an IP address, in network order: decimal ones have digits, a
\* hexadecimal one may be empty.
IsNumber(text, from, number, base) ==
  /\ from \in DOMAIN text
  /\ IF base = 10 THEN text[from] \in 48 .. 57 /\ number.value <= 255
     ELSE number.end - from <= 4
NumberNext(text, count, base, separator, st, i) ==
  LET number == Strtol(text, st.pos, base)
      after == IF number.end \in DOMAIN text THEN text[number.end] ELSE NUL
  IN  IF st.ok /\ IsNumber(text, st.pos, number, base) /\ (i < count => after = separator)
      THEN [ok |-> TRUE, numbers |-> Append(st.numbers, number.value),
            pos |-> IF i < count THEN number.end + 1 ELSE number.end]
      ELSE [st EXCEPT !.ok = FALSE]
Numbers(text, from, count, base, separator) ==
  LET upto[i \in 0 .. count] ==
        IF i = 0 THEN [ok |-> TRUE, numbers |-> <<>>, pos |-> from]
        ELSE NumberNext(text, count, base, separator, upto[i - 1], i)
  IN  upto[count]

ipv4StringToIpAddress(text) ==
  LET st == Numbers(text, 1, 4, 10, 46)
  IN  IF st.ok /\ st.pos = Len(text) + 1
      THEN Valid([type |-> "V4", numbers |-> st.numbers]) ELSE Invalid

\* Brackets come in pairs.
ipv6StringToIpAddress(text) ==
  LET block == text # <<>> /\ text[1] = BracketOpen
      st == Numbers(text, IF block THEN 2 ELSE 1, IPV6_DIGIT_COUNT, 16, 58)
      rest == SubSeq(text, st.pos, Len(text))
  IN  IF st.ok /\ rest = (IF block THEN <<BracketClose>> ELSE <<>>)
      THEN Valid([type |-> "V6", numbers |-> st.numbers]) ELSE Invalid

StringToIpAddress(text) ==
  IF 46 \in ToSet(text) THEN ipv4StringToIpAddress(text) ELSE ipv6StringToIpAddress(text)

Joined(texts, separator) ==
  FlattenSeq([i \in 1 .. Len(texts) |->
                IF i = 1 THEN texts[i] ELSE <<separator>> \o texts[i]])

Hex4(n) == LET hex == ByteToHex(n \div 256) \o ByteToHex(n % 256)
               lower(c) == IF c > 57 THEN c + 32 ELSE c
           IN  [k \in 1 .. 4 |-> lower(hex[k])]

IpAddressToString(ip, bufSize) ==
  LET text == IF ip.type = "V4"
              THEN Joined([i \in 1 .. 4 |-> Decimal(ip.numbers[i])], 46)
              ELSE <<BracketOpen>>
                   \o Joined([i \in 1 .. IPV6_DIGIT_COUNT |-> Hex4(ip.numbers[i])], 58)
                   \o <<BracketClose>>
  IN  IF Len(text) >= bufSize THEN Invalid ELSE Valid(text)

-----------------------------------------------------------------------------
(* Integer lists                                                            *)

IntListToString(list, bufSize) ==
  LET begun(i) == Len(<<BracketOpen>> \o Joined([k \in 1 .. i |-> Decimal(list[k])], Comma))
  IN  IF bufSize < 3 \/ \E i \in 1 .. Len(list) : begun(i) >= bufSize - 1 THEN Invalid
      ELSE Valid(<<BracketOpen>>
                 \o Joined([k \in 1 .. Len(list) |-> Decimal(list[k])], Comma)
                 \o <<BracketClose>>)

\* An int16_t in memory, from its first byte.
ElementSizeOfInt == 4
ElementSize == 2
LowHigh(n) == [i \in 1 .. ElementSize |-> CASE i = 1 -> n % 256
                                             [] i = 2 -> (n % 65536) \div 256
                                             [] OTHER -> 0]
Int16(mem, at) == LET n == mem[at] + 256 * mem[at + 1] IN IF n > 32767 THEN n - 65536 ELSE n

\* uCxStringToIntList(): the values are put where the text is.
ListNext(memory, inPlace, count, st, i) ==
  LET number == Strtol(IF inPlace THEN st.mem ELSE memory, st.pos, 10)
      mem == Write(st.mem, ElementSize * (i - 1) + 1, LowHigh(number.value))
      after == (IF inPlace THEN mem ELSE memory)[number.end]
  IN  IF st.ok /\ number.end # st.pos /\ number.value \in INT16 /\ (i < count => after = Comma)
      THEN [ok |-> TRUE, mem |-> mem,
            pos |-> IF i < count THEN number.end + 1 ELSE number.end]
      ELSE [st EXCEPT !.ok = FALSE]
ListOf(memory, inPlace, count) ==
  LET upto[i \in 0 .. count] == IF i = 0 THEN [ok |-> TRUE, mem |-> memory, pos |-> 2]
                                 ELSE ListNext(memory, inPlace, count, upto[i - 1], i)
  IN  upto[count]
StringToIntList(text, inPlace) ==
  LET memory == text \o <<NUL>>
      count == 1 + Cardinality({i \in 2 .. Len(text) - 1 : text[i] = Comma})
      st == ListOf(memory, inPlace, count)
  IN  IF Len(text) >= 2 /\ text[1] = BracketOpen /\ text[2] = BracketClose THEN Valid(<<>>)
      ELSE IF /\ Len(text) >= 3 /\ text[1] = BracketOpen
              /\ st.ok /\ (IF inPlace THEN st.mem ELSE memory)[st.pos] = BracketClose
      THEN Valid([i \in 1 .. count |-> Int16(st.mem, ElementSize * (i - 1) + 1)])
      ELSE Invalid

-----------------------------------------------------------------------------
(* uCxAtUtilParseParamsVaList()                                             *)

\* 'h': bytes that are put where their hex digits are.
ByteNext(text, inPlace, st, i) ==
  LET from == IF inPlace THEN st.mem ELSE text
      byte == HexToByte(from[2 * i - 1], from[2 * i])
  IN  IF st.ok /\ byte >= 0 THEN [st EXCEPT !.mem[i] = byte] ELSE [st EXCEPT !.ok = FALSE]
BytesOf(text, inPlace, n) ==
  LET upto[i \in 0 .. n] == IF i = 0 THEN [ok |-> TRUE, mem |-> text]
                            ELSE ByteNext(text, inPlace, upto[i - 1], i)
  IN  upto[n]
ByteArray(text, inPlace) ==
  LET n == Len(text) \div 2
      st == BytesOf(text, inPlace, n)
  IN  IF Len(text) % 2 = 0 /\ st.ok THEN Valid(SubSeq(st.mem, 1, n)) ELSE Invalid

\* 's' and '$' without their quotes; 's' ends at the first NUL.
Unquoted(text) ==
  IF text = <<>> \/ text[1] # Quote THEN text ELSE SubSeq(text, 2, Len(text) - 1)
UnquotedBinary(text) ==
  IF text = <<>> \/ text[1] # Quote THEN text
  ELSE IF Len(text) > 1 /\ Last(text) = Quote THEN SubSeq(text, 2, Len(text) - 1)
  ELSE Tail(text)

IntegerParam(text) ==
  LET number == Strtol(text, 1, 10)
  IN  IF text # <<>> /\ text[1] \in {45} \union 48 .. 57 /\ number.end = Len(text) + 1
      THEN Valid(number.value) ELSE Invalid

Value(type, text) ==
  CASE type = "-" -> Valid(text)
    [] type = "d" -> IntegerParam(text)
    [] type = "s" -> Valid(CString(UnescapeString(Unquoted(text), TRUE)))
    [] type = "$" -> Valid(UnescapeString(UnquotedBinary(text), TRUE))
    [] type = "i" -> StringToIpAddress(text)
    [] type = "m" -> StringToMacAddress(text)
    [] type = "b" -> StringToBdAddress(text)
    [] type = "l" -> StringToIntList(text, TRUE)
    [] type = "h" -> ByteArray(text, TRUE)

\* What is read, up to the parameter that is wrong.  The code returns how many they
\* are, with a minus when the last one is wrong.
ParseNext(text, st, type) ==
  LET end == FindParamEnd(text, st.pos) IN
  IF st.done \/ \E i \in DOMAIN st.read : ~st.read[i].ok THEN st
  ELSE [read |-> Append(st.read, IF end = 0 THEN Invalid
                                 ELSE Value(type, SubSeq(text, st.pos, end - 1))),
        done |-> end \in {0, Len(text) + 1},
        pos |-> end + 1]
ParseParams(text, format) ==
  LET upto[k \in 0 .. Len(format)] ==
        IF k = 0 THEN [read |-> <<>>, done |-> FALSE, pos |-> 1]
        ELSE ParseNext(text, upto[k - 1], format[k])
  IN  upto[Len(format)].read
=============================================================================
