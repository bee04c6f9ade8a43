------------------------------- MODULE AtUtil -------------------------------
(***************************************************************************)
(* u_cx_at_util.c: hex strings, the escaping of strings that are sent and  *)
(* received, and the end of a parameter.  Characters are their codes.  A C *)
(* string is the sequence of its characters without the NUL.               *)
(*                                                                         *)
(* Some conversions write their result over the text that they read:       *)
(* "mem" is the memory of that text, with its NUL.  inPlace FALSE is the   *)
(* same conversion with a buffer of its own, for reference.                *)
(***************************************************************************)
EXTENDS Integers, Sequences, SequencesExt, FiniteSetsExt

NUL == 0
Quote == 34
Comma == 44
Zero == 48
BracketOpen == 91
Backslash == 92
BracketClose == 93

Chars == Seq(0 .. 255)

IsPrint(c) == c \in 32 .. 126

CString(s) == IF NUL \in ToSet(s) THEN SubSeq(s, 1, SelectInSeq(s, LAMBDA c : c = NUL) - 1)
                                  ELSE s

\* Write the characters from a position on.
Write(mem, at, chars) ==
  [i \in DOMAIN mem |-> IF i \in at .. at + Len(chars) - 1 THEN chars[i - at + 1] ELSE mem[i]]

-----------------------------------------------------------------------------
(* Hex strings                                                              *)

nibbleToHex(nibble) == IF nibble < 10 THEN 48 + nibble ELSE 65 + nibble - 10

hexToNibble == [c \in 0 .. 255 |-> CASE c \in 48 .. 57 -> c - 48
                                      [] c \in 97 .. 102 -> c - 97 + 10
                                      [] c \in 65 .. 70 -> c - 65 + 10
                                      [] OTHER -> -1]

ByteToHex(b) == <<nibbleToHex(b \div 16), nibbleToHex(b % 16)>>

HexToByte(high, low) ==
  IF hexToNibble[high] < 0 \/ hexToNibble[low] < 0 THEN -1
  ELSE 16 * hexToNibble[high] + hexToNibble[low]

\* The pairs are converted until one is no byte or the buffer is full.
HexToBinary(hex, bufSize) ==
  LET byte(k) == HexToByte(hex[2 * k - 1], hex[2 * k])
      most == Min({bufSize, Len(hex) \div 2})
      bad == {k \in 1 .. most : byte(k) < 0}
      n == IF bad = {} THEN most ELSE Min(bad) - 1
  IN  [k \in 1 .. n |-> byte(k)]

\* Empty when the buffer is too small for the text and its NUL.
BinaryToHex(data, bufSize, reverse) ==
  IF bufSize < 2 * Len(data) + 1 THEN <<>>
  ELSE FlattenSeq([i \in 1 .. Len(data) |->
                     ByteToHex(data[IF reverse THEN Len(data) - i + 1 ELSE i])])

-----------------------------------------------------------------------------
(* Strings in commands                                                      *)

\* \r, \n, \t, \b, \", \\ and \0
EscapeLetter == [c \in {13, 10, 9, 8, Quote, Backslash, NUL} |->
                   CASE c = 13 -> 114 [] c = 10 -> 110 [] c = 9 -> 116 [] c = 8 -> 98
                     [] c = NUL -> Zero [] OTHER -> c]

escapeQuoteOnly(c) ==
  IF c \in DOMAIN EscapeLetter \ {Backslash} THEN <<Backslash, EscapeLetter[c]>>
  ELSE IF IsPrint(c) THEN <<c>>
  ELSE <<Backslash, 120>> \o ByteToHex(c)
escapeCharacter(c) ==
  IF c \in DOMAIN EscapeLetter THEN <<Backslash, EscapeLetter[c]>>
  ELSE IF IsPrint(c) THEN <<c>>
  ELSE <<Backslash, 120>> \o ByteToHex(c)

\* Empty when the buffer is too small.
WriteEscString(str, bufSize) ==
  LET escaped == [i \in 1 .. Len(str) |-> escapeCharacter(str[i])]
      written(i) == 1 + Len(FlattenSeq(SubSeq(escaped, 1, i)))
  IN  IF bufSize < 3 \/ \E i \in 1 .. Len(str) : written(i) + 1 >= bufSize THEN <<>>
      ELSE <<Quote>> \o FlattenSeq(escaped) \o <<Quote>>

\* What is sent for 's' and '$': unescaped when the buffer is too small.
SendString(str, bufSize) ==
  LET escaped == WriteEscString(str, bufSize)
  IN  IF escaped # <<>> THEN escaped ELSE <<Quote>> \o str \o <<Quote>>

-----------------------------------------------------------------------------
(* Strings in responses                                                     *)

\* unescapeString(): the characters to write and how many were read, for the
\* escape sequence whose letter is e.  An unknown one stays.
Unescape(e, high, low) ==
  LET meant == {c \in DOMAIN EscapeLetter : EscapeLetter[c] = e} IN
  IF meant # {} THEN [chars |-> <<CHOOSE c \in meant : TRUE>>, read |-> 2]
  ELSE IF e # 120 THEN [chars |-> <<Backslash, e>>, read |-> 2]
  ELSE IF HexToByte(high, low) >= 0 THEN [chars |-> <<HexToByte(high, low)>>, read |-> 4]
  ELSE [chars |-> <<e>>, read |-> 2]

CharAt(text, i) == IF i \in DOMAIN text THEN text[i] ELSE NUL

UnescapeNext(text, inPlace, st) ==
  LET from == IF inPlace THEN st.mem ELSE text
      At(i) == CharAt(from, st.read + i)
      piece == IF At(0) = Backslash /\ At(1) # NUL THEN Unescape(At(1), At(2), At(3))
               ELSE [chars |-> <<At(0)>>, read |-> 1]
  IN  IF At(0) = NUL THEN st
      ELSE [mem |-> Write(st.mem, st.write, piece.chars),
            read |-> st.read + piece.read,
            write |-> st.write + Len(piece.chars)]

Unescaping(text, inPlace) ==
  LET upto[k \in 0 .. Len(text)] == IF k = 0 THEN [mem |-> text, read |-> 1, write |-> 1]
                                    ELSE UnescapeNext(text, inPlace, upto[k - 1])
  IN  upto[Len(text)]

UnescapeString(str, inPlace) ==
  LET end == Unescaping(str \o <<NUL>>, inPlace) IN SubSeq(end.mem, 1, end.write - 1)

\* uCxAtUtilFindParamEnd(): the comma or the NUL after the parameter that
\* begins at a position, 0 when a string, a list or an escape is not closed.
Scan == [escape |-> FALSE, inString |-> FALSE, inBracket |-> FALSE, end |-> 0]

ScanCharacter(st, c, at) ==
  IF st.end # 0 THEN st
  ELSE IF st.escape THEN [st EXCEPT !.escape = FALSE]
  ELSE IF c = Backslash THEN [st EXCEPT !.escape = TRUE]
  ELSE IF st.inString THEN [st EXCEPT !.inString = (c # Quote)]
  ELSE IF c = Quote THEN [st EXCEPT !.inString = TRUE]
  ELSE IF c = BracketOpen THEN [st EXCEPT !.inBracket = TRUE]
  ELSE IF c = BracketClose THEN [st EXCEPT !.inBracket = FALSE]
  ELSE IF c = Comma /\ ~st.inBracket THEN [st EXCEPT !.end = at]
  ELSE st

Scanned(text, from) ==
  LET n == Len(text) - from + 1
      upto[k \in 0 .. n] ==
        IF k = 0 THEN Scan ELSE ScanCharacter(upto[k - 1], text[from + k - 1], from + k - 1)
  IN  upto[n]

FindNextComma(text, from) ==
  Min({i \in from .. Len(text) : text[i] = Comma} \union {Len(text) + 1})
FindParamEnd(text, from) ==
  LET st == Scanned(text, from) IN
  IF st.inString \/ st.escape \/ st.inBracket THEN 0
  ELSE IF st.end # 0 THEN st.end
  ELSE Len(text) + 1
=============================================================================
