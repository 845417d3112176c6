-------------------------------- MODULE Hex --------------------------------
(***************************************************************************)
(* VHex (src/source/toolbox/vhex.cpp): conversion between byte buffers    *)
(* and strings of hexadecimal digits.  Characters are their ASCII codes   *)
(* and a string is a sequence of codes.  The operators translate the      *)
(* code's loops; the reference definitions say what the conversions mean: *)
(* a digit string is a number, written big-endian in as few bytes as its  *)
(* digits need, two digits per byte.                                      *)
(*                                                                         *)
(* The state machine is one caller: it holds a buffer and encodes it      *)
(* (stringToHex), or holds a digit string received from elsewhere, and    *)
(* then decodes the string (hexToString); or it constructs a VHex dump    *)
(* printer and calls printHex and reset, and the text printed is read     *)
(* back with readHexDump.                                                 *)
(***************************************************************************)
EXTENDS Naturals, Sequences
LOCAL INSTANCE FiniteSetsExt

CONSTANTS
  Bytes,       \* byte values the buffers are made of
  Chars,       \* character codes the received strings are made of
  MaxLen,      \* longest buffer and longest received string
  RowWidths,   \* numBytesPerRow values a VHex is constructed with
  DumpBytes,   \* byte values printHex is given
  MaxChunk,    \* longest buffer one printHex call prints
  MaxCalls,    \* bound on printHex and reset calls
  None

Ord0 == 48
Ord9 == 57
OrdA == 65
OrdF == 70
Orda == 97
Ordf == 102
Ordx == 120
Prefix0x == <<Ord0, Ordx>>

SeqsUpTo(S, n) == UNION {[1..k -> S] : k \in 0..n}

(* Mutant: the letters start at ten inclusive of the digit branch.       *)
nibbleToHexCharOffByOne(v) ==
  LET n == v % 16 IN IF n <= 10 THEN Ord0 + n ELSE OrdA + (n - 10)

(* nibbleToHexChar: the high bits are masked; 0-9 and A-F.                *)
nibbleToHexChar(v) ==
  LET n == v % 16 IN IF n < 10 THEN Ord0 + n ELSE OrdA + (n - 10)

(* Mutant: lower-case digits are not recognised.                        *)
hexCharToNibbleUpperOnly(c) ==
  CASE c >= Ord0 /\ c <= Ord9 -> c - Ord0
    [] c >= OrdA /\ c <= OrdF -> 10 + c - OrdA
    [] OTHER -> 0

(* hexCharToNibble: 0-9, A-F, a-f; any other character is 0.              *)
hexCharToNibble(c) ==
  CASE c >= Ord0 /\ c <= Ord9 -> c - Ord0
    [] c >= OrdA /\ c <= OrdF -> 10 + c - OrdA
    [] c >= Orda /\ c <= Ordf -> 10 + c - Orda
    [] OTHER -> 0

(* byteToHexChars and hexCharsToByte.                                     *)
byteToHexChars(b) == <<nibbleToHexChar(b \div 16), nibbleToHexChar(b % 16)>>
hexCharsToByte(hi, lo) == (hexCharToNibble(hi) * 16 + hexCharToNibble(lo)) % 256

(* bufferToHexString: an optional "0x", then two digits per byte.         *)
RECURSIVE HexDigitsOf(_)
HexDigitsOf(buf) ==
  IF buf = <<>> THEN <<>>
  ELSE byteToHexChars(Head(buf)) \o HexDigitsOf(Tail(buf))

bufferToHexString(buf, wantLeading0x) ==
  (IF wantLeading0x THEN Prefix0x ELSE <<>>) \o HexDigitsOf(buf)

(* hexStringToBuffer: the bytes the loop writes into the buffer.  The     *)
(* parity is taken of the whole length, "0x" included; an odd count       *)
(* takes one digit with a high nibble of '0' first, then two at a time.   *)
RECURSIVE HexLoop(_, _, _, _)
HexLoop(d, i, odd, buf) ==
  IF i > Len(d) THEN buf
  ELSE IF odd THEN HexLoop(d, i + 1, FALSE, Append(buf, hexCharsToByte(Ord0, d[i])))
  ELSE HexLoop(d, i + 2, FALSE, Append(buf, hexCharsToByte(d[i], d[i + 1])))

hexStringToBuffer(d, hasLeading0x) ==
  HexLoop(d, IF hasLeading0x THEN 3 ELSE 1, Len(d) % 2 # 0, <<>>)

(* hexToString: the text is preflighted to length()/2 characters, one    *)
(* fewer with "0x", the buffer is written in place, and postflight sets   *)
(* the length back to that count.                                         *)
hexToString(d, hasLeading0x) ==
  LET outputLength == Len(d) \div 2 - (IF hasLeading0x THEN 1 ELSE 0)
  IN  SubSeq(hexStringToBuffer(d, hasLeading0x), 1, outputLength)

-----------------------------------------------------------------------------
(* Reference definitions.                                                 *)
HexTable == <<48, 49, 50, 51, 52, 53, 54, 55, 56, 57, 65, 66, 67, 68, 69, 70>>

RefEncode(buf) ==
  [i \in 1..2 * Len(buf) |->
     LET b == buf[(i + 1) \div 2]
     IN  HexTable[(IF i % 2 = 1 THEN b \div 16 ELSE b % 16) + 1]]

LowerTable == <<48, 49, 50, 51, 52, 53, 54, 55, 56, 57, 97, 98, 99, 100, 101, 102>>

(* A digit's value is its place in either table; anything else counts 0. *)
RefNibble(c) ==
  IF \E i \in 1..16 : c \in {HexTable[i], LowerTable[i]}
    THEN CHOOSE v \in 0..15 : c \in {HexTable[v + 1], LowerTable[v + 1]}
    ELSE 0

RECURSIVE ValueOf(_)
ValueOf(d) == IF d = <<>> THEN 0
              ELSE ValueOf(SubSeq(d, 1, Len(d) - 1)) * 16 + RefNibble(d[Len(d)])

(* The bytes a digit string denotes: its value in (digits + 1) \div 2     *)
(* bytes, most significant first.                                         *)
RefDecode(d, hasLeading0x) ==
  LET digits == IF hasLeading0x THEN SubSeq(d, 3, Len(d)) ELSE d
      n == (Len(digits) + 1) \div 2
  IN  [i \in 1..n |-> (ValueOf(digits) \div 256 ^ (n - i)) % 256]

-----------------------------------------------------------------------------
(* Hex dumps.  A VHex object prints a byte stream as rows of ' xx'        *)
(* triplets, each row labelled with its offset; printHex calls that end   *)
(* mid-row leave the next row to start at that column.  The object is a   *)
(* record of its settings and of the fields printHex changes (the pending *)
(* buffer is always empty between calls, since printHex ends with        *)
(* flush).  A printed line is a record of its column, its label and its   *)
(* bytes; FormatLine gives its characters.                                *)
Space == 32
Colon == 58
Dot == 46

Spaces(n) == [i \in 1..n |-> Space]

(* "%08lld" and "%08X": eight digits, upper case, zero padded.  Offsets   *)
(* stay far below 10^8 and 2^31.                                          *)
Digits8(n, base) == [i \in 1..8 |-> nibbleToHexChar((n \div base ^ (8 - i)) % base)]

Label(obj, offset) ==
  IF obj.labelsInHex THEN Prefix0x \o Digits8(offset, 16) \o <<Colon, Space>>
                     ELSE Digits8(offset, 10) \o <<Colon, Space>>

(* bufferToPrintableASCIIString, and the same test in _printPending:     *)
(* a signed char <= 0x20 or > 0x7E is a '.'.                              *)
Printable(b) == IF b <= 32 \/ b > 126 THEN Dot ELSE b
bufferToPrintableASCIIString(buf) == [i \in DOMAIN buf |-> Printable(buf[i])]

HexTriplets(buf) ==
  [i \in 1..3 * Len(buf) |->
     LET b == buf[(i + 2) \div 3]
     IN  CASE i % 3 = 1 -> byteToHexChars(b)[1]
           [] i % 3 = 2 -> byteToHexChars(b)[2]
           [] OTHER     -> Space]

(* The line _printPending builds: indent, label, three spaces for each    *)
(* column before the start column, the bytes, then (showASCIIValues) the  *)
(* padding to the row's end, three spaces, the start-column indent and    *)
(* the printable characters.                                              *)
FormatLine(obj, l) ==
  Spaces(obj.indentCount) \o Label(obj, l.offset) \o Spaces(3 * l.col)
    \o HexTriplets(l.data)
    \o (IF obj.showASCIIValues
          THEN Spaces(3 * (obj.numBytesPerRow - l.col - Len(l.data)))
                 \o Spaces(3) \o Spaces(l.col) \o bufferToPrintableASCIIString(l.data)
          ELSE <<>>)

(* _printPending on a printer state st: the object's fields, its pending  *)
(* bytes and the lines printed so far.                                    *)
PrintPending(st) ==
  IF Len(st.pending) > 0
    THEN [st EXCEPT
            !.obj.startColumn = IF st.obj.numBytesPerRow = 0 THEN 0
                                ELSE (@ + Len(st.pending)) % st.obj.numBytesPerRow,
            !.obj.offset = @ + Len(st.pending),
            !.pending = <<>>,
            !.lines = Append(@, [col |-> st.obj.startColumn, offset |-> st.obj.offset,
                                 data |-> st.pending])]
    ELSE st

(* Mutant: the row is full at numBytesPerRow whatever the start column.   *)
RowFullIgnoresColumn(st) == Len(st.pending) = st.obj.numBytesPerRow

(* printHex prints the pending row before adding a byte once it fills    *)
(* the rest of the current row.                                           *)
RowFull(st) == Len(st.pending) = st.obj.numBytesPerRow - st.obj.startColumn

(* Mutant: printHex does not flush at the end.                            *)
RECURSIVE PrintHexNoFlush(_, _)
PrintHexNoFlush(buf, st) ==
  IF buf = <<>> THEN st
  ELSE LET st1 == IF RowFull(st) THEN PrintPending(st) ELSE st
       IN  PrintHexNoFlush(Tail(buf), [st1 EXCEPT !.pending = Append(@, Head(buf))])

(* printHex: the byte loop, then flush().                                 *)
RECURSIVE PrintHexLoop(_, _)
PrintHexLoop(buf, st) ==
  IF buf = <<>> THEN PrintPending(st)
  ELSE LET st1 == IF RowFull(st) THEN PrintPending(st) ELSE st
       IN  PrintHexLoop(Tail(buf), [st1 EXCEPT !.pending = Append(@, Head(buf))])

(* readHexDump.  trim() drops the leading indent and trailing spaces.    *)
Trim(l) ==
  LET kept == {i \in DOMAIN l : l[i] # Space}
  IN  IF kept = {} THEN <<>> ELSE SubSeq(l, Min(kept), Max(kept))

IsHexadecimal(c) == c \in (Ord0..Ord9) \cup (OrdA..OrdF) \cup (Orda..Ordf)

(* The (0-based) index of the first triplet: after "0xNNNNNNNN:" or       *)
(* "0NNNNNNN:"; 0 for a line to be skipped.                               *)
FirstTriplet(t) ==
  CASE Len(t) > 10 /\ t[1] = Ord0 /\ t[2] = Ordx /\ t[11] = Colon -> 11
    [] Len(t) > 8 /\ t[1] = Ord0 /\ t[9] = Colon -> 9
    [] OTHER -> 0

(* Mutant: a triplet that ends the line is taken for a short line.       *)
RECURSIVE ReadTripletsShort(_, _)
ReadTripletsShort(t, o) ==
  IF Len(t) <= o + 3 \/ t[o + 1] # Space
     \/ ~IsHexadecimal(t[o + 2]) \/ ~IsHexadecimal(t[o + 3])
    THEN <<>>
    ELSE <<hexCharsToByte(t[o + 2], t[o + 3])>> \o ReadTripletsShort(t, o + 3)

(* The ' xx' triplets from index o on, up to the first other text.       *)
RECURSIVE ReadTriplets(_, _)
ReadTriplets(t, o) ==
  IF Len(t) < o + 3 \/ t[o + 1] # Space
     \/ ~IsHexadecimal(t[o + 2]) \/ ~IsHexadecimal(t[o + 3])
    THEN <<>>
    ELSE <<hexCharsToByte(t[o + 2], t[o + 3])>> \o ReadTriplets(t, o + 3)

(* The bytes readHexDump writes for a text of lines: it stops at an      *)
(* empty line, at a line of spaces, or at the end of the text.            *)
RECURSIVE readHexDump(_)
readHexDump(text) ==
  IF text = <<>> \/ Head(text) = <<>> THEN <<>>
  ELSE LET t == Trim(Head(text))
       IN  IF t = <<>> THEN <<>>
           ELSE (IF FirstTriplet(t) = 0 THEN <<>> ELSE ReadTriplets(t, FirstTriplet(t)))
                  \o readHexDump(Tail(text))

(* The bytes of a sequence of lines, in order. *)
RECURSIVE DataOf(_)
DataOf(ls) == IF ls = <<>> THEN <<>> ELSE Head(ls).data \o DataOf(Tail(ls))

-----------------------------------------------------------------------------
VARIABLES bytes, leading0x, hex, text,
          vhex,     \* the VHex object, or None for a caller of the conversions
          lines,    \* the lines it has printed
          given,    \* every byte passed to printHex, in order
          resets,   \* indices of the lines printed first after a reset()
          calls     \* printHex and reset calls so far

vars == <<bytes, leading0x, hex, text, vhex, lines, given, resets, calls>>

TypeOK ==
  /\ bytes = None \/ bytes \in SeqsUpTo(Bytes, MaxLen)
  /\ leading0x \in BOOLEAN
  /\ hex = None \/ hex \in Seq(0..127)
  /\ text = None \/ text \in Seq(0..255)
  /\ vhex = None \/ vhex.startColumn \in 0..(vhex.numBytesPerRow - 1)
  /\ \A i \in DOMAIN lines : lines[i].data \in Seq(DumpBytes)
  /\ calls \in 0..MaxCalls

(* A caller of the conversions holds either a buffer to encode, or a     *)
(* received string, "0x" prefixed when the caller says it is.            *)
ConvertInit ==
  /\ leading0x \in BOOLEAN
  /\ \/ bytes \in SeqsUpTo(Bytes, MaxLen) /\ hex = None
     \/ bytes = None
        /\ hex \in {(IF leading0x THEN Prefix0x ELSE <<>>) \o s :
                      s \in SeqsUpTo(Chars, MaxLen)}
  /\ text = None
  /\ vhex = None

(* VHex::VHex: a new object at column 0 and offset 0.                     *)
DumpInit ==
  /\ bytes = None /\ leading0x = FALSE /\ hex = None /\ text = None
  /\ vhex \in [numBytesPerRow : RowWidths, indentCount : {0, 1},
               labelsInHex : BOOLEAN, showASCIIValues : BOOLEAN,
               startColumn : {0}, offset : {0}]

Init ==
  /\ ConvertInit \/ DumpInit
  /\ lines = <<>> /\ given = <<>> /\ resets = {} /\ calls = 0

(* VHex::stringToHex.                                                     *)
StringToHex ==
  /\ bytes # None /\ hex = None
  /\ hex' = bufferToHexString(bytes, leading0x)
  /\ UNCHANGED <<bytes, leading0x, text, vhex, lines, given, resets, calls>>

(* VHex::hexToString.                                                     *)
HexToString ==
  /\ hex # None /\ text = None
  /\ text' = hexToString(hex, leading0x)
  /\ UNCHANGED <<bytes, leading0x, hex, vhex, lines, given, resets, calls>>

(* VHex::printHex of a whole buffer.                                      *)
PrintHex ==
  /\ vhex # None /\ calls < MaxCalls
  /\ \E buf \in SeqsUpTo(DumpBytes, MaxChunk) :
       LET st == PrintHexLoop(buf, [obj |-> vhex, pending |-> <<>>, lines |-> lines])
       IN  /\ vhex' = st.obj
           /\ lines' = st.lines
           /\ given' = given \o buf
  /\ calls' = calls + 1
  /\ UNCHANGED <<bytes, leading0x, hex, text, resets>>

(* VHex::reset: _printPending has nothing pending; column and offset 0.   *)
Reset ==
  /\ vhex # None /\ calls < MaxCalls
  /\ vhex' = [vhex EXCEPT !.startColumn = 0, !.offset = 0]
  /\ resets' = resets \cup {Len(lines) + 1}
  /\ calls' = calls + 1
  /\ UNCHANGED <<bytes, leading0x, hex, text, lines, given>>

Next == StringToHex \/ HexToString \/ PrintHex \/ Reset

Spec == Init /\ [][Next]_vars

(* The text of the lines printed so far. *)
DumpText == [i \in DOMAIN lines |-> FormatLine(vhex, lines[i])]

-----------------------------------------------------------------------------
(* bufferToHexString writes every byte as the two upper-case digits of    *)
(* the reference table, after the "0x" the caller asked for, and          *)
(* hexToString gives back the very buffer that was encoded.               *)
RoundTrip ==
  /\ bytes # None /\ hex # None =>
       hex = (IF leading0x THEN Prefix0x ELSE <<>>) \o RefEncode(bytes)
  /\ bytes # None /\ text # None => text = bytes

(* hexStringToBuffer writes the bytes any received string denotes, odd    *)
(* lengths, lower-case digits and the "0x" prefix included.               *)
BufferDecodes ==
  hex # None => hexStringToBuffer(hex, leading0x) = RefDecode(hex, leading0x)

(* hexToString returns the bytes a received string denotes: the loop of   *)
(* hexStringToBuffer compensates for an odd number of digits ("First time *)
(* through, use high nibble of 0").                                        *)
TextDecodes ==
  text # None => text = RefDecode(hex, leading0x)

(* printHex neither loses, repeats nor reorders a byte: the rows it      *)
(* prints, split at row ends and at the ends of calls, hold exactly the  *)
(* bytes it was given.                                                    *)
DumpKeepsBytes == vhex # None => DataOf(lines) = given

(* Every row fits its columns, and each row starts where the previous    *)
(* one ended (label = previous label + its bytes, column = previous       *)
(* column + its bytes, mod numBytesPerRow), or at 0 after a reset().      *)
DumpLayout ==
  vhex # None =>
    \A i \in DOMAIN lines :
      LET l == lines[i]
          p == lines[i - 1]
          fresh == i = 1 \/ i \in resets
      IN  /\ l.data # <<>>
          /\ l.col + Len(l.data) <= vhex.numBytesPerRow
          /\ l.offset = IF fresh THEN 0 ELSE p.offset + Len(p.data)
          /\ l.col = IF fresh THEN 0 ELSE (p.col + Len(p.data)) % vhex.numBytesPerRow

(* readHexDump, given the text printHex printed, gives back every byte   *)
(* of every row that starts at column 0, whatever the labels, indent and *)
(* ASCII column, and nothing else.                                        *)
AlignedLinesReadBack ==
  vhex # None =>
    readHexDump(DumpText) = DataOf(SelectSeq(lines, LAMBDA l : l.col = 0))

(* readHexDump reads the offset formats printHex writes ("Lines we want  *)
(* must start with either of these offset formats"), so it gives back    *)
(* every byte the dump holds.                                             *)
DumpReadsBack == vhex # None => readHexDump(DumpText) = given
=============================================================================
