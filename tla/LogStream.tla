----------------------------- MODULE LogStream ------------------------------
(***************************************************************************)
(* base/log_stream.{h,cc}: the fixed buffer a log line is built in.  A     *)
(* buffer is its length, the pieces it holds and the pieces it was handed; *)
(* a piece inserted as text is known by its name and its length, a number  *)
(* by the digits that Convert and ConvertHex write.                        *)
(***************************************************************************)
EXTENDS Integers, Sequences

CONSTANTS kSmallBuffer,     \* size of the buffer
          kMaxNumericSize   \* room asked for before a number is written

ASSUME LogStreamAssumption ==
  /\ kSmallBuffer \in Nat \ {0}
  /\ kMaxNumericSize \in Nat

\* What a caller inserts: text of a length, a signed integer, a pointer.
Str(what, len) == [kind |-> "str", what |-> what, len |-> len, value |-> 0]
Int32(what, v) == [kind |-> "int", what |-> what, len |-> 0, value |-> v]
Pointer(what, v) == [kind |-> "ptr", what |-> what, len |-> 0, value |-> v]

\* C division and remainder round towards zero.
CQuot(i, n) == IF i < 0 /\ i % n # 0 THEN (i \div n) + 1 ELSE i \div n
CRem(i, n) == i - n * CQuot(i, n)

\* zero[lsd]: the table "9876543210123456789" read from its middle.
zero(lsd) == <<9, 8, 7, 6, 5, 4, 3, 2, 1, 0, 1, 2, 3, 4, 5, 6, 7, 8, 9>>[lsd + 10]

\* The digits, least significant one first in the code, then reversed.
Convert(value) ==
  LET write[i \in Int] ==
        IF CQuot(i, 10) = 0 THEN <<zero(CRem(i, 10))>>
        ELSE Append(write[CQuot(i, 10)], zero(CRem(i, 10)))
  IN  [minus |-> value < 0, digits |-> write[value]]

ConvertHex(value) ==
  LET write[i \in Nat] ==
        IF i \div 16 = 0 THEN <<i % 16>> ELSE Append(write[i \div 16], i % 16)
  IN  [minus |-> FALSE, digits |-> write[value]]

EmptyBuffer == [length |-> 0, text |-> <<>>, asked |-> <<>>]
avail(b) == kSmallBuffer - b.length
NoNumber == [minus |-> FALSE, digits |-> <<>>]
Add(b, len, what, number) ==
  [b EXCEPT !.length = @ + len, !.text = Append(@, [what |-> what, number |-> number])]

\* Mutant: the piece may take the last byte.
AppendTo_last(b, p) == IF avail(b) >= p.len THEN Add(b, p.len, p.what, NoNumber) ELSE b

\* FixedBuffer::Append drops a piece that would not leave a byte free.
AppendTo(b, p) == IF avail(b) > p.len THEN Add(b, p.len, p.what, NoNumber) ELSE b

NumberLen(n) == Len(n.digits) + (IF n.minus THEN 1 ELSE 0)

FormatInteger(b, p) ==
  IF avail(b) >= kMaxNumericSize
  THEN Add(b, NumberLen(Convert(p.value)), p.what, Convert(p.value)) ELSE b

FormatPointer(b, p) ==
  IF avail(b) >= kMaxNumericSize
  THEN Add(b, 2 + NumberLen(ConvertHex(p.value)), p.what, ConvertHex(p.value)) ELSE b

\* LogStream::operator<<, of one piece and of several.
Insert(b, p) ==
  [(CASE p.kind = "str" -> AppendTo(b, p)
      [] p.kind = "int" -> FormatInteger(b, p)
      [] p.kind = "ptr" -> FormatPointer(b, p)) EXCEPT !.asked = Append(@, p)]
InsertAll(b, ps) ==
  LET upto[k \in 0..Len(ps)] == IF k = 0 THEN b ELSE Insert(upto[k - 1], ps[k])
  IN  upto[Len(ps)]

-----------------------------------------------------------------------------
\* The length of a piece, and of the pieces handed to a buffer.
PieceLen(p) ==
  CASE p.kind = "str" -> p.len
    [] p.kind = "int" -> NumberLen(Convert(p.value))
    [] p.kind = "ptr" -> 2 + NumberLen(ConvertHex(p.value))
AskedLen(b) ==
  LET sum[i \in 0..Len(b.asked)] == IF i = 0 THEN 0 ELSE sum[i - 1] + PieceLen(b.asked[i])
  IN  sum[Len(b.asked)]

\* The number a reader of the text sees.
ReadNumber(n, base) ==
  LET sign == IF n.minus THEN -1 ELSE 1
      value[k \in 0..Len(n.digits)] ==
        IF k = 0 THEN 0 ELSE base * value[k - 1] + sign * n.digits[k]
  IN  value[Len(n.digits)]

\* The buffer shows all it was handed, in order, the numbers legible.
ShowsAll(b) ==
  /\ Len(b.text) = Len(b.asked)
  /\ \A i \in 1..Len(b.text) :
       /\ b.text[i].what = b.asked[i].what
       /\ b.asked[i].kind = "int" => ReadNumber(b.text[i].number, 10) = b.asked[i].value
       /\ b.asked[i].kind = "ptr" => ReadNumber(b.text[i].number, 16) = b.asked[i].value
=============================================================================
