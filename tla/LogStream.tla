----------------------------- MODULE LogStream -----------------------------
(***************************************************************************)
(* base/LogStream.h/.cc: the FixedBuffer a log line is built in, and the   *)
(* operators << that format numbers straight into it.  A buffer is the     *)
(* characters up to m_cur and the end of the bytes ever written: the       *)
(* conversions write a terminating NUL behind m_cur.                       *)
(***************************************************************************)
EXTENDS Integers, SequencesExt

CONSTANTS SIZE,             \* kSmallBuffer, the bytes of the buffer
          kMaxNumericSize   \* the room a number is given

digits == <<"9", "8", "7", "6", "5", "4", "3", "2", "1",
            "0", "1", "2", "3", "4", "5", "6", "7", "8", "9">>
digitsHex == <<"0", "1", "2", "3", "4", "5", "6", "7",
               "8", "9", "A", "B", "C", "D", "E", "F">>

\* convert enters its table in the middle, so that the remainder of a negative
\* number finds its digit as well.
zero == 10

\* The division and the remainder of C, which round towards zero.
cdiv(a, b) == IF a >= 0 THEN a \div b ELSE -((-a) \div b)
crem(a, b) == a - b * cdiv(a, b)

\* The loop of convert and of convertHex: the digits of i from the last to the
\* first, out of a table whose digit 0 is at the place first.
backwards(base, table, first) ==
    LET loop[i \in Int] == <<table[crem(i, base) + first]>>
                           \o (IF cdiv(i, base) # 0 THEN loop[cdiv(i, base)] ELSE <<>>)
    IN  loop

\* Faulty variant: while in place of do-while.
convertWhile(value) ==
    IF value = 0 THEN <<>>
    ELSE Reverse(backwards(10, digits, zero)[value] \o (IF value < 0 THEN <<"-">> ELSE <<>>))

convert(value) ==
    Reverse(backwards(10, digits, zero)[value] \o (IF value < 0 THEN <<"-">> ELSE <<>>))

convertHex(value) == Reverse(backwards(16, digitsHex, 1)[value])

-----------------------------------------------------------------------------
(* FixedBuffer *)

EmptyBuffer == [text |-> <<>>, top |-> 0]

length(b) == Len(b.text)
avail(b) == SIZE - length(b)

\* Characters written from m_cur on, and m_cur moved behind them; nul more
\* bytes are written that m_cur does not pass.
add(b, s, nul) ==
    LET end == length(b) + Len(s) + nul
    IN  [text |-> b.text \o s, top |-> IF end > b.top THEN end ELSE b.top]

append(b, s) == IF avail(b) >= Len(s) THEN add(b, s, 0) ELSE b

-----------------------------------------------------------------------------
(* LogStream: a part of a line is a text (a string, a character, a bool), an  *)
(* integer, a pointer, or a double of which only the text matters.            *)

Text(s) == [kind |-> "text", text |-> s, number |-> 0]
Integer(n) == [kind |-> "integer", text |-> <<>>, number |-> n]
Pointer(p) == [kind |-> "pointer", text |-> <<>>, number |-> p]
Double(s) == [kind |-> "double", text |-> s, number |-> 0]

\* Faulty variant: the room for the NUL is forgotten.
roomForNumberTight(b) == avail(b) >= kMaxNumericSize - 1

roomForNumber(b) == avail(b) >= kMaxNumericSize

formatInteger(b, value) == IF roomForNumber(b) THEN add(b, convert(value), 1) ELSE b

insertDouble(b, s) == IF roomForNumber(b) THEN add(b, s, 1) ELSE b

insertPointer(b, p) ==
    IF roomForNumber(b) THEN add(append(b, <<"0", "x">>), convertHex(p), 1) ELSE b

insert(b, part) == CASE part.kind = "text" -> append(b, part.text)
                     [] part.kind = "integer" -> formatInteger(b, part.number)
                     [] part.kind = "pointer" -> insertPointer(b, part.number)
                     [] part.kind = "double" -> insertDouble(b, part.text)

\* One operator << after the other.
insertAll(b, parts) ==
    LET upTo[n \in 0..Len(parts)] == IF n = 0 THEN b ELSE insert(upTo[n - 1], parts[n])
    IN  upTo[Len(parts)]
=============================================================================
