-------------------------------- MODULE Printf --------------------------------
(***************************************************************************)
(* The formatted output of libc/printf.c: _vsnprintf() and the calls made  *)
(* of it.  Floating point support is disabled in this build.               *)
(*                                                                         *)
(* A format is a sequence of directives, each with the argument it takes;  *)
(* a literal character is a directive too.  A negative width or precision  *)
(* is one that comes from an argument ('*').  Characters are one letter    *)
(* strings and NUL.  A call goes one directive at a time.                  *)
(***************************************************************************)
EXTENDS Integers, Sequences, SequencesExt, FiniteSetsExt

CONSTANTS
    PrintfCalls,               \* the calls: format, output function and size
    Cells,                     \* bytes at and after the buffer that is given
    CharRange, IntRange, LongRange, LongLongRange,   \* 2^width of the types
    PtrSize,                   \* sizeof(void *)
    PRINTF_NTOA_BUFFER_SIZE

NUL == "NUL"
NoPrecision == -100
None == "none"

ASSUME PrintfAssumption ==
    /\ \A c \in PrintfCalls :
          /\ c.maxlen \in Nat /\ c.sink \in { "buffer", "null", "char" }
          /\ c.sink = "buffer" => 0..(c.maxlen - 1) \subseteq Cells
          /\ c.format \in Seq(ToSet(c.format))
          /\ \A d \in ToSet(c.format) :
                /\ d.width \in Int /\ d.precision \in Int
                /\ d.conv = "s" => d.arg \in Seq(ToSet(d.arg))
    /\ Cells \subseteq Nat /\ PtrSize \in Nat
    /\ PRINTF_NTOA_BUFFER_SIZE \in Nat \ {0}
    /\ CharRange <= IntRange /\ IntRange <= LongRange /\ LongRange <= LongLongRange

VARIABLES
    given,      \* format of the call
    format,     \* directives that are left
    busy,       \* a call is under way
    sink,       \* "buffer", "null" or "char": the output function
    maxlen,
    text,       \* the characters sent to the output function; idx is its length
    cells,      \* the memory at the buffer
    printed,    \* what putchar() got
    ret         \* result of the call, -1 before it returns

printfvars == << given, format, busy, sink, maxlen, text, cells, printed, ret >>

\* A call begins: snprintf() and vsnprintf() with a buffer or without one, printf() and
\* vprintf(); sprintf() gives the largest size.  Nothing is kept from one call to the next.
PrintfInit ==
    /\ \E c \in PrintfCalls : given = c.format /\ format = c.format /\ sink = c.sink /\ maxlen = c.maxlen
    /\ busy = TRUE /\ text = << >> /\ printed = << >> /\ ret = -1
    /\ cells = [ k \in Cells |-> None ]

-----------------------------------------------------------------------------
(* Numbers.  The conversion buffer is filled backwards.                    *)

Repeat(c, n) == [ k \in 1..n |-> c ]
SIZE == PRINTF_NTOA_BUFFER_SIZE

Digit(d, upper) ==
    (IF upper
     THEN << "0","1","2","3","4","5","6","7","8","9","A","B","C","D","E","F" >>
     ELSE << "0","1","2","3","4","5","6","7","8","9","a","b","c","d","e","f" >>)[d + 1]

\* What is left of a value after each division by the base.
Quotients(value, base) ==
    LET left[k \in 0..SIZE] == IF k = 0 THEN value ELSE left[k - 1] \div base
    IN  left

\* The digits of a value, the last one first: until nothing is left or the buffer is full.
Digits(value, base, upper) ==
    LET left == Quotients(value, base)
        n == CHOOSE n \in 1..SIZE : /\ left[n] = 0 \/ n = SIZE
                                    /\ \A m \in 1..(n - 1) : left[m] # 0
    IN  [ k \in 1..n |-> Digit(left[k - 1] % base, upper) ]

\* The zeros that _ntoa_format() adds up to a length of |n|.
Filled(buf, n) == buf \o Repeat("0", Min({ n, SIZE }) - Len(buf))

\* One more character, when there is room for it.
Added(buf, c) == IF Len(buf) < SIZE THEN Append(buf, c) ELSE buf

\* Mutant of SignWidth: the sign does not count.
SignWidthNone(width, flags, negative) == width

\* The width that is left for digits when zeros fill it.
SignWidth(width, flags, negative) ==
    IF /\ "-" \notin flags /\ "0" \in flags /\ width > 0
       /\ negative \/ flags \cap { "+", " " } # {}
    THEN width - 1 ELSE width

\* The "handle hash" part: digits give way to the prefix when they fill the precision
\* or the width.
Hashed(buf, base, prec, width, flags) ==
    LET full == ~("prec" \in flags) /\ Len(buf) > 0 /\ Len(buf) \in { prec, width }
        drop == IF ~full THEN 0 ELSE IF Len(buf) > 1 /\ base = 16 THEN 2 ELSE 1
        rest == SubSeq(buf, 1, Len(buf) - drop)
        mark == CASE base = 16 -> Added(rest, IF "upper" \in flags THEN "X" ELSE "x")
                  [] base = 2  -> Added(rest, "b")
                  [] OTHER     -> rest
    IN  IF "#" \in flags THEN Added(mark, "0") ELSE buf

\* _ntoa_format() up to the call of _out_rev().
_ntoa_format(digits, negative, base, prec, width, flags) ==
    LET w == SignWidth(width, flags, negative)
        precise == IF "-" \in flags THEN digits ELSE Filled(digits, prec)
        padded == IF "-" \in flags \/ "0" \notin flags THEN precise ELSE Filled(precise, w)
        hashed == Hashed(padded, base, prec, w, flags)
    IN  CASE negative -> Added(hashed, "-")
          [] ~negative /\ "+" \in flags -> Added(hashed, "+")
          [] ~negative /\ "+" \notin flags /\ " " \in flags -> Added(hashed, " ")
          [] OTHER -> hashed

_out_rev(buf, width, flags) ==
    LET pad == Repeat(" ", width - Len(buf))
    IN  (IF flags \cap { "-", "0" } = {} THEN pad ELSE << >>)
        \o Reverse(buf) \o (IF "-" \in flags THEN pad ELSE << >>)

\* The buffer that _ntoa_long() and _ntoa_long_long() send.
_ntoa_long(value, negative, base, prec, width, flags) ==
    LET digits == IF "prec" \in flags /\ value = 0 THEN << >>
                  ELSE Digits(value, base, "upper" \in flags)
    IN  _ntoa_format(digits, negative, base, prec, width,
                     IF value = 0 THEN flags \ { "#" } ELSE flags)

-----------------------------------------------------------------------------
(* Directives.                                                             *)

Numeric == { "d", "u", "x", "X", "o", "b" }
BaseOf(d) == CASE d.conv \in { "x", "X", "p" } -> 16 [] d.conv = "o" -> 8
             [] d.conv = "b" -> 2 [] OTHER -> 10

\* The width and the precision; a negative width asks for left justification, a
\* negative precision is one of 0.
Width(d) == IF d.conv = "p" THEN 2 * PtrSize ELSE IF d.width < 0 THEN -d.width ELSE d.width
Precision(d) == Max({ d.precision, 0 })

\* The flags as they are when the conversion begins.
Flags(d) ==
    LET own == d.flags \cup (IF d.width < 0 THEN { "-" } ELSE {})
                       \cup (IF d.precision # NoPrecision THEN { "prec" } ELSE {})
    IN  IF d.conv = "p" THEN own \cup { "0", "upper" }
        ELSE (own \cup (IF d.conv = "X" THEN { "upper" } ELSE {}))
             \ ((IF BaseOf(d) = 10 THEN { "#" } ELSE {})
                \cup (IF d.conv # "d" THEN { "+", " " } ELSE {})
                \cup (IF "prec" \in own THEN { "0" } ELSE {}))

\* The argument as the length modifier reads it.
RangeOf(d) == CASE d.conv = "p" -> IntRange [] d.size = "hh" -> CharRange
              [] d.size = "l" -> LongRange [] d.size = "ll" -> LongLongRange [] OTHER -> IntRange
Unsigned(d) == d.arg % RangeOf(d)
Value(d) == IF d.conv = "d" /\ Unsigned(d) >= RangeOf(d) \div 2 THEN Unsigned(d) - RangeOf(d)
            ELSE Unsigned(d)

\* The conversion buffer of a number.  The magnitude of the least int is its unsigned self.
NumberBuffer(d) ==
    _ntoa_long(IF Value(d) < 0 THEN -Value(d) ELSE Value(d), Value(d) < 0, BaseOf(d),
               Precision(d), Width(d), Flags(d))

\* What each case of the last switch sends to the output function.
Convert(d) ==
    LET pad(n) == Repeat(" ", Width(d) - n)
        Justified(s) == IF "-" \in Flags(d) THEN s \o pad(Len(s)) ELSE pad(Len(s)) \o s
    IN  CASE d.conv \in Numeric \cup { "p" } ->
                _out_rev(NumberBuffer(d),
                         SignWidth(Width(d), Flags(d), Value(d) < 0), Flags(d))
          [] d.conv = "c" -> Justified(<< d.arg >>)
          [] d.conv = "s" ->
                Justified(IF d.precision = NoPrecision THEN d.arg
                          ELSE SubSeq(d.arg, 1, Min({ Precision(d), Len(d.arg) })))
          [] OTHER -> << d.conv >>

-----------------------------------------------------------------------------
(* The calls.                                                              *)

\* Mutant of _out_buffer: one cell too many.
_out_buffer_over(mem, s, idx) ==
    [ k \in Cells |-> IF k \in idx..(idx + Len(s) - 1) /\ k <= maxlen
                      THEN s[k - idx + 1] ELSE mem[k] ]

\* _out_buffer() of several characters.
_out_buffer(mem, s, idx) ==
    [ k \in Cells |-> IF k \in idx..(idx + Len(s) - 1) /\ k < maxlen
                      THEN s[k - idx + 1] ELSE mem[k] ]

\* The output function: memory, nothing, or putchar(), which gets no NUL.
Out(s, idx) ==
    /\ cells' = IF sink = "buffer" THEN _out_buffer(cells, s, idx) ELSE cells
    /\ printed' = IF sink = "char" THEN printed \o SelectSeq(s, LAMBDA c : c # NUL) ELSE printed

Directive ==
    /\ busy /\ format # << >>
    /\ LET s == Convert(Head(format))
       IN  text' = text \o s /\ Out(s, Len(text))
    /\ format' = Tail(format)
    /\ UNCHANGED << given, busy, sink, maxlen, ret >>

\* Mutant of End: where the NUL goes when the text does not fit.
EndAt(idx) == idx

\* Where the NUL goes; a size of 0 leaves room for none.
End(idx) == IF idx < maxlen THEN idx ELSE maxlen - 1

Terminate ==
    /\ busy /\ format = << >>
    /\ Out(<< NUL >>, End(Len(text)))
    /\ ret' = Len(text)
    /\ busy' = FALSE
    /\ UNCHANGED << given, format, sink, maxlen, text >>

PrintfNext == Directive \/ Terminate

PrintfSpec == PrintfInit /\ [][PrintfNext]_printfvars

-----------------------------------------------------------------------------
(* Properties.                                                             *)

\* snprintf() writes no byte beyond |count|, and when it returns the buffer holds the
\* beginning of the text that printf() would print and the NUL that ends it, even if
\* the text is cut in the middle of a number.
StoresPrefix ==
    /\ \A k \in Cells : k >= maxlen => cells[k] = None
    /\ (ret >= 0 /\ sink = "buffer" /\ maxlen > 0) =>
          LET e == Min({ ret, maxlen - 1 })
          IN  cells[e] = NUL /\ \A k \in 0..(e - 1) : cells[k] = text[k + 1]

\* "this must be big enough to hold one converted numeric number including padded
\* zeros" (printf.c:40): digits, zeros, prefix and sign never leave the conversion
\* buffer, whatever the width, the precision and the base.
NumberFits ==
    (format # << >> /\ Head(format).conv \in Numeric \cup { "p" }) =>
        Len(NumberBuffer(Head(format))) <= SIZE

\* No byte is written outside of the caller's buffer or of the one for a number, and
\* the caller's is always terminated.
WithinBuffers == StoresPrefix /\ NumberFits

\* The numeral of a value, by the powers of the base.
Numeral(value, base, upper) ==
    LET n == CHOOSE n \in 1..(value + 1) : value < base^n /\ (n > 1 => base^(n - 1) <= value)
    IN  [ k \in 1..n |-> Digit((value \div base^(n - k)) % base, upper) ]

\* What ISO C asks of an integer conversion.
Conforming(d) ==
    LET v == Value(d)
        digits == IF v = 0 /\ d.precision = 0 THEN << >>
                  ELSE Numeral(IF v < 0 THEN -v ELSE v, BaseOf(d), d.conv = "X")
        sign == CASE v < 0 -> << "-" >>
                  [] v >= 0 /\ d.conv = "d" /\ "+" \in d.flags -> << "+" >>
                  [] v >= 0 /\ d.conv = "d" /\ "+" \notin d.flags /\ " " \in d.flags -> << " " >>
                  [] OTHER -> << >>
        body == Repeat("0", d.precision - Len(digits)) \o digits
        width == (IF d.width < 0 THEN -d.width ELSE d.width) - Len(sign) - Len(body)
    IN  CASE "-" \in d.flags \/ d.width < 0 -> sign \o body \o Repeat(" ", width)
          [] "-" \notin d.flags /\ d.width >= 0 /\ "0" \in d.flags /\ d.precision = NoPrecision ->
                sign \o Repeat("0", width) \o body
          [] OTHER -> Repeat(" ", width) \o sign \o body

\* The directives that the code does as ISO C says: without '#', without a precision
\* that is negative or left justified, of numbers that fit the conversion buffer.
Supported(d) ==
    /\ d.conv \in Numeric /\ "#" \notin d.flags
    /\ d.precision >= 0 \/ d.precision = NoPrecision
    /\ d.precision > 0 => "-" \notin Flags(d)
    /\ Max({ Width(d), Precision(d), Len(Numeral(LongLongRange - 1, BaseOf(d), FALSE)) }) < SIZE

\* printf() prints integers as ISO C says: value, sign, precision, padding and side.
IntegersConform ==
    (ret >= 0 /\ Len(given) = 1 /\ given[1].conv \in Numeric) =>
        (Supported(given[1]) => text = Conforming(given[1]))
=============================================================================
