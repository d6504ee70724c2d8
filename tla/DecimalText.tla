----------------------------- MODULE DecimalText -----------------------------
(***************************************************************************)
(* Decimals as dbapi passes them through ADO: as fixed point text, because *)
(* ADO rounds numbers to four places, and back from text whose decimal     *)
(* point may be the comma of the client's culture.  A Decimal is what      *)
(* as_tuple() gives: a sign, its digits and an exponent.                   *)
(***************************************************************************)
EXTENDS Integers, Sequences

Zeros(n) == [i \in 1..n |-> 0]

\* Fault: the zeros between the point and the digits are left out.
FormatUnpadded(d) ==
    LET shown == d.digits \o Zeros(d.exp)
        point == IF d.exp > 0 THEN Len(shown) ELSE 1
    IN  [neg |-> d.sign = 1,
         int |-> SubSeq(shown, 1, point),
         frac |-> SubSeq(shown, point + 1, Len(shown))]

\* format_decimal_as_string: the digits are taken from the right, so many as the
\* exponent says for the fraction and zeros when they run out; the rest, or a
\* zero, is in front of the point.
FormatDecimal(d) ==
    IF d.exp > 0
    THEN [neg |-> d.sign = 1, int |-> d.digits \o Zeros(d.exp), frac |-> <<>>]
    ELSE LET padded == Zeros(1 - d.exp - Len(d.digits)) \o d.digits
             point == Len(padded) + d.exp
         IN  [neg |-> d.sign = 1,
              int |-> SubSeq(padded, 1, point),
              frac |-> SubSeq(padded, point + 1, Len(padded))]

\* The decimal a text denotes: to the server, and to _convertNumberWithCulture,
\* which replaces the comma that some cultures have for the point.
Denoted(text) ==
    [kind |-> "decimal", sign |-> IF text.neg THEN 1 ELSE 0,
     digits |-> text.int \o text.frac, exp |-> -Len(text.frac)]

\* The digit of a decimal at 10^p, and where its own digits are.
DigitAt(d, p) ==
    LET i == Len(d.digits) + d.exp - p
    IN  IF i \in 1..Len(d.digits) THEN d.digits[i] ELSE 0
Positions(d) == d.exp..(d.exp + Len(d.digits) - 1)

\* The same number, however many zeros are in front of it and behind it.
SameNumber(a, b) ==
    /\ a.sign = b.sign
    /\ \A p \in Positions(a) \cup Positions(b) : DigitAt(a, p) = DigitAt(b, p)
==============================================================================
