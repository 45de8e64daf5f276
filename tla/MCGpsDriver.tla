------------------------------ MODULE MCGpsDriver ------------------------------
(***************************************************************************)
(* GpsDriver with three payloads and the sums of the receiver's messages.  *)
(***************************************************************************)
EXTENDS GpsDriver

\* A payload with this type of fix and these six bytes in front of it.
Sent(front, fix_type) ==
  [i \in 1 .. Length |->
     IF i <= 6 THEN front[i] ELSE IF i = 22 THEN fix_type ELSE i]

\* The first byte of WithFix is the first sum of what a parser collects that
\* starts at the D0 DD 20 within Imitation: only the second sum tells it that
\* this is no message.
WithFix    == Sent(<<8, 200, 17, 33, 208, 208>>, 3)
WithoutFix == Sent(<<1, 200, 221, 32, 0, 208>>, 2)
\* A latitude that looks like the start of a message.
Imitation  == Sent(<<7, 208, 208, 221, 32, 9>>, 7)

AllPayloads == {WithFix, WithoutFix, Imitation}

SumA(p) == LET a[n \in 0 .. Length] == IF n = 0 THEN Length ELSE (a[n - 1] + p[n]) % 256 IN a
SumB(p) ==
  LET a == SumA(p)
      b[n \in 0 .. Length] == IF n = 0 THEN Length ELSE (b[n - 1] + a[n]) % 256
  IN  b

SumsA == [p \in Payloads |-> SumA(p)]
SumsB == [p \in Payloads |-> SumB(p)]
=============================================================================
