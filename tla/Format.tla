------------------------------- MODULE Format -------------------------------
(***************************************************************************)
(* The numbers of printf and printk: itoa of libc's vfprintf.c and of      *)
(* kernel/serial.c, for an int of Width bits.  A text is a sequence of     *)
(* characters; the digits are the numbers below 16, so that which case hex *)
(* letters have, and ucase with it, plays no part.                         *)
(***************************************************************************)
EXTENDS Integers, SequencesExt

CONSTANT Width      \* the bits of an int: 32

WidthAssumption == Width \in Nat \ {0, 1}

(***************************************************************************)
(* Powers, as a recursive function: the exponents depend on Width.         *)
(***************************************************************************)
Power(base, k) ==
    LET power[i \in 0..k] == IF i = 0 THEN 1 ELSE base * power[i - 1]
    IN  power[k]

int == -Power(2, Width - 1)..(Power(2, Width - 1) - 1)
AsUnsigned(n) == n % Power(2, Width)

MINUS == -1
PERCENT == 101
LETTER == 102       \* any other character of a format or a string
LETTERX == 103
NEWLINE == 104

(***************************************************************************)
(* The loop that puts the digits into s, the lowest first.                 *)
(***************************************************************************)
LowFirst(un, base) ==
    LET digits[u \in 0..un] == IF u = 0 THEN <<>> ELSE <<u % base>> \o digits[u \div base]
    IN  digits[un]

(***************************************************************************)
(* The sign, if there is one, then the digits turned around.               *)
(***************************************************************************)
Turned(minus, low) == (IF minus THEN <<MINUS>> ELSE <<>>) \o Reverse(low)

(***************************************************************************)
(* vfprintf's: a negative base asks for a sign.                            *)
(***************************************************************************)
itoa(n, base) ==
    LET minus == base < 0 /\ n < 0
        un == AsUnsigned(IF minus THEN -n ELSE n)
    IN  IF n = 0 THEN <<0>>
        ELSE Turned(minus, LowFirst(un, IF base < 0 THEN -base ELSE base))

(***************************************************************************)
(* printk's: only decimal numbers are signed.                              *)
(***************************************************************************)
kitoa(n, base) ==
    LET minus == n < 0 /\ base = 10
    IN  IF n = 0 THEN <<0>>
        ELSE Turned(minus, LowFirst(AsUnsigned(IF minus THEN -n ELSE n), base))

(***************************************************************************)
(* What a number looks like, said without a loop: as many digits as it     *)
(* takes, each the number divided by a power of the base.                  *)
(***************************************************************************)
Numeral(u, base) ==
    LET len == CHOOSE k \in 1..(Width + 1) :
                   Power(base, k) > u /\ (k = 1 \/ Power(base, k - 1) <= u)
    IN  [i \in 1..len |-> (u \div Power(base, len - i)) % base]

SignedNumeral(n, base) ==
    IF n < 0 THEN <<MINUS>> \o Numeral(-n, base) ELSE Numeral(n, base)

(***************************************************************************)
(* The array s of either itoa: a sign, Width digits or a terminator fewer. *)
(***************************************************************************)
StaticSize == Width + 1
=============================================================================
