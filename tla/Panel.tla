-------------------------------- MODULE Panel -------------------------------
(***************************************************************************)
(* The LEDs and the hex display of the board, as main.c drives them: one   *)
(* register of fourteen lamps and one of four hex digits, digit 0 on the   *)
(* right.  A panel is a record of the two, and an operation of main.c a    *)
(* function from panels to panels.  Characters are signed and eight bits   *)
(* wide, the digits that are ored into the register bytes.                 *)
(***************************************************************************)
EXTENDS Integers

Lamps == 0..13
Panels == [leds : SUBSET Lamps, hex : [0..3 -> 0..15]]

setLED(p, n) == [p EXCEPT !.leds = @ \cup {n}]
clearLED(p, n) == [p EXCEPT !.leds = @ \ {n}]
Light(p, n, on) == IF on THEN setLED(p, n) ELSE clearLED(p, n)

(* signed char, and the division of C, which rounds towards 0.             *)
SignedChar(b) == IF b % 256 >= 128 THEN (b % 256) - 256 ELSE b % 256
SignedChars == -128..127
Quotient(a, b) == IF a < 0 THEN -((-a) \div b) ELSE a \div b
Remainder(a, b) == a - b * Quotient(a, b)

(* value, made positive: -128 stays what it is.                            *)
Magnitude(value) == IF value < 0 THEN SignedChar(-value) ELSE value

(* The two digits, bytes.                                                  *)
Tens(value) == Quotient(Remainder(Magnitude(value), 100), 10) % 256
Ones(value) == Remainder(Remainder(Magnitude(value), 100), 10) % 256

(* The bitwise or of two hex digits.                                       *)
Bit(n, weight) == (n \div weight) % 2
Or(m, n) ==
  LET Either(weight) == IF Bit(m, weight) + Bit(n, weight) = 0 THEN 0 ELSE weight
  IN  Either(8) + Either(4) + Either(2) + Either(1)

Signs(p, value, minus, hundreds) ==
  Light(Light(p, minus, value < 0), hundreds, Quotient(Magnitude(value), 100) # 0)

(* A byte that is ored in at one digit reaches the next one to the left.   *)
printSignedHex0(p, value) ==
  [Signs(p, value, 11, 13) EXCEPT
     !.hex[3] = Or(Tens(value) % 16, Ones(value) \div 16),
     !.hex[2] = Ones(value) % 16]

printSignedHex1WrongLamp(p, value) ==  \* mutant: the sign of the other half
  [Signs(p, value, 11, 12) EXCEPT
     !.hex[2] = Or(@, Tens(value) \div 16),
     !.hex[1] = Or(Tens(value) % 16, Ones(value) \div 16),
     !.hex[0] = Ones(value) % 16]

printSignedHex1(p, value) ==
  [Signs(p, value, 10, 12) EXCEPT
     !.hex[2] = Or(@, Tens(value) \div 16),
     !.hex[1] = Or(Tens(value) % 16, Ones(value) \div 16),
     !.hex[0] = Ones(value) % 16]

(* What a reader of the panel expects: two decimal digits, a minus sign    *)
(* and a lamp for the hundred.                                             *)
Distance(value) == IF value < 0 THEN -value ELSE value
Decimal(value, i) ==
  LET n == Distance(value) % 100 IN IF i = 1 THEN n \div 10 ELSE n % 10

Shows(p, high, low) ==
  /\ p.hex[3] = Decimal(high, 1) /\ p.hex[2] = Decimal(high, 0)
  /\ p.hex[1] = Decimal(low, 1) /\ p.hex[0] = Decimal(low, 0)
  /\ p.leds \cap 10..13 =
       {n \in 10..13 : \/ n = 11 /\ high < 0
                       \/ n = 13 /\ Distance(high) >= 100
                       \/ n = 10 /\ low < 0
                       \/ n = 12 /\ Distance(low) >= 100}
=============================================================================
