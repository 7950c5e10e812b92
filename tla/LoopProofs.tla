----------------------------- MODULE LoopProofs -----------------------------
(***************************************************************************)
(* Proofs about the reports in the main loop, for every set of keys,       *)
(* number of registers and length of a report.  PortInv is inductive and   *)
(* says why a key that is held through two reports is always in one of the *)
(* registers; the rest is the arithmetic of the hex display.               *)
(***************************************************************************)
EXTENDS ReportLoop, SequenceTheorems, TLAPS

-----------------------------------------------------------------------------
(* The keys that are held.                                                 *)

(* Taking one element out of a sequence moves what is behind it down.      *)
LEMMA TakenOut ==
  ASSUME NEW S, NEW s \in Seq(S), NEW i \in 1..Len(s), NEW r,
         r = SubSeq(s, 1, i - 1) \o SubSeq(s, i + 1, Len(s))
  PROVE  /\ r \in Seq(S)
         /\ Len(r) = Len(s) - 1
         /\ \A q \in 1..Len(s) : q < i => r[q] = s[q]
         /\ \A q \in 1..Len(s) : q > i => r[q - 1] = s[q]
<1> DEFINE n == Len(s)
           a == SubSeq(s, 1, i - 1)
           b == SubSeq(s, i + 1, n)
<1>0. n \in Nat /\ i \in 1..n /\ i \in Nat
  BY LenProperties
<1>4. r = a \o b
  OBVIOUS
<1>1. \A q \in 1..n : s[q] \in S
  BY LenProperties DEF n
<1>2. /\ a \in Seq(S)
      /\ Len(a) = IF 1 <= i - 1 THEN i - 1 - 1 + 1 ELSE 0
      /\ \A q \in 1..(i - 1 - 1 + 1) : a[q] = s[1 + q - 1]
  <2>1. \A q \in 1..(i - 1) : s[q] \in S
    BY <1>0, <1>1
  <2>2. 1 \in Int /\ i - 1 \in Int
    BY <1>0
  <2> QED BY <2>1, <2>2, SubSeqProperties DEF a
<1>3. /\ b \in Seq(S)
      /\ Len(b) = IF i + 1 <= n THEN n - (i + 1) + 1 ELSE 0
      /\ \A q \in 1..(n - (i + 1) + 1) : b[q] = s[(i + 1) + q - 1]
  <2>1. \A q \in (i + 1)..n : s[q] \in S
    BY <1>0, <1>1
  <2>2. i + 1 \in Int /\ n \in Int
    BY <1>0
  <2> QED BY <2>1, <2>2, SubSeqProperties DEF b
<1> HIDE DEF n, a, b
<1>5. Len(a) = i - 1 /\ Len(b) = n - i
  BY <1>0, <1>2, <1>3
<1>6. /\ r \in Seq(S) /\ Len(r) = Len(a) + Len(b)
      /\ \A q \in 1..(Len(a) + Len(b)) :
           r[q] = IF q <= Len(a) THEN a[q] ELSE b[q - Len(a)]
  <2>1. a \in Seq(S) /\ b \in Seq(S)
    BY <1>2, <1>3, Zenon
  <2>2. /\ a \o b \in Seq(S) /\ Len(a \o b) = Len(a) + Len(b)
        /\ \A q \in 1..(Len(a) + Len(b)) :
             (a \o b)[q] = IF q <= Len(a) THEN a[q] ELSE b[q - Len(a)]
    BY <2>1, ConcatProperties, Zenon
  <2> QED BY <2>2, <1>4, Zenon
<1>7. ASSUME NEW q \in 1..n, q < i
      PROVE  r[q] = s[q]
  <2>1. q \in 1..(Len(a) + Len(b)) /\ q <= Len(a)
    BY <1>0, <1>5, <1>7
  <2>2. r[q] = a[q]
    BY <1>6, <2>1
  <2>3. q \in 1..(i - 1 - 1 + 1) /\ 1 + q - 1 = q
    BY <1>0, <1>7
  <2> QED BY <1>2, <2>2, <2>3
<1>8. ASSUME NEW q \in 1..n, q > i
      PROVE  r[q - 1] = s[q]
  <2>1. q - 1 \in 1..(Len(a) + Len(b)) /\ ~(q - 1 <= Len(a)) /\ (q - 1) - Len(a) = q - i
    BY <1>0, <1>5, <1>8
  <2>2. r[q - 1] = b[q - i]
    BY <1>6, <2>1
  <2>3. q - i \in 1..(n - (i + 1) + 1) /\ (i + 1) + (q - i) - 1 = q
    BY <1>0, <1>8
  <2>4. b[q - i] = s[(i + 1) + (q - i) - 1]
    BY <1>3, <2>3
  <2> QED BY <2>2, <2>3, <2>4
<1>9. Len(r) = n - 1
  <2>1. Len(r) = Len(a) + Len(b)
    BY <1>6, Zenon
  <2>2. (i - 1) + (n - i) = n - 1
    BY <1>0
  <2> QED BY <1>5, <2>1, <2>2, Zenon
<1> QED BY <1>6, <1>7, <1>8, <1>9 DEF n

LEMMA PortStart == PortInit => PortInv
<1> SUFFICES ASSUME PortInit PROVE PortInv
  OBVIOUS
<1> USE PortAssumption DEF PortInit
<1>1. PortTypeOK
  BY DEF PortTypeOK
<1>2. RegistersWritten /\ SeenKeysMoveDown /\ KeptKeysAreWritten
  BY DEF RegistersWritten, ReportAt, SeenKeysMoveDown, KeptKeysAreWritten
<1> QED BY <1>1, <1>2 DEF PortInv

LEMMA PressKeeps ==
  ASSUME PortInv, NEW k \in Keys, Press(k)
  PROVE  PortInv'
<1> USE DEF Press, PortInv
<1>1. PortTypeOK'
  <2>1. held \in Seq(Keys) /\ Len(held) \in Nat
    BY DEF PortTypeOK
  <2>2. held' \in Seq(Keys) /\ Len(held') = Len(held) + 1
    BY <2>1
  <2>3. Len(held') <= MaxHeld
    BY <2>1, <2>2, PortAssumption
  <2> QED BY <2>2, <2>3 DEF PortTypeOK
<1>2. RegistersWritten' /\ KeptKeysAreWritten'
  BY DEF RegistersWritten, ReportAt, KeptKeysAreWritten
<1>3. \A q \in DOMAIN held : q \in DOMAIN held' /\ held'[q] = held[q]
  BY DEF PortTypeOK
<1>4. SeenKeysMoveDown'
  BY <1>3 DEF SeenKeysMoveDown
<1> QED BY <1>1, <1>2, <1>4

LEMMA ReleaseTakesOut ==
  ASSUME held \in Seq(Keys), NEW k, Release(k)
  PROVE  \E i \in 1..Len(held) :
           /\ held[i] = k
           /\ held' \in Seq(Keys)
           /\ Len(held') = Len(held) - 1
           /\ \A q \in 1..Len(held) : q < i => held'[q] = held[q]
           /\ \A q \in 1..Len(held) : q > i => held'[q - 1] = held[q]
<1>1. PICK i \in DOMAIN held :
        held[i] = k /\ held' = SubSeq(held, 1, i - 1) \o SubSeq(held, i + 1, Len(held))
  BY DEF Release
<1>2. i \in 1..Len(held)
  BY LenProperties
<1>3. /\ held' \in Seq(Keys)
      /\ Len(held') = Len(held) - 1
      /\ \A q \in 1..Len(held) : q < i => held'[q] = held[q]
      /\ \A q \in 1..Len(held) : q > i => held'[q - 1] = held[q]
  BY <1>1, <1>2, TakenOut
<1> QED BY <1>1, <1>2, <1>3

LEMMA ReleaseKeeps ==
  ASSUME PortInv, NEW k \in Keys, Release(k)
  PROVE  PortInv'
<1> USE PortAssumption DEF Release, PortInv
<1>1. held \in Seq(Keys) /\ Len(held) \in Nat /\ DOMAIN held = 1..Len(held)
  BY LenProperties DEF PortTypeOK
<1> PICK n \in Nat : n = Len(held)
  BY <1>1
<1>2. DOMAIN held = 1..n
  BY <1>1
<1>3. PICK i \in 1..n :
        /\ held[i] = k
        /\ held' \in Seq(Keys) /\ Len(held') = n - 1
        /\ \A q \in 1..n : q < i => held'[q] = held[q]
        /\ \A q \in 1..n : q > i => held'[q - 1] = held[q]
  BY <1>1, ReleaseTakesOut
<1>4. i \in Nat
  OBVIOUS
<1>5. DOMAIN held' = 1..(n - 1)
  BY <1>3, LenProperties
<1>6. PortTypeOK'
  <2>1. Len(held) <= MaxHeld => n - 1 <= MaxHeld
    BY <1>2
  <2> QED BY <1>3, <2>1 DEF PortTypeOK
<1>7. RegistersWritten' /\ KeptKeysAreWritten'
  BY DEF RegistersWritten, ReportAt, KeptKeysAreWritten
<1>8. SeenKeysMoveDown'
  <2> SUFFICES ASSUME NEW h \in seen, h # k
               PROVE  \E p \in DOMAIN report :
                        /\ p <= Registers /\ report[p] = h
                        /\ \E q \in DOMAIN held' : q <= p /\ held'[q] = h
    BY DEF SeenKeysMoveDown
  <2>1. PICK p \in DOMAIN report :
          /\ p <= Registers /\ report[p] = h
          /\ \E q \in DOMAIN held : q <= p /\ held[q] = h
    BY DEF SeenKeysMoveDown
  <2>2. PICK q \in 1..n : q <= p /\ held[q] = h
    BY <1>2, <2>1
  <2>3. p \in Nat
    <3>1. DOMAIN report = 1..Len(report) /\ Len(report) \in Nat
      BY LenProperties DEF PortTypeOK
    <3> QED BY <3>1
  <2>4. q # i
    BY <1>3, <2>2
  <2> SUFFICES \E q2 \in 1..(n - 1) : q2 <= p /\ held'[q2] = h
    BY <1>5, <2>1
  <2>5. CASE q < i
    <3>1. q \in 1..(n - 1)
      BY <1>4, <2>5
    <3>2. held'[q] = h
      BY <1>3, <2>2, <2>5
    <3> QED BY <2>2, <3>1, <3>2
  <2>6. CASE q > i
    <3>1. q - 1 \in 1..(n - 1) /\ q - 1 <= p
      BY <1>4, <2>2, <2>3, <2>6
    <3>2. held'[q - 1] = h
      BY <1>3, <2>2, <2>6
    <3> QED BY <3>1, <3>2
  <2>7. q < i \/ q > i
    BY <1>4, <2>4
  <2> QED BY <2>5, <2>6, <2>7, Zenon
<1> QED BY <1>6, <1>7, <1>8

LEMMA PollKeeps ==
  ASSUME PortInv, Poll
  PROVE  PortInv'
<1> USE PortAssumption DEF Poll, PortInv
<1>1. DOMAIN held = 1..Len(held) /\ DOMAIN report = 1..Len(report) /\ Len(held) \in Nat
  BY DEF PortTypeOK
<1>2. Shown(held) \subseteq Keys
  BY DEF Shown, PortTypeOK
<1>3. PortTypeOK'
  BY <1>2 DEF PortTypeOK
<1>4. RegistersWritten'
  BY DEF RegistersWritten
<1>5. SeenKeysMoveDown'
  <2> SUFFICES ASSUME NEW k \in Shown(held)
               PROVE  \E p \in DOMAIN held :
                        /\ p <= Registers /\ held[p] = k
                        /\ \E q \in DOMAIN held : q <= p /\ held[q] = k
    BY DEF SeenKeysMoveDown
  <2>1. PICK p \in DOMAIN held : p <= Registers /\ held[p] = k
    BY DEF Shown
  <2> QED BY <1>1, <2>1
<1>6. KeptKeysAreWritten'
  <2> SUFFICES ASSUME NEW k \in seen
               PROVE  \E p \in 1..Registers, q \in DOMAIN held :
                        q <= p /\ held[q] = k /\ keycode[p] = k
    BY DEF KeptKeysAreWritten
  <2>1. PICK p \in DOMAIN report :
          /\ p <= Registers /\ report[p] = k
          /\ \E q \in DOMAIN held : q <= p /\ held[q] = k
    BY DEF SeenKeysMoveDown
  <2>2. p \in 1..Registers /\ p < slot
    BY <1>1, <2>1
  <2>3. keycode[p] = k
    BY <2>1, <2>2 DEF RegistersWritten, ReportAt
  <2> QED BY <2>1, <2>2, <2>3
<1> QED BY <1>3, <1>4, <1>5, <1>6

LEMMA SetKeycodeKeeps ==
  ASSUME PortInv, SetKeycode
  PROVE  PortInv'
<1> USE PortAssumption DEF SetKeycode, PortInv
<1>1. slot \in 1..Registers /\ slot' = slot + 1
  BY DEF PortTypeOK
<1>2. ReportAt(slot) \in Keys \cup {NoKey}
  BY DEF ReportAt, PortTypeOK
<1>3. /\ keycode' \in [1..Registers -> Keys \cup {NoKey}]
      /\ keycode'[slot] = ReportAt(slot)
      /\ \A i \in 1..Registers : i # slot => keycode'[i] = keycode[i]
  BY <1>1, <1>2 DEF WriteRegister, PortTypeOK
<1>4. PortTypeOK'
  BY <1>1, <1>3 DEF PortTypeOK
<1>5. RegistersWritten'
  <2>1. \A i : ReportAt(i)' = ReportAt(i)
    BY DEF ReportAt
  <2> QED BY <1>1, <1>3, <2>1 DEF RegistersWritten
<1>6. SeenKeysMoveDown'
  BY DEF SeenKeysMoveDown
<1>7. KeptKeysAreWritten'
  BY <1>1, <1>3 DEF KeptKeysAreWritten
<1> QED BY <1>4, <1>5, <1>6, <1>7

LEMMA PortStep == PortInv /\ [PortNext]_portVars => PortInv'
<1> SUFFICES ASSUME PortInv, [PortNext]_portVars
             PROVE  PortInv'
  OBVIOUS
<1>1. CASE \E k \in Keys : Press(k) \/ Release(k)
  BY <1>1, PressKeeps, ReleaseKeeps
<1>2. CASE Replug
  BY <1>2 DEF Replug, PortInv, PortTypeOK, RegistersWritten, ReportAt, SeenKeysMoveDown,
              KeptKeysAreWritten
<1>3. CASE Poll
  BY <1>3, PollKeeps
<1>4. CASE SetKeycode
  BY <1>4, SetKeycodeKeeps
<1>5. CASE UNCHANGED portVars
  BY <1>5 DEF portVars, PortInv, PortTypeOK, RegistersWritten, ReportAt, SeenKeysMoveDown,
              KeptKeysAreWritten
<1> QED BY <1>1, <1>2, <1>3, <1>4, <1>5 DEF PortNext

(* A kept key is in its old register or, once that is rewritten, in the    *)
(* lower one it moves to.                                                  *)
LEMMA KeptIsVisible == PortInv => HeldKeyStaysVisible
<1> SUFFICES ASSUME PortInv, NEW k \in kept
             PROVE  k \in Visible
  BY DEF HeldKeyStaysVisible
<1> USE PortAssumption
<1>1. k \in Keys /\ k # NoKey /\ slot \in Int /\ DOMAIN report = 1..Len(report)
  BY DEF PortInv, PortTypeOK
<1>2. PICK p \in 1..Registers, q \in DOMAIN report :
        q <= p /\ report[q] = k /\ (slot <= p => keycode[p] = k)
  BY DEF PortInv, KeptKeysAreWritten
<1>3. CASE slot <= p
  BY <1>1, <1>2, <1>3 DEF Visible
<1>4. CASE ~(slot <= p)
  <2>1. q \in 1..Registers /\ q < slot
    BY <1>1, <1>2, <1>4
  <2>2. keycode[q] = k
    BY <1>2, <2>1 DEF PortInv, RegistersWritten, ReportAt
  <2> QED BY <1>1, <2>1, <2>2 DEF Visible
<1> QED BY <1>3, <1>4

-----------------------------------------------------------------------------
(* The arithmetic of the display.                                          *)
LEMMA SignedCharRange ==
  ASSUME NEW b \in Int
  PROVE  SignedChar(b) \in SignedChars
<1>1. b % 256 \in 0..255
  OBVIOUS
<1> QED BY <1>1 DEF SignedChar, SignedChars

LEMMA MagnitudeRange ==
  ASSUME NEW v \in SignedChars
  PROVE  /\ Magnitude(v) \in SignedChars
         /\ v # -128 => Magnitude(v) = Distance(v) /\ Distance(v) \in 0..127
<1>1. v \in Int /\ -v \in Int /\ -128 <= v /\ v <= 127
  BY DEF SignedChars
<1>2. CASE v < 0
  <2>1. Magnitude(v) \in SignedChars
    BY <1>1, <1>2, SignedCharRange DEF Magnitude
  <2>2. ASSUME v # -128
        PROVE  SignedChar(-v) = -v
    <3>1. -v \in 1..127
      BY <1>1, <1>2, <2>2
    <3>2. (-v) % 256 = -v
      BY <3>1
    <3> QED BY <3>1, <3>2 DEF SignedChar
  <2> QED BY <1>1, <1>2, <2>1, <2>2 DEF Magnitude, Distance
<1>3. CASE ~(v < 0)
  BY <1>1, <1>3 DEF Magnitude, Distance, SignedChars
<1> QED BY <1>2, <1>3

(* The lamp of the hundred and the two digits of a value.                  *)
LEMMA DigitsAreDecimal ==
  ASSUME NEW v \in SignedChars, v # -128
  PROVE  /\ Quotient(Magnitude(v), 100) # 0 <=> Distance(v) >= 100
         /\ Tens(v) = Decimal(v, 1) /\ Tens(v) \in 0..9
         /\ Ones(v) = Decimal(v, 0) /\ Ones(v) \in 0..9
<1> DEFINE m == Distance(v)
<1>1. Magnitude(v) = m /\ m \in 0..127
  BY MagnitudeRange
<1> HIDE DEF m
<1>2. Quotient(m, 100) = m \div 100
  BY <1>1 DEF Quotient
<1>3. m \div 100 # 0 <=> m >= 100
  BY <1>1
<1>4. Remainder(m, 100) = m % 100 /\ m % 100 \in 0..99
  <2>1. m % 100 = m - 100 * (m \div 100) /\ m % 100 \in 0..99
    BY <1>1
  <2> QED BY <1>2, <2>1 DEF Remainder
<1> DEFINE n == m % 100
<1>5. n \in 0..99
  BY <1>4
<1> HIDE DEF n
<1>6. Quotient(n, 10) = n \div 10 /\ n \div 10 \in 0..9
  BY <1>5 DEF Quotient
<1>7. Remainder(n, 10) = n % 10 /\ n % 10 \in 0..9
  <2>1. n % 10 = n - 10 * (n \div 10) /\ n % 10 \in 0..9
    BY <1>5
  <2> QED BY <1>6, <2>1 DEF Remainder
<1>8. (n \div 10) % 256 = n \div 10 /\ (n % 10) % 256 = n % 10
  BY <1>6, <1>7
<1>9. Tens(v) = n \div 10 /\ Ones(v) = n % 10
  BY <1>1, <1>4, <1>6, <1>7, <1>8 DEF Tens, Ones, n
<1>10. Decimal(v, 1) = n \div 10 /\ Decimal(v, 0) = n % 10
  BY DEF Decimal, m, n
<1> QED BY <1>1, <1>2, <1>3, <1>6, <1>7, <1>9, <1>10 DEF m

(* Every value, the exception included, is put on the panel as bytes.      *)
LEMMA DigitsAreBytes ==
  ASSUME NEW v \in SignedChars
  PROVE  Tens(v) \in 0..255 /\ Ones(v) \in 0..255
<1>1. ASSUME NEW a \in Int, NEW b \in {10, 100}
      PROVE  Quotient(a, b) \in Int /\ Remainder(a, b) \in Int
  <2>1. Quotient(a, b) \in Int
    BY DEF Quotient
  <2> QED BY <2>1 DEF Remainder
<1>2. Magnitude(v) \in Int
  <2>1. Magnitude(v) \in SignedChars
    BY MagnitudeRange
  <2> QED BY <2>1 DEF SignedChars
<1>3. Remainder(Magnitude(v), 100) \in Int
  BY <1>1, <1>2
<1>4. /\ Quotient(Remainder(Magnitude(v), 100), 10) \in Int
      /\ Remainder(Remainder(Magnitude(v), 100), 10) \in Int
  BY <1>1, <1>3
<1>5. \A x \in Int : x % 256 \in 0..255
  OBVIOUS
<1> QED BY <1>4, <1>5 DEF Tens, Ones

LEMMA OrIsADigit ==
  ASSUME NEW m, NEW n
  PROVE  Or(m, n) \in 0..15
BY DEF Or

LEMMA OrWithNothing ==
  ASSUME NEW m \in 0..15
  PROVE  Or(m, 0) = m
<1>1. \A w \in {1, 2, 4, 8} : Bit(0, w) = 0 /\ Bit(m, w) \in {0, 1}
  BY DEF Bit
<1>2. m = 8 * Bit(m, 8) + 4 * Bit(m, 4) + 2 * Bit(m, 2) + Bit(m, 1)
  BY DEF Bit
<1> QED BY <1>1, <1>2 DEF Or

LEMMA NoSpill ==
  ASSUME NEW n \in 0..9
  PROVE  n % 16 = n /\ n \div 16 = 0 /\ n \in 0..15
OBVIOUS

-----------------------------------------------------------------------------
(* One half of the display.                                                *)
LEMMA SetLamp ==
  ASSUME NEW p \in Panels, NEW n \in Lamps
  PROVE  /\ setLED(p, n) \in Panels /\ setLED(p, n).hex = p.hex
         /\ n \in setLED(p, n).leds
         /\ \A m : m # n => (m \in setLED(p, n).leds <=> m \in p.leds)
BY DEF setLED, Panels

LEMMA ClearLamp ==
  ASSUME NEW p \in Panels, NEW n \in Lamps
  PROVE  /\ clearLED(p, n) \in Panels /\ clearLED(p, n).hex = p.hex
         /\ n \notin clearLED(p, n).leds
         /\ \A m : m # n => (m \in clearLED(p, n).leds <=> m \in p.leds)
BY DEF clearLED, Panels

LEMMA LampsOfOneValue ==
  ASSUME NEW p \in Panels, NEW v,
         NEW minus \in Lamps, NEW hundreds \in Lamps, minus # hundreds
  PROVE  /\ Signs(p, v, minus, hundreds) \in Panels
         /\ Signs(p, v, minus, hundreds).hex = p.hex
         /\ \A n : n \notin {minus, hundreds} =>
                     (n \in Signs(p, v, minus, hundreds).leds <=> n \in p.leds)
         /\ minus \in Signs(p, v, minus, hundreds).leds <=> v < 0
         /\ hundreds \in Signs(p, v, minus, hundreds).leds
              <=> Quotient(Magnitude(v), 100) # 0
<1> DEFINE a == Light(p, minus, v < 0)
           q == Light(a, hundreds, Quotient(Magnitude(v), 100) # 0)
<1>1. Signs(p, v, minus, hundreds) = q
  BY DEF Signs
<1>2. /\ a \in Panels /\ a.hex = p.hex /\ (minus \in a.leds <=> v < 0)
      /\ \A m : m # minus => (m \in a.leds <=> m \in p.leds)
  BY SetLamp, ClearLamp, Zenon DEF Light
<1> HIDE DEF a
<1>3. /\ q \in Panels /\ q.hex = a.hex
      /\ hundreds \in q.leds <=> Quotient(Magnitude(v), 100) # 0
      /\ \A m : m # hundreds => (m \in q.leds <=> m \in a.leds)
  BY <1>2, SetLamp, ClearLamp, Zenon DEF Light
<1> HIDE DEF q
<1> QED BY <1>1, <1>2, <1>3, Zenon

LEMMA LeftHalf ==
  ASSUME NEW p \in Panels, NEW v \in SignedChars
  PROVE  LET q == printSignedHex0(p, v)
         IN  /\ q \in Panels
             /\ q.hex[0] = p.hex[0] /\ q.hex[1] = p.hex[1]
             /\ \A n : n \notin {11, 13} => (n \in q.leds <=> n \in p.leds)
             /\ v # -128 =>
                  /\ q.hex[3] = Decimal(v, 1) /\ q.hex[2] = Decimal(v, 0)
                  /\ 11 \in q.leds <=> v < 0
                  /\ 13 \in q.leds <=> Distance(v) >= 100
<1> DEFINE s == Signs(p, v, 11, 13)
           q == printSignedHex0(p, v)
           left == Or(Tens(v) % 16, Ones(v) \div 16)
           right == Ones(v) % 16
<1>1. /\ s \in Panels /\ s.hex = p.hex
      /\ \A n : n \notin {11, 13} => (n \in s.leds <=> n \in p.leds)
      /\ 11 \in s.leds <=> v < 0
      /\ 13 \in s.leds <=> Quotient(Magnitude(v), 100) # 0
  <2>1. PICK minus \in Lamps, hundreds \in Lamps : minus = 11 /\ hundreds = 13
    BY DEF Lamps
  <2>2. minus # hundreds
    BY <2>1
  <2>3. s = Signs(p, v, minus, hundreds)
    BY <2>1
  <2> HIDE DEF s
  <2>4. /\ s \in Panels /\ s.hex = p.hex
        /\ \A n : n \notin {minus, hundreds} => (n \in s.leds <=> n \in p.leds)
        /\ minus \in s.leds <=> v < 0
        /\ hundreds \in s.leds <=> Quotient(Magnitude(v), 100) # 0
    BY <2>2, <2>3, LampsOfOneValue, Zenon
  <2> QED BY <2>1, <2>4, Zenon
<1>2. left \in 0..15 /\ right \in 0..15
  <2>1. right \in 0..15
    BY DigitsAreBytes
  <2> QED BY <2>1, OrIsADigit
<1>3. v # -128 => left = Decimal(v, 1) /\ right = Decimal(v, 0)
  <2> SUFFICES ASSUME v # -128
               PROVE  left = Decimal(v, 1) /\ right = Decimal(v, 0)
    OBVIOUS
  <2>1. /\ Tens(v) = Decimal(v, 1) /\ Tens(v) \in 0..9
        /\ Ones(v) = Decimal(v, 0) /\ Ones(v) \in 0..9
    BY DigitsAreDecimal
  <2>2. /\ Tens(v) % 16 = Tens(v) /\ Tens(v) \in 0..15
        /\ Ones(v) % 16 = Ones(v) /\ Ones(v) \div 16 = 0
    BY <2>1, NoSpill
  <2> QED BY <2>1, <2>2, OrWithNothing
<1> HIDE DEF s, left, right
<1>4. /\ q = [s EXCEPT !.hex = [s.hex EXCEPT ![3] = left, ![2] = right]]
  BY DEF printSignedHex0, s, left, right, Signs, Light, setLED, clearLED, Panels
<1>5. /\ q \in Panels /\ q.leds = s.leds
      /\ q.hex[3] = left /\ q.hex[2] = right
      /\ q.hex[0] = p.hex[0] /\ q.hex[1] = p.hex[1]
  BY <1>1, <1>2, <1>4 DEF Panels
<1> HIDE DEF q
<1>6. v # -128 => (13 \in q.leds <=> Distance(v) >= 100)
  BY <1>1, <1>5, DigitsAreDecimal
<1> QED BY <1>1, <1>3, <1>5, <1>6, Zenon DEF q

LEMMA RightHalf ==
  ASSUME NEW p \in Panels, NEW v \in SignedChars
  PROVE  LET q == printSignedHex1(p, v)
         IN  /\ q \in Panels
             /\ q.hex[3] = p.hex[3]
             /\ \A n : n \notin {10, 12} => (n \in q.leds <=> n \in p.leds)
             /\ v # -128 =>
                  /\ q.hex[2] = p.hex[2]
                  /\ q.hex[1] = Decimal(v, 1) /\ q.hex[0] = Decimal(v, 0)
                  /\ 10 \in q.leds <=> v < 0
                  /\ 12 \in q.leds <=> Distance(v) >= 100
<1> DEFINE s == Signs(p, v, 10, 12)
           q == printSignedHex1(p, v)
           spill == Or(s.hex[2], Tens(v) \div 16)
           left == Or(Tens(v) % 16, Ones(v) \div 16)
           right == Ones(v) % 16
<1>1. /\ s \in Panels /\ s.hex = p.hex
      /\ \A n : n \notin {10, 12} => (n \in s.leds <=> n \in p.leds)
      /\ 10 \in s.leds <=> v < 0
      /\ 12 \in s.leds <=> Quotient(Magnitude(v), 100) # 0
  <2>1. PICK minus \in Lamps, hundreds \in Lamps : minus = 10 /\ hundreds = 12
    BY DEF Lamps
  <2>2. minus # hundreds
    BY <2>1
  <2>3. s = Signs(p, v, minus, hundreds)
    BY <2>1
  <2> HIDE DEF s
  <2>4. /\ s \in Panels /\ s.hex = p.hex
        /\ \A n : n \notin {minus, hundreds} => (n \in s.leds <=> n \in p.leds)
        /\ minus \in s.leds <=> v < 0
        /\ hundreds \in s.leds <=> Quotient(Magnitude(v), 100) # 0
    BY <2>2, <2>3, LampsOfOneValue, Zenon
  <2> QED BY <2>1, <2>4, Zenon
<1>2. spill \in 0..15 /\ left \in 0..15 /\ right \in 0..15
  <2>1. right \in 0..15
    BY DigitsAreBytes
  <2> QED BY <2>1, OrIsADigit
<1>3. v # -128 => spill = p.hex[2] /\ left = Decimal(v, 1) /\ right = Decimal(v, 0)
  <2> SUFFICES ASSUME v # -128
               PROVE  spill = p.hex[2] /\ left = Decimal(v, 1) /\ right = Decimal(v, 0)
    OBVIOUS
  <2>1. /\ Tens(v) = Decimal(v, 1) /\ Tens(v) \in 0..9
        /\ Ones(v) = Decimal(v, 0) /\ Ones(v) \in 0..9
    BY DigitsAreDecimal
  <2>2. /\ Tens(v) % 16 = Tens(v) /\ Tens(v) \in 0..15 /\ Tens(v) \div 16 = 0
        /\ Ones(v) % 16 = Ones(v) /\ Ones(v) \div 16 = 0
    BY <2>1, NoSpill
  <2>3. s.hex[2] = p.hex[2] /\ p.hex[2] \in 0..15
    BY <1>1 DEF Panels
  <2> HIDE DEF s
  <2> QED BY <2>1, <2>2, <2>3, OrWithNothing
<1> HIDE DEF s, spill, left, right
<1>4. q = [s EXCEPT !.hex = [s.hex EXCEPT ![2] = spill, ![1] = left, ![0] = right]]
  BY DEF printSignedHex1, s, spill, left, right, Signs, Light, setLED, clearLED, Panels
<1>5. /\ q \in Panels /\ q.leds = s.leds
      /\ q.hex[2] = spill /\ q.hex[1] = left /\ q.hex[0] = right
      /\ q.hex[3] = p.hex[3]
  BY <1>1, <1>2, <1>4 DEF Panels
<1> HIDE DEF q
<1>6. v # -128 => (12 \in q.leds <=> Distance(v) >= 100)
  BY <1>1, <1>5, DigitsAreDecimal
<1> QED BY <1>1, <1>3, <1>5, <1>6, Zenon DEF q

(* Both halves: what is printed last is shown, whatever was there.         *)
LEMMA BothHalves ==
  ASSUME NEW p \in Panels, NEW high \in SignedChars, NEW low \in SignedChars
  PROVE  LET q == printSignedHex1(printSignedHex0(p, high), low)
         IN  /\ q \in Panels
             /\ q.leds \cap 0..2 = p.leds \cap 0..2
             /\ -128 \notin {high, low} => Shows(q, high, low)
<1> DEFINE a == printSignedHex0(p, high)
           q == printSignedHex1(a, low)
<1>1. /\ a \in Panels
      /\ \A n : n \notin {11, 13} => (n \in a.leds <=> n \in p.leds)
      /\ high # -128 =>
           /\ a.hex[3] = Decimal(high, 1) /\ a.hex[2] = Decimal(high, 0)
           /\ 11 \in a.leds <=> high < 0
           /\ 13 \in a.leds <=> Distance(high) >= 100
  BY LeftHalf, Zenon
<1> HIDE DEF a
<1>2. /\ q \in Panels
      /\ q.hex[3] = a.hex[3]
      /\ \A n : n \notin {10, 12} => (n \in q.leds <=> n \in a.leds)
      /\ low # -128 =>
           /\ q.hex[2] = a.hex[2]
           /\ q.hex[1] = Decimal(low, 1) /\ q.hex[0] = Decimal(low, 0)
           /\ 10 \in q.leds <=> low < 0
           /\ 12 \in q.leds <=> Distance(low) >= 100
  BY <1>1, RightHalf, Zenon
<1> HIDE DEF q
<1>3. q.leds \cap 0..2 = p.leds \cap 0..2
  <2>1. \A n \in 0..2 : n \notin {10, 11, 12, 13}
    OBVIOUS
  <2>2. \A n \in 0..2 : n \in q.leds <=> n \in p.leds
    BY <1>1, <1>2, <2>1
  <2> QED BY <2>2
<1>4. -128 \notin {high, low} => Shows(q, high, low)
  <2> SUFFICES ASSUME high # -128, low # -128
               PROVE  Shows(q, high, low)
    BY Zenon
  <2>1. /\ q.hex[3] = Decimal(high, 1) /\ q.hex[2] = Decimal(high, 0)
        /\ q.hex[1] = Decimal(low, 1) /\ q.hex[0] = Decimal(low, 0)
    BY <1>1, <1>2
  <2>2. 11 \notin {10, 12} /\ 13 \notin {10, 12}
    OBVIOUS
  <2>3. /\ 11 \in q.leds <=> high < 0
        /\ 13 \in q.leds <=> Distance(high) >= 100
        /\ 10 \in q.leds <=> low < 0
        /\ 12 \in q.leds <=> Distance(low) >= 100
    BY <1>1, <1>2, <2>2, Zenon
  <2>4. 10..13 = {10, 11, 12, 13}
    OBVIOUS
  <2>5. q.leds \cap 10..13 =
          {n \in 10..13 : \/ n = 11 /\ high < 0
                          \/ n = 13 /\ Distance(high) >= 100
                          \/ n = 10 /\ low < 0
                          \/ n = 12 /\ Distance(low) >= 100}
    BY <2>3, <2>4
  <2> QED BY <2>1, <2>5 DEF Shows
<1> QED BY <1>2, <1>3, <1>4 DEF q, a

(* The three buttons.                                                      *)
LEMMA ButtonsAreShown ==
  ASSUME NEW p \in Panels, NEW button \in SUBSET (0..2)
  PROVE  LET q == Buttons(p, button)
         IN  /\ q \in Panels /\ q.hex = p.hex
             /\ q.leds \cap 0..2 = button
             /\ q.leds \cap 10..13 = p.leds \cap 10..13
<1>1. 0..2 \subseteq Lamps /\ 0 \in 0..2 /\ 1 \in 0..2 /\ 2 \in 0..2
  BY DEF Lamps
<1> DEFINE a == Light(p, 2, 2 \in button)
           b == Light(a, 1, 1 \in button)
           q == Light(b, 0, 0 \in button)
<1>2. /\ a \in Panels /\ a.hex = p.hex /\ (2 \in a.leds <=> 2 \in button)
      /\ \A m : m # 2 => (m \in a.leds <=> m \in p.leds)
  BY <1>1, SetLamp, ClearLamp, Zenon DEF Light
<1> HIDE DEF a
<1>3. /\ b \in Panels /\ b.hex = a.hex /\ (1 \in b.leds <=> 1 \in button)
      /\ \A m : m # 1 => (m \in b.leds <=> m \in a.leds)
  BY <1>1, <1>2, SetLamp, ClearLamp, Zenon DEF Light
<1> HIDE DEF b
<1>4. /\ q \in Panels /\ q.hex = b.hex /\ (0 \in q.leds <=> 0 \in button)
      /\ \A m : m # 0 => (m \in q.leds <=> m \in b.leds)
  BY <1>1, <1>3, SetLamp, ClearLamp, Zenon DEF Light
<1> HIDE DEF q
<1>5. \A n \in 0..2 : n \in q.leds <=> n \in button
  <2>1. \A n \in 0..2 : n = 0 \/ n = 1 \/ n = 2
    OBVIOUS
  <2> QED BY <1>2, <1>3, <1>4, <2>1
<1>6. q.leds \cap 0..2 = button
  BY <1>5
<1>7. q.leds \cap 10..13 = p.leds \cap 10..13
  <2>1. \A n \in 10..13 : n # 0 /\ n # 1 /\ n # 2
    OBVIOUS
  <2> QED BY <1>2, <1>3, <1>4, <2>1
<1> QED BY <1>2, <1>3, <1>4, <1>6, <1>7 DEF q, b, a, Buttons

-----------------------------------------------------------------------------
(* The main loop.                                                          *)
LEMMA LoopStart == LoopInit => LoopInv
<1> SUFFICES ASSUME LoopInit PROVE LoopInv
  OBVIOUS
<1>1. PortInv
  BY PortStart DEF LoopInit
<1>2. PortTypeOK /\ mouse \in BOOLEAN /\ printing \in BOOLEAN /\ ~(mouse /\ plugged)
  BY <1>1 DEF PortInv, LoopInit, PortInit
<1>3. panel = [leds |-> {}, hex |-> [i \in 0..3 |-> 0]]
      /\ last = [high |-> 0, low |-> 0, button |-> {}]
  BY DEF LoopInit
<1>4. panel \in Panels
  BY <1>3 DEF Panels
<1>5. last \in [high : SignedChars, low : SignedChars, button : SUBSET (0..2)]
  BY <1>3 DEF SignedChars
<1>6. Decimal(0, 1) = 0 /\ Decimal(0, 0) = 0 /\ Distance(0) = 0
  BY DEF Decimal, Distance
<1>7. PanelShowsTheValues
  <2>1. Shows(panel, 0, 0)
    BY <1>3, <1>6 DEF Shows
  <2> QED BY <1>3, <2>1 DEF PanelShowsTheValues
<1> QED BY <1>1, <1>2, <1>4, <1>5, <1>7 DEF LoopInv, LoopTypeOK

(* The values that are shown are signed characters.                        *)
LEMMA KeysAreBytes ==
  ASSUME PortTypeOK, NEW i
  PROVE  SignedChar(ReportAt(i)) \in SignedChars
<1>1. ReportAt(i) \in Keys \cup {NoKey}
  BY DEF ReportAt, PortTypeOK
<1>2. ReportAt(i) \in Int
  BY <1>1, KeyAssumption
<1> QED BY <1>2, SignedCharRange

LEMMA PrintKeysKeeps ==
  ASSUME LoopInv, PrintKeys
  PROVE  LoopInv'
<1> DEFINE Value(i) == SignedChar(ReportAt(i))
           first == printSignedHex1(printSignedHex0(panel, Value(1)), Value(2))
           second == printSignedHex1(printSignedHex0(first, Value(3)), Value(4))
<1>1. /\ panel' = second
      /\ last' = [last EXCEPT !.high = Value(3), !.low = Value(4)]
      /\ printing' = FALSE
      /\ UNCHANGED <<portVars, mouse>>
  BY DEF PrintKeys
<1>2. \A i : Value(i) \in SignedChars
  BY KeysAreBytes DEF LoopInv, PortInv
<1> HIDE DEF Value
<1>3. first \in Panels /\ first.leds \cap 0..2 = panel.leds \cap 0..2
  BY <1>2, BothHalves, Zenon DEF LoopInv, LoopTypeOK
<1> HIDE DEF first
<1>4. /\ second \in Panels
      /\ second.leds \cap 0..2 = first.leds \cap 0..2
      /\ -128 \notin {Value(3), Value(4)} => Shows(second, Value(3), Value(4))
  BY <1>2, <1>3, BothHalves, Zenon
<1> HIDE DEF second
<1>5. /\ last' \in [high : SignedChars, low : SignedChars, button : SUBSET (0..2)]
      /\ last'.high = Value(3) /\ last'.low = Value(4) /\ last'.button = last.button
  BY <1>1, <1>2 DEF LoopInv
<1>6. PanelShowsTheValues'
  BY <1>1, <1>3, <1>4, <1>5 DEF LoopInv, PanelShowsTheValues
<1>7. PortInv'
  BY <1>1, PortStep DEF LoopInv
<1>8. LoopTypeOK'
  BY <1>1, <1>4, <1>7 DEF LoopTypeOK, LoopInv, PortInv, portVars
<1> QED BY <1>5, <1>6, <1>7, <1>8 DEF LoopInv

LEMMA PollMouseKeeps ==
  ASSUME LoopInv, NEW r \in MouseReports, PollMouse(r)
  PROVE  LoopInv'
<1> DEFINE x == SignedChar(r.x)
           y == SignedChar(r.y)
           values == printSignedHex1(printSignedHex0(panel, x), y)
           all == Buttons(values, r.button)
<1>1. /\ panel' = all
      /\ last' = [high |-> x, low |-> y, button |-> r.button]
      /\ UNCHANGED <<portVars, mouse, printing>>
  BY DEF PollMouse
<1>2. r.x \in Int /\ r.y \in Int /\ r.button \in SUBSET (0..2)
  BY MouseAssumption DEF BOOT_MOUSE_REPORT
<1>3. x \in SignedChars /\ y \in SignedChars
  BY <1>2, SignedCharRange
<1> HIDE DEF x, y
<1>4. /\ values \in Panels
      /\ -128 \notin {x, y} => Shows(values, x, y)
  BY <1>3, BothHalves, Zenon DEF LoopInv, LoopTypeOK
<1> HIDE DEF values
<1>5. /\ all \in Panels /\ all.hex = values.hex
      /\ all.leds \cap 0..2 = r.button
      /\ all.leds \cap 10..13 = values.leds \cap 10..13
  BY <1>2, <1>4, ButtonsAreShown, Zenon
<1> HIDE DEF all
<1>6. -128 \notin {x, y} => Shows(all, x, y)
  BY <1>4, <1>5, Zenon DEF Shows
<1>7. /\ last' \in [high : SignedChars, low : SignedChars, button : SUBSET (0..2)]
      /\ last'.high = x /\ last'.low = y /\ last'.button = r.button
  BY <1>1, <1>2, <1>3
<1>8. PanelShowsTheValues'
  BY <1>1, <1>5, <1>6, <1>7 DEF PanelShowsTheValues
<1>9. PortInv'
  BY <1>1, PortStep DEF LoopInv
<1>10. LoopTypeOK'
  BY <1>1, <1>5, <1>9 DEF LoopTypeOK, LoopInv, PortInv, portVars
<1> QED BY <1>7, <1>8, <1>9, <1>10 DEF LoopInv

LEMMA LoopStep == LoopInv /\ [LoopNext]_loopVars => LoopInv'
<1> SUFFICES ASSUME LoopInv, [LoopNext]_loopVars
             PROVE  LoopInv'
  OBVIOUS
<1>1. ASSUME [PortNext]_portVars, UNCHANGED <<panel, last>>,
             mouse' \in BOOLEAN, printing' \in BOOLEAN, ~(mouse' /\ plugged')
      PROVE  LoopInv'
  <2>1. PortInv'
    BY <1>1, PortStep DEF LoopInv
  <2> QED BY <1>1, <2>1 DEF LoopInv, LoopTypeOK, PanelShowsTheValues, PortInv
<1>2. /\ mouse \in BOOLEAN /\ printing \in BOOLEAN /\ ~(mouse /\ plugged)
      /\ plugged \in BOOLEAN
  BY DEF LoopInv, LoopTypeOK, PortTypeOK
<1>3. CASE Players
  <2>1. PortNext /\ UNCHANGED <<mouse, printing, panel, last>>
    BY <1>3 DEF Players, PortNext
  <2>2. ~(mouse /\ plugged')
    BY <1>2, <1>3 DEF Players, Press, Release
  <2> QED BY <1>1, <1>2, <2>1, <2>2
<1>4. CASE ReplugMouse
  BY <1>1, <1>2, <1>4 DEF ReplugMouse, portVars
<1>5. CASE PollKeyboard
  BY <1>1, <1>2, <1>5 DEF PollKeyboard, PortNext, Poll
<1>6. CASE CopyKeys
  BY <1>1, <1>2, <1>6 DEF CopyKeys, PortNext, SetKeycode
<1>7. CASE PrintKeys
  BY <1>7, PrintKeysKeeps
<1>8. CASE \E r \in MouseReports : PollMouse(r)
  BY <1>8, PollMouseKeeps
<1>9. CASE UNCHANGED loopVars
  BY <1>1, <1>2, <1>9 DEF loopVars, portVars
<1> QED BY <1>3, <1>4, <1>5, <1>6, <1>7, <1>8, <1>9 DEF LoopNext

-----------------------------------------------------------------------------
(* PortInv, the types and what the panel shows are inductive together.     *)
THEOREM LoopInvariant == LoopSpec => []LoopInv
<1> QED BY LoopStart, LoopStep, PTL DEF LoopSpec

(* Every step of the main loop, of the players and of the mouse keeps the  *)
(* variables within their types (main.c).                                  *)
THEOREM LoopTypeCorrect == LoopSpec => []LoopTypeOK
<1>1. LoopInv => LoopTypeOK
  BY DEF LoopInv
<1> QED BY <1>1, LoopInvariant, PTL

(* However many registers are written one by one, a key that is held       *)
(* through two reports is always in one of them (main.c:128-134).          *)
THEOREM HeldKeysStay == LoopSpec => []HeldKeyStaysVisible
<1>1. LoopInv => HeldKeyStaysVisible
  BY KeptIsVisible DEF LoopInv
<1> QED BY <1>1, LoopInvariant, PTL

(* Each half of the hex display shows the value that was printed on it     *)
(* last, and the LEDs the buttons of the mouse (main.c:62-124).            *)
THEOREM PanelIsRight == LoopSpec => []PanelShowsTheValues
<1>1. LoopInv => PanelShowsTheValues
  BY DEF LoopInv
<1> QED BY <1>1, LoopInvariant, PTL
=============================================================================
