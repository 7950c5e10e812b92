----------------------------- MODULE KeycodePort ----------------------------
(***************************************************************************)
(* How the keys that are held down reach the hardware (main.c).  The main  *)
(* loop polls the USB keyboard and copies the first four keys of its boot  *)
(* report into the keycode registers of the FPGA, one bus write after the  *)
(* other, while the frame clock reads all four whenever it likes.          *)
(*                                                                         *)
(* The keyboard is external: it reports the held keys, oldest first.  A    *)
(* poll that returns NAK or an error writes nothing.  Nothing is written   *)
(* when the keyboard is unplugged.                                         *)
(***************************************************************************)
EXTENDS Integers, Sequences, FiniteSets

CONSTANTS
  Keys,       \* the keys of the keyboard
  NoKey,      \* the value of an unused position in a report
  Registers,  \* how many keycode registers there are      (4 in the source)
  MaxHeld     \* how many keys a report has room for       (6)

ASSUME PortAssumption ==
  /\ NoKey \notin Keys
  /\ Registers \in Nat \ {0}
  /\ MaxHeld \in Nat

VARIABLES
  held,     \* the keys that are down, a sequence, oldest first
  plugged,  \* is the keyboard plugged in?
  report,   \* kbdbuf.keycode: the report that was polled last
  slot,     \* the register that is written next; Registers + 1: none
  keycode,  \* the keycode registers
  \* history variables
  seen,     \* the keys the last report shows to the registers, not released since
  kept      \* the keys held all the time between the last two reports

portVars == <<held, plugged, report, slot, keycode, seen, kept>>

Shown(r) == {r[i] : i \in {j \in DOMAIN r : j <= Registers}}

(* The keys the hardware sees at a frame.                                  *)
Visible == {keycode[i] : i \in 1..Registers} \ {NoKey}

PortInit ==
  /\ held = << >>
  /\ plugged \in BOOLEAN
  /\ report = << >>
  /\ slot = Registers + 1
  /\ keycode = [i \in 1..Registers |-> NoKey]
  /\ seen = {}
  /\ kept = {}

-----------------------------------------------------------------------------
(* The players.                                                            *)
Press(k) ==
  /\ k \notin {held[i] : i \in DOMAIN held}
  /\ Len(held) < MaxHeld
  /\ held' = Append(held, k)
  /\ UNCHANGED <<plugged, report, slot, keycode, seen, kept>>

Release(k) ==
  /\ \E i \in DOMAIN held :
       /\ held[i] = k
       /\ held' = SubSeq(held, 1, i - 1) \o SubSeq(held, i + 1, Len(held))
  /\ seen' = seen \ {k}
  /\ UNCHANGED <<plugged, report, slot, keycode, kept>>

Replug ==
  /\ plugged' = ~plugged
  /\ UNCHANGED <<held, report, slot, keycode, seen, kept>>

(* kbdPoll brings a report: the main loop is between two calls of          *)
(* setKeycode.                                                             *)
Poll ==
  /\ plugged
  /\ slot = Registers + 1
  /\ report' = held
  /\ slot' = 1
  /\ seen' = Shown(held)
  /\ kept' = seen \cap Shown(held)
  /\ UNCHANGED <<held, plugged, keycode>>

(* setKeycode writes one register; the report holds 0 beyond its keys.     *)
ReportAt(i) == IF i \in DOMAIN report THEN report[i] ELSE NoKey

WriteFromTheEnd(i) ==            \* mutant: the registers are written last to first
  LET j == Registers + 1 - i IN
  keycode' = [keycode EXCEPT ![j] = ReportAt(j)]

WriteHeldKeysOnly(i) ==          \* mutant: empty positions are not written
  keycode' = [keycode EXCEPT ![i] = IF ReportAt(i) = NoKey THEN @ ELSE ReportAt(i)]

WriteRegister(i) == keycode' = [keycode EXCEPT ![i] = ReportAt(i)]

SetKeycodeOneMore ==             \* mutant: runs over the last register
  /\ slot <= Registers + 1
  /\ WriteRegister(slot)
  /\ slot' = slot + 1
  /\ UNCHANGED <<held, plugged, report, seen, kept>>

SetKeycode ==
  /\ slot <= Registers
  /\ WriteRegister(slot)
  /\ slot' = slot + 1
  /\ UNCHANGED <<held, plugged, report, seen, kept>>

PortNext ==
  \/ \E k \in Keys : Press(k) \/ Release(k)
  \/ Replug
  \/ Poll
  \/ SetKeycode

(* What main has begun to copy it copies to the end.  Nothing makes a poll *)
(* bring a report: the task may never get to run the device, and a poll    *)
(* may return NAK or an error for ever (main.c:167-174).                   *)
PortSpec ==
  /\ PortInit
  /\ [][PortNext]_portVars
  /\ WF_portVars(SetKeycode)

-----------------------------------------------------------------------------
PortTypeOK ==
  /\ held \in Seq(Keys) /\ Len(held) <= MaxHeld
  /\ report \in Seq(Keys) /\ Len(report) <= MaxHeld
  /\ slot \in 1..(Registers + 1)
  /\ keycode \in [1..Registers -> Keys \cup {NoKey}]
  /\ {plugged} \subseteq BOOLEAN
  /\ seen \subseteq Keys
  /\ kept \subseteq Keys

(* A key that a player holds through two reports never drops out of the    *)
(* registers in between, although they are overwritten one by one and a    *)
(* frame may read them half written: the keys move to lower registers, and *)
(* those are written first (main.c:128-134).                               *)
HeldKeyStaysVisible == kept \subseteq Visible

(* The inductive invariant of the proofs in LoopProofs.  The registers     *)
(* below `slot' hold the report; a key that is held is at or below its     *)
(* place in the report, so that the next report moves it to no higher      *)
(* register; and a key that is kept is in the register it had, as long as  *)
(* that is not rewritten, and by then in the lower one it moves to.        *)
RegistersWritten ==
  \A i \in 1..Registers : i < slot => keycode[i] = ReportAt(i)

SeenKeysMoveDown ==
  \A k \in seen :
    \E p \in DOMAIN report :
      /\ p <= Registers /\ report[p] = k
      /\ \E q \in DOMAIN held : q <= p /\ held[q] = k

KeptKeysAreWritten ==
  \A k \in kept :
    \E p \in 1..Registers, q \in DOMAIN report :
      q <= p /\ report[q] = k /\ (slot <= p => keycode[p] = k)

PortInv ==
  PortTypeOK /\ RegistersWritten /\ SeenKeysMoveDown /\ KeptKeysAreWritten

(* Main has again and again a report of the keys as they are: no change is *)
(* kept from it for ever.  A keyboard that sends its changes only and then *)
(* answers NAK does that too.                                              *)
ReportsKeepUp == []<>(report = held)

(* As long as the reports keep up, a key that is let go for good leaves    *)
(* the registers for good, and one that is held for good and shown by the  *)
(* keyboard gets into them (main.c:128-134, 179).                          *)
RegistersFollowTheKeys ==
  ReportsKeepUp =>
    \A k \in Keys :
      /\ <>[](k \notin Shown(held)) => <>[](k \notin Visible)
      /\ <>[](k \in Shown(held)) => <>[](k \in Visible)
=============================================================================
