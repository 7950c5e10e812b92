----------------------------- MODULE ReportLoop -----------------------------
(***************************************************************************)
(* What the main loop does with the reports it polls (main.c): those of a  *)
(* keyboard go to the keycode registers, as in KeycodePort, and to the     *)
(* hex display, those of a mouse to the hex display and three LEDs.  The   *)
(* panel has no other user while a device runs, so that a report is shown  *)
(* in one step.  The mouse is external: it sends any of the given reports. *)
(***************************************************************************)
EXTENDS KeycodePort, Panel

CONSTANT MouseReports   \* what the mouse reports

BOOT_MOUSE_REPORT == [x : 0..255, y : 0..255, button : SUBSET (0..2)]

ASSUME MouseAssumption == MouseReports \subseteq BOOT_MOUSE_REPORT

(* The codes of the keys are bytes.                                        *)
ASSUME KeyAssumption == Keys \cup {NoKey} \subseteq 0..255

VARIABLES
  mouse,     \* is a mouse plugged in, instead of the keyboard?
  printing,  \* has main a report of the keyboard that it has not shown yet?
  panel,     \* the LEDs and the hex display
  last       \* history: the values and the buttons shown last

loopVars == <<portVars, mouse, printing, panel, last>>

LoopInit ==
  /\ PortInit
  /\ mouse \in {FALSE, ~plugged}
  /\ printing = FALSE
  /\ panel = [leds |-> {}, hex |-> [i \in 0..3 |-> 0]]
  /\ last = [high |-> 0, low |-> 0, button |-> {}]

Players ==
  /\ \/ \E k \in Keys : Press(k) \/ Release(k)
     \/ Replug /\ ~mouse
  /\ UNCHANGED <<mouse, printing, panel, last>>

ReplugMouse ==
  /\ ~plugged
  /\ mouse' = ~mouse
  /\ UNCHANGED <<portVars, printing, panel, last>>

PollKeyboard ==
  /\ Poll
  /\ ~printing
  /\ printing' = TRUE
  /\ UNCHANGED <<mouse, panel, last>>

CopyKeys == SetKeycode /\ UNCHANGED <<mouse, printing, panel, last>>

(* The first two keys are shown, and at once replaced by the next two.     *)
PrintKeys ==
  LET Value(i) == SignedChar(ReportAt(i))
  IN  /\ printing
      /\ slot = Registers + 1
      /\ panel' = printSignedHex1(printSignedHex0(
                    printSignedHex1(printSignedHex0(panel, Value(1)), Value(2)),
                    Value(3)), Value(4))
      /\ last' = [last EXCEPT !.high = Value(3), !.low = Value(4)]
      /\ printing' = FALSE
      /\ UNCHANGED <<portVars, mouse>>

Buttons(p, button) ==
  Light(Light(Light(p, 2, 2 \in button), 1, 1 \in button), 0, 0 \in button)

PollMouse(r) ==
  LET x == SignedChar(r.x)
      y == SignedChar(r.y)
  IN  /\ mouse
      /\ slot = Registers + 1 /\ ~printing
      /\ panel' = Buttons(printSignedHex1(printSignedHex0(panel, x), y), r.button)
      /\ last' = [high |-> x, low |-> y, button |-> r.button]
      /\ UNCHANGED <<portVars, mouse, printing>>

LoopNext ==
  \/ Players \/ ReplugMouse
  \/ PollKeyboard \/ CopyKeys \/ PrintKeys
  \/ \E r \in MouseReports : PollMouse(r)

(* A report that was polled is copied and shown; that there is one is not  *)
(* assumed (module KeycodePort).                                           *)
LoopSpec ==
  /\ LoopInit
  /\ [][LoopNext]_loopVars
  /\ WF_loopVars(CopyKeys) /\ WF_loopVars(PrintKeys)

-----------------------------------------------------------------------------
LoopTypeOK ==
  /\ PortTypeOK
  /\ mouse \in BOOLEAN /\ printing \in BOOLEAN
  /\ ~(mouse /\ plugged)
  /\ panel \in Panels

(* Although the two halves of the display share a register and all lamps   *)
(* another, each half shows the value that was printed on it last, with    *)
(* its sign and its hundred, and the three LEDs the buttons of the last    *)
(* report of a mouse.  The value -128 is the exception: it has no positive *)
(* counterpart, its digits are no digits, and on the right half they spill *)
(* over into the left (main.c:78, 105, 122).                               *)
PanelShowsTheValues ==
  /\ -128 \notin {last.high, last.low} => Shows(panel, last.high, last.low)
  /\ panel.leds \cap 0..2 = last.button

(* The inductive invariant of the proofs in LoopProofs.                    *)
LoopInv ==
  /\ PortInv
  /\ LoopTypeOK
  /\ last \in [high : SignedChars, low : SignedChars, button : SUBSET (0..2)]
  /\ PanelShowsTheValues
=============================================================================
