---------------------------- MODULE VgaController ---------------------------
(***************************************************************************)
(* The VGA controller (VGA_controller.sv).  It divides the 50 MHz clock by *)
(* two, counts pixels and lines, and makes the sync pulses; the rising     *)
(* edge of the vertical one, vs, is the frame clock of the whole game.     *)
(* KEY0 resets it asynchronously.                                          *)
(***************************************************************************)
EXTENDS Integers

CONSTANTS
  hpixels,    \* the last pixel of a line                 (799 in the source)
  vlines,     \* the last line                            (524)
  HVisible,   \* the visible pixels of a line             (640)
  VVisible,   \* the visible lines                        (480)
  HSync,      \* the pixels of the horizontal sync pulse  (656..751)
  VSync       \* the lines of the vertical one            (490..491)

ASSUME VgaAssumption ==
  /\ hpixels \in 1..1023 /\ vlines \in 1..1023
  /\ HVisible \in 1..hpixels /\ HSync \subseteq HVisible..(hpixels - 1)
  /\ VVisible \in 1..vlines /\ VSync \subseteq (VVisible + 1)..(vlines - 1)
  /\ \E first, last \in 1..1023 : VSync = first..last       \* one pulse

VARIABLES
  Reset,      \* is KEY0 down?
  clkdiv,     \* the pixel clock
  hc, vc,     \* the pixel and the line that is drawn
  hs, vs      \* the sync signals, active low

vgaVars == <<Reset, clkdiv, hc, vc, hs, vs>>

(* All registers come up as zero.                                          *)
VgaInit ==
  /\ Reset = FALSE
  /\ clkdiv = FALSE
  /\ hc = 0 /\ vc = 0
  /\ hs = FALSE /\ vs = FALSE

display == hc < HVisible /\ vc < VVisible

-----------------------------------------------------------------------------
PressReset ==
  /\ ~Reset
  /\ Reset' = TRUE
  /\ clkdiv' = FALSE
  /\ hc' = 0 /\ vc' = 0
  /\ hs' = FALSE /\ vs' = FALSE

ReleaseReset ==
  /\ Reset
  /\ Reset' = FALSE
  /\ UNCHANGED <<clkdiv, hc, vc, hs, vs>>

NextHcOneMore == IF hc = hpixels + 1 THEN 0 ELSE hc + 1  \* mutant: a pixel too many

NextHc == IF hc = hpixels THEN 0 ELSE hc + 1

NextVc ==
  CASE hc # hpixels -> vc
    [] hc = hpixels /\ vc = vlines -> 0
    [] OTHER -> vc + 1

NextVsByColumn == (hc + 1) \notin VSync  \* mutant: looks at the column

NextVs == (vc + 1) \notin VSync

(* The falling edge of the pixel clock changes nothing else.               *)
HalfPixel ==
  /\ ~Reset
  /\ clkdiv
  /\ clkdiv' = FALSE
  /\ UNCHANGED <<Reset, hc, vc, hs, vs>>

Pixel ==
  /\ ~Reset
  /\ ~clkdiv
  /\ clkdiv' = TRUE
  /\ hc' = NextHc
  /\ vc' = NextVc
  /\ hs' = ((hc + 1) \notin HSync)
  /\ vs' = NextVs
  /\ UNCHANGED Reset

FrameEdge == ~vs /\ vs'

VgaTypeOK ==
  /\ {Reset, clkdiv, hs, vs} \subseteq BOOLEAN
  /\ hc \in 0..hpixels
  /\ vc \in 0..vlines
=============================================================================
