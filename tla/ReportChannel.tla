--------------------------- MODULE ReportChannel ----------------------------
(***************************************************************************)
(* What the polling of a keyboard promises: every report that the keyboard *)
(* makes reaches the program once and in order.  One report waits at a     *)
(* time.  A keyboard that is configured anew forgets the report it holds.  *)
(***************************************************************************)
EXTENDS Naturals

VARIABLES
  made,     \* how many reports the keyboard has made
  taken     \* how many of them the program has got or given up

ChannelInit == made = 0 /\ taken = 0

Make == made = taken /\ made' = made + 1 /\ UNCHANGED taken
Take == taken < made /\ taken' = taken + 1 /\ UNCHANGED made
Forget == taken' = made /\ UNCHANGED made

ChannelSpec == ChannelInit /\ [][Make \/ Take \/ Forget]_<<made, taken>>
=============================================================================
