------------------------------ MODULE Animators -----------------------------
(***************************************************************************)
(* The animation of the tanks: a divided frame clock (clock_divider.sv),   *)
(* and per tank a register that picks one of two pictures and toggles      *)
(* while a steering key of its player is held (animator_fsms.sv).  Both    *)
(* modules have the same reset.                                            *)
(***************************************************************************)
EXTENDS Controls

VARIABLES
  counter,      \* the counter of the divider
  slow_clock,   \* its output, the clock of the animators
  picture       \* the picture of each tank, 1 or 2

animatorVars == <<counter, slow_clock, picture>>

AnimatorInit ==
  /\ counter = 0
  /\ slow_clock = FALSE
  /\ picture = [t \in Tanks |-> 1]

Divider(reset) ==
  CASE reset -> counter' = 0 /\ slow_clock' = FALSE
    [] ~reset /\ counter = 1 -> counter' = 0 /\ slow_clock' = ~slow_clock
    [] OTHER -> counter' = counter + 1 /\ UNCHANGED slow_clock

Animator(reset, steering) ==
  picture' = [t \in Tanks |->
    CASE reset -> 1
      [] ~reset /\ steering[t] -> 3 - picture[t]
      [] OTHER -> picture[t]]

(* An edge of the frame clock: the animators see an edge of their own only *)
(* when the divider's output rises.                                        *)
AnimatorFrame(reset, steering) ==
  /\ Divider(reset)
  /\ IF ~slow_clock /\ slow_clock' THEN Animator(reset, steering) ELSE UNCHANGED picture
=============================================================================
