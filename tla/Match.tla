------------------------------- MODULE Match --------------------------------
(***************************************************************************)
(* What the players are promised: the phases a game goes through and how   *)
(* the energy bars move, without registers, edge detectors or modular      *)
(* arithmetic.                                                             *)
(***************************************************************************)
EXTENDS Controls

CONSTANTS
  Cost,  \* what a hit takes from a bar
  Full   \* the full bar

VARIABLES
  phase,  \* "menu", "play", "blast" or, with the screen shown, "over1" / "over2"
  bar     \* the energy of each tank

matchVars == <<phase, bar>>

MatchInit == phase = "menu" /\ bar = [t \in Tanks |-> 0]

-----------------------------------------------------------------------------
Refill == bar' = [t \in Tanks |-> Full]

(* Any tank that has energy left may take a hit; a frame can hit both.     *)
TakeHits(damaged) ==
  /\ \A t \in damaged : bar[t] # 0
  /\ bar' = [t \in Tanks |-> IF t \in damaged THEN bar[t] - Cost ELSE bar[t]]

SomeHits == \E damaged \in SUBSET Tanks : TakeHits(damaged)

(* The bars move within a phase.                                           *)
Battle == UNCHANGED phase /\ (Refill \/ SomeHits)

(* A match started from the menu takes the bars as they are.               *)
StartMatch == phase = "menu" /\ phase' = "play" /\ SomeHits

Blow ==
  /\ phase = "play" /\ phase' = "blast"
  /\ \E t \in Tanks : bar[t] = 0
  /\ Refill \/ SomeHits

(* Screen 2 is shown over an empty bar of tank 2, as the code has it, and  *)
(* screen 1 in all other cases; whose victory a screen announces is a      *)
(* question of ScreenNamesTheWinner in module Round.                       *)
Settle ==
  /\ phase = "blast"
  /\ phase' = "over1" \/ (phase' = "over2" /\ bar[2] = 0)
  /\ Refill \/ SomeHits

Rematch == phase \in {"over1", "over2"} /\ phase' = "play" /\ Refill

ToMenu == phase' = "menu" /\ Refill

MatchNext == Battle \/ StartMatch \/ Blow \/ Settle \/ Rematch \/ ToMenu

MatchSpec == MatchInit /\ [][MatchNext]_matchVars
=============================================================================
