------------------------------ MODULE MCBattle ------------------------------
(***************************************************************************)
(* A small battle: tank 2 above tank 1; each can fire at the other.        *)
(***************************************************************************)
EXTENDS BattleCity

(* Register 0 holds a key of the game, register 1 one of the tanks: fire   *)
(* for tank 1, down and fire for tank 2.                                   *)
DuelInputs ==
  [i \in Slots |-> CASE i = 0 -> {NoKey, EnterKey, YKey}
                     [] i = 1 -> {NoKey, 44, 81, 40}
                     [] OTHER -> {NoKey}]

(* A ground of 6 x 6 cells, 12 x 12 pixels: walls left and right and one   *)
(* between the tanks, which bullets fly over; bullets end at the top and   *)
(* the bottom.                                                             *)
DuelWalls == {a \in 0..35 : a % 6 \in {0, 5} \/ a \div 6 = 3}
EndWalls == {a \in 0..35 : a \div 6 \in {0, 5}}

Opponents == [t \in Tanks |-> IF t = 1 THEN <<4, 7>> ELSE <<4, 2>>]
=============================================================================
