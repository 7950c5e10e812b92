------------------------------ MODULE Controls ------------------------------
(***************************************************************************)
(* What every part of the game has in common: the two tanks and the USB    *)
(* key codes the hardware compares its keycode registers with.             *)
(***************************************************************************)
EXTENDS Integers

CONSTANT Tanks     \* the tanks in play: {1, 2}, or one of them to study it alone

ASSUME TanksAssumption == Tanks \subseteq {1, 2}

-----------------------------------------------------------------------------
(* The keycode registers keycode, keycode1, keycode2 and keycode3.         *)
Slots == 0..3

(* The keys of the game itself.  Only keycode register 0 is looked at.     *)
NoKey == 0
MKey == 16      \* to the menu
OKey == 18
YKey == 28      \* play again
EnterKey == 88  \* start

GameKeys == {NoKey, MKey, OKey, YKey, EnterKey}

(* The wire game_reset of finalproject.sv, a function of register 0.       *)
ResetWithoutO(key) == key \in {YKey, MKey}        \* mutant: O is not decoded

ResetWithoutY(key) == key \in {OKey, MKey}        \* mutant: Y is not decoded

GameReset(key) == key \in {OKey, YKey, MKey}
=============================================================================
