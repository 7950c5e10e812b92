----------------------------- MODULE GameStates -----------------------------
(***************************************************************************)
(* The game state machine (game_states in gamestatemachine.sv).  The       *)
(* states keep the names of the source.                                    *)
(***************************************************************************)
EXTENDS Controls

(* The state machine has one input for each of the two tanks.              *)
ASSUME TwoTanks == Tanks = {1, 2}

VARIABLE state

Explosion == {"explode1", "explode2", "explode3", "explode4", "explode5", "explode6"}

DeathScreens == {"death_screen_P1", "death_screen_P2"}

GameStateSet == {"halted", "game_state"} \cup Explosion \cup DeathScreens

(* Without a power-up value the register holds the first of the states.    *)
GameStatesInit == state = "halted"

-----------------------------------------------------------------------------
(* The five transitions along the explosion, each at the next frame.       *)
NextExplosion(s) ==
  CASE s = "explode1" -> "explode2"
    [] s = "explode2" -> "explode3"
    [] s = "explode3" -> "explode4"
    [] s = "explode4" -> "explode5"
    [] s = "explode5" -> "explode6"

(* Which death screen ends the explosion.                                  *)
Verdict(dead) ==
  IF ~dead[1] /\ dead[2] THEN "death_screen_P2" ELSE "death_screen_P1"

NextStateRestarts(key, dead) ==      \* mutant: Enter works on the death screens
  CASE state = "halted" -> IF key = EnterKey THEN "game_state" ELSE state
    [] state = "game_state" -> IF \E t \in Tanks : dead[t] THEN "explode1" ELSE state
    [] state \in Explosion \ {"explode6"} -> NextExplosion(state)
    [] state = "explode6" -> Verdict(dead)
    [] state \in DeathScreens ->
         IF key \in {YKey, EnterKey} THEN "game_state"
         ELSE IF key = MKey THEN "halted"
         ELSE state

NextState(key, dead) ==
  CASE state = "halted" -> IF key = EnterKey THEN "game_state" ELSE state
    [] state = "game_state" -> IF \E t \in Tanks : dead[t] THEN "explode1" ELSE state
    [] state \in Explosion \ {"explode6"} -> NextExplosion(state)
    [] state = "explode6" -> Verdict(dead)
    [] state \in DeathScreens ->
         IF key = YKey THEN "game_state"
         ELSE IF key = MKey THEN "halted"
         ELSE state

(* The posedge of the frame clock: `reset' is the push button KEY0, `key'  *)
(* keycode register 0, `dead' the flags of the two health bars.            *)
GameStatesClock(reset, key, dead) ==
  state' = IF reset \/ key = MKey THEN "halted" ELSE NextState(key, dead)
=============================================================================
