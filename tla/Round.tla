------------------------------- MODULE Round --------------------------------
(***************************************************************************)
(* A round of the game: the game state machine and the two health bars on  *)
(* the one frame clock VGA_VS, with the decoding of the game keys and the  *)
(* push button KEY0 of the top level (finalproject.sv).  What the tanks    *)
(* and the keyboard do appears as free inputs: `key' is keycode register 0 *)
(* and `collision[t]' the wire "a bullet of the other tank is in tank t".  *)
(*                                                                         *)
(* KEY0 also resets the VGA controller asynchronously, which holds VGA_VS  *)
(* low: no frame edge comes while the button is down, and VGA_VS rises,    *)
(* which is a frame edge, when it is let go.                               *)
(***************************************************************************)
EXTENDS Health, GameStates

VARIABLES
  key,        \* keycode register 0
  collision,  \* bullet2tank1collision and bullet1tank2collision
  key0        \* is the push button KEY0 down?

roundVars == <<healthVars, state, key, collision, key0>>

RoundInit ==
  /\ HealthInit
  /\ GameStatesInit
  /\ key = NoKey
  /\ collision \in [Tanks -> BOOLEAN]
  /\ key0 = FALSE

-----------------------------------------------------------------------------
NoShield == [t \in Tanks |-> FALSE]

(* The registers at a rising edge of VGA_VS.  All of them read the values  *)
(* before the edge; the tanks move at the same edge, so that the collision *)
(* wires may be different after it.                                        *)
Edge(reset) ==
  /\ HealthClock(GameReset(key), NoShield, collision)
  /\ GameStatesClock(reset, key, tank_dead)
  /\ collision' \in [Tanks -> BOOLEAN]
  /\ UNCHANGED key

(* The VGA controller reaches the end of the vertical sync pulse.          *)
Frame ==
  /\ ~key0
  /\ Edge(key0)
  /\ UNCHANGED key0

(* The button goes down: the tanks jump to their start positions.          *)
PressKEY0 ==
  /\ ~key0
  /\ key0' = TRUE
  /\ collision' \in [Tanks -> BOOLEAN]
  /\ UNCHANGED <<healthVars, state, key>>

(* The button comes up and VGA_VS rises with it.                           *)
ReleaseKEY0 ==
  /\ key0
  /\ key0' = FALSE
  /\ Edge(key0')

(* The processor writes keycode register 0.                                *)
WriteKeycode ==
  /\ key' \in GameKeys \ {key}
  /\ UNCHANGED <<healthVars, state, collision, key0>>

RoundNext == Frame \/ PressKEY0 \/ ReleaseKEY0 \/ WriteKeycode

(* The frame clock runs whenever it is not held by the button.             *)
RoundSafety == RoundInit /\ [][RoundNext]_roundVars

RoundSpec == RoundSafety /\ WF_roundVars(Frame)

-----------------------------------------------------------------------------
RoundTypeOK ==
  /\ HealthTypeOK
  /\ state \in GameStateSet
  /\ key \in GameKeys
  /\ collision \in [Tanks -> BOOLEAN]
  /\ key0 \in BOOLEAN

RoundInv == RoundTypeOK /\ HealthInv

(* A match only ever blows up over a tank whose bar is empty: the flag the *)
(* state machine reads is one frame old (gamestatemachine.sv:36).          *)
ExplosionNeedsDeath ==
  [][state' = "explode1" /\ state # "explode1" =>
       \E t \in Tanks : health[t] = 0]_roundVars

AllFresh ==
  \A t \in Tanks : health[t] = MaxHealth /\ ~tank_dead[t] /\ ~posedge_detected[t]

(* A rematch starts with full bars, nobody reported dead and no hit left   *)
(* over from the last match: game_reset and the state machine decode the   *)
(* same key (Y) at the same edge (finalproject.sv:236,                     *)
(* gamestatemachine.sv:67).                                                *)
RematchIsFresh ==
  [][(state \in DeathScreens) /\ state' = "game_state" => AllFresh']_roundVars

(* Only the M key leads to the menu: the button, whose wire is the reset   *)
(* of the state machine, freezes the clock that would sample it            *)
(* (VGA_controller.sv:100-104, finalproject.sv:297, gamestatemachine.sv:13).*)
MenuOnlyByM ==
  [][state' = "halted" /\ state # "halted" => key = MKey]_roundVars

FramesKeepComing == []<>(~key0)

(* An empty bar ends the match, unless it was refilled: the death goes     *)
(* through two registers before the state machine acts on it.  And every   *)
(* explosion ends on a death screen or in the menu.                        *)
DeathEndsMatch ==
  FramesKeepComing =>
    /\ \A t \in Tanks :
         (state = "game_state" /\ health[t] = 0)
           ~> (state # "game_state" \/ health[t] # 0)
    /\ (state \in Explosion) ~> (state \in DeathScreens \cup {"halted"})

-----------------------------------------------------------------------------
(* What the comments of the source say of the round.                       *)

(* "menu button or reset" leads to the menu (gamestatemachine.sv:13): a    *)
(* button that is held for good leaves the machine in the menu for good.   *)
ButtonResetsGame == <>[]key0 => <>[](state = "halted")

(* death_screen_P1 announces that player 1 has won, death_screen_P2 that   *)
(* player 2 has (gamestatemachine.sv:56, "make player 1 win", and the      *)
(* pictures p1win and p2win of Color_Mapper.sv:64, 98): neither names a    *)
(* player whose tank is the only one reported dead.                        *)
ScreenNamesTheWinner ==
  [][/\ state' = "death_screen_P1" /\ state # "death_screen_P1" =>
          ~(tank_dead[1] /\ ~tank_dead[2])
     /\ state' = "death_screen_P2" /\ state # "death_screen_P2" =>
          ~(tank_dead[2] /\ ~tank_dead[1])]_roundVars

-----------------------------------------------------------------------------
(* The round as the players see it (module Match): the phase is read off   *)
(* the state machine, the bars are the health registers themselves.        *)
Phase ==
  IF state = "halted" THEN "menu"
  ELSE IF state = "game_state" THEN "play"
  ELSE IF state \in Explosion THEN "blast"
  ELSE IF state = "death_screen_P1" THEN "over1"
  ELSE "over2"

M == INSTANCE Match WITH phase <- Phase, bar <- health,
                         Cost <- HitDamage, Full <- MaxHealth

(* The detailed round implements the abstract match.                       *)
ImplementsMatch == M!MatchSpec
=============================================================================
