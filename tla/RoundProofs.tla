----------------------------- MODULE RoundProofs ----------------------------
(***************************************************************************)
(* Proofs about a round: the invariant of the health bars carries over to  *)
(* the composition, and every step of the round is a step of the abstract  *)
(* match or leaves it unchanged.                                           *)
(***************************************************************************)
EXTENDS Round, HealthProofs

(* A frame edge keeps the state machine among its ten states.              *)
LEMMA NextStateInSet ==
  ASSUME state \in GameStateSet, NEW k, NEW dead, NEW reset,
         GameStatesClock(reset, k, dead)
  PROVE  state' \in GameStateSet
<1> USE DEF GameStateSet, Explosion, DeathScreens
<1>1. CASE reset \/ k = MKey
  BY <1>1 DEF GameStatesClock
<1>2. CASE ~(reset \/ k = MKey)
  <2>1. state' = NextState(k, dead)
    BY <1>2 DEF GameStatesClock
  <2>2. CASE state \in {"halted", "game_state"} \cup DeathScreens
    BY <2>1, <2>2 DEF NextState
  <2>3. CASE state \in Explosion \ {"explode6"}
    BY <2>1, <2>3 DEF NextState, NextExplosion
  <2>4. CASE state = "explode6"
    BY <2>1, <2>4 DEF NextState, Verdict
  <2> QED BY <2>2, <2>3, <2>4
<1> QED BY <1>1, <1>2

LEMMA RoundStart == RoundInit => RoundInv
<1> SUFFICES ASSUME RoundInit PROVE RoundInv
  OBVIOUS
<1>1. HealthInv
  BY HealthStart DEF RoundInit
<1>2. state \in GameStateSet
  BY DEF RoundInit, GameStatesInit, GameStateSet
<1>3. key \in GameKeys /\ collision \in [Tanks -> BOOLEAN] /\ key0 \in BOOLEAN
  BY DEF RoundInit, GameKeys
<1> QED BY <1>1, <1>2, <1>3 DEF RoundInv, RoundTypeOK, HealthInv

(* One rising edge of VGA_VS preserves the invariant.                      *)
LEMMA EdgeInv ==
  ASSUME RoundInv, NEW reset, Edge(reset)
  PROVE  /\ HealthInv'
         /\ state' \in GameStateSet
         /\ key' \in GameKeys
         /\ collision' \in [Tanks -> BOOLEAN]
<1>1. /\ GameReset(key) \in BOOLEAN
      /\ NoShield \in [Tanks -> BOOLEAN]
      /\ collision \in [Tanks -> BOOLEAN]
  BY DEF GameReset, NoShield, RoundInv, RoundTypeOK
<1>2. HealthInv'
  BY <1>1, HealthClockInv DEF Edge, RoundInv
<1>3. state' \in GameStateSet
  BY NextStateInSet DEF Edge, RoundInv, RoundTypeOK
<1> QED BY <1>2, <1>3 DEF Edge, RoundInv, RoundTypeOK

LEMMA RoundStep == RoundInv /\ [RoundNext]_roundVars => RoundInv'
<1> SUFFICES ASSUME RoundInv, [RoundNext]_roundVars PROVE RoundInv'
  OBVIOUS
<1> USE DEF RoundInv, RoundTypeOK
<1>1. CASE Frame
  <2>1. key0' \in BOOLEAN
    BY <1>1 DEF Frame
  <2> QED BY <1>1, <2>1, EdgeInv DEF Frame, HealthInv
<1>2. CASE ReleaseKEY0
  <2>1. key0' \in BOOLEAN
    BY <1>2 DEF ReleaseKEY0
  <2> QED BY <1>2, <2>1, EdgeInv DEF ReleaseKEY0, HealthInv
<1>3. CASE PressKEY0
  <2>1. HealthInv'
    BY <1>3 DEF PressKEY0, healthVars, HealthInv, HealthTypeOK,
                NoHitPendingOnEmpty, DeadOnlyWhenEmpty, PendingHitSeen
  <2> QED BY <1>3, <2>1 DEF PressKEY0, HealthInv
<1>4. CASE WriteKeycode
  <2>1. HealthInv'
    BY <1>4 DEF WriteKeycode, healthVars, HealthInv, HealthTypeOK,
                NoHitPendingOnEmpty, DeadOnlyWhenEmpty, PendingHitSeen
  <2>2. state' \in GameStateSet /\ key' \in GameKeys
    BY <1>4 DEF WriteKeycode
  <2>3. collision' \in [Tanks -> BOOLEAN] /\ key0' \in BOOLEAN
    BY <1>4 DEF WriteKeycode
  <2> QED BY <2>1, <2>2, <2>3 DEF HealthInv
<1>5. CASE UNCHANGED roundVars
  <2>1. HealthInv'
    BY <1>5 DEF roundVars, healthVars, HealthInv, HealthTypeOK,
                NoHitPendingOnEmpty, DeadOnlyWhenEmpty, PendingHitSeen
  <2> QED BY <1>5, <2>1 DEF roundVars, HealthInv
<1> QED BY <1>1, <1>2, <1>3, <1>4, <1>5 DEF RoundNext

(* The invariant of the round: types, and the invariant of the bars.       *)
THEOREM RoundInvariant == RoundSpec => []RoundInv
<1> QED BY RoundStart, RoundStep, PTL DEF RoundSpec, RoundSafety

(* Every register of the round keeps its type.                             *)
THEOREM RoundTypeCorrect == RoundSpec => []RoundTypeOK
<1>1. RoundInv => RoundTypeOK
  BY DEF RoundInv
<1> QED BY <1>1, RoundInvariant, PTL

-----------------------------------------------------------------------------
(* What an edge does to the bars, in the terms of the abstract match.      *)
LEMMA EdgeBars ==
  ASSUME RoundInv, NEW reset, Edge(reset)
  PROVE  /\ GameReset(key) => M!Refill
         /\ ~GameReset(key) => M!SomeHits
<1>1. /\ health' = [t \in Tanks |-> NextHealth(t, GameReset(key), NoShield[t])]
      /\ \A t \in Tanks : NoShield[t] = FALSE
  BY DEF Edge, HealthClock, NoShield
<1>2. ASSUME GameReset(key) PROVE M!Refill
  BY <1>1, <1>2 DEF M!Refill, NextHealth
<1>3. ASSUME ~GameReset(key) PROVE M!SomeHits
  <2> DEFINE damaged == {t \in Tanks : posedge_detected[t]}
  <2>1. \A t \in Tanks : health[t] \in Bars
    BY DEF RoundInv, HealthInv, HealthTypeOK, Bars
  <2>2. \A t \in damaged : health[t] # 0
    BY DEF RoundInv, HealthInv, NoHitPendingOnEmpty
  <2>3. \A t \in Tanks :
          NextHealth(t, GameReset(key), NoShield[t]) =
            IF t \in damaged THEN health[t] - HitDamage ELSE health[t]
    BY <1>1, <1>3, <2>1, <2>2, HitLeavesBar DEF NextHealth
  <2>4. health' = [t \in Tanks |->
                     IF t \in damaged THEN health[t] - HitDamage ELSE health[t]]
    BY <1>1, <2>3
  <2>5. M!TakeHits(damaged)
    BY <2>2, <2>4 DEF M!TakeHits
  <2>6. damaged \in SUBSET Tanks
    OBVIOUS
  <2> QED BY <2>5, <2>6 DEF M!SomeHits
<1> QED BY <1>2, <1>3

(* An edge at which the push button is up is a step of the abstract match. *)
LEMMA EdgeIsMatchStep ==
  ASSUME RoundInv, Edge(FALSE)
  PROVE  M!MatchNext
<1> USE DEF GameStateSet, Explosion, DeathScreens
<1>1. state' = IF key = MKey THEN "halted" ELSE NextState(key, tank_dead)
  BY DEF Edge, GameStatesClock
<1>2. M!Refill \/ M!SomeHits
  BY EdgeBars
<1>3. \A t \in Tanks : tank_dead[t] => health[t] = 0
  BY DEF RoundInv, HealthInv, DeadOnlyWhenEmpty
<1>4. state \in GameStateSet
  BY DEF RoundInv, RoundTypeOK
<1>5. CASE key = MKey
  <2>1. M!Refill
    BY <1>5, EdgeBars DEF GameReset
  <2>2. Phase' = "menu"
    BY <1>1, <1>5 DEF Phase
  <2> QED BY <2>1, <2>2 DEF M!ToMenu, M!MatchNext
<1>6. CASE key # MKey /\ state = "halted"
  <2>1. state' = IF key = EnterKey THEN "game_state" ELSE state
    BY <1>1, <1>6 DEF NextState
  <2>2. CASE key = EnterKey
    <3>1. M!SomeHits
      <4>1. ~GameReset(key)
        BY <2>2 DEF GameReset, EnterKey, OKey, YKey, MKey
      <4> QED BY <4>1, EdgeBars
    <3>2. Phase = "menu" /\ Phase' = "play"
      BY <1>6, <2>1, <2>2 DEF Phase
    <3> QED BY <3>1, <3>2 DEF M!StartMatch, M!MatchNext
  <2>3. CASE key # EnterKey
    <3>1. Phase' = Phase
      BY <2>1, <2>3 DEF Phase
    <3> QED BY <1>2, <3>1 DEF M!Battle, M!MatchNext
  <2> QED BY <2>2, <2>3
<1>7. CASE key # MKey /\ state = "game_state"
  <2>1. state' = IF \E t \in Tanks : tank_dead[t] THEN "explode1" ELSE state
    BY <1>1, <1>7 DEF NextState
  <2>2. CASE \E t \in Tanks : tank_dead[t]
    <3>1. \E t \in Tanks : health[t] = 0
      BY <1>3, <2>2
    <3>2. Phase = "play" /\ Phase' = "blast"
      BY <1>7, <2>1, <2>2 DEF Phase
    <3> QED BY <1>2, <3>1, <3>2 DEF M!Blow, M!MatchNext
  <2>3. CASE ~ \E t \in Tanks : tank_dead[t]
    <3>1. Phase' = Phase
      BY <2>1, <2>3 DEF Phase
    <3> QED BY <1>2, <3>1 DEF M!Battle, M!MatchNext
  <2> QED BY <2>2, <2>3
<1>8. CASE key # MKey /\ state \in Explosion \ {"explode6"}
  <2>1. state' = NextExplosion(state)
    BY <1>1, <1>8 DEF NextState
  <2>2. state' \in Explosion
    BY <1>8, <2>1 DEF NextExplosion
  <2>3. Phase = "blast" /\ Phase' = "blast"
    BY <1>8, <2>2 DEF Phase
  <2> QED BY <1>2, <2>3 DEF M!Battle, M!MatchNext
<1>9. CASE key # MKey /\ state = "explode6"
  <2>1. state' = IF ~tank_dead[1] /\ tank_dead[2]
                 THEN "death_screen_P2" ELSE "death_screen_P1"
    BY <1>1, <1>9 DEF NextState, Verdict
  <2>2. Phase = "blast"
    BY <1>9 DEF Phase
  <2>3. CASE ~tank_dead[1] /\ tank_dead[2]
    <3>1. health[2] = 0
      BY <1>3, <2>3, TwoTanks
    <3>2. Phase' = "over2"
      BY <2>1, <2>3 DEF Phase
    <3> QED BY <1>2, <2>2, <3>1, <3>2 DEF M!Settle, M!MatchNext
  <2>4. CASE ~(~tank_dead[1] /\ tank_dead[2])
    <3>1. Phase' = "over1"
      BY <2>1, <2>4 DEF Phase
    <3> QED BY <1>2, <2>2, <3>1 DEF M!Settle, M!MatchNext
  <2> QED BY <2>3, <2>4
<1>10. CASE key # MKey /\ state \in DeathScreens
  <2>1. state' = IF key = YKey THEN "game_state" ELSE state
    BY <1>1, <1>10 DEF NextState
  <2>2. CASE key = YKey
    <3>1. M!Refill
      BY <2>2, EdgeBars DEF GameReset
    <3>2. Phase \in {"over1", "over2"} /\ Phase' = "play"
      BY <1>10, <2>1, <2>2 DEF Phase
    <3> QED BY <3>1, <3>2 DEF M!Rematch, M!MatchNext
  <2>3. CASE key # YKey
    <3>1. Phase' = Phase
      BY <2>1, <2>3 DEF Phase
    <3> QED BY <1>2, <3>1 DEF M!Battle, M!MatchNext
  <2> QED BY <2>2, <2>3
<1> QED BY <1>4, <1>5, <1>6, <1>7, <1>8, <1>9, <1>10

(* The round, with its registers, edge detectors and modular arithmetic,   *)
(* implements the abstract match.                                          *)
THEOREM RoundImplementsMatch == RoundSpec => ImplementsMatch
<1>1. RoundInit => M!MatchInit
  BY DEF RoundInit, HealthInit, GameStatesInit, M!MatchInit, Phase
<1>2. RoundInv /\ [RoundNext]_roundVars => [M!MatchNext]_M!matchVars
  <2> SUFFICES ASSUME RoundInv, [RoundNext]_roundVars
               PROVE  M!MatchNext \/ UNCHANGED M!matchVars
    OBVIOUS
  <2>1. CASE Frame
    <3>1. key0 = FALSE
      BY <2>1 DEF Frame, RoundInv, RoundTypeOK
    <3> QED BY <2>1, <3>1, EdgeIsMatchStep DEF Frame
  <2>2. CASE ReleaseKEY0
    BY <2>2, EdgeIsMatchStep DEF ReleaseKEY0
  <2>3. CASE PressKEY0 \/ WriteKeycode \/ UNCHANGED roundVars
    <3>1. UNCHANGED <<health, state>>
      BY <2>3 DEF PressKEY0, WriteKeycode, roundVars, healthVars
    <3> QED BY <3>1 DEF M!matchVars, Phase
  <2> QED BY <2>1, <2>2, <2>3 DEF RoundNext
<1> QED BY <1>1, <1>2, RoundInvariant, PTL DEF RoundSpec, RoundSafety, ImplementsMatch, M!MatchSpec

-----------------------------------------------------------------------------
(* The transitions of the state machine that the action properties are     *)
(* about, and what must have been true for an edge to take them.           *)
LEMMA EdgeTransitions ==
  ASSUME RoundInv, Edge(FALSE)
  PROVE  /\ state' = "halted" /\ state # "halted" => key = MKey
         /\ state' = "explode1" /\ state # "explode1" =>
              \E t \in Tanks : tank_dead[t]
         /\ state \in DeathScreens /\ state' = "game_state" => key = YKey
<1> USE DEF GameStateSet, Explosion, DeathScreens
<1>1. state' = IF key = MKey THEN "halted" ELSE NextState(key, tank_dead)
  BY DEF Edge, GameStatesClock
<1>2. state \in GameStateSet
  BY DEF RoundInv, RoundTypeOK
<1>3. CASE key = MKey
  BY <1>1, <1>3
<1>4. CASE key # MKey /\ state \in {"halted", "game_state"} \cup DeathScreens
  BY <1>1, <1>4 DEF NextState
<1>5. CASE key # MKey /\ state \in Explosion \ {"explode6"}
  BY <1>1, <1>5 DEF NextState, NextExplosion
<1>6. CASE key # MKey /\ state = "explode6"
  BY <1>1, <1>6 DEF NextState, Verdict
<1> QED BY <1>2, <1>3, <1>4, <1>5, <1>6

(* A step that changes the state machine is an edge with the button up.    *)
LEMMA OnlyEdgesMoveTheState ==
  ASSUME RoundInv, [RoundNext]_roundVars, state' # state
  PROVE  Edge(FALSE)
<1>1. CASE Frame
  <2>1. key0 = FALSE
    BY <1>1 DEF Frame, RoundInv, RoundTypeOK
  <2> QED BY <1>1, <2>1 DEF Frame
<1>2. CASE ReleaseKEY0
  BY <1>2 DEF ReleaseKEY0
<1>3. CASE PressKEY0 \/ WriteKeycode \/ UNCHANGED roundVars
  BY <1>3 DEF PressKEY0, WriteKeycode, roundVars
<1> QED BY <1>1, <1>2, <1>3 DEF RoundNext

(* Nothing explodes unless a bar is empty.                                 *)
THEOREM BlastIsDeserved == RoundSpec => ExplosionNeedsDeath
<1>1. RoundInv /\ [RoundNext]_roundVars =>
        [state' = "explode1" /\ state # "explode1" =>
           \E t \in Tanks : health[t] = 0]_roundVars
  <2> SUFFICES ASSUME RoundInv, [RoundNext]_roundVars,
                      state' = "explode1", state # "explode1"
               PROVE  \E t \in Tanks : health[t] = 0
    OBVIOUS
  <2>1. PICK t \in Tanks : tank_dead[t]
    BY OnlyEdgesMoveTheState, EdgeTransitions
  <2> QED BY <2>1 DEF RoundInv, HealthInv, DeadOnlyWhenEmpty
<1> QED BY <1>1, RoundInvariant, PTL DEF RoundSpec, RoundSafety, ExplosionNeedsDeath

(* Only the M key leads to the menu, whatever is done to KEY0.             *)
THEOREM MenuNeedsM == RoundSpec => MenuOnlyByM
<1>1. RoundInv /\ [RoundNext]_roundVars =>
        [state' = "halted" /\ state # "halted" => key = MKey]_roundVars
  BY OnlyEdgesMoveTheState, EdgeTransitions
<1> QED BY <1>1, RoundInvariant, PTL DEF RoundSpec, RoundSafety, MenuOnlyByM

(* A rematch starts with full bars and no hit left over.                   *)
THEOREM FairRematch == RoundSpec => RematchIsFresh
<1>1. RoundInv /\ [RoundNext]_roundVars =>
        [(state \in DeathScreens) /\ state' = "game_state" => AllFresh']_roundVars
  <2> SUFFICES ASSUME RoundInv, [RoundNext]_roundVars,
                      state \in DeathScreens, state' = "game_state"
               PROVE  AllFresh'
    OBVIOUS
  <2>1. Edge(FALSE)
    BY OnlyEdgesMoveTheState DEF DeathScreens
  <2>2. GameReset(key)
    BY <2>1, EdgeTransitions DEF GameReset
  <2>3. \A t \in Tanks :
          /\ health'[t] = NextHealth(t, GameReset(key), NoShield[t])
          /\ tank_dead'[t] = NextDead(t, GameReset(key), NoShield[t])
          /\ posedge_detected'[t] = EdgeDetector(t, GameReset(key), collision[t])
    BY <2>1 DEF Edge, HealthClock
  <2> QED BY <2>2, <2>3 DEF AllFresh, NextHealth, NextDead, EdgeDetector
<1> QED BY <1>1, RoundInvariant, PTL DEF RoundSpec, RoundSafety, RematchIsFresh
=============================================================================
