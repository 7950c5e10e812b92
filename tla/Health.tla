------------------------------- MODULE Health -------------------------------
(***************************************************************************)
(* The health bars of the tanks (health.sv), one copy per tank, all of     *)
(* them clocked by the same frame clock.  `collision' is the combinational *)
(* signal "a bullet of the other tank is inside this tank"; a hit is the   *)
(* rising edge of that signal.  The registers of the source keep their     *)
(* names; every one of them is a function of the tank.                     *)
(***************************************************************************)
EXTENDS Controls

CONSTANTS
  HitDamage,      \* what one hit costs                     (10 in the source)
  Hits,           \* how many hits a full bar withstands    (5:  50 / 10)
  HealthModulus   \* 2^(width of the health register)       (64: six bits)

ASSUME HealthAssumption ==
  /\ HitDamage \in Nat \ {0}
  /\ Hits \in Nat \ {0}
  /\ HealthModulus \in Nat
  /\ HitDamage * Hits < HealthModulus

VARIABLES
  health,            \* the six bit health register
  tank_dead,         \* the flag the game state machine reads
  posedge_detected,  \* a hit was seen at the previous frame
  signal_in_prev     \* the collision signal at the previous frame

healthVars == <<health, tank_dead, posedge_detected, signal_in_prev>>

MaxHealth == HitDamage * Hits

(* The registers have no power-up value: they come up as zero.             *)
HealthInit ==
  /\ health = [t \in Tanks |-> 0]
  /\ tank_dead = [t \in Tanks |-> FALSE]
  /\ posedge_detected = [t \in Tanks |-> FALSE]
  /\ signal_in_prev = [t \in Tanks |-> FALSE]

-----------------------------------------------------------------------------
(* One clock edge, register by register.                                   *)

EdgeDetectorUnguarded(t, reset, collision) ==    \* mutant: no health != 0 test
  ~reset /\ collision /\ ~signal_in_prev[t]

EdgeDetectorRepeats(t, reset, collision) ==      \* mutant: a lasting contact repeats
  IF reset THEN FALSE
  ELSE IF health[t] # 0 THEN collision /\ ~posedge_detected[t]
  ELSE posedge_detected[t]

EdgeDetector(t, reset, collision) ==
  IF reset THEN FALSE
  ELSE IF health[t] # 0 THEN collision /\ ~signal_in_prev[t]
  ELSE posedge_detected[t]

NextHealth(t, reset, shield_on) ==
  IF reset THEN MaxHealth
  ELSE IF posedge_detected[t] /\ ~shield_on
       THEN (health[t] - HitDamage) % HealthModulus
  ELSE health[t]

NextDeadLastHit(t, reset, shield_on) ==          \* mutant: dies one hit early
  IF reset \/ (posedge_detected[t] /\ ~shield_on) THEN FALSE
  ELSE health[t] <= HitDamage \/ tank_dead[t]

NextDeadNever(t, reset, shield_on) ==            \* mutant: the flag is never set
  FALSE

NextDead(t, reset, shield_on) ==
  IF reset \/ (posedge_detected[t] /\ ~shield_on) THEN FALSE
  ELSE health[t] = 0 \/ tank_dead[t]

(* The posedge of the frame clock for all health bars: `reset' is the      *)
(* game_reset wire, `shield_on' and `collision' are functions of the tank. *)
HealthClock(reset, shield_on, collision) ==
  /\ posedge_detected' = [t \in Tanks |-> EdgeDetector(t, reset, collision[t])]
  /\ signal_in_prev' = collision
  /\ health' = [t \in Tanks |-> NextHealth(t, reset, shield_on[t])]
  /\ tank_dead' = [t \in Tanks |-> NextDead(t, reset, shield_on[t])]

HealthFrame ==
  \E reset \in BOOLEAN, shield_on, collision \in [Tanks -> BOOLEAN] :
    HealthClock(reset, shield_on, collision)

HealthSpec == HealthInit /\ [][HealthFrame]_healthVars

-----------------------------------------------------------------------------
(* The bar is always a whole number of hits, so the subtraction of         *)
(* health.sv:32 never sees a value it could wrap below zero from.          *)
HealthTypeOK ==
  /\ health \in [Tanks -> {HitDamage * k : k \in 0..Hits}]
  /\ tank_dead \in [Tanks -> BOOLEAN]
  /\ posedge_detected \in [Tanks -> BOOLEAN]
  /\ signal_in_prev \in [Tanks -> BOOLEAN]

(* A hit is never pending on an empty bar: two registers written by        *)
(* different always blocks (health.sv:10 and :23) agree, although the edge *)
(* detector looks at the health of the previous frame.  This is what keeps *)
(* the six bit register from wrapping from 0 to 54.                        *)
NoHitPendingOnEmpty ==
  \A t \in Tanks : health[t] = 0 => ~posedge_detected[t]

(* A tank is only ever reported dead while its bar is empty.               *)
DeadOnlyWhenEmpty ==
  \A t \in Tanks : tank_dead[t] => health[t] = 0

(* Health moves in two ways only: down by exactly one hit, or back to the  *)
(* full bar.                                                               *)
HealthStepsDown ==
  [][\A t \in Tanks :
       health'[t] # health[t] =>
         health'[t] \in {health[t] - HitDamage, MaxHealth}]_healthVars

(* An empty bar is eventually reported, unless it was refilled first.      *)
DeathIsReported ==
  \A t \in Tanks : (health[t] = 0) ~> (tank_dead[t] \/ health[t] # 0)

(* A pending hit was seen at the frame before, so the edge detector cannot *)
(* raise a second one right behind it.                                     *)
PendingHitSeen ==
  \A t \in Tanks : posedge_detected[t] => signal_in_prev[t]

(* The inductive invariant of the proofs in HealthProofs.                  *)
HealthInv ==
  /\ HealthTypeOK
  /\ NoHitPendingOnEmpty
  /\ DeadOnlyWhenEmpty
  /\ PendingHitSeen
=============================================================================
