---------------------------- MODULE HealthProofs ----------------------------
(***************************************************************************)
(* Proofs about the health bars, for every set of tanks, damage per hit    *)
(* and length of the bar.  HealthInv is inductive; the safety properties   *)
(* of module Health follow from it.                                        *)
(***************************************************************************)
EXTENDS Health, TLAPS

Bars == {HitDamage * k : k \in 0..Hits}

-----------------------------------------------------------------------------
(* The full and the empty bar are bars, and no bar reaches the modulus.    *)
LEMMA BarRange ==
  /\ 0 \in Bars
  /\ MaxHealth \in Bars
  /\ \A h \in Bars : h \in Nat /\ h <= MaxHealth /\ h < HealthModulus
<1> USE HealthAssumption
<1>1. HitDamage * 0 = 0 /\ 0 \in 0..Hits /\ Hits \in 0..Hits
  OBVIOUS
<1>2. ASSUME NEW k \in 0..Hits
      PROVE  HitDamage * k \in Nat /\ HitDamage * k <= HitDamage * Hits
  <2>1. k \in Nat /\ k <= Hits
    OBVIOUS
  <2> QED BY <2>1
<1> QED BY <1>1, <1>2 DEF Bars, MaxHealth

(* One hit on a bar that is not empty leaves a bar: no wrap-around.        *)
LEMMA HitLeavesBar ==
  ASSUME NEW h \in Bars, h # 0
  PROVE  /\ h - HitDamage \in Bars
         /\ (h - HitDamage) % HealthModulus = h - HitDamage
<1> USE HealthAssumption
<1>1. PICK k \in 0..Hits : h = HitDamage * k
  BY DEF Bars
<1>2. k # 0
  BY <1>1
<1>3. k - 1 \in 0..Hits
  BY <1>2
<1>4. h - HitDamage = HitDamage * (k - 1)
  BY <1>1
<1>5. h - HitDamage \in Bars
  BY <1>3, <1>4 DEF Bars
<1>6. h - HitDamage \in Nat /\ h - HitDamage < HealthModulus
  BY <1>5, BarRange
<1> QED BY <1>5, <1>6

-----------------------------------------------------------------------------
(* What one clock edge does to the registers of one tank, from a state     *)
(* that satisfies the invariant.                                           *)
LEMMA ClockOfOneTank ==
  ASSUME HealthInv,
         NEW reset \in BOOLEAN,
         NEW shield_on \in [Tanks -> BOOLEAN],
         NEW collision \in [Tanks -> BOOLEAN],
         HealthClock(reset, shield_on, collision),
         NEW t \in Tanks
  PROVE  /\ health'[t] \in Bars
         /\ tank_dead'[t] \in BOOLEAN
         /\ posedge_detected'[t] \in BOOLEAN
         /\ signal_in_prev'[t] \in BOOLEAN
         /\ health'[t] \in {health[t], health[t] - HitDamage, MaxHealth}
         /\ health'[t] = 0 => ~posedge_detected'[t]
         /\ tank_dead'[t] => health'[t] = 0
         /\ posedge_detected'[t] => signal_in_prev'[t]
<1> USE HealthAssumption DEF HealthInv, HealthTypeOK, NoHitPendingOnEmpty,
                             DeadOnlyWhenEmpty, PendingHitSeen
<1>1. /\ health[t] \in Bars
      /\ tank_dead[t] \in BOOLEAN
      /\ posedge_detected[t] \in BOOLEAN
      /\ signal_in_prev[t] \in BOOLEAN
  BY DEF Bars
<1>2. /\ posedge_detected'[t] = EdgeDetector(t, reset, collision[t])
      /\ signal_in_prev'[t] = collision[t]
      /\ health'[t] = NextHealth(t, reset, shield_on[t])
      /\ tank_dead'[t] = NextDead(t, reset, shield_on[t])
      /\ collision[t] \in BOOLEAN
      /\ shield_on[t] \in BOOLEAN
  BY DEF HealthClock
<1>3. MaxHealth \in Bars /\ MaxHealth # 0
  <2>1. HitDamage * Hits # 0
    OBVIOUS
  <2> QED BY <2>1, BarRange DEF MaxHealth
<1>4. CASE reset
  BY <1>1, <1>2, <1>3, <1>4, Zenon DEF EdgeDetector, NextHealth, NextDead
<1>5. CASE ~reset /\ posedge_detected[t] /\ ~shield_on[t]
  <2>1. health[t] # 0
    BY <1>5
  <2>2. health'[t] = health[t] - HitDamage /\ health'[t] \in Bars
    BY <1>1, <1>2, <1>5, <2>1, HitLeavesBar DEF NextHealth
  <2>3. tank_dead'[t] = FALSE
    BY <1>2, <1>5 DEF NextDead
  <2>4. posedge_detected'[t] = FALSE
    BY <1>1, <1>2, <1>5, <2>1 DEF EdgeDetector
  <2> QED BY <1>2, <2>2, <2>3, <2>4
<1>6. CASE ~reset /\ ~(posedge_detected[t] /\ ~shield_on[t])
  <2>1. health'[t] = health[t]
    BY <1>2, <1>6 DEF NextHealth
  <2>2. tank_dead'[t] = (health[t] = 0 \/ tank_dead[t])
    BY <1>2, <1>6 DEF NextDead
  <2>3. /\ posedge_detected'[t] \in BOOLEAN
        /\ health[t] = 0 => ~posedge_detected'[t]
        /\ posedge_detected'[t] => collision[t]
    BY <1>1, <1>2, <1>6 DEF EdgeDetector
  <2> QED BY <1>1, <1>2, <2>1, <2>2, <2>3
<1> QED BY <1>1, <1>2, <1>4, <1>5, <1>6

(* The clock edge preserves the invariant.  Modules that compose the       *)
(* health bars with the rest of the game cite this lemma.                  *)
LEMMA HealthClockInv ==
  ASSUME HealthInv,
         NEW reset \in BOOLEAN,
         NEW shield_on \in [Tanks -> BOOLEAN],
         NEW collision \in [Tanks -> BOOLEAN],
         HealthClock(reset, shield_on, collision)
  PROVE  HealthInv'
<1>1. \A t \in Tanks :
        /\ health'[t] \in Bars
        /\ tank_dead'[t] \in BOOLEAN
        /\ posedge_detected'[t] \in BOOLEAN
        /\ health'[t] = 0 => ~posedge_detected'[t]
        /\ tank_dead'[t] => health'[t] = 0
        /\ posedge_detected'[t] => signal_in_prev'[t]
  BY ClockOfOneTank
<1>2. /\ health' = [t \in Tanks |-> NextHealth(t, reset, shield_on[t])]
      /\ tank_dead' = [t \in Tanks |-> NextDead(t, reset, shield_on[t])]
      /\ posedge_detected' = [t \in Tanks |-> EdgeDetector(t, reset, collision[t])]
      /\ signal_in_prev' = collision
  BY DEF HealthClock
<1>3. health' \in [Tanks -> Bars]
  <2>1. \A t \in Tanks : NextHealth(t, reset, shield_on[t]) \in Bars
    BY <1>1, <1>2
  <2> QED BY <1>2, <2>1
<1>4. tank_dead' \in [Tanks -> BOOLEAN]
  <2>1. \A t \in Tanks : NextDead(t, reset, shield_on[t]) \in BOOLEAN
    BY <1>1, <1>2
  <2> QED BY <1>2, <2>1
<1>5. posedge_detected' \in [Tanks -> BOOLEAN]
  <2>1. \A t \in Tanks : EdgeDetector(t, reset, collision[t]) \in BOOLEAN
    BY <1>1, <1>2
  <2> QED BY <1>2, <2>1
<1>6. HealthTypeOK'
  BY <1>2, <1>3, <1>4, <1>5 DEF HealthTypeOK, Bars
<1> QED
  BY <1>1, <1>6 DEF HealthInv, NoHitPendingOnEmpty, DeadOnlyWhenEmpty, PendingHitSeen

LEMMA HealthStart == HealthInit => HealthInv
<1> SUFFICES ASSUME HealthInit PROVE HealthInv
  OBVIOUS
<1>1. 0 \in Bars
  BY BarRange
<1>2. HealthTypeOK
  BY <1>1 DEF HealthInit, HealthTypeOK, Bars
<1> QED
  BY <1>2 DEF HealthInit, HealthInv, NoHitPendingOnEmpty, DeadOnlyWhenEmpty, PendingHitSeen

(* The inductive invariant holds in every state of the health bars.        *)
THEOREM HealthInvariant == HealthSpec => []HealthInv
<1>1. HealthInit => HealthInv
  BY HealthStart
<1>2. HealthInv /\ [HealthFrame]_healthVars => HealthInv'
  <2> SUFFICES ASSUME HealthInv, [HealthFrame]_healthVars
               PROVE  HealthInv'
    OBVIOUS
  <2>1. CASE HealthFrame
    BY <2>1, HealthClockInv DEF HealthFrame
  <2>2. CASE UNCHANGED healthVars
    BY <2>2 DEF healthVars, HealthInv, HealthTypeOK, NoHitPendingOnEmpty,
                DeadOnlyWhenEmpty, PendingHitSeen
  <2> QED BY <2>1, <2>2
<1> QED BY <1>1, <1>2, PTL DEF HealthSpec

-----------------------------------------------------------------------------
(* The registers keep their types; the health register never wraps.        *)
THEOREM HealthTypeCorrect == HealthSpec => []HealthTypeOK
<1>1. HealthInv => HealthTypeOK
  BY DEF HealthInv
<1> QED BY <1>1, HealthInvariant, PTL

(* A hit is never pending on an empty bar (health.sv:14).                  *)
THEOREM NoUnderflow == HealthSpec => []NoHitPendingOnEmpty
<1>1. HealthInv => NoHitPendingOnEmpty
  BY DEF HealthInv
<1> QED BY <1>1, HealthInvariant, PTL

(* A tank is reported dead only while its bar is empty (health.sv:36-39).  *)
THEOREM DeathIsReal == HealthSpec => []DeadOnlyWhenEmpty
<1>1. HealthInv => DeadOnlyWhenEmpty
  BY DEF HealthInv
<1> QED BY <1>1, HealthInvariant, PTL

(* Health moves down by exactly one hit or back to the full bar.           *)
THEOREM HealthMoves == HealthSpec => HealthStepsDown
<1>1. HealthInv /\ [HealthFrame]_healthVars =>
        [\A t \in Tanks :
           health'[t] # health[t] =>
             health'[t] \in {health[t] - HitDamage, MaxHealth}]_healthVars
  <2> SUFFICES ASSUME HealthInv, HealthFrame
               PROVE  \A t \in Tanks :
                        health'[t] # health[t] =>
                          health'[t] \in {health[t] - HitDamage, MaxHealth}
    OBVIOUS
  <2> QED BY ClockOfOneTank DEF HealthFrame
<1> QED BY <1>1, HealthInvariant, PTL DEF HealthSpec, HealthStepsDown
=============================================================================
