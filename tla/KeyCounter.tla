----------------------------- MODULE KeyCounter -----------------------------
(***************************************************************************)
(* The trigger of each tank (key_counter and key_counter2 in               *)
(* bulletcounter.sv).  It turns a held fire key into one shot per press    *)
(* and says which of the tank's bullets the next shot uses.                *)
(*                                                                         *)
(* The fifteen states of the source are the triples below:                 *)
(*   COUNT_ONE / TWO / THREE  = [mode |-> "count", bullet |-> 1 / 2 / 3]   *)
(*   IDLE1 / 2 / 3            = [mode |-> "idle",  bullet |-> 1 / 2 / 3]   *)
(*   WAIT1..3 / 4..6 / 7..9   = [mode |-> "wait",  bullet |-> 1 / 2 / 3,   *)
(*                               tick |-> 1..3]                            *)
(* A tank fires at the frame at which its fire key is down and its trigger *)
(* is in a COUNT state.  Module Gunner adds the players' keys.             *)
(***************************************************************************)
EXTENDS Controls

CONSTANTS
  Magazine,   \* bullets of a tank               (3 in the source)
  Cooldown    \* WAIT states after a release     (3)

ASSUME KeyCounterAssumption ==
  /\ Magazine \in Nat \ {0}
  /\ Cooldown \in Nat \ {0}

VARIABLE
  trigger    \* state of the counter of each tank

Modes == {"count", "idle", "wait"}
States == [mode : Modes, bullet : 1..Magazine, tick : 0..Cooldown]

Armed(n) == [mode |-> "count", bullet |-> n, tick |-> 0]
Idle(n) == [mode |-> "idle", bullet |-> n, tick |-> 0]
Wait(n, k) == [mode |-> "wait", bullet |-> n, tick |-> k]

(* The value of the output `count': the armed bullet, 0 when not armed.    *)
Count(t) == IF trigger[t].mode = "count" THEN trigger[t].bullet ELSE 0

FireKey(t) == IF t = 1 THEN 44 ELSE 40

(* keydown: the fire key of the tank is in one of the keycode registers.   *)
FireKeyDown(t, pad) == \E i \in Slots : pad[i] = FireKey(t)

(* The tank's always block sees count and keydown at the same clock edge;  *)
(* `down' says whose fire key is in one of the four keycode registers.     *)
Shoots(t, down) == down[t] /\ Count(t) # 0

(* Without a power-up value the state register comes up either as the      *)
(* encoding zero, which is IDLE1, or in the state it is reset to.          *)
CounterInit == trigger \in [Tanks -> {Idle(1), Armed(1)}]

-----------------------------------------------------------------------------
NextBullet(n) == (n % Magazine) + 1

AfterCount(n, down) == IF down THEN Idle(n) ELSE Armed(n)

AfterIdleAnyway(n, down) == Wait(n, 1)              \* mutant: needs no release

AfterIdleAtOnce(n, down) ==                         \* mutant: skips the WAIT states
  IF down THEN Idle(n) ELSE Armed(NextBullet(n))

AfterIdle(n, down) == IF down THEN Idle(n) ELSE Wait(n, 1)

AfterWaitForever(n, k) ==                           \* mutant: WAIT3 waits for itself
  IF k < Cooldown THEN Wait(n, k + 1) ELSE Wait(n, k)

AfterWait(n, k) ==
  IF k < Cooldown THEN Wait(n, k + 1) ELSE Armed(NextBullet(n))

NextTrigger(t, down) ==
  CASE trigger[t].mode = "count" -> AfterCount(trigger[t].bullet, down)
    [] trigger[t].mode = "idle"  -> AfterIdle(trigger[t].bullet, down)
    [] trigger[t].mode = "wait"  -> AfterWait(trigger[t].bullet, trigger[t].tick)

(* The clock edge of all triggers; `reset' is the game_reset wire.         *)
CounterClock(reset, down) ==
  trigger' = [t \in Tanks |-> IF reset THEN Armed(1) ELSE NextTrigger(t, down[t])]
=============================================================================
