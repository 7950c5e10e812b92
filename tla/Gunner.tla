------------------------------- MODULE Gunner -------------------------------
(***************************************************************************)
(* The triggers of module KeyCounter under players who press and release   *)
(* their fire keys as they like.  `gap' and `lifted' are history variables *)
(* about the last shot and appear in no guard.                             *)
(***************************************************************************)
EXTENDS KeyCounter

VARIABLES
  keydown,   \* is the fire key in one of the keycode registers?
  resetting, \* the wire game_reset: one of O, Y, M is in register 0
  gap,       \* frames since the last shot (counted up to FullGap)
  lifted     \* has a frame seen the key up since the last shot?

gunnerVars == <<trigger, keydown, resetting, gap, lifted>>

FullGap == Cooldown + 1

GunnerInit ==
  /\ CounterInit
  /\ keydown = [t \in Tanks |-> FALSE]
  /\ resetting = FALSE
  /\ gap = [t \in Tanks |-> FullGap]
  /\ lifted = [t \in Tanks |-> TRUE]

(* What the clock edge adds to the history; a reset starts a new one.      *)
History(reset) ==
  /\ gap' = [t \in Tanks |-> IF reset THEN FullGap
                             ELSE IF Shoots(t, keydown) THEN 0
                             ELSE IF gap[t] < FullGap THEN gap[t] + 1
                             ELSE gap[t]]
  /\ lifted' = [t \in Tanks |->
                  reset \/ ~keydown[t] \/ (lifted[t] /\ ~Shoots(t, keydown))]

GunnerFrame ==
  /\ CounterClock(resetting, keydown)
  /\ History(resetting)
  /\ UNCHANGED <<keydown, resetting>>

(* The players press and release keys between frames.                      *)
FireKeyChange ==
  /\ \E t \in Tanks : keydown' = [keydown EXCEPT ![t] = ~@]
  /\ UNCHANGED <<trigger, resetting, gap, lifted>>

ResetKeyChange ==
  /\ resetting' = ~resetting
  /\ UNCHANGED <<trigger, keydown, gap, lifted>>

GunnerNext == GunnerFrame \/ FireKeyChange \/ ResetKeyChange

GunnerSpec == GunnerInit /\ [][GunnerNext]_gunnerVars

-----------------------------------------------------------------------------
GunnerTypeOK ==
  /\ trigger \in [Tanks -> States]
  /\ keydown \in [Tanks -> BOOLEAN]
  /\ resetting \in BOOLEAN
  /\ gap \in [Tanks -> 0..FullGap]
  /\ lifted \in [Tanks -> BOOLEAN]

(* A held key fires once: whenever a tank is about to fire, its key has    *)
(* been seen up since its last shot or since the game was reset (IDLE      *)
(* states, bulletcounter.sv:63-68, 86-90, 109-113).                        *)
ShotNeedsRelease == \A t \in Tanks : Shoots(t, keydown) => lifted[t]

(* Two shots of a tank are never closer than the WAIT states between them  *)
(* (bulletcounter.sv:70-77), however the key bounces.                      *)
ShotsAreSpaced == \A t \in Tanks : Shoots(t, keydown) => gap[t] = FullGap

(* A player who lets go of the key gets the gun back.                      *)
ReleaseRearms == \A t \in Tanks : <>[](~keydown[t]) => <>[](Count(t) # 0)

(* The inductive invariant: how far the release and the WAIT states have   *)
(* come is visible in the history.                                         *)
GunnerInv ==
  /\ GunnerTypeOK
  /\ \A t \in Tanks :
       /\ trigger[t].mode = "wait" =>
            trigger[t].tick >= 1 /\ lifted[t] /\ gap[t] >= trigger[t].tick
       /\ trigger[t].mode = "count" => lifted[t] /\ gap[t] = FullGap
=============================================================================
