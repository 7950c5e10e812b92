------------------------------- MODULE Request ------------------------------
(***************************************************************************)
(* What a control transfer promises to the program: a request that is      *)
(* reported as done has been carried out, once; one that is reported as    *)
(* failed has been carried out once or not at all, and the program cannot  *)
(* tell which.                                                             *)
(***************************************************************************)
EXTENDS Naturals

VARIABLES
  asking,   \* is a request under way?
  carried,  \* how often the device has carried out the request
  result    \* what the program is told: "none" so far, "ok" or "error"

RequestInit == asking = FALSE /\ carried = 0 /\ result = "none"

Ask == ~asking /\ asking' = TRUE /\ carried' = 0 /\ result' = "none"

CarryOut == asking /\ carried = 0 /\ carried' = 1 /\ UNCHANGED <<asking, result>>

Succeed == asking /\ asking' = FALSE /\ carried' = 1 /\ result' = "ok"

Fail == asking /\ asking' = FALSE /\ carried' \in {carried, 1} /\ result' = "error"

RequestSpec ==
  RequestInit /\ [][Ask \/ CarryOut \/ Succeed \/ Fail]_<<asking, carried, result>>
=============================================================================
