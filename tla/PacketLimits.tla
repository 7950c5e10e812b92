---------------------------- MODULE PacketLimits ----------------------------
(***************************************************************************)
(* The limits of XferDispatchPkt (transfer.c), which sends one packet of   *)
(* any kind and asks again while the answer is NAK or none.                *)
(***************************************************************************)
EXTENDS Naturals

CONSTANTS
  NAK_LIMIT,    \* USB_NAK_LIMIT                        (200 in the source)
  RETRY_LIMIT   \* USB_RETRY_LIMIT                                      (3)

ASSUME PacketAssumption ==
  /\ NAK_LIMIT \in Nat \ {0}
  /\ RETRY_LIMIT \in Nat \ {0}
=============================================================================
