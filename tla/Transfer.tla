------------------------------ MODULE Transfer ------------------------------
(***************************************************************************)
(* One poll of the keyboard: kbdPoll (HID.c), XferInTransfer and           *)
(* XferDispatchPkt (transfer.c).  A poll asks for one packet, which holds a*)
(* whole report, again and again while the answer is NAK or none, up to a  *)
(* limit for each.  The data toggle tells a new report from one that is    *)
(* sent again because its acknowledgement was lost.                        *)
(*                                                                         *)
(* The keyboard and the chip are external.  The keyboard keeps a report    *)
(* and its toggle until it sees an acknowledgement.  The chip drops, but   *)
(* acknowledges, a packet whose toggle is not the one the program set, and *)
(* reports a toggle error.  A transfer that the program gives up because   *)
(* its time (5 s) is over has not happened.                                *)
(***************************************************************************)
EXTENDS PacketLimits

CONSTANT
  MaxReports    \* bound: how many reports the keyboard makes

ASSUME TransferAssumption == MaxReports \in Nat

VARIABLES
  \* the keyboard
  made,        \* how many reports it has made
  acked,       \* how many of them are acknowledged
  devToggle,   \* the toggle of the report that it sends next
  \* the program
  at,          \* "main", or in "dispatch" (XferDispatchPkt)
  rcvToggle,   \* devtable[addr].epinfo[1].rcvToggle
  nakCount,    \* nak_count
  retryCount,  \* retry_count
  \* history variable
  taken        \* how many reports the program has got or given up

keyboardVars == <<made, acked, devToggle>>
counters == <<nakCount, retryCount>>
transferVars == <<keyboardVars, at, rcvToggle, counters, taken>>

TransferInit ==
  /\ made = 0
  /\ acked = 0
  /\ devToggle = 0
  /\ at = "main"
  /\ rcvToggle = 0
  /\ nakCount = 0
  /\ retryCount = 0
  /\ taken = 0

-----------------------------------------------------------------------------
MakeReport ==
  /\ made = acked
  /\ made < MaxReports
  /\ made' = made + 1
  /\ UNCHANGED <<acked, devToggle, at, rcvToggle, counters, taken>>

(* The keyboard sees the acknowledgement, or it does not.                  *)
Acknowledged ==
  \/ acked' = acked + 1 /\ devToggle' = 1 - devToggle
  \/ UNCHANGED <<acked, devToggle>>

(* A keyboard that is configured starts with DATA0 and holds no report     *)
(* from before; so does HID_init.                                          *)
ConfigureKeepsToggle ==          \* mutant: HID_init forgets the toggle
  /\ at = "main"
  /\ acked' = made
  /\ devToggle' = 0
  /\ taken' = made
  /\ UNCHANGED <<made, at, rcvToggle, counters>>

Configure ==
  /\ at = "main"
  /\ acked' = made
  /\ devToggle' = 0
  /\ rcvToggle' = 0
  /\ taken' = made
  /\ UNCHANGED <<made, at, counters>>

-----------------------------------------------------------------------------
Poll ==
  /\ at = "main"
  /\ at' = "dispatch"
  /\ nakCount' = 0
  /\ retryCount' = 0
  /\ UNCHANGED <<keyboardVars, rcvToggle, taken>>

Nak ==
  /\ at = "dispatch"
  /\ nakCount' = nakCount + 1
  /\ at' = IF nakCount' = NAK_LIMIT THEN "main" ELSE "dispatch"
  /\ UNCHANGED <<keyboardVars, rcvToggle, retryCount, taken>>

NoAnswer ==
  /\ at = "dispatch"
  /\ retryCount' = retryCount + 1
  /\ at' = IF retryCount' = RETRY_LIMIT THEN "main" ELSE "dispatch"
  /\ UNCHANGED <<keyboardVars, rcvToggle, nakCount, taken>>

(* Any other result code, and the deadline.                                *)
Fails ==
  /\ at = "dispatch"
  /\ at' = "main"
  /\ UNCHANGED <<keyboardVars, rcvToggle, counters, taken>>

(* A report with the expected toggle: it is read, and the toggle that the  *)
(* chip expects next is saved.                                             *)
ReceiveKeepsToggle ==            \* mutant: the toggle is not saved
  /\ at = "dispatch"
  /\ acked < made
  /\ devToggle = rcvToggle
  /\ taken' = taken + 1
  /\ Acknowledged
  /\ at' = "main"
  /\ UNCHANGED <<made, rcvToggle, counters>>

Receive ==
  /\ at = "dispatch"
  /\ acked < made
  /\ devToggle = rcvToggle
  /\ taken' = taken + 1
  /\ rcvToggle' = 1 - rcvToggle
  /\ Acknowledged
  /\ at' = "main"
  /\ UNCHANGED <<made, counters>>

(* Any other report is a toggle error; the saved toggle stays.             *)
ToggleError ==
  /\ at = "dispatch"
  /\ acked < made
  /\ devToggle # rcvToggle
  /\ Acknowledged
  /\ at' = "main"
  /\ UNCHANGED <<made, rcvToggle, counters, taken>>

Dispatch == Nak \/ NoAnswer \/ Fails \/ Receive \/ ToggleError

TransferNext == MakeReport \/ Configure \/ Poll \/ Dispatch

(* The program runs on.                                                    *)
TransferSpec ==
  /\ TransferInit
  /\ [][TransferNext]_transferVars
  /\ WF_transferVars(Poll \/ Dispatch)

-----------------------------------------------------------------------------
TransferTypeOK ==
  /\ made \in Nat /\ acked \in Nat /\ taken \in Nat
  /\ devToggle \in {0, 1} /\ rcvToggle \in {0, 1}
  /\ at \in {"main", "dispatch"}
  /\ nakCount \in 0..NAK_LIMIT
  /\ retryCount \in 0..RETRY_LIMIT

(* The toggles of the keyboard and of the device table say whether the     *)
(* report that waits has been read already, through lost packets, lost     *)
(* acknowledgements, given up polls and new configurations                 *)
(* (transfer.c:198, 218-223; HID.c:203-206).                               *)
TogglesAgree ==
  \/ devToggle = rcvToggle /\ taken = acked
  \/ devToggle # rcvToggle /\ taken = acked + 1 /\ acked < made

(* No report is lost, read twice or read out of order.                     *)
Channel == INSTANCE ReportChannel
ImplementsChannel == Channel!ChannelSpec
=============================================================================
