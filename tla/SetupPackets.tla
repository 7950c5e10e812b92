----------------------------- MODULE SetupPackets ---------------------------
(***************************************************************************)
(* The control requests of the program (the macros of transfer.h).  A      *)
(* setup packet tells the device whether the host reads, bit 7 of          *)
(* bmRequestType, and how much at most, wLength.  What a device has to     *)
(* send, length, is a matter of the request and of its descriptors.        *)
(***************************************************************************)
EXTENDS Naturals

WORD == 0..65535

SETUP_PKT == [reads : BOOLEAN, asked : WORD, length : WORD]

(* The requests that set an address, a configuration or a protocol.        *)
SetRequest == [reads |-> FALSE, asked |-> 0, length |-> 0]

GetRequest(nbytes, length) == [reads |-> TRUE, asked |-> nbytes, length |-> length]

DEV_DESCR_LEN == 18
XferGetDevDescr(nbytes) == GetRequest(nbytes, DEV_DESCR_LEN)

CONF_DESCR_LEN == 9
XferGetConfDescr(nbytes, wTotalLength) == GetRequest(nbytes, wTotalLength)

XferGetStrDescr(nbytes, bLength) == GetRequest(nbytes, bLength)

(* XferGetIdle and XferGetProto read a byte.                               *)
XferGetIdle == GetRequest(1, 1)
=============================================================================
