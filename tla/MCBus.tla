-------------------------------- MODULE MCBus -------------------------------
(***************************************************************************)
(* The requests the program makes to a boot keyboard: its configuration is *)
(* 34 bytes long, the name of its manufacturer 22.                         *)
(***************************************************************************)
EXTENDS Bus

GetDevDescrHead == XferGetDevDescr(8)

MCRequests ==
  {XferGetDevDescr(DEV_DESCR_LEN), XferGetStrDescr(2, 22),
   XferGetConfDescr(CONF_DESCR_LEN, 34), XferGetConfDescr(34, 34), XferGetIdle,
   SetRequest}
Sizes == {8, 16, 64}
=============================================================================
