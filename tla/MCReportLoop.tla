---------------------------- MODULE MCReportLoop ----------------------------
(***************************************************************************)
(* A mouse that reports short and long moves in both directions, the       *)
(* longest one, which has no positive counterpart, and several buttons.    *)
(***************************************************************************)
EXTENDS ReportLoop

MCReports ==
  {[x |-> 7, y |-> 156, button |-> {}],
   [x |-> 200, y |-> 128, button |-> {0, 2}],
   [x |-> 127, y |-> 5, button |-> {1}]}
=============================================================================
