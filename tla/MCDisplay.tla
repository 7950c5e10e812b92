------------------------------ MODULE MCDisplay -----------------------------
(***************************************************************************)
(* Sync pulses for a picture of four pixels by five lines: one pixel       *)
(* after the visible ones, and two lines with one line before and one      *)
(* after them.                                                             *)
(***************************************************************************)
EXTENDS Display

MCHSync == {2}
MCVSync == {2, 3}
=============================================================================
