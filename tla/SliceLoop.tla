----------------------------- MODULE SliceLoop -----------------------------
(***************************************************************************)
(* A loop over the bytes of a slice: what a call that reads (SliceReads)   *)
(* and one that appends (Appends) keep between two rounds.                 *)
(***************************************************************************)
EXTENDS Slices

VARIABLES
  data,    \* the bytes of the cell, or of the buffer
  start,   \* data_window_start
  round,   \* rounds of the running call's loop that are done
  pc       \* where the call is
=============================================================================
