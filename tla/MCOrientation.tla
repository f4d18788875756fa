---------------------------- MODULE MCOrientation ----------------------------
(***************************************************************************)
(* Small instances of Orientation: every source of up to 4 x 4 pixels, so  *)
(* that sides are empty, single, odd and even; batches of three swaps and  *)
(* polls after every second row, so that loops end on and off a poll.      *)
(***************************************************************************)
EXTENDS Orientation

MCSizes == 0 .. 4
=============================================================================
