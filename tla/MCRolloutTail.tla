---------------------------- MODULE MCRolloutTail ----------------------------
(***************************************************************************)
(* An instance of RolloutTail for TLC: chunks of two bytes and lines of at *)
(* most two, so that a line spans chunks, a chunk holds several lines, a   *)
(* carriage return is parted from its newline, and a line can be too long. *)
(* Codex may flush at any byte but between a carriage return and newline.  *)
(***************************************************************************)
EXTENDS RolloutTail, TLC

CONSTANTS f, g, x

MCWrites == {<<x>>, <<Newline>>, <<Return, Newline>>}
=============================================================================
