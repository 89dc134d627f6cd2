---------------------------- MODULE MCTelescope ----------------------------
(* Instances of Telescope for TLC.                                         *)
EXTENDS Telescope
=============================================================================
