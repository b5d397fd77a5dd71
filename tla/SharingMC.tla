-------------------------------- MODULE SharingMC --------------------------------
(* Values of Sharing's constants for TLC.                                       *)
EXTENDS Sharing

CONSTANTS c1, c2, c3
================================================================================
