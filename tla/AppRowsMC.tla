-------------------------------- MODULE AppRowsMC --------------------------------
(* Values of AppRows' constants for TLC.                                         *)
EXTENDS AppRows

CONSTANTS A, B, C

\* Two of the three share a name.
Names == A :> 1 @@ B :> 2 @@ C :> 2
================================================================================
