------------------------------ MODULE PreferencesMC ------------------------------
(* Values of Preferences' constants for TLC.                                     *)
EXTENDS Preferences

\* One setting that is on by default and one that is off.
Defaults == [i \in Items |-> i # "ShowGpu"]
================================================================================
