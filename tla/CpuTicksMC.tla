------------------------------- MODULE CpuTicksMC -------------------------------
(* Values of CpuTicks' constants for TLC.                                      *)
EXTENDS CpuTicks

\* One processor runs nice work and idles, the other does everything else.
TwoProcessors == <<{"nice", "idle"}, {"user", "system"}>>
================================================================================
