---------------------------- MODULE RefreshEngineMC ----------------------------
(* Values of RefreshEngine's constants for TLC.                                *)
EXTENDS RefreshEngine

CONSTANTS s1, s2, f1, f2

\* The stored settings with the given items on, and any choice of the free ones.
With(items, free) ==
  {[i \in Persisted |-> i \in items \union extra] : extra \in SUBSET free}

AppsSettings == With({}, {"AutoRefresh", "ShowAppUsage"})
SharedSettings == With({}, {"AutoRefresh", "ShowSharedMac"})
CpuSettings == With({}, {"AutoRefresh", "ShowCpu", "ShowGpu"})
================================================================================
