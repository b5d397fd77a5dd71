----------------------------- MODULE ProcessScanMC -----------------------------
(* Values of ProcessScan's constants for TLC: five processes, of which the first *)
(* is an app's main process and the last rami; the second is another app's or an *)
(* agent, the rest are in an app of their own or in none.                        *)
EXTENDS ProcessScan

CONSTANTS A, B, Agent

Names == [a \in Apps |-> IF a = A THEN 1 ELSE 2]

Bundles == {<<A, b, NoApp, c, d>> : b \in {B, Agent}, c \in {B, NoApp}, d \in {B, NoApp}}

\* Lines, trees and rings, longer than a walk goes and within its reach.
Chains == {<<1, q, r, s, t>> : q \in {1, 3, 4}, r \in {2, 4, 5}, s \in {2, 5},
                               t \in {0, 2, 4}}

Footprints == {<<2, 1, 1, 1, 1>>, <<1, 2, 0, 3, 1>>}

Tables ==
  {[listed |-> l, bundle |-> b, responsible |-> r, footprint |-> f] :
     l \in {Pids \union {0}, {3, 4}, {}}, b \in Bundles, r \in Chains, f \in Footprints}
================================================================================
