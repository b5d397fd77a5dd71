---------------------------- MODULE MemoryHistoryMC ----------------------------
(* Values of MemoryHistory's and MemoryReading's constants for TLC.            *)
EXTENDS MemoryHistory

CONSTANT dropdown

\* A small Mac: every split of five pages, some speculative, some purgeable.
Splits ==
  {k \in [internal: 0 .. 5, external: 0 .. 3, wired: 0 .. 1, compressed: {1},
          free: 0 .. 2, inactive: {0}, speculative: {0, 1}, purgeable: {0, 2},
          reserved: {0, 4}] :
     /\ k.purgeable <= k.internal
     /\ k.speculative <= k.free
     /\ k.speculative <= k.external
     /\ k.internal + k.external + k.wired + k.compressed + k.free - k.speculative = 5}

NoPages == [internal |-> 0, external |-> 0, wired |-> 0, compressed |-> 0, free |-> 0,
            inactive |-> 0, speculative |-> 0, purgeable |-> 0, reserved |-> 0]

\* Macs whose counts stay, one for each split and one that reports none; and one whose
\* used pages rise and fall.
StillMacs == {{k} : k \in Splits \union {NoPages}}
BusyMac == {k \in Splits : /\ k.reserved = 0 /\ k.purgeable = 0 /\ k.speculative = 0
                           /\ k.wired = 0 /\ k.free = 1 /\ k.internal \in 0 .. 3}
SmallMacs == StillMacs \union {BusyMac}
================================================================================
