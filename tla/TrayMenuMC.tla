------------------------------- MODULE TrayMenuMC -------------------------------
(* Values of TrayMenu's constants for TLC.                                      *)
EXTENDS TrayMenu

\* Three readings of one percentage, of two pressures; one with swap.
Used == [r \in Readings |-> 60]
Pressed == [r \in Readings |-> IF r = "calm" THEN "Normal" ELSE "Warning"]
Swapped == [r \in Readings |-> r = "busy"]

\* No row, one, and more than the pool holds.
Sections ==
  {[state |-> s, rows |-> <<>>] : s \in {"Hidden", "Loading", "Unavailable"}}
    \union {[state |-> "Loaded", rows |-> r] : r \in {<<"a">>, <<"b", "a", "a">>}}

\* CPU, GPU and the shared Mac, each on and off.
Others == {<<NoFigure, NoFigure, "Hidden">>, <<"1%", NoFigure, "Loading">>,
           <<NoFigure, "1%", "Reading">>, <<"1%", "1%", "Offline">>}

Shown == {[apps |-> a, cpu |-> o[1], gpu |-> o[2], shared |-> o[3]] :
            a \in Sections, o \in Others}
================================================================================
