------------------------------- MODULE MCSweep -------------------------------
(***************************************************************************)
(* The programs of all families and the sweep, at units of two bits: an    *)
(* input has 256 values.                                                   *)
(***************************************************************************)
EXTENDS Sweep

MCArms == RuntimeArms \cup LoadedArms \cup StateArms

\* Extremes and interior values of RT_INPUTS, scaled.
MCInputs == <<0, 127, 90, 255>>

\* Both sides of the bound 7 and of the largest half word.
MCEdges == {0, 7, 8, 255}

=============================================================================
