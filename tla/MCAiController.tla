--------------------------- MODULE MCAiController ---------------------------
(* Small instances of AiController. Two frequencies make the audio context *)
(* switch; the wrapping of the integers is set in the configurations.      *)
EXTENDS AiController

CONSTANTS low, high

MCFrequencies == {low, high}

MCCyclesPerSample == [f \in MCFrequencies |-> 1]
=============================================================================
