-------------------------- MODULE MCAudioProcessing --------------------------
(* A small instance of AudioProcessing; the wider limits reach beyond the   *)
(* range of the adaptive digital mode.                                      *)
EXTENDS AudioProcessing

FirstLimits == <<0, 2>>
TwoLimits == {<<0, 2>>, <<1, 4>>}
==============================================================================
