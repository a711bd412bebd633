----------------------------- MODULE MCLegacyAgc -----------------------------
(* Small instances of LegacyAgc: the volume ranges. *)
EXTENDS LegacyAgc

EveryMode == {<<"kAgcModeAdaptiveAnalog", 1, 5>>, <<"kAgcModeAdaptiveDigital", 0, 0>>,
              <<"kAgcModeFixedDigital", 0, 3>>}
RealSetups == {<<"kAgcModeAdaptiveAnalog", 0, 255>>, <<"kAgcModeAdaptiveAnalog", 0, 9>>}
==============================================================================
