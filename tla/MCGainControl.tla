---------------------------- MODULE MCGainControl ----------------------------
(* Small instances of GainControl: which limits, formats and numbers of calls *)
EXTENDS GainControl, TLC

CONSTANTS c1, c2, a1

FirstLimits == <<0, 2>>
TwoLimits == {<<0, 2>>, <<1, 2>>}
WideLimits == {<<0, 2>>, <<2, 3>>}
TwoFormats == {<<1, 8000>>, <<2, 16000>>}

AllCalls == (c1 :> 2) @@ (c2 :> 1) @@ (a1 :> 3)
FewCalls == (c1 :> 2) @@ (c2 :> 1) @@ (a1 :> 1)
==============================================================================
