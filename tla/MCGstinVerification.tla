------------------------ MODULE MCGstinVerification ------------------------
(* Instances of GstinVerification for TLC: demo mode at its two levels.        *)
EXTENDS GstinVerification, TLC

BothLevels == {<<"DEMO", "BASIC">>, <<"DEMO", "COMPLETE">>}

OneTick == [level \in {"BASIC", "COMPLETE"} |-> 1]

Interchangeable == Permutations(Request) \cup Permutations(Intent)
=============================================================================
