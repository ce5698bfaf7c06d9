----------------------------- MODULE MCSdkClient -----------------------------
(* Instances of SdkClient for TLC. *)
EXTENDS SdkClient

CONSTANTS p1, p2, t1, t2

OneCaller == {p1}
TwoCallers == {p1, p2}
OneTarget == {t1}
TwoTargets == {t1, t2}
NoCaller == {}
=============================================================================
