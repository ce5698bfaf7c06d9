------------------------------ MODULE MCSession ------------------------------
(* Instances of Session for TLC: three streams of one server. *)
EXTENDS Session, TLC

CONSTANTS s1, s2, s3

ThreeStreams == {s1, s2, s3}
StreamSymmetry == Permutations(ThreeStreams)
=============================================================================
