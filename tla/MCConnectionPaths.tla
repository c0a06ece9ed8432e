-------------------------- MODULE MCConnectionPaths --------------------------
(* Instances of ConnectionPaths for TLC. *)
EXTENDS ConnectionPaths, TLC

CONSTANTS t1, t2, c1, c2

OneThread == {t1}
TwoThreads == {t1, t2}
OneName == {c1}
TwoNames == {c1, c2}
NameSymmetry == Permutations(TwoNames)
=============================================================================
