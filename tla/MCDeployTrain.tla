--------------------------- MODULE MCDeployTrain ---------------------------
(* Small instances of the deploy train. *)
EXTENDS DeployTrain, TLC

CONSTANTS t1, t2, t3, c1, c2

TwoTrains == {t1, t2}
ThreeTrains == {t1, t2, t3}
TwoBases == {c1, c2}
NoTrains == {}
OneTrain == {t1}
OneBase == {c1}
Production == {"production"}

(* Trains and bases are compared for equality only; a key signer is unlike
   the trains that sign otherwise. *)
Symmetric == Permutations(Trains) \cup Permutations(Bases)
ButForSigners == Permutations(Trains \ KeySigners) \cup Permutations(Bases)
=============================================================================
