---------------------------- MODULE MCReconciler ----------------------------
(* Small instances of the reconciler. *)
EXTENDS Reconciler

CONSTANTS c1, c2, f1, f2, i1, i2, api, auth

TwoConsoles == {c1, c2}
TwoFingerprints == {f1, f2}
TwoImages == {i1, i2}
TwoDatabases == {api, auth}
ImageEach == [f \in TwoFingerprints |-> IF f = f1 THEN i1 ELSE i2]
=============================================================================
