--------------------------- MODULE MCSnapshotHost ---------------------------
(* Small instances of the host. *)
EXTENDS SnapshotHost

CONSTANTS d1, d2, d3

TwoDigests == {d1, d2}
ThreeDigests == {d1, d2, d3}
Nothing == {}
Second == {d2}
Third == {d3}
=============================================================================
