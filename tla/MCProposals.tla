---------------------------- MODULE MCProposals ----------------------------
(* Small instances of the proposals plugin. *)
EXTENDS Proposals, TLC

CONSTANTS e1, s1, s2, a1, a2, p1, p2, k1

OneEntity == {e1}
OneSubmitter == {s1}
TwoSubmitters == {s1, s2}
TwoAdmins == {a1, a2}
TwoPayloads == {p1, p2}
OneKey == {k1}
Interchangeable == Permutations(TwoSubmitters) \cup Permutations(TwoAdmins)
                     \cup Permutations(TwoPayloads)
=============================================================================
