-------------------------- MODULE MCPluginRuntime --------------------------
(* Small instances of the plugin runtime. *)
EXTENDS PluginRuntime

CONSTANTS k1, k2, u1, u2, u3

OneKey == {k1}
TwoKeys == {k1, k2}
TwoUsers == {u1, u2}
ThreeUsers == {u1, u2, u3}
=============================================================================
