-------------------------- MODULE MCTenantBindings --------------------------
(* Small instances of the host's tenant bindings. *)
EXTENDS TenantBindings

CONSTANTS h1, h2, r1, r2

OneHost == {h1}
TwoHosts == {h1, h2}
TwoRequests == {r1, r2}
=============================================================================
