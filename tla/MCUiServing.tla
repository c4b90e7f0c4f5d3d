---------------------------- MODULE MCUiServing ----------------------------
(* Small instances of the host's UI serving. *)
EXTENDS UiServing, TLC

CONSTANTS t1, t2, r1, r2, core, apps

TwoTenants == {t1, t2}
AnotherTenant == {t2}
AnotherRequest == {r2}
TwoRequests == {r1, r2}
OnePlugin == {apps}
BaseAndFirst == {Base, t1}
AssetOfTheFirst == (r1 :> {t1, t2}) @@ (r2 :> {t1})
CoreAndPlugin == (t1 :> core) @@ (t2 :> apps)
=============================================================================
