---------------------------- MODULE MCDashboard ----------------------------
(* A small instance of Dashboard: the sample id, which is the same in all  *)
(* tables here, and one more; two administrators; a secret and none.       *)
EXTENDS Dashboard

CONSTANTS alice, bob, red, factory, sample, other

MCAdmins == {alice, bob}
MCConfigs == {red}
MCIds == {sample, other}
MCSecrets == {"old", ""}
=============================================================================
