--------------------------- MODULE MCRotateAdmin ---------------------------
(* Three invocations of rotate-admin, killed, overlapping and repeated in  *)
(* every order, on an appliance that starts on the password in Vault.      *)
EXTENDS RotateAdmin, TLC

CONSTANTS r1, r2, r3, t1

ThreeRuns == {r1, r2, r3}
TwoRuns == {r1, r2}
OneText == {t1}
=============================================================================
