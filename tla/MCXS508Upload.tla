--------------------------- MODULE MCXS508Upload ---------------------------
(* Uploads of any certificate with any key, beside one Terraform apply.    *)
EXTENDS XS508Upload

CONSTANTS j1, j2, t1

TwoJobs == {j1, j2}
OneJob == {j1}
OneApplier == {t1}
=============================================================================
