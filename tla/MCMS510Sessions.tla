--------------------------- MODULE MCMS510Sessions ---------------------------
(* The clients of one switch. *)
EXTENDS MS510Sessions

CONSTANTS exporter, provider, operator

Exporter == {exporter}
Provider == {provider}
Operator == {operator}
=============================================================================
