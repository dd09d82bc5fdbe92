---------------------------- MODULE MCExporters ----------------------------
(***************************************************************************)
(* A small instance: every collector of the exporters; on the access point *)
(* one tool beside the exporter.  Of the four reads of the access point's  *)
(* web API the families of the last are watched, which are brought up to   *)
(* date in two ways; the third way occurs with the other collectors.       *)
(***************************************************************************)
EXTENDS Exporters, Collectors

CONSTANTS tool, exporter, one

OneTool == {tool}
OneItem == {one}
Watching(c) ==
    IF c.session THEN [c EXCEPT !.families = {f \in @ : f.read = 4}] ELSE c
WatchedCollectors == {Watching(c) : c \in AllCollectors}
=============================================================================
