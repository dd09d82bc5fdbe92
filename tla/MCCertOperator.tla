-------------------------- MODULE MCCertOperator --------------------------
(* Small fleets: which devices there are and how they are installed.       *)
EXTENDS CertOperator

(* An access point and the switch with a root path and a web fallback. *)
Wap1AndSw2 == {"wap1", "sw2"}
Sw2First == <<"sw2", "wap1">>
FleetPrimary == [d \in {"wap1", "sw2"} |-> IF d = "wap1" THEN "wap1SSH" ELSE "sw2Telnet"]
FleetFallback == [d \in {"wap1", "sw2"} |-> IF d = "wap1" THEN "none" ELSE "sw2REST"]
Wap1 == {"wap1"}
Sw2 == {"sw2"}

(* The switch installed over its REST API alone. *)
Sw2Only == <<"sw2">>
RestPrimary == [d \in {"sw2"} |-> "sw2REST"]
NoFallback == [d \in {"sw2"} |-> "none"]
=============================================================================
