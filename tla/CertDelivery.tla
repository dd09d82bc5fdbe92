---------------------------- MODULE CertDelivery ----------------------------
(***************************************************************************)
(* What cert-operator delivers, without how: certificates are issued in    *)
(* order, and an appliance only ever moves forward to a certificate that   *)
(* has been issued.  It may go dark, and come back no older than it was.   *)
(***************************************************************************)
EXTENDS Naturals

CONSTANT Devices

VARIABLES
    issued,         \* the last certificate issued for each appliance
    serving,        \* the certificate each one serves, or served last
    web             \* "on", "off" (HTTPS disabled) or "dead" (nothing listens)

vars == <<issued, serving, web>>

Init ==
    /\ issued = [d \in Devices |-> 1]
    /\ serving = [d \in Devices |-> 0]
    /\ web = [d \in Devices |-> "on"]

Issue(d) ==
    /\ issued' = [issued EXCEPT ![d] = @ + 1]
    /\ UNCHANGED <<serving, web>>

Deliver(d) ==
    /\ \E c \in serving[d]..issued[d] : serving' = [serving EXCEPT ![d] = c]
    /\ web' = [web EXCEPT ![d] = "on"]
    /\ UNCHANGED issued

Darken(d) ==
    /\ \E w \in {"off", "dead"} : web' = [web EXCEPT ![d] = w]
    /\ UNCHANGED <<issued, serving>>

Next == \E d \in Devices : Issue(d) \/ Deliver(d) \/ Darken(d)

Spec == Init /\ [][Next]_vars
=============================================================================
