------------------------ MODULE CertOperatorProofs ------------------------
(***************************************************************************)
(* Proofs about CertOperator, for any fleet, any number of devices,        *)
(* renewals, failures and kills.  The argument rests on PushInv: while a   *)
(* push runs, the commands before the one it stands at have done their     *)
(* work, so the server is only ever started on the pair of the target.     *)
(***************************************************************************)
EXTENDS CertOperator, TLAPS

-----------------------------------------------------------------------------
(* The inductive invariant.                                                *)

Handling == pc \in {"dial", "connect", "push", "hung", "verify"}
Installing == pc \in {"connect", "push", "hung", "verify"}

(* No file of a device is newer than certificate c. *)
FilesUpTo(d, c) == staged[d].cert <= c /\ staged[d].key <= c /\ live[d].cert <= c

(* What a command that has run has left on the device. *)
Done(op) ==
    /\ op = "cert" => staged[Here].cert = target
    /\ op = "key" => staged[Here].key = target
    /\ op = "pem" => live[Here] = Pair(target)

(* A push runs a method of its device, and its earlier commands did their  *)
(* work.                                                                   *)
PushInv ==
    /\ Installing => method \in Methods /\ method \in {Primary[Here], Fallback[Here]}
    /\ pc \notin {"push", "hung", "verify"} => step = 1
    /\ pc = "push" =>
        /\ step \in 1..Len(Program[method])
        /\ \A i \in 1..(step - 1) : Done(Program[method][i])

(* Certificates are ordered: served, then on file, then issued; and the    *)
(* target is not older than what its device has.                           *)
IssuedInv == \A d \in Devices : serving[d] <= issued[d] /\ FilesUpTo(d, issued[d])
TargetInv == Handling =>
    /\ target <= issued[Here]
    /\ serving[Here] <= target
    /\ FilesUpTo(Here, target)
BootOK(d) ==
    /\ \A p \in BootPairs(d) : Loadable(p) => serving[d] <= p.cert
    /\ d \in Supervised /\ Loadable(live[d]) /\ Loadable(staged[d])
        => live[d].cert <= staged[d].cert
BootInv == \A d \in Devices : BootOK(d)

OrderInv == IssuedInv /\ TargetInv /\ BootInv

(* A server that is gone has had a mishap. *)
AliveInv == \A d \in Devices \ mishap : web[d] # "dead" /\ (d \in RootOnly => web[d] = "on")

(* Everything the device may start its server on is what it serves. *)
Settled(d) == \A p \in BootPairs(d) : Loadable(p) /\ p.cert = serving[d]

(* Files that are not what is served belong to a certificate still to be   *)
(* delivered, or to a device that cannot be dialled.                       *)
SettledInv ==
    /\ \A d \in Devices \ mishap : Settled(d) \/ web[d] # "on" \/ serving[d] < issued[d]
    /\ Handling /\ Here \notin mishap =>
        Settled(Here) \/ web[Here] # "on" \/ serving[Here] < target
    /\ pc \in {"connect", "push"} /\ method \in RootMethods /\ Here \notin mishap =>
        serving[Here] < target
GaugeInv ==
    /\ Installing => gauge[Here] # "match"
    /\ \A d \in Devices \ mishap : gauge[d] = "match" => web[d] = "on" /\ Settled(d)

-----------------------------------------------------------------------------
(* The programs.                                                           *)

Ops == {"pem", "cert", "key", "reload", "rebuild", "off", "on"}
Starts == {"reload", "rebuild", "on"}

(* Command o comes before place i of method m. *)
Before(m, i, o) == \E j \in 1..(i - 1) : Program[m][j] = o

LEMMA ProgramLength == ASSUME NEW m \in Methods PROVE Len(Program[m]) \in 3..4
<1>1. CASE m \in {"sw1SSH", "wap1SSH"}
  <2>1. Program[m] = <<"cert", "key", "rebuild">>
    BY <1>1 DEF Program
  <2> QED
    BY <2>1
<1>2. CASE m \in {"routerSSH", "sw2Telnet", "sw2REST", "sw1CGI"}
  <2>1. PICK a, b, c, d : Program[m] = <<a, b, c, d>>
    BY <1>2 DEF Program
  <2> QED
    BY <2>1
<1> QED
  BY <1>1, <1>2 DEF Methods, RootMethods, WebMethods

(* Every method writes both split files before it starts the server, and   *)
(* the pem before it reloads it; only the router's writes the pem before   *)
(* the split files; a start is the last command; web methods alone switch  *)
(* HTTPS and root methods alone write the pem or restart the server.       *)
LEMMA ProgramShape ==
    ASSUME NEW m \in Methods, NEW i \in 1..Len(Program[m])
    PROVE  /\ Len(Program[m]) \in 3..4
           /\ Program[m][i] \in Ops
           /\ Program[m][i] \in Starts =>
                /\ Before(m, i, "cert")
                /\ Before(m, i, "key")
                /\ i = Len(Program[m])
           /\ Program[m][i] = "reload" => Before(m, i, "pem")
           /\ Program[m][i] = "pem" /\ m # "routerSSH" =>
                Before(m, i, "cert") /\ Before(m, i, "key")
           /\ Program[m][i] \in {"off", "on"} => m \in WebMethods
           /\ Program[m][i] \in {"pem", "reload", "rebuild"} => m \in RootMethods
<1> USE DEF Ops, Starts, Before, WebMethods, RootMethods
<1>1. CASE m = "routerSSH"
  <2>1. Program[m] = <<"pem", "key", "cert", "reload">>
    BY <1>1 DEF Program
  <2>2. i \in 1..4 /\ Len(Program[m]) = 4
    BY <2>1
  <2> QED
    BY <1>1, <2>1, <2>2
<1>2. CASE m = "sw2Telnet"
  <2>1. Program[m] = <<"cert", "key", "pem", "reload">>
    BY <1>2 DEF Program
  <2>2. i \in 1..4 /\ Len(Program[m]) = 4
    BY <2>1
  <2> QED
    BY <1>2, <2>1, <2>2
<1>3. CASE m \in {"sw1SSH", "wap1SSH"}
  <2>1. Program[m] = <<"cert", "key", "rebuild">>
    BY <1>3 DEF Program
  <2>2. i \in 1..3 /\ Len(Program[m]) = 3
    BY <2>1
  <2> QED
    BY <1>3, <2>1, <2>2
<1>4. CASE m = "sw2REST"
  <2>1. Program[m] = <<"off", "cert", "key", "on">>
    BY <1>4 DEF Program
  <2>2. i \in 1..4 /\ Len(Program[m]) = 4
    BY <2>1
  <2> QED
    BY <1>4, <2>1, <2>2
<1>5. CASE m = "sw1CGI"
  <2>1. Program[m] = <<"cert", "key", "off", "on">>
    BY <1>5 DEF Program
  <2>2. i \in 1..4 /\ Len(Program[m]) = 4
    BY <2>1
  <2> QED
    BY <1>5, <2>1, <2>2
<1> QED
  BY <1>1, <1>2, <1>3, <1>4, <1>5 DEF Methods

-----------------------------------------------------------------------------
(* Types.                                                                  *)

LocalsOK ==
    /\ pc \in PCs
    /\ turn \in DOMAIN Order
    /\ target \in Certs
    /\ method \in Methods \cup {"none"}
    /\ step \in 1..4
    /\ tries \in 1..Attempts

Contents == [cert : Certs \cup {Torn}, key : Certs \cup {Torn}]

DevicesOK ==
    /\ web \in [Devices -> {"on", "off", "dead"}]
    /\ serving \in [Devices -> Certs]
    /\ staged \in [Devices -> Contents]
    /\ live \in [Devices -> Contents]
    /\ mishap \in SUBSET Devices

CountersOK ==
    /\ issued \in [Devices -> 1..MaxIssued]
    /\ gauge \in [Devices -> {"absent", "stale", "match"}]
    /\ faults \in 0..MaxFaults
    /\ kills \in 0..MaxKills

LEMMA TypeParts == TypeOK <=> LocalsOK /\ DevicesOK /\ CountersOK
BY DEF TypeOK, LocalsOK, DevicesOK, CountersOK, Contents

LEMMA HereIsDevice == ASSUME turn \in DOMAIN Order PROVE Here \in Devices
BY OrderAssumption DEF Here

LEMMA NextDeviceType == ASSUME LocalsOK, NextDevice PROVE LocalsOK'
<1>1. DOMAIN Order = 1..Len(Order) /\ Len(Order) \in Nat \ {0}
  BY OrderAssumption
<1> QED
  BY <1>1, BoundAssumption DEF LocalsOK, NextDevice, ForgetLocals, PCs, Certs

LEMMA MethodFailedType == ASSUME LocalsOK, MethodFailed PROVE LocalsOK'
<1>1. Here \in Devices
  BY HereIsDevice DEF LocalsOK
<1>2. CASE NextDevice
  BY <1>2, NextDeviceType
<1>3. CASE Fallback[Here] # "none" /\ method' = Fallback[Here] /\ pc' = "connect"
           /\ step' = 1 /\ UNCHANGED <<turn, target, tries>>
  BY <1>1, <1>3, MethodAssumption DEF LocalsOK, PCs, Methods
<1> QED
  BY <1>2, <1>3 DEF MethodFailed

LEMMA HangsType == ASSUME LocalsOK, Hangs PROVE LocalsOK'
BY DEF LocalsOK, Hangs, localVars, PCs

(* A step of a method that is not its last leaves room for the next. *)
LEMMA AdvanceType ==
    ASSUME LocalsOK, PushInv, pc = "push", Advance
    PROVE  LocalsOK'
<1>1. method \in Methods /\ step \in 1..Len(Program[method])
  BY DEF PushInv, Installing
<1>2. Len(Program[method]) \in 3..4
  BY <1>1, ProgramShape
<1>3. step' \in 1..4
  <2>1. CASE step < Len(Program[method]) /\ step' = step + 1
    <3>1. ASSUME NEW n \in 3..4, NEW k \in 1..n, k < n
          PROVE  k + 1 \in 1..4
      BY <3>1
    <3> QED
      BY <1>1, <1>2, <2>1, <3>1
  <2>2. CASE UNCHANGED step
    BY <2>2 DEF LocalsOK
  <2> QED
    BY <2>1, <2>2 DEF Advance
<1>4. pc' \in PCs /\ UNCHANGED <<turn, target, method, tries>>
  BY DEF Advance, PCs
<1> QED
  BY <1>3, <1>4 DEF LocalsOK

LEMMA WriteType ==
    ASSUME DevicesOK, Here \in Devices, target \in Certs,
           NEW c \in Certs \cup {Torn}, NEW op, WriteFile(op, c)
    PROVE  DevicesOK'
<1>1. staged[Here] \in Contents /\ live[Here] \in Contents
  BY DEF DevicesOK
<1>2. ASSUME NEW a \in Certs \cup {Torn}, NEW b \in Certs \cup {Torn},
             NEW p \in Contents, Write(a, b, p)
      PROVE  DevicesOK'
  BY <1>2 DEF DevicesOK, Write, Contents
<1>3. Pair(c) \in Contents
  BY DEF Pair, Contents
<1>4. staged[Here].cert \in Certs \cup {Torn} /\ staged[Here].key \in Certs \cup {Torn}
  BY <1>1 DEF Contents
<1> QED
  BY <1>1, <1>2, <1>3, <1>4 DEF WriteFile

LEMMA EffectType ==
    ASSUME DevicesOK, Here \in Devices, target \in Certs, NEW op, Effect(op)
    PROVE  DevicesOK'
<1>1. CASE WriteFile(op, target)
  BY <1>1, WriteType
<1>2. CASE Serve(Started(op))
  <2>1. Started(op) \in Contents
    BY DEF Started, DevicesOK
  <2>2. Loadable(Started(op)) => Started(op).cert \in Certs
    BY <2>1 DEF Loadable, Contents
  <2> QED
    BY <1>2, <2>1, <2>2 DEF Serve, DevicesOK
<1>3. CASE web' = [web EXCEPT ![Here] = "off"] /\ UNCHANGED <<serving, staged, live, mishap>>
  BY <1>3 DEF DevicesOK
<1> QED
  BY <1>1, <1>2, <1>3 DEF Effect

LEMMA CutType ==
    ASSUME DevicesOK, Here \in Devices, target \in Certs, NEW op, Cut(op)
    PROVE  DevicesOK'
<1>1. CASE WriteFile(op, Torn)
  BY <1>1, WriteType
<1>2. CASE Write(staged[Here].cert, staged[Here].key, Pair(Torn))
  BY <1>2 DEF Write, DevicesOK, Contents, Pair
<1> QED
  BY <1>1, <1>2 DEF Cut

LEMMA TypeStep == ASSUME TypeOK, PushInv, [Next]_vars PROVE TypeOK'
<1> USE TypeParts
<1>1. Here \in Devices
  BY HereIsDevice DEF LocalsOK
<1>2. LocalsOK /\ DevicesOK /\ CountersOK
  OBVIOUS
<1>a. Fault \/ UNCHANGED faults => faults' \in 0..MaxFaults
  BY <1>2, BoundAssumption DEF Fault, CountersOK
<1>b. ASSUME NEW x \in {"absent", "stale", "match"}, gauge' = [gauge EXCEPT ![Here] = x]
      PROVE  gauge' \in [Devices -> {"absent", "stale", "match"}]
  BY <1>b, <1>2 DEF CountersOK
<1>c. UNCHANGED deviceVars => DevicesOK'
  BY <1>2 DEF deviceVars, DevicesOK
<1>d. ASSUME UNCHANGED issued, UNCHANGED gauge, UNCHANGED kills, faults' \in 0..MaxFaults
      PROVE  CountersOK'
  BY <1>d, <1>2 DEF CountersOK
<1>e. LocalsOK' /\ DevicesOK' /\ CountersOK' => TypeOK'
  BY DEF TypeOK, LocalsOK, DevicesOK, CountersOK, Contents
<1>3. ASSUME StartPass
      PROVE  TypeOK'
  <2>1. LocalsOK'
    BY <1>2, <1>3 DEF StartPass, LocalsOK, localVars, PCs
  <2> QED
    BY <1>e, <1>3, <2>1, <1>a, <1>c, <1>d DEF StartPass
<1>4. ASSUME ReadSecret
      PROVE  TypeOK'
  <2>1. CASE target' = issued[Here] /\ pc' = "dial" /\ UNCHANGED <<turn, method, step, tries, faults>>
    <3>1. target' \in Certs
      BY <1>1, <1>2, <2>1, BoundAssumption DEF CountersOK, Certs
    <3> QED
      BY <1>e, <1>2, <1>4, <2>1, <3>1, <1>a, <1>c, <1>d DEF ReadSecret, LocalsOK, PCs
  <2>2. CASE Fault /\ NextDevice
    BY <1>e, <1>2, <1>4, <2>2, <1>a, <1>c, <1>d, NextDeviceType DEF ReadSecret
  <2> QED
    BY <1>e, <1>4, <2>1, <2>2 DEF ReadSecret
<1>5. ASSUME Dial
      PROVE  TypeOK'
  <2>1. gauge' \in [Devices -> {"absent", "stale", "match"}]
    BY <1>2, <1>5, <1>b DEF Dial, CountersOK
  <2>2. LocalsOK'
    <3>1. CASE NextDevice
      BY <1>2, <3>1, NextDeviceType
    <3>2. CASE method' = Primary[Here] /\ pc' = "connect" /\ UNCHANGED <<turn, target, step, tries>>
      BY <1>1, <1>2, <3>2, MethodAssumption DEF LocalsOK, PCs
    <3> QED
      BY <1>5, <3>1, <3>2 DEF Dial
  <2>3. faults' \in 0..MaxFaults /\ UNCHANGED <<issued, deviceVars, kills>>
    BY <1>5, <1>a DEF Dial
  <2> QED
    BY <1>e, <1>2, <2>1, <2>2, <2>3, <1>c DEF CountersOK
<1>6. ASSUME Connect
      PROVE  TypeOK'
  <2>1. LocalsOK'
    <3>1. CASE MethodFailed
      BY <1>2, <3>1, MethodFailedType
    <3>2. CASE pc' = "push" /\ UNCHANGED <<turn, localVars>>
      BY <1>2, <3>2 DEF LocalsOK, localVars, PCs
    <3> QED
      BY <1>2, <1>6, <3>1, <3>2, HangsType DEF Connect
  <2> QED
    BY <1>e, <1>6, <2>1, <1>a, <1>c, <1>d DEF Connect
<1>7. ASSUME Push
      PROVE  TypeOK'
  <2>1. LocalsOK'
    BY <1>2, <1>7, AdvanceType, MethodFailedType, HangsType DEF Push
  <2>2. ASSUME SpawnFails(Program[method][step])
        PROVE  DevicesOK'
    BY <1>1, <1>2, <2>2 DEF SpawnFails, DevicesOK
  <2>3. DevicesOK'
    BY <1>1, <1>2, <1>7, <1>c, <2>2, EffectType, CutType DEF Push, LocalsOK
  <2> QED
    BY <1>e, <1>7, <2>1, <2>3, <1>a, <1>d DEF Push
<1>8. ASSUME Verify
      PROVE  TypeOK'
  <2>1. gauge' \in [Devices -> {"absent", "stale", "match"}]
    BY <1>2, <1>8, <1>b DEF Verify, CountersOK
  <2>2. LocalsOK'
    <3>1. CASE NextDevice
      BY <1>2, <3>1, NextDeviceType
    <3>2. CASE tries > 1 /\ tries' = tries - 1 /\ UNCHANGED <<pc, turn, target, method, step>>
      BY <1>2, <3>2, BoundAssumption DEF LocalsOK
    <3> QED
      BY <1>8, <3>1, <3>2 DEF Verify
  <2>3. faults' \in 0..MaxFaults /\ UNCHANGED <<issued, deviceVars, kills>>
    BY <1>8, <1>a DEF Verify
  <2> QED
    BY <1>e, <1>2, <2>1, <2>2, <2>3, <1>c DEF CountersOK
<1>9. ASSUME Kill
      PROVE  TypeOK'
  <2>1. LocalsOK'
    BY <1>2, <1>9, OrderAssumption, BoundAssumption DEF Kill, LocalsOK, ForgetLocals, PCs, Certs
  <2>2. CountersOK'
    BY <1>2, <1>9, BoundAssumption DEF Kill, CountersOK
  <2> QED
    BY <1>e, <1>9, <2>1, <2>2, <1>c DEF Kill
<1>10. ASSUME Restart
       PROVE  TypeOK'
  <2>1. LocalsOK'
    BY <1>2, <1>10 DEF Restart, LocalsOK, localVars, PCs
  <2> QED
    BY <1>e, <1>10, <2>1, <1>a, <1>c, <1>d DEF Restart
<1>11. ASSUME NEW d \in Devices, Renew(d)
       PROVE  TypeOK'
  <2>1. CountersOK'
    BY <1>2, <1>11, BoundAssumption DEF Renew, CountersOK
  <2>2. LocalsOK'
    BY <1>2, <1>11 DEF Renew, LocalsOK, localVars
  <2> QED
    BY <1>e, <1>11, <2>1, <2>2, <1>c DEF Renew
<1>12. ASSUME NEW d \in Devices, Reboot(d)
       PROVE  TypeOK'
  <2>1. BootPairs(d) \subseteq Contents
    BY <1>2 DEF BootPairs, DevicesOK
  <2>2. PICK p \in BootPairs(d) :
          /\ live' = [live EXCEPT ![d] = p]
          /\ web' = [web EXCEPT ![d] =
               IF @ = "off" THEN "off" ELSE IF Loadable(p) THEN "on" ELSE "dead"]
          /\ serving' = [serving EXCEPT ![d] = IF web'[d] = "on" THEN p.cert ELSE @]
    BY <1>12 DEF Reboot
  <2>3. web'[d] = "on" => p.cert \in Certs \/ web[d] = "on"
    BY <1>2, <2>1, <2>2 DEF Loadable, Contents, DevicesOK
  <2>4. Loadable(p) => p.cert \in Certs
    BY <2>1, <2>2 DEF Loadable, Contents
  <2>5. web'[d] = "on" => Loadable(p)
    BY <1>2, <2>2 DEF DevicesOK
  <2>6. DevicesOK'
    BY <1>2, <1>12, <2>1, <2>2, <2>4, <2>5 DEF DevicesOK, Reboot
  <2>7. LocalsOK'
    <3>1. CASE MethodFailed
      BY <1>2, <3>1, MethodFailedType
    <3>2. CASE UNCHANGED <<pc, turn, localVars>>
      BY <1>2, <3>2 DEF LocalsOK, localVars
    <3> QED
      BY <1>12, <3>1, <3>2 DEF Reboot
  <2> QED
    BY <1>e, <1>12, <2>6, <2>7, <1>a, <1>d DEF Reboot
<1>13. ASSUME NEW d \in Devices, Respawn(d)
       PROVE  TypeOK'
  <2>1. BootPairs(d) \subseteq Contents
    BY <1>2 DEF BootPairs, DevicesOK
  <2>2. PICK p \in BootPairs(d) :
          /\ Loadable(p)
          /\ live' = [live EXCEPT ![d] = p]
          /\ serving' = [serving EXCEPT ![d] = p.cert]
    BY <1>13 DEF Respawn
  <2>3. p \in Contents /\ p.cert \in Certs
    BY <2>1, <2>2 DEF Loadable, Contents
  <2>4. DevicesOK'
    BY <1>2, <1>13, <2>2, <2>3 DEF DevicesOK, Respawn
  <2>5. LocalsOK'
    BY <1>2, <1>13 DEF Respawn, LocalsOK, localVars
  <2> QED
    BY <1>e, <1>13, <2>4, <2>5, <1>a, <1>d DEF Respawn
<1>14. CASE UNCHANGED vars
  BY <1>14 DEF vars, TypeOK
<1>15. ASSUME Break
       PROVE  TypeOK'
  <2>1. LocalsOK'
    BY <1>2, <1>15, MethodFailedType DEF Break
  <2> QED
    BY <1>e, <1>15, <2>1, <1>a, <1>c, <1>d DEF Break
<1> QED
  BY <1>3, <1>4, <1>5, <1>6, <1>7, <1>8, <1>9, <1>10, <1>11, <1>12, <1>13, <1>14, <1>15
     DEF Next, Reconcile

-----------------------------------------------------------------------------
(* The push.                                                               *)

LEMMA CertsAreNotTorn == ASSUME NEW c \in Certs PROVE Loadable(Pair(c)) /\ Pair(c).cert = c
BY BoundAssumption DEF Certs, Torn, Loadable, Pair

LEMMA BothWritten ==
    ASSUME TypeOK, staged[Here].cert = target, staged[Here].key = target
    PROVE  staged[Here] = Pair(target)
<1>1. Here \in Devices
  BY HereIsDevice DEF TypeOK
<1>2. staged[Here] \in [cert : Certs \cup {Torn}, key : Certs \cup {Torn}]
  BY <1>1 DEF TypeOK
<1> QED
  BY <1>2 DEF Pair

(* The server is only ever started on the pair of the target. *)
LEMMA StartsOnTarget ==
    ASSUME TypeOK, PushInv, pc = "push", Program[method][step] \in Starts
    PROVE  /\ step = Len(Program[method])
           /\ staged[Here] = Pair(target)
           /\ Program[method][step] = "reload" => live[Here] = Pair(target)
           /\ Started(Program[method][step]) = Pair(target)
           /\ Loadable(Pair(target))
           /\ Works(Program[method][step])
<1>1. method \in Methods /\ step \in 1..Len(Program[method])
  BY DEF PushInv, Installing
<1>2. \A i \in 1..(step - 1) : Done(Program[method][i])
  BY DEF PushInv
<1>3. staged[Here].cert = target /\ staged[Here].key = target
  BY <1>1, <1>2, ProgramShape DEF Before, Done
<1>4. Program[method][step] = "reload" => live[Here] = Pair(target)
  BY <1>1, <1>2, ProgramShape DEF Before, Done
<1>5. step = Len(Program[method])
  BY <1>1, ProgramShape
<1>6. target \in Certs
  BY DEF TypeOK
<1> QED
  BY <1>3, <1>4, <1>5, <1>6, BothWritten, CertsAreNotTorn DEF Started, Works

(* Where a supervisor may make the pem out of the split files, these are   *)
(* on the target before the pem is.                                        *)
LEMMA PemIsLast ==
    ASSUME TypeOK, PushInv, pc = "push", Here \in Supervised,
           NEW i \in 1..step, Program[method][i] = "pem"
    PROVE  staged[Here] = Pair(target)
<1>1. Here \in Devices
  BY HereIsDevice DEF TypeOK
<1>2. method \in Methods /\ method \in {Primary[Here], Fallback[Here]}
      /\ step \in 1..Len(Program[method])
  BY DEF PushInv, Installing
<1>3. method # "routerSSH"
  BY <1>1, <1>2, FleetAssumption, MethodAssumption DEF WebMethods
<1>4. i \in 1..Len(Program[method]) /\ i - 1 <= step - 1
  <2>1. Len(Program[method]) \in Nat
    BY <1>2, ProgramShape
  <2> QED
    BY <1>2, <2>1
<1>5. Before(method, i, "cert") /\ Before(method, i, "key")
  BY <1>2, <1>3, <1>4, ProgramShape
<1>6. \A j \in 1..(i - 1) : Done(Program[method][j])
  BY <1>2, <1>4 DEF PushInv
<1> QED
  BY <1>5, <1>6, BothWritten DEF Before, Done

(* A command that runs to its end has done its work, and has not undone    *)
(* that of the ones before it.                                             *)
LEMMA EffectIsDone ==
    ASSUME TypeOK, NEW op, Effect(op), op \notin Starts, UNCHANGED <<turn, target>>
    PROVE  /\ Done(op)'
           /\ \A o : Done(o) => Done(o)'
<1>1. Here \in Devices /\ Here' = Here
  BY HereIsDevice DEF TypeOK, Here
<1>2. staged \in [Devices -> [cert : Certs \cup {Torn}, key : Certs \cup {Torn}]]
      /\ DOMAIN live = Devices
  BY DEF TypeOK
<1>3. CASE op = "pem" /\ Write(staged[Here].cert, staged[Here].key, Pair(target))
  BY <1>1, <1>2, <1>3 DEF Write, Done, Pair
<1>4. CASE op = "cert" /\ Write(target, staged[Here].key, live[Here])
  BY <1>1, <1>2, <1>4 DEF Write, Done, Pair
<1>5. CASE op = "key" /\ Write(staged[Here].cert, target, live[Here])
  BY <1>1, <1>2, <1>5 DEF Write, Done, Pair
<1>6. CASE op = "off" /\ UNCHANGED <<staged, live>>
  BY <1>1, <1>6 DEF Done, Pair
<1> QED
  BY <1>3, <1>4, <1>5, <1>6 DEF Effect, WriteFile, Starts

LEMMA LeavingKeepsPushInv ==
    ASSUME TypeOK, PushInv, NextDevice \/ MethodFailed
    PROVE  PushInv'
<1>1. CASE NextDevice
  BY <1>1 DEF NextDevice, ForgetLocals, PushInv, Installing
<1>2. CASE Fallback[Here] # "none" /\ method' = Fallback[Here] /\ pc' = "connect"
           /\ step' = 1 /\ UNCHANGED <<turn, target, tries>>
  <2>1. Here' = Here /\ Here \in Devices
    BY <1>2, HereIsDevice DEF Here, TypeOK
  <2> QED
    BY <1>2, <2>1, MethodAssumption DEF PushInv, Installing, Methods
<1> QED
  BY <1>1, <1>2 DEF MethodFailed

LEMMA HangingKeepsPushInv ==
    ASSUME PushInv, Installing, Hangs
    PROVE  PushInv'
  BY DEF Hangs, localVars, PushInv, Installing, Here

LEMMA PushInvStep == ASSUME TypeOK, PushInv, [Next]_vars PROVE PushInv'
<1>1. Here \in Devices
  BY HereIsDevice DEF TypeOK
<1>2. ASSUME Installing => method \in Methods /\ method \in {Primary[Here], Fallback[Here]},
             UNCHANGED <<pc, turn, localVars>>,
             pc = "push" => \A o : Done(o) => Done(o)'
      PROVE  PushInv'
  <2>1. Here' = Here /\ UNCHANGED <<pc, target, method, step>>
    BY <1>2 DEF Here, localVars
  <2> QED
    BY <1>2, <2>1 DEF PushInv, Installing
<1>3. ASSUME UNCHANGED <<turn, target, staged, live>>
      PROVE  \A o : Done(o) => Done(o)'
  BY <1>3 DEF Done, Here, Pair
<1>4. Installing => method \in Methods /\ method \in {Primary[Here], Fallback[Here]}
  BY DEF PushInv
<1>5. CASE StartPass \/ ReadSecret \/ Kill \/ Restart
  <2>1. pc' \notin {"connect", "push", "hung", "verify"}
    BY <1>5 DEF StartPass, ReadSecret, Kill, Restart, NextDevice
  <2>2. step' = 1
    BY <1>5 DEF StartPass, ReadSecret, Kill, Restart, NextDevice, ForgetLocals, localVars, PushInv
  <2> QED
    BY <2>1, <2>2 DEF PushInv, Installing
<1>6. CASE Dial
  <2>1. CASE NextDevice
    BY <2>1, LeavingKeepsPushInv
  <2>2. CASE pc = "dial" /\ method' = Primary[Here] /\ pc' = "connect" /\ UNCHANGED <<turn, target, step, tries>>
    <3>1. Here' = Here
      BY <2>2 DEF Here
    <3>2. step = 1
      BY <2>2 DEF PushInv
    <3> QED
      BY <1>1, <2>2, <3>1, <3>2, MethodAssumption DEF PushInv, Installing
  <2> QED
    BY <1>6, <2>1, <2>2 DEF Dial
<1>7. CASE Connect
  <2>0. Installing
    BY <1>7 DEF Connect, Installing
  <2>1. CASE MethodFailed \/ Hangs
    BY <2>0, <2>1, LeavingKeepsPushInv, HangingKeepsPushInv
  <2>2. CASE pc = "connect" /\ pc' = "push" /\ UNCHANGED <<turn, localVars>>
    <3>1. Here' = Here /\ UNCHANGED <<target, method, step>>
      BY <2>2 DEF Here, localVars
    <3>2. method \in Methods /\ step = 1
      BY <2>2 DEF PushInv, Installing
    <3>3. Len(Program[method]) >= 3
      BY <3>2, ProgramLength
    <3> QED
      BY <1>4, <2>2, <3>1, <3>2, <3>3 DEF PushInv, Installing
  <2> QED
    BY <1>7, <2>1, <2>2 DEF Connect
<1>8. CASE Push
  <2>0. Installing
    BY <1>8 DEF Push, Installing
  <2>1. CASE MethodFailed \/ Hangs
    BY <2>0, <2>1, LeavingKeepsPushInv, HangingKeepsPushInv
  <2>2. ASSUME Advance, Effect(Program[method][step]) \/ SpawnFails(Program[method][step])
        PROVE  PushInv'
    <3>0. PICK op : op = Program[method][step]
      OBVIOUS
    <3>1. pc = "push" /\ method \in Methods /\ step \in 1..Len(Program[method])
      BY <1>8 DEF Push, PushInv, Installing
    <3>2. Here' = Here /\ UNCHANGED <<turn, target, method>>
      BY <2>2 DEF Advance, Here
    <3>3. Len(Program[method]) \in 3..4
      BY <3>1, ProgramLength
    <3>4. CASE op \in Starts
      <4>1. pc' = "verify"
        BY <2>2, <3>0, <3>1, <3>3, <3>4, StartsOnTarget DEF Advance
      <4> QED
        BY <1>4, <3>1, <3>2, <4>1 DEF PushInv, Installing
    <3>5. CASE op \notin Starts
      <4>1. Effect(op)
        BY <2>2, <3>0, <3>5 DEF SpawnFails, Starts
      <4>2. Done(op)' /\ \A o : Done(o) => Done(o)'
        BY <3>2, <3>5, <4>1, EffectIsDone
      <4>3. CASE pc' = "verify"
        BY <1>4, <3>1, <3>2, <4>3 DEF PushInv, Installing
      <4>4. CASE pc' = "push" /\ step < Len(Program[method]) /\ step' = step + 1
        <5>1. step' \in 1..Len(Program[method])
          BY <3>1, <3>3, <4>4
        <5>2. \A i \in 1..(step' - 1) : i \in 1..(step - 1) \/ i = step
          BY <3>1, <3>3, <4>4
        <5>3. \A i \in 1..(step - 1) : Done(Program[method][i])
          BY <3>1 DEF PushInv
        <5>4. \A i \in 1..(step' - 1) : Done(Program[method][i])'
          <6> SUFFICES ASSUME NEW i \in 1..(step' - 1)
                       PROVE  Done(Program[method][i])'
            OBVIOUS
          <6>1. CASE i = step
            <7>1. Program[method][i]' = op
              BY <3>0, <3>2, <6>1
            <7> QED
              BY <4>2, <7>1 DEF Done
          <6>2. CASE i \in 1..(step - 1)
            BY <4>2, <6>2, <5>3, <3>2 DEF Done
          <6> QED
            BY <5>2, <6>1, <6>2
        <5> QED
          BY <1>4, <3>1, <3>2, <4>4, <5>1, <5>4 DEF PushInv, Installing
      <4> QED
        BY <2>2, <3>1, <4>3, <4>4 DEF Advance
    <3> QED
      BY <3>4, <3>5
  <2> QED
    BY <1>8, <2>1, <2>2 DEF Push
<1>9. CASE Verify
  <2>1. CASE NextDevice
    BY <2>1, LeavingKeepsPushInv
  <2>2. CASE pc = "verify" /\ UNCHANGED <<pc, turn, target, method, step>>
    <3>1. Here' = Here
      BY <2>2 DEF Here
    <3> QED
      BY <1>4, <2>2, <3>1 DEF PushInv, Installing
  <2> QED
    BY <1>9, <2>1, <2>2 DEF Verify
<1>10. ASSUME NEW d \in Devices, Renew(d)
       PROVE  PushInv'
  BY <1>2, <1>3, <1>4, <1>10 DEF Renew, deviceVars, localVars
<1>11. ASSUME NEW d \in Devices, Reboot(d)
       PROVE  PushInv'
  <2>1. CASE MethodFailed
    BY <2>1, LeavingKeepsPushInv
  <2>2. CASE ~(pc \in {"push", "hung"} /\ d = Here) /\ UNCHANGED <<pc, turn, localVars>>
    <3>1. pc = "push" => staged'[Here] = staged[Here] /\ live'[Here] = live[Here]
      BY <1>1, <1>11, <2>2 DEF Reboot, TypeOK
    <3>2. pc = "push" => \A o : Done(o) => Done(o)'
      BY <2>2, <3>1 DEF Done, Here, Pair, localVars
    <3> QED
      BY <1>2, <1>4, <2>2, <3>2
  <2> QED
    BY <1>11, <2>1, <2>2 DEF Reboot
<1>12. ASSUME NEW d \in Devices, Respawn(d)
       PROVE  PushInv'
  <2>1. UNCHANGED <<pc, turn, localVars, staged>>
    BY <1>12 DEF Respawn
  <2>2. Here' = Here /\ UNCHANGED <<pc, target, method, step>>
    BY <2>1 DEF Here, localVars
  <2>3. CASE pc # "push"
    BY <1>2, <1>4, <2>1, <2>3
  <2>4. CASE pc = "push"
    <3> SUFFICES ASSUME NEW i \in 1..(step - 1)
                 PROVE  Done(Program[method][i])'
      BY <1>4, <2>2, <2>4 DEF PushInv, Installing
    <3>1. Done(Program[method][i])
      BY <2>4 DEF PushInv
    <3>2. step \in Nat /\ i \in 1..step
      BY DEF TypeOK
    <3>3. CASE d # Here \/ Program[method][i] # "pem"
      <4>1. d # Here => live'[Here] = live[Here]
        BY <1>1, <1>12 DEF Respawn, TypeOK
      <4> QED
        BY <2>1, <2>2, <3>1, <3>3, <4>1 DEF Done, Pair
    <3>4. CASE d = Here /\ Program[method][i] = "pem"
      <4>1. staged[Here] = Pair(target)
        BY <1>12, <2>4, <3>2, <3>4, PemIsLast DEF Respawn
      <4>2. live[Here] = Pair(target)
        BY <3>1, <3>4 DEF Done
      <4>3. live'[Here] \in BootPairs(Here)
        BY <1>1, <1>12, <3>4 DEF Respawn, TypeOK
      <4>4. live'[Here] = Pair(target)
        BY <4>1, <4>2, <4>3 DEF BootPairs
      <4> QED
        BY <2>1, <2>2, <3>4, <4>1, <4>4 DEF Done, Pair
    <3> QED
      BY <3>3, <3>4
  <2> QED
    BY <2>3, <2>4
<1>13. CASE UNCHANGED vars
  BY <1>2, <1>3, <1>4, <1>13 DEF vars, localVars
<1>14. CASE Break
  BY <1>14, LeavingKeepsPushInv DEF Break
<1> QED
  BY <1>5, <1>6, <1>7, <1>8, <1>9, <1>10, <1>11, <1>12, <1>13, <1>14 DEF Next, Reconcile

-----------------------------------------------------------------------------
(* What a push can do to the device h it works on, certificate t being the *)
(* target.                                                                 *)

WroteFile(h, c) ==
    /\ UNCHANGED <<web, serving, mishap>>
    /\ \/ /\ staged' = [staged EXCEPT ![h] = [cert |-> c, key |-> staged[h].key]]
          /\ UNCHANGED live
       \/ /\ staged' = [staged EXCEPT ![h] = [cert |-> staged[h].cert, key |-> c]]
          /\ UNCHANGED live
       \/ /\ live' = [live EXCEPT ![h] = Pair(c)]
          /\ UNCHANGED staged
          /\ h \in Supervised /\ Loadable(Pair(c)) => staged[h] = Pair(c)

ServedPair(h, t) ==
    /\ staged[h] = Pair(t)
    /\ live' = [live EXCEPT ![h] = Pair(t)]
    /\ serving' = [serving EXCEPT ![h] = t]
    /\ web' = [web EXCEPT ![h] = "on"]
    /\ UNCHANGED <<staged, mishap>>

SwitchedOff(h) ==
    /\ method \in WebMethods
    /\ web' = [web EXCEPT ![h] = "off"]
    /\ UNCHANGED <<serving, staged, live, mishap>>

Died(h) ==
    /\ mishap' = mishap \cup {h}
    /\ web' = [web EXCEPT ![h] = "dead"]
    /\ UNCHANGED <<serving, staged, live>>

LEMMA Unwritten ==
    ASSUME TypeOK, NEW h \in Devices
    PROVE  /\ staged = [staged EXCEPT ![h] = [cert |-> staged[h].cert, key |-> staged[h].key]]
           /\ live = [live EXCEPT ![h] = live[h]]
<1>1. staged[h] = [cert |-> staged[h].cert, key |-> staged[h].key]
  BY DEF TypeOK
<1> QED
  BY <1>1 DEF TypeOK

LEMMA WriteOutcome ==
    ASSUME TypeOK, PushInv, pc = "push", NEW c \in {target, Torn},
           WriteFile(Program[method][step], c)
    PROVE  WroteFile(Here, c)
<1>1. Here \in Devices
  BY HereIsDevice DEF TypeOK
<1>2. CASE Program[method][step] \in {"cert", "key"}
  BY <1>1, <1>2, Unwritten DEF WriteFile, Write, WroteFile
<1>3. CASE Program[method][step] = "pem"
  <2>1. Here \in Supervised /\ Loadable(Pair(c)) => staged[Here] = Pair(c)
    <3>1. step \in 1..step
      BY DEF TypeOK
    <3>2. Loadable(Pair(c)) => c = target
      BY DEF Loadable, Pair
    <3> QED
      BY <1>3, <3>1, <3>2, PemIsLast
  <2> QED
    BY <1>1, <1>3, <2>1, Unwritten DEF WriteFile, Write, WroteFile
<1> QED
  BY <1>2, <1>3 DEF WriteFile

LEMMA EffectOutcome ==
    ASSUME TypeOK, PushInv, pc = "push", Effect(Program[method][step])
    PROVE  \/ WroteFile(Here, target)
           \/ ServedPair(Here, target) /\ step = Len(Program[method])
           \/ SwitchedOff(Here)
<1>1. CASE WriteFile(Program[method][step], target)
  BY <1>1, WriteOutcome
<1>2. CASE Program[method][step] \in Starts /\ Serve(Started(Program[method][step]))
  <2>1. target \in Certs
    BY DEF TypeOK
  <2> QED
    BY <1>2, <2>1, StartsOnTarget, CertsAreNotTorn DEF Serve, ServedPair
<1>3. CASE Program[method][step] = "off" /\ web' = [web EXCEPT ![Here] = "off"]
           /\ UNCHANGED <<serving, staged, live, mishap>>
  <2>1. method \in Methods /\ step \in 1..Len(Program[method])
    BY DEF PushInv, Installing
  <2> QED
    BY <1>3, <2>1, ProgramShape DEF SwitchedOff
<1> QED
  BY <1>1, <1>2, <1>3 DEF Effect, Starts

(* A command of a push does one of these things.  When the server has been *)
(* started the method is over, one way or the other.                       *)
LEMMA PushOutcome ==
    ASSUME TypeOK, PushInv, Push
    PROVE  /\ \/ WroteFile(Here, target)
              \/ WroteFile(Here, Torn) /\ method \in RootMethods /\ (MethodFailed \/ Hangs)
              \/ ServedPair(Here, target) /\ (pc' = "verify" \/ MethodFailed \/ Hangs)
              \/ SwitchedOff(Here)
              \/ Died(Here)
              \/ UNCHANGED deviceVars
           /\ Advance \/ MethodFailed \/ Hangs
           /\ UNCHANGED <<issued, gauge>>
           /\ pc = "push"
<1> DEFINE op == Program[method][step]
<1>1. pc = "push" /\ UNCHANGED <<issued, gauge>>
  BY DEF Push
<1>2. CASE Effect(op) /\ (Advance \/ MethodFailed \/ Hangs)
  <2>1. step = Len(Program[method]) /\ Advance => pc' = "verify"
    <3>1. Len(Program[method]) \in 3..4
      BY <1>1, ProgramLength DEF PushInv, Installing
    <3> QED
      BY <3>1 DEF Advance
  <2> QED
    BY <1>1, <1>2, <2>1, EffectOutcome
<1>3. CASE Cut(op) /\ (MethodFailed \/ Hangs)
  <2>1. CASE WriteFile(op, Torn)
    BY <1>1, <1>3, <2>1, WriteOutcome DEF Cut
  <2>2. CASE Write(staged[Here].cert, staged[Here].key, Pair(Torn))
    <3>1. Here \in Devices
      BY HereIsDevice DEF TypeOK
    <3>2. ~Loadable(Pair(Torn))
      BY DEF Loadable, Pair
    <3>3. WroteFile(Here, Torn)
      BY <2>2, <3>1, <3>2, Unwritten DEF Write, WroteFile
    <3> QED
      BY <1>1, <1>3, <3>3 DEF Cut
  <2> QED
    BY <1>3, <2>1, <2>2 DEF Cut
<1>4. CASE SpawnFails(op) /\ (Advance \/ MethodFailed)
  BY <1>1, <1>4 DEF SpawnFails, Died
<1>5. CASE UNCHANGED deviceVars /\ (MethodFailed \/ Hangs)
  BY <1>1, <1>5
<1> QED
  BY <1>2, <1>3, <1>4, <1>5 DEF Push

-----------------------------------------------------------------------------
(* Certificates are ordered.                                               *)

LEMMA Numbers ==
    ASSUME TypeOK, NEW d \in Devices
    PROVE  /\ serving[d] \in Int /\ issued[d] \in Int /\ target \in Int
           /\ staged[d].cert \in Int /\ staged[d].key \in Int
           /\ live[d].cert \in Int /\ live[d].key \in Int
<1>1. Certs \subseteq Int /\ Certs \cup {Torn} \subseteq Int
  BY BoundAssumption DEF Certs, Torn
<1>2. staged[d] \in [cert : Certs \cup {Torn}, key : Certs \cup {Torn}]
      /\ live[d] \in [cert : Certs \cup {Torn}, key : Certs \cup {Torn}]
  BY DEF TypeOK
<1> QED
  BY <1>1, <1>2 DEF TypeOK

(* While the operator stays with a device it keeps its target. *)
LEMMA TargetIsKept ==
    ASSUME \/ NextDevice \/ MethodFailed
           \/ Handling /\ Advance
           \/ Hangs
           \/ UNCHANGED <<pc, turn, localVars>>,
           Handling'
    PROVE  UNCHANGED <<turn, target, Here>> /\ (Installing => Handling)
BY DEF NextDevice, MethodFailed, Advance, Hangs, localVars, Handling, Installing, Here

(* What a device does by itself. *)
LEMMA BootOutcome ==
    ASSUME TypeOK, NEW d \in Devices, Reboot(d) \/ Respawn(d)
    PROVE  \E p \in BootPairs(d) :
             /\ live' = [live EXCEPT ![d] = p]
             /\ UNCHANGED <<staged, issued>>
             /\ \/ serving'[d] = serving[d]
                \/ Loadable(p) /\ serving'[d] = p.cert
             /\ \A e \in Devices \ {d} : serving'[e] = serving[e] /\ web'[e] = web[e]
<1>1. CASE Reboot(d)
  <2>1. PICK p \in BootPairs(d) :
          /\ live' = [live EXCEPT ![d] = p]
          /\ web' = [web EXCEPT ![d] =
               IF @ = "off" THEN "off" ELSE IF Loadable(p) THEN "on" ELSE "dead"]
          /\ serving' = [serving EXCEPT ![d] = IF web'[d] = "on" THEN p.cert ELSE @]
    BY <1>1 DEF Reboot
  <2>2. web'[d] = "on" => Loadable(p)
    BY <2>1 DEF TypeOK
  <2>3. serving'[d] = serving[d] \/ (Loadable(p) /\ serving'[d] = p.cert)
    BY <2>1, <2>2 DEF TypeOK
  <2>4. \A e \in Devices \ {d} : serving'[e] = serving[e] /\ web'[e] = web[e]
    BY <2>1 DEF TypeOK
  <2> QED
    BY <1>1, <2>1, <2>3, <2>4 DEF Reboot
<1>2. CASE Respawn(d)
  BY <1>2 DEF Respawn, TypeOK
<1> QED
  BY <1>1, <1>2

LEMMA BootKeepsOrder ==
    ASSUME TypeOK, NEW d \in Devices, Reboot(d) \/ Respawn(d), BootOK(d),
           NEW c \in Int, serving[d] <= c, FilesUpTo(d, c)
    PROVE  BootOK(d)' /\ serving'[d] <= c /\ FilesUpTo(d, c)'
<1>1. PICK p \in BootPairs(d) :
         /\ live' = [live EXCEPT ![d] = p]
         /\ UNCHANGED <<staged, issued>>
         /\ serving'[d] = serving[d] \/ (Loadable(p) /\ serving'[d] = p.cert)
  BY BootOutcome
<1>2. p \in {staged[d], live[d]} /\ live'[d] = p /\ staged'[d] = staged[d]
  BY <1>1 DEF BootPairs, TypeOK
<1>3. serving'[d] <= c /\ FilesUpTo(d, c)'
  BY <1>1, <1>2, Numbers DEF FilesUpTo
<1>4. d \in Supervised \ CopiesAtBoot => BootPairs(d)' = {staged[d], p}
      /\ BootPairs(d) = {staged[d], live[d]}
  BY <1>2 DEF BootPairs
<1>5. d \in CopiesAtBoot => BootPairs(d)' = {staged[d]} /\ p = staged[d]
  BY <1>1, <1>2 DEF BootPairs
<1>6. d \notin Supervised \cup CopiesAtBoot => BootPairs(d)' = {p} /\ p = live[d]
      /\ BootPairs(d) = {live[d]}
  BY <1>1, <1>2 DEF BootPairs
<1> QED
  BY <1>1, <1>2, <1>3, <1>4, <1>5, <1>6, Numbers DEF BootOK, Loadable

LEMMA PushKeepsOrder ==
    ASSUME TypeOK, PushInv, OrderInv, Push, NEW h \in Devices, h = Here,
           NEW t \in Certs, t = target
    PROVE  BootOK(h)' /\ serving'[h] <= t /\ FilesUpTo(h, t)'
<1>1. serving[h] <= t /\ FilesUpTo(h, t) /\ BootOK(h)
  BY DEF OrderInv, TargetInv, BootInv, Handling, Push
<1>2. DOMAIN staged = Devices /\ DOMAIN live = Devices /\ DOMAIN serving = Devices
  BY DEF TypeOK
<1>3. Torn <= t /\ ~Loadable(Pair(Torn)) /\ Loadable(Pair(t))
  BY CertsAreNotTorn, BoundAssumption DEF Torn, Certs, Loadable, Pair
<1>4. ASSUME NEW c \in {t, Torn}, WroteFile(h, c)
      PROVE  BootOK(h)' /\ serving'[h] <= t /\ FilesUpTo(h, t)'
  <2>1. serving'[h] = serving[h]
    BY <1>4 DEF WroteFile
  <2>2. \/ staged'[h] = [cert |-> c, key |-> staged[h].key] /\ live'[h] = live[h]
        \/ staged'[h] = [cert |-> staged[h].cert, key |-> c] /\ live'[h] = live[h]
        \/ /\ live'[h] = Pair(c)
           /\ staged'[h] = staged[h]
           /\ h \in Supervised /\ Loadable(Pair(c)) => staged[h] = Pair(c)
    BY <1>2, <1>4 DEF WroteFile
  <2>3. FilesUpTo(h, t)'
    BY <1>1, <1>3, <2>2, Numbers DEF FilesUpTo, Pair
  <2>4. Loadable(staged'[h]) => serving[h] <= staged'[h].cert \/ staged'[h] = staged[h]
    BY <1>1, <1>3, <2>2, Numbers DEF Loadable
  <2>5. Loadable(live'[h]) => serving[h] <= live'[h].cert \/ live'[h] = live[h]
    BY <1>1, <1>3, <2>2, Numbers DEF Loadable, Pair
  <2>6. h \in Supervised /\ Loadable(live'[h]) /\ Loadable(staged'[h])
          => live'[h].cert <= staged'[h].cert
    <3>1. CASE staged'[h] = [cert |-> c, key |-> staged[h].key] /\ live'[h] = live[h]
      BY <1>1, <1>3, <3>1, Numbers DEF Loadable, FilesUpTo
    <3>2. CASE staged'[h] = [cert |-> staged[h].cert, key |-> c] /\ live'[h] = live[h]
      BY <1>1, <1>3, <3>2, Numbers DEF Loadable, FilesUpTo
    <3>3. CASE /\ live'[h] = Pair(c)
               /\ staged'[h] = staged[h]
               /\ h \in Supervised /\ Loadable(Pair(c)) => staged[h] = Pair(c)
      <4>1. c \in Int
        BY BoundAssumption DEF Certs, Torn
      <4> QED
        BY <3>3, <1>3, <4>1 DEF Pair
    <3> QED
      BY <2>2, <3>1, <3>2, <3>3
  <2>7. BootPairs(h)' \subseteq {staged'[h], live'[h]}
    BY DEF BootPairs
  <2>8. \A p \in BootPairs(h)' : Loadable(p) => serving'[h] <= p.cert
    <3> SUFFICES ASSUME NEW p \in BootPairs(h)', Loadable(p)
                 PROVE  serving[h] <= p.cert
      BY <2>1
    <3>1. CASE p = staged'[h] /\ p # staged[h]
      BY <2>4, <3>1
    <3>2. CASE p = live'[h] /\ p # live[h]
      BY <2>5, <3>2
    <3>3. p \in BootPairs(h) => serving[h] <= p.cert
      BY <1>1 DEF BootOK
    <3>4. CASE p = staged[h] /\ p = staged'[h] /\ h \in Supervised \cup CopiesAtBoot
      BY <3>3, <3>4 DEF BootPairs
    <3>5. CASE p = live[h] /\ p = live'[h] /\ h \notin CopiesAtBoot
      BY <3>3, <3>5 DEF BootPairs
    <3>6. \/ p = staged'[h] /\ h \in Supervised \cup CopiesAtBoot
          \/ p = live'[h] /\ h \notin CopiesAtBoot
      BY DEF BootPairs
    <3> QED
      BY <3>1, <3>2, <3>4, <3>5, <3>6
  <2> QED
    BY <1>1, <2>1, <2>3, <2>6, <2>8 DEF BootOK
<1>5. CASE ServedPair(h, t)
  <2>1. serving'[h] = t /\ live'[h] = Pair(t) /\ staged'[h] = Pair(t)
    BY <1>2, <1>5 DEF ServedPair
  <2>2. BootPairs(h)' \subseteq {Pair(t)}
    BY <2>1 DEF BootPairs
  <2>3. t <= t
    BY BoundAssumption DEF Certs
  <2> QED
    BY <2>1, <2>2, <2>3 DEF BootOK, FilesUpTo, Pair
<1>6. CASE UNCHANGED <<serving, staged, live>>
  BY <1>1, <1>6 DEF BootOK, FilesUpTo, BootPairs
<1> QED
  BY <1>4, <1>5, <1>6, PushOutcome DEF SwitchedOff, Died, deviceVars

LEMMA PushIsLocal ==
    ASSUME TypeOK, PushInv, Push, NEW d \in Devices, d # Here
    PROVE  UNCHANGED <<serving[d], staged[d], live[d], web[d]>> /\ (d \in mishap <=> d \in mishap')
<1>1. DOMAIN staged = Devices /\ DOMAIN live = Devices
      /\ DOMAIN serving = Devices /\ DOMAIN web = Devices
  BY DEF TypeOK
<1>2. ASSUME NEW c, WroteFile(Here, c)
      PROVE  UNCHANGED <<serving[d], staged[d], live[d], web[d]>> /\ (d \in mishap <=> d \in mishap')
  BY <1>1, <1>2 DEF WroteFile
<1>3. CASE ServedPair(Here, target)
  BY <1>1, <1>3 DEF ServedPair
<1>4. CASE SwitchedOff(Here) \/ Died(Here)
  BY <1>1, <1>4 DEF SwitchedOff, Died
<1>5. CASE UNCHANGED deviceVars
  BY <1>5 DEF deviceVars
<1> QED
  BY <1>2, <1>3, <1>4, <1>5, PushOutcome

LEMMA OrderStep == ASSUME TypeOK, PushInv, OrderInv, [Next]_vars PROVE OrderInv'
<1>1. Here \in Devices
  BY HereIsDevice DEF TypeOK
<1>2. PICK h \in Devices, t \in Certs : h = Here /\ t = target
  BY <1>1 DEF TypeOK
<1>3. ASSUME UNCHANGED deviceVars, UNCHANGED issued,
             Handling' => Handling /\ UNCHANGED <<turn, target, Here>>
      PROVE  OrderInv'
  BY <1>3 DEF OrderInv, IssuedInv, TargetInv, BootInv, BootOK, BootPairs, FilesUpTo, deviceVars
<1>4. CASE StartPass \/ Dial \/ Connect \/ Break \/ Verify \/ Kill \/ Restart
  <2>1. UNCHANGED deviceVars /\ UNCHANGED issued
    BY <1>4 DEF StartPass, Dial, Connect, Break, Verify, Kill, Restart
  <2>2. Handling' => Handling /\ UNCHANGED <<turn, target, Here>>
    BY <1>4 DEF StartPass, Dial, Connect, Break, Verify, Kill, Restart, NextDevice, MethodFailed,
                Hangs, Handling, Here, localVars
  <2> QED
    BY <1>3, <2>1, <2>2
<1>5. CASE ReadSecret
  <2>1. UNCHANGED deviceVars /\ UNCHANGED issued
    BY <1>5 DEF ReadSecret
  <2>2. CASE NextDevice
    BY <1>3, <2>1, <2>2 DEF NextDevice, Handling
  <2>3. CASE target' = issued[Here] /\ UNCHANGED turn
    <3>1. Here' = Here
      BY <2>3 DEF Here
    <3>2. TargetInv'
      BY <1>1, <2>1, <2>3, <3>1, Numbers DEF OrderInv, IssuedInv, TargetInv, FilesUpTo, deviceVars
    <3> QED
      BY <2>1, <3>2 DEF OrderInv, IssuedInv, BootInv, BootOK, BootPairs, FilesUpTo, deviceVars
  <2> QED
    BY <1>5, <2>2, <2>3 DEF ReadSecret
<1>6. CASE Push
  <2>1. BootOK(h)' /\ serving'[h] <= t /\ FilesUpTo(h, t)'
    BY <1>2, <1>6, PushKeepsOrder
  <2>2. \A d \in Devices \ {h} : UNCHANGED <<serving[d], staged[d], live[d]>>
    BY <1>2, <1>6, PushIsLocal
  <2>3. UNCHANGED issued /\ (Advance \/ MethodFailed \/ Hangs) /\ Handling
    BY <1>6, PushOutcome DEF Handling
  <2>4. t <= issued[h]
    BY <1>2, <2>3 DEF OrderInv, TargetInv
  <2>5. IssuedInv'
    <3>1. TypeOK'
      BY <1>6, TypeStep DEF Next, Reconcile
    <3>2. staged'[h].cert \in Int /\ staged'[h].key \in Int /\ live'[h].cert \in Int
          /\ serving'[h] \in Int
      <4>1. Certs \subseteq Int /\ Certs \cup {Torn} \subseteq Int
        BY BoundAssumption DEF Certs, Torn
      <4>2. staged'[h] \in [cert : Certs \cup {Torn}, key : Certs \cup {Torn}]
            /\ live'[h] \in [cert : Certs \cup {Torn}, key : Certs \cup {Torn}]
        BY <3>1 DEF TypeOK
      <4> QED
        BY <3>1, <4>1, <4>2 DEF TypeOK
    <3>3. FilesUpTo(h, issued[h])' /\ serving'[h] <= issued'[h]
      BY <1>2, <2>1, <2>3, <2>4, <3>2, Numbers DEF FilesUpTo
    <3> QED
      BY <2>2, <2>3, <3>3 DEF OrderInv, IssuedInv, FilesUpTo
  <2>6. BootInv'
    BY <2>1, <2>2 DEF OrderInv, BootInv, BootOK, BootPairs
  <2>7. TargetInv'
    <3> SUFFICES ASSUME Handling'
                 PROVE  TargetInv'
      BY DEF TargetInv
    <3>1. Here' = h /\ target' = t
      BY <1>2, <2>3, TargetIsKept
    <3> QED
      BY <2>1, <2>3, <2>4, <3>1 DEF TargetInv, FilesUpTo
  <2> QED
    BY <2>5, <2>6, <2>7 DEF OrderInv
<1>7. ASSUME NEW d \in Devices, Renew(d)
      PROVE  OrderInv'
  <2>1. \A e \in Devices : issued[e] <= issued'[e]
    BY <1>7, BoundAssumption DEF Renew, TypeOK
  <2>2. TypeOK'
    BY <1>7, TypeStep DEF Next
  <2>3. IssuedInv'
    <3> SUFFICES ASSUME NEW e \in Devices
                 PROVE  serving'[e] <= issued'[e] /\ FilesUpTo(e, issued[e])'
      BY DEF IssuedInv
    <3>1. serving[e] <= issued[e] /\ FilesUpTo(e, issued[e])
      BY DEF OrderInv, IssuedInv
    <3>2. issued[e] \in Int /\ issued'[e] \in Int
      BY <2>2, BoundAssumption DEF TypeOK
    <3>3. UNCHANGED <<serving, staged, live>>
      BY <1>7 DEF Renew, deviceVars
    <3> QED
      BY <2>1, <3>1, <3>2, <3>3, Numbers DEF FilesUpTo
  <2>4. TargetInv'
    <3>1. UNCHANGED <<pc, turn, target, Here, serving, staged, live>>
      BY <1>7 DEF Renew, localVars, deviceVars, Here
    <3>2. issued[Here] \in Int /\ issued'[Here] \in Int /\ target \in Int
      BY <1>1, <2>2, BoundAssumption DEF TypeOK, Certs
    <3> QED
      BY <1>1, <2>1, <3>1, <3>2 DEF OrderInv, TargetInv, Handling, FilesUpTo
  <2> QED
    BY <1>7, <2>3, <2>4 DEF OrderInv, BootInv, BootOK, BootPairs, Renew, deviceVars
<1>8. ASSUME NEW d \in Devices, Reboot(d) \/ Respawn(d)
      PROVE  OrderInv'
  <2>1. UNCHANGED <<issued, staged>> /\ \A e \in Devices \ {d} : UNCHANGED <<serving[e], live[e]>>
    BY <1>8, BootOutcome DEF TypeOK
  <2>2. PICK i \in Int : i = issued[d]
    BY Numbers
  <2>3. BootOK(d) /\ serving[d] <= i /\ FilesUpTo(d, i)
    BY <2>2 DEF OrderInv, BootInv, IssuedInv
  <2>4. BootOK(d)' /\ serving'[d] <= i /\ FilesUpTo(d, i)'
    BY <1>8, <2>3, BootKeepsOrder
  <2>5. IssuedInv'
    BY <2>1, <2>2, <2>4 DEF OrderInv, IssuedInv, FilesUpTo
  <2>6. BootInv'
    BY <2>1, <2>4 DEF OrderInv, BootInv, BootOK, BootPairs
  <2>7. TargetInv'
    <3> SUFFICES ASSUME Handling'
                 PROVE  TargetInv'
      BY DEF TargetInv
    <3>1. (MethodFailed /\ pc \in {"push", "hung"}) \/ UNCHANGED <<pc, turn, localVars>>
      BY <1>8 DEF Reboot, Respawn
    <3>2. Here' = h /\ target' = t /\ Handling
      BY <1>2, <3>1, TargetIsKept DEF Handling
    <3>3. t <= issued[h] /\ serving[h] <= t /\ FilesUpTo(h, t) /\ BootOK(h)
      BY <1>2, <3>2 DEF OrderInv, TargetInv, BootInv
    <3>4. t \in Int
      BY BoundAssumption DEF Certs
    <3>5. serving'[h] <= t /\ FilesUpTo(h, t)'
      BY <1>8, <2>1, <3>3, <3>4, BootKeepsOrder DEF FilesUpTo
    <3> QED
      BY <2>1, <3>2, <3>3, <3>5 DEF TargetInv, FilesUpTo
  <2> QED
    BY <2>5, <2>6, <2>7 DEF OrderInv
<1>9. CASE UNCHANGED vars
  BY <1>3, <1>9 DEF vars, deviceVars, Handling, Here
<1> QED
  BY <1>4, <1>5, <1>6, <1>7, <1>8, <1>9 DEF Next, Reconcile

-----------------------------------------------------------------------------
(* Theorems.                                                               *)

(* The variables stay in their types.                                      *)
THEOREM TypeCorrect == Spec => []TypeOK
<1>1. Init => TypeOK /\ PushInv
  <2> SUFFICES ASSUME Init
               PROVE  TypeOK /\ PushInv
    OBVIOUS
  <2>1. LocalsOK
    BY OrderAssumption, BoundAssumption DEF Init, LocalsOK, PCs, Certs
  <2>2. DevicesOK
    BY BoundAssumption DEF Init, DevicesOK, Contents, Pair, Certs
  <2>3. CountersOK
    BY BoundAssumption DEF Init, CountersOK
  <2>4. PushInv
    BY DEF Init, PushInv, Installing
  <2> QED
    BY <2>1, <2>2, <2>3, <2>4, TypeParts
<1>2. TypeOK /\ PushInv /\ [Next]_vars => TypeOK' /\ PushInv'
  BY TypeStep, PushInvStep
<1> QED
  BY <1>1, <1>2, PTL DEF Spec

(* The invariant behind everything below: pushes are in step with what     *)
(* they have done, and certificates are ordered.                           *)
THEOREM OrderInvariant == Spec => [](TypeOK /\ PushInv /\ OrderInv)
<1>1. Init => PushInv /\ OrderInv
  <2> SUFFICES ASSUME Init
               PROVE  PushInv /\ OrderInv
    OBVIOUS
  <2>1. PushInv /\ TargetInv
    BY DEF Init, PushInv, Installing, TargetInv, Handling
  <2>a. ASSUME NEW d \in Devices
        PROVE  /\ issued[d] = 1 /\ serving[d] = 0
               /\ staged[d] = Pair(0) /\ live[d] = Pair(0)
    BY DEF Init
  <2>b. Pair(0).cert = 0 /\ Pair(0).key = 0
    BY DEF Pair
  <2>2. IssuedInv
    <3> SUFFICES ASSUME NEW d \in Devices
                 PROVE  serving[d] <= issued[d] /\ FilesUpTo(d, issued[d])
      BY DEF IssuedInv
    <3>1. issued[d] = 1 /\ serving[d] = 0 /\ staged[d] = Pair(0) /\ live[d] = Pair(0)
      BY <2>a
    <3> QED
      BY <2>b, <3>1 DEF FilesUpTo
  <2>3. BootInv
    <3> SUFFICES ASSUME NEW d \in Devices
                 PROVE  BootOK(d)
      BY DEF BootInv
    <3>1. BootPairs(d) \subseteq {Pair(0)}
      BY <2>a DEF BootPairs
    <3> QED
      BY <2>a, <2>b, <3>1 DEF BootOK
  <2> QED
    BY <2>1, <2>2, <2>3 DEF OrderInv
<1>2. TypeOK /\ PushInv /\ OrderInv /\ [Next]_vars => PushInv' /\ OrderInv'
  BY PushInvStep, OrderStep
<1> QED
  BY <1>1, <1>2, TypeCorrect, PTL DEF Spec

DeliveryAction == [Delivery!Next]_(Delivery!vars)

LEMMA PushDelivers == ASSUME TypeOK, PushInv, OrderInv, Push PROVE DeliveryAction
<1> USE DEF DeliveryAction, Delivery!Next, Delivery!vars
<1>1. Here \in Devices
  BY HereIsDevice DEF TypeOK
<1>2. UNCHANGED issued /\ pc = "push"
  BY PushOutcome
<1>3. ASSUME NEW c, WroteFile(Here, c)
      PROVE  DeliveryAction
  BY <1>2, <1>3 DEF WroteFile
<1>4. CASE ServedPair(Here, target)
  <2>1. target \in serving[Here]..issued[Here]
    BY <1>1, <1>2, Numbers DEF OrderInv, TargetInv, Handling
  <2> QED
    BY <1>1, <1>2, <1>4, <2>1 DEF ServedPair, Delivery!Deliver
<1>5. CASE SwitchedOff(Here) \/ Died(Here)
  BY <1>1, <1>2, <1>5 DEF SwitchedOff, Died, Delivery!Darken
<1>6. CASE UNCHANGED deviceVars
  BY <1>2, <1>6 DEF deviceVars
<1> QED
  BY <1>3, <1>4, <1>5, <1>6, PushOutcome

LEMMA BootDelivers ==
    ASSUME TypeOK, OrderInv, NEW d \in Devices, Reboot(d) \/ Respawn(d)
    PROVE  DeliveryAction
<1> USE DEF DeliveryAction, Delivery!Next, Delivery!vars
<1>1. ASSUME NEW p \in BootPairs(d), Loadable(p)
      PROVE  p.cert \in serving[d]..issued[d]
  <2>1. p \in {staged[d], live[d]}
    BY DEF BootPairs
  <2> QED
    BY <1>1, <2>1, Numbers DEF OrderInv, IssuedInv, BootInv, BootOK, FilesUpTo
<1>2. CASE Respawn(d)
  <2>1. PICK p \in BootPairs(d) :
          Loadable(p) /\ serving' = [serving EXCEPT ![d] = p.cert]
    BY <1>2 DEF Respawn
  <2> QED
    BY <1>1, <1>2, <2>1 DEF Respawn, Delivery!Deliver
<1>3. CASE Reboot(d)
  <2>1. PICK p \in BootPairs(d) :
          /\ web' = [web EXCEPT ![d] =
               IF @ = "off" THEN "off" ELSE IF Loadable(p) THEN "on" ELSE "dead"]
          /\ serving' = [serving EXCEPT ![d] = IF web'[d] = "on" THEN p.cert ELSE @]
    BY <1>3 DEF Reboot
  <2>2. UNCHANGED issued
    BY <1>3 DEF Reboot
  <2>3. CASE web[d] # "off" /\ Loadable(p)
    <3>1. web' = [web EXCEPT ![d] = "on"] /\ serving' = [serving EXCEPT ![d] = p.cert]
      BY <2>1, <2>3 DEF TypeOK
    <3> QED
      BY <1>1, <2>2, <2>3, <3>1 DEF Delivery!Deliver
  <2>4. CASE web[d] = "off" \/ ~Loadable(p)
    <3>1. \E w \in {"off", "dead"} : web' = [web EXCEPT ![d] = w]
      BY <2>1, <2>4
    <3>2. serving' = serving
      BY <2>1, <3>1 DEF TypeOK
    <3> QED
      BY <2>2, <3>1, <3>2 DEF Delivery!Darken
  <2> QED
    BY <2>3, <2>4
<1> QED
  BY <1>2, <1>3

(* The operator implements CertDelivery (the cycle of main.go:28-34):      *)
(* however calls fail, whenever it is killed, and whatever the devices do  *)
(* by themselves, no device goes back to an older certificate or gets one  *)
(* that was not issued for it.                                             *)
THEOREM DeliveryImplemented == Spec => DeliversForward
<1>1. Init => Delivery!Init
  BY DEF Init, Delivery!Init
<1>2. TypeOK /\ PushInv /\ OrderInv /\ [Next]_vars => DeliveryAction
  <2> SUFFICES ASSUME TypeOK, PushInv, OrderInv, [Next]_vars
               PROVE  DeliveryAction
    OBVIOUS
  <2>1. CASE UNCHANGED <<issued, serving, web>>
    BY <2>1 DEF DeliveryAction, Delivery!vars
  <2>2. CASE StartPass \/ ReadSecret \/ Dial \/ Connect \/ Break \/ Verify \/ Kill \/ Restart
    BY <2>1, <2>2 DEF StartPass, ReadSecret, Dial, Connect, Break, Verify, Kill, Restart, deviceVars
  <2>3. ASSUME NEW d \in Devices, Renew(d)
        PROVE  DeliveryAction
    BY <2>3 DEF Renew, deviceVars, DeliveryAction, Delivery!Next, Delivery!Issue
  <2> QED
    BY <2>1, <2>2, <2>3, PushDelivers, BootDelivers DEF Next, Reconcile, vars
<1>3. DeliveryAction <=> [Delivery!Next]_(Delivery!vars)
  BY DEF DeliveryAction
<1> QED
  BY <1>1, <1>2, <1>3, OrderInvariant, PTL DEF Spec, DeliversForward, Delivery!Spec

LEMMA AliveStep == ASSUME TypeOK, PushInv, AliveInv, [Next]_vars PROVE AliveInv'
<1>1. Here \in Devices
  BY HereIsDevice DEF TypeOK
<1>2. CASE UNCHANGED <<web, mishap>>
  BY <1>2 DEF AliveInv, RootOnly
<1>3. CASE Push
  <2>1. \A d \in Devices : d # Here => UNCHANGED web[d] /\ (d \in mishap <=> d \in mishap')
    BY <1>3, PushIsLocal
  <2>2. Here \notin mishap' => web'[Here] # "dead" /\ (Here \in RootOnly => web'[Here] = "on")
    <3>1. CASE UNCHANGED <<web, mishap>>
      BY <1>1, <3>1 DEF AliveInv
    <3>2. CASE ServedPair(Here, target)
      BY <1>1, <3>2 DEF ServedPair, TypeOK
    <3>3. CASE SwitchedOff(Here)
      <4>1. method \in {Primary[Here], Fallback[Here]} /\ method \in WebMethods
        BY <1>3, <3>3 DEF PushInv, Push, Installing, SwitchedOff
      <4>2. Here \notin RootOnly
        BY <4>1 DEF RootOnly, RootMethods, WebMethods
      <4> QED
        BY <1>1, <3>3, <4>2 DEF SwitchedOff, TypeOK
    <3>4. CASE Died(Here)
      BY <3>4 DEF Died
    <3> QED
      BY <1>3, <3>1, <3>2, <3>3, <3>4, PushOutcome DEF WroteFile, deviceVars
  <2> QED
    BY <2>1, <2>2 DEF AliveInv, RootOnly
<1>4. ASSUME NEW d \in Devices, Reboot(d) \/ Respawn(d)
      PROVE  AliveInv'
  <2>1. d \in mishap' \/ web'[d] = "on"
    BY <1>4 DEF Reboot, Respawn, TypeOK
  <2>2. \A e \in Devices \ {d} : web'[e] = web[e] /\ (e \in mishap <=> e \in mishap')
    BY <1>4, BootOutcome DEF Reboot, Respawn
  <2> QED
    BY <2>1, <2>2 DEF AliveInv, RootOnly
<1> QED
  BY <1>2, <1>3, <1>4 DEF Next, Reconcile, StartPass, ReadSecret, Dial, Connect, Break, Verify,
     Kill, Restart, Renew, deviceVars, vars

(* Where the web server of a device installed over its root path stands:   *)
(* alive, unless the device had a mishap of its own.                       *)
THEOREM AliveInvariant == Spec => []AliveInv
<1>1. Init => AliveInv
  BY DEF Init, AliveInv
<1>2. TypeOK /\ PushInv /\ AliveInv /\ [Next]_vars => AliveInv'
  BY AliveStep
<1> QED
  BY <1>1, <1>2, OrderInvariant, PTL DEF Spec

(* No push takes down the web server of a device that is installed over    *)
(* its root path alone: whatever fails, and wherever a push is cut off, it *)
(* is only restarted on a pair that it can load.                           *)
THEOREM RootPathKeepsServing == Spec => []RootKeepsServing
<1>1. AliveInv => RootKeepsServing
  BY DEF AliveInv, RootKeepsServing, RootOnly
<1> QED
  BY <1>1, AliveInvariant, PTL

-----------------------------------------------------------------------------
(* What is on flash is what is served.                                     *)

LEMMA PushSettles ==
    ASSUME TypeOK, PushInv, OrderInv, SettledInv, Push,
           NEW h \in Devices, h = Here, NEW t \in Certs, t = target, h \notin mishap'
    PROVE  Settled(h)' \/ web'[h] # "on" \/ serving'[h] < t
<1>1. h \notin mishap
  BY PushOutcome DEF WroteFile, ServedPair, SwitchedOff, Died, deviceVars
<1>2. pc = "push"
  BY PushOutcome
<1>3. Settled(h) \/ web[h] # "on" \/ serving[h] < t
  BY <1>1, <1>2 DEF SettledInv, Handling
<1>4. serving[h] <= t
  BY <1>2 DEF OrderInv, TargetInv, Handling
<1>5. DOMAIN staged = Devices /\ DOMAIN live = Devices /\ DOMAIN serving = Devices /\ DOMAIN web = Devices
  BY DEF TypeOK
<1>6. CASE WroteFile(h, t)
  <2>1. serving'[h] = serving[h] /\ web'[h] = web[h]
    BY <1>6 DEF WroteFile
  <2>2. CASE Settled(h) /\ serving[h] = t
    <3>1. \A p \in BootPairs(h) : p.cert = t /\ p.key = t
      BY <2>2 DEF Settled, Loadable
    <3>2. Loadable(Pair(t)) /\ Pair(t).cert = t
      BY CertsAreNotTorn
    <3>3. \/ staged'[h] = [cert |-> t, key |-> staged[h].key] /\ live'[h] = live[h]
          \/ staged'[h] = [cert |-> staged[h].cert, key |-> t] /\ live'[h] = live[h]
          \/ live'[h] = Pair(t) /\ staged'[h] = staged[h]
      BY <1>5, <1>6 DEF WroteFile
    <3>4. h \in Supervised \cup CopiesAtBoot => staged'[h].cert = t /\ staged'[h].key = t
      BY <3>1, <3>3 DEF BootPairs
    <3>5. h \notin CopiesAtBoot => live'[h].cert = t /\ live'[h].key = t
      BY <3>1, <3>3 DEF BootPairs, Pair
    <3>6. \A p \in BootPairs(h)' : p.cert = t /\ p.key = t
      BY <3>4, <3>5 DEF BootPairs
    <3>7. t # Torn
      BY <3>2 DEF Loadable
    <3> QED
      BY <2>1, <2>2, <3>6, <3>7 DEF Settled, Loadable
  <2> QED
    BY <1>3, <1>4, <2>1, <2>2, Numbers
<1>7. CASE WroteFile(h, Torn) /\ method \in RootMethods
  <2>1. serving[h] < t
    BY <1>1, <1>2, <1>7 DEF SettledInv
  <2> QED
    BY <1>7, <2>1 DEF WroteFile
<1>8. CASE ServedPair(h, t)
  <2>1. serving'[h] = t /\ live'[h] = Pair(t) /\ staged'[h] = Pair(t)
    BY <1>5, <1>8 DEF ServedPair
  <2>2. BootPairs(h)' \subseteq {Pair(t)}
    BY <2>1 DEF BootPairs
  <2> QED
    BY <2>1, <2>2, CertsAreNotTorn DEF Settled
<1>9. CASE SwitchedOff(h)
  BY <1>5, <1>9 DEF SwitchedOff
<1>10. CASE Died(h)
  BY <1>5, <1>10 DEF Died
<1>11. CASE UNCHANGED deviceVars
  BY <1>3, <1>11 DEF deviceVars, Settled, BootPairs
<1> QED
  BY <1>6, <1>7, <1>8, <1>9, <1>10, <1>11, PushOutcome

(* A root method is never a fallback.                                      *)
LEMMA FallbackIsWeb ==
    ASSUME TypeOK, MethodFailed, pc' \in {"connect", "push"}
    PROVE  method' \notin RootMethods /\ UNCHANGED turn
<1>1. Here \in Devices
  BY HereIsDevice DEF TypeOK
<1> QED
  BY <1>1, MethodAssumption DEF MethodFailed, NextDevice, RootMethods, WebMethods

SettledOrPending(d) == Settled(d) \/ web[d] # "on" \/ serving[d] < issued[d]

LEMMA SettledStep ==
    ASSUME TypeOK, PushInv, OrderInv, AliveInv, SettledInv, [Next]_vars
    PROVE  SettledInv'
<1>1. Here \in Devices
  BY HereIsDevice DEF TypeOK
<1>2. PICK h \in Devices, t \in Certs : h = Here /\ t = target
  BY <1>1 DEF TypeOK
<1>3. ASSUME UNCHANGED deviceVars, UNCHANGED issued,
             Handling' => Handling /\ UNCHANGED <<turn, target, Here>>,
             pc' \in {"connect", "push"} /\ method' \in RootMethods =>
                 pc \in {"connect", "push"} /\ method \in RootMethods
      PROVE  SettledInv'
  BY <1>3 DEF SettledInv, Settled, BootPairs, deviceVars, Handling
<1>4. CASE StartPass \/ Verify \/ Kill \/ Restart
  <2>1. UNCHANGED deviceVars /\ UNCHANGED issued
    BY <1>4 DEF StartPass, Verify, Kill, Restart
  <2>2. (Handling' => Handling /\ UNCHANGED <<turn, target, Here>>)
        /\ pc' \notin {"connect", "push"}
    BY <1>4 DEF StartPass, Verify, Kill, Restart, NextDevice, Handling, Here
  <2> QED
    BY <1>3, <2>1, <2>2
<1>5. CASE Connect \/ Break
  <2>1. UNCHANGED deviceVars /\ UNCHANGED issued /\ Handling
    BY <1>5 DEF Connect, Break, Handling
  <2>2. CASE MethodFailed
    BY <1>3, <2>1, <2>2, TargetIsKept, FallbackIsWeb DEF Handling
  <2>4. CASE Hangs
    BY <1>3, <2>1, <2>4, TargetIsKept DEF Handling, Hangs
  <2>3. CASE pc = "connect" /\ UNCHANGED <<turn, localVars>>
    <3>1. UNCHANGED <<turn, target, method, Here>>
      BY <2>3 DEF localVars, Here
    <3> QED
      BY <1>3, <2>1, <2>3, <3>1 DEF Handling
  <2> QED
    BY <1>5, <2>2, <2>3, <2>4 DEF Connect, Break
<1>6. CASE ReadSecret
  <2>1. UNCHANGED deviceVars /\ UNCHANGED issued
    BY <1>6 DEF ReadSecret
  <2>2. CASE NextDevice
    BY <1>3, <2>1, <2>2 DEF NextDevice, Handling
  <2>3. CASE target' = issued[Here] /\ pc' = "dial" /\ UNCHANGED turn
    <3>1. Here' = Here
      BY <2>3 DEF Here
    <3> QED
      BY <1>1, <2>1, <2>3, <3>1 DEF SettledInv, Settled, BootPairs, deviceVars
  <2> QED
    BY <1>6, <2>2, <2>3 DEF ReadSecret
<1>7. CASE Dial
  <2>1. UNCHANGED deviceVars /\ UNCHANGED issued /\ pc = "dial"
    BY <1>7 DEF Dial
  <2>2. CASE NextDevice
    BY <1>3, <2>1, <2>2 DEF NextDevice, Handling
  <2>3. CASE serving[Here] # target /\ UNCHANGED <<turn, target>>
    <3>1. Here' = Here
      BY <2>3 DEF Here
    <3>2. serving[Here] < target
      BY <1>1, <2>1, <2>3, Numbers DEF OrderInv, TargetInv, Handling
    <3> QED
      BY <1>1, <2>1, <2>3, <3>1, <3>2 DEF SettledInv, Settled, BootPairs, deviceVars
  <2> QED
    BY <1>7, <2>2, <2>3 DEF Dial
<1>8. CASE Push
  <2>1. h \notin mishap' => Settled(h)' \/ web'[h] # "on" \/ serving'[h] < t
    BY <1>2, <1>8, PushSettles
  <2>2. \A d \in Devices \ {h} : /\ UNCHANGED <<serving[d], staged[d], live[d], web[d]>>
                                 /\ d \in mishap <=> d \in mishap'
    BY <1>2, <1>8, PushIsLocal
  <2>3. UNCHANGED issued /\ (Advance \/ MethodFailed \/ Hangs) /\ pc = "push"
    BY <1>8, PushOutcome
  <2>4. t <= issued[h]
    BY <1>2, <2>3 DEF OrderInv, TargetInv, Handling
  <2>5. TypeOK'
    BY <1>8, TypeStep DEF Next, Reconcile
  <2>6. serving'[h] \in Int /\ issued[h] \in Int /\ t \in Int
    BY <2>5, <1>2, Numbers, BoundAssumption DEF TypeOK, Certs
  <2>7. \A d \in Devices \ mishap' : SettledOrPending(d)'
    <3>1. h \notin mishap' => SettledOrPending(h)'
      BY <2>1, <2>3, <2>4, <2>6 DEF SettledOrPending
    <3>2. \A d \in Devices \ {h} : d \notin mishap' => SettledOrPending(d)'
      BY <2>2, <2>3 DEF SettledInv, SettledOrPending, Settled, BootPairs
    <3> QED
      BY <3>1, <3>2
  <2>8. Handling' => Here' = h /\ target' = t
    BY <1>2, <2>3, TargetIsKept DEF Handling
  <2>9. ASSUME pc' \in {"connect", "push"}, method' \in RootMethods, h \notin mishap'
        PROVE  serving'[h] < t
    <3>1. ~MethodFailed /\ ~Hangs /\ pc' = "push" /\ method' = method
      BY <2>3, <2>9, FallbackIsWeb DEF Advance, Hangs
    <3>2. serving' = serving /\ h \notin mishap
      BY <1>2, <1>8, <2>9, <3>1, PushOutcome DEF WroteFile, SwitchedOff, Died, deviceVars
    <3> QED
      BY <1>2, <2>3, <2>9, <3>1, <3>2 DEF SettledInv
  <2> QED
    BY <2>1, <2>7, <2>8, <2>9 DEF SettledInv, SettledOrPending, Handling
<1>9. ASSUME NEW d \in Devices, Renew(d)
      PROVE  SettledInv'
  <2>1. \A e \in Devices : issued[e] <= issued'[e] /\ issued[e] \in Int /\ issued'[e] \in Int
    BY <1>9, BoundAssumption DEF Renew, TypeOK
  <2>2. UNCHANGED <<web, serving, staged, live, mishap, pc, turn, target, method, Here>>
    BY <1>9 DEF Renew, localVars, deviceVars, Here
  <2>3. \A e \in Devices : serving[e] < issued[e] => serving[e] < issued'[e]
    BY <2>1, Numbers
  <2> QED
    BY <2>2, <2>3 DEF SettledInv, Settled, BootPairs, Handling
<1>10. ASSUME NEW d \in Devices, Reboot(d) \/ Respawn(d)
       PROVE  SettledInv'
  <2>1. d \in mishap'
    BY <1>10 DEF Reboot, Respawn, AliveInv
  <2>2. UNCHANGED <<issued, staged>>
        /\ \A e \in Devices \ {d} : UNCHANGED <<serving[e], live[e], web[e]>>
    BY <1>10, BootOutcome DEF TypeOK
  <2>3. \A e \in Devices \ {d} : e \in mishap <=> e \in mishap'
    BY <1>10 DEF Reboot, Respawn
  <2>4. (MethodFailed /\ pc \in {"push", "hung"}) \/ UNCHANGED <<pc, turn, localVars>>
    BY <1>10 DEF Reboot, Respawn
  <2>5. Handling' => Handling /\ UNCHANGED <<turn, target, Here>>
    BY <2>4, TargetIsKept DEF Handling
  <2>6. pc' \in {"connect", "push"} /\ method' \in RootMethods =>
            pc \in {"connect", "push"} /\ method \in RootMethods
    BY <2>4, FallbackIsWeb DEF localVars
  <2> QED
    BY <1>1, <2>1, <2>2, <2>3, <2>5, <2>6 DEF SettledInv, Settled, BootPairs, Handling
<1>11. CASE UNCHANGED vars
  BY <1>3, <1>11 DEF vars, deviceVars, Handling, Here
<1> QED
  BY <1>4, <1>5, <1>6, <1>7, <1>8, <1>9, <1>10, <1>11 DEF Next, Reconcile

LEMMA GaugeStep ==
    ASSUME TypeOK, PushInv, OrderInv, AliveInv, SettledInv, GaugeInv, [Next]_vars
    PROVE  GaugeInv'
<1>1. Here \in Devices
  BY HereIsDevice DEF TypeOK
<1>2. DOMAIN gauge = Devices
  BY DEF TypeOK
<1>3. ASSUME UNCHANGED deviceVars, UNCHANGED gauge,
             Installing' => Installing /\ UNCHANGED Here
      PROVE  GaugeInv'
  BY <1>3 DEF GaugeInv, Settled, BootPairs, deviceVars
<1>4. CASE StartPass \/ ReadSecret \/ Connect \/ Break \/ Restart
  <2>1. UNCHANGED deviceVars /\ UNCHANGED gauge
    BY <1>4 DEF StartPass, ReadSecret, Connect, Break, Restart
  <2>2. Installing' => Installing /\ UNCHANGED Here
    BY <1>4 DEF StartPass, ReadSecret, Connect, Break, Restart, NextDevice, MethodFailed, Hangs,
                Installing, Here
  <2> QED
    BY <1>3, <2>1, <2>2
<1>5. ASSUME web[Here] = "on", serving[Here] = target, Handling, NextDevice,
             gauge' = [gauge EXCEPT ![Here] = "match"], UNCHANGED deviceVars
      PROVE  GaugeInv'
  <2>1. Here \notin mishap => Settled(Here)
    BY <1>1, <1>5, Numbers DEF SettledInv
  <2>2. ~Installing'
    BY <1>5 DEF NextDevice, Installing
  <2> QED
    BY <1>1, <1>2, <1>5, <2>1, <2>2 DEF GaugeInv, Settled, BootPairs, deviceVars
<1>6. CASE Dial
  <2>1. UNCHANGED deviceVars /\ pc = "dial"
    BY <1>6 DEF Dial
  <2>2. CASE UNCHANGED gauge /\ NextDevice
    BY <1>3, <2>1, <2>2 DEF NextDevice, Installing
  <2>3. CASE gauge' = [gauge EXCEPT ![Here] = "stale"] /\ UNCHANGED turn
    <3>1. Here' = Here
      BY <2>3 DEF Here
    <3> QED
      BY <1>1, <1>2, <2>1, <2>3, <3>1 DEF GaugeInv, Settled, BootPairs, deviceVars
  <2>4. CASE web[Here] = "on" /\ serving[Here] = target /\ NextDevice
             /\ gauge' = [gauge EXCEPT ![Here] = "match"]
    BY <1>5, <2>1, <2>4 DEF Handling
  <2> QED
    BY <1>6, <2>2, <2>3, <2>4 DEF Dial
<1>7. CASE Push
  <2>1. UNCHANGED gauge /\ (Advance \/ MethodFailed \/ Hangs) /\ pc = "push"
    BY <1>7, PushOutcome
  <2>2. \A d \in Devices : d # Here => /\ UNCHANGED <<serving[d], staged[d], live[d], web[d]>>
                                       /\ d \in mishap <=> d \in mishap'
    BY <1>7, PushIsLocal
  <2>3. gauge[Here] # "match"
    BY <2>1 DEF GaugeInv, Installing
  <2>4. Installing' => Here' = Here
    BY <2>1, TargetIsKept DEF Installing, Handling
  <2> QED
    BY <2>1, <2>2, <2>3, <2>4 DEF GaugeInv, Settled, BootPairs
<1>8. CASE Verify
  <2>1. UNCHANGED deviceVars /\ pc = "verify"
    BY <1>8 DEF Verify
  <2>2. CASE UNCHANGED gauge
    <3>1. Installing' => Here' = Here
      BY <1>8 DEF Verify, NextDevice, Installing, Here
    <3> QED
      BY <1>3, <2>1, <2>2, <3>1 DEF Installing
  <2>3. CASE web[Here] = "on" /\ serving[Here] = target /\ NextDevice
             /\ gauge' = [gauge EXCEPT ![Here] = "match"]
    BY <1>5, <2>1, <2>3 DEF Handling
  <2> QED
    BY <1>8, <2>2, <2>3 DEF Verify
<1>9. CASE Kill
  BY <1>9 DEF Kill, GaugeInv, Installing
<1>10. ASSUME NEW d \in Devices, Renew(d)
       PROVE  GaugeInv'
  BY <1>3, <1>10 DEF Renew, Installing, Here
<1>11. ASSUME NEW d \in Devices, Reboot(d) \/ Respawn(d)
       PROVE  GaugeInv'
  <2>1. d \in mishap' /\ UNCHANGED gauge
    BY <1>11 DEF Reboot, Respawn, AliveInv
  <2>2. \A e \in Devices \ {d} : /\ UNCHANGED <<serving[e], staged[e], live[e], web[e]>>
                                 /\ e \in mishap <=> e \in mishap'
    BY <1>11, BootOutcome DEF TypeOK, Reboot, Respawn
  <2>3. (MethodFailed /\ pc \in {"push", "hung"}) \/ UNCHANGED <<pc, turn>>
    BY <1>11 DEF Reboot, Respawn
  <2>4. Installing' => Installing /\ Here' = Here
    BY <2>3 DEF MethodFailed, NextDevice, Installing, Here
  <2> QED
    BY <2>1, <2>2, <2>4 DEF GaugeInv, Settled, BootPairs
<1>12. CASE UNCHANGED vars
  BY <1>3, <1>12 DEF vars, deviceVars, Installing, Here
<1> QED
  BY <1>4, <1>6, <1>7, <1>8, <1>9, <1>10, <1>11, <1>12 DEF Next, Reconcile

(* A device that the operator reports as matching, and that has had no     *)
(* mishap, has what it serves on flash, wherever it would load it from: no *)
(* push that was cut off, and no fallback after it, has spoiled it.        *)
THEOREM ReportedMatchSurvives == Spec => []MatchSurvivesReboot
<1>1. Init => SettledInv /\ GaugeInv
  <2> SUFFICES ASSUME Init
               PROVE  SettledInv /\ GaugeInv
    OBVIOUS
  <2>1. ASSUME NEW d \in Devices
        PROVE  serving[d] < issued[d]
    BY DEF Init
  <2>2. pc = "idle" /\ \A d \in Devices : gauge[d] = "absent"
    BY DEF Init
  <2> QED
    BY <2>1, <2>2 DEF SettledInv, GaugeInv, Handling, Installing
<1>2. TypeOK /\ PushInv /\ OrderInv /\ AliveInv /\ SettledInv /\ GaugeInv /\ [Next]_vars
        => SettledInv' /\ GaugeInv'
  BY SettledStep, GaugeStep
<1>3. GaugeInv => MatchSurvivesReboot
  BY DEF GaugeInv, MatchSurvivesReboot, Settled
<1> QED
  BY <1>1, <1>2, <1>3, OrderInvariant, AliveInvariant, PTL DEF Spec
=============================================================================
