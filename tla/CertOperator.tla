---------------------------- MODULE CertOperator ----------------------------
(***************************************************************************)
(* cmd/cert-operator: one loop that brings every appliance onto the        *)
(* certificate cert-manager issued for it.  A pass goes over the devices   *)
(* in the order of the device table; for each it reads the secret, dials   *)
(* the appliance to see what it serves, and if that differs installs the   *)
(* new pair, one remote command after the other, and dials again.          *)
(*                                                                         *)
(* Any call can fail, or do its work and fail to say so; a file can be     *)
(* left torn by a connection that breaks; a remote shell may never end,    *)
(* since nothing bounds the time of one; the operator can be killed        *)
(* anywhere; certificates are renewed at any time; an appliance can reboot *)
(* or fail to start its web server.  A certificate is the number of its    *)
(* renewal, 0 being the one the appliance came with.                       *)
(***************************************************************************)
EXTENDS Integers, Sequences

CONSTANTS
    Devices,
    Order,          \* deviceSpecs: the devices in the order of the table
    Primary,        \* the install method of each device
    Fallback,       \* its second method, or "none"
    CopiesAtBoot,   \* devices that copy the split files when they boot
    Supervised,     \* devices that restart a web server that died
    Fragile,        \* devices that may reboot, or fail to start the server
    Attempts,       \* dials of verify()
    MaxIssued,      \* bound on renewals
    MaxFaults,      \* bound on calls that fail or do not end
    MaxKills        \* bound on kills of the operator

RootMethods == {"routerSSH", "sw2Telnet", "sw1SSH", "wap1SSH"}
WebMethods == {"sw2REST", "sw1CGI"}
SSHMethods == {"routerSSH", "sw1SSH", "wap1SSH"}
Methods == RootMethods \cup WebMethods

ASSUME OrderAssumption ==
    /\ Order \in Seq(Devices)
    /\ Devices = {Order[i] : i \in DOMAIN Order}
    /\ Order # <<>>
ASSUME MethodAssumption ==
    /\ Primary \in [Devices -> Methods]
    /\ Fallback \in [Devices -> WebMethods \cup {"none"}]
(* A supervisor that may load the split files or the pem has them written  *)
(* in an order in which the pem is never the newest (telnet.go:101-109).   *)
ASSUME FleetAssumption ==
    \A d \in Supervised : Primary[d] # "routerSSH"
ASSUME BoundAssumption ==
    /\ Attempts \in Nat \ {0}
    /\ MaxIssued \in Nat \ {0}
    /\ MaxFaults \in Nat
    /\ MaxKills \in Nat

VARIABLES
    issued,         \* the secret of each device: its latest certificate
    web,            \* "on", "off" (HTTPS disabled) or "dead"
    serving,        \* the certificate served on 443, or served last
    staged,         \* the certificate file and the key file
    live,           \* the pair in the file the web server loads
    mishap,         \* devices that have rebooted or failed to start
    pc,             \* where the operator stands in reconcileOne
    turn,           \* the device it is at, as a place in Order
    target,         \* the certificate it read from the secret
    method,         \* the method it installs with
    step,           \* how far that method has got
    tries,          \* dials left in verify()
    gauge,          \* netgear_cert_served_matches_target
    faults,         \* calls that failed
    kills           \* times the operator was killed

deviceVars == <<web, serving, staged, live, mishap>>
localVars == <<target, method, step, tries>>
vars == <<issued, web, serving, staged, live, mishap, pc, turn, target, method,
          step, tries, gauge, faults, kills>>

(* A file that was being written when the connection broke. *)
Torn == -1
Certs == 0..MaxIssued
Pair(c) == [cert |-> c, key |-> c]
Loadable(p) == p.cert = p.key /\ p.cert # Torn

ProgramNoRestart ==
    [routerSSH |-> <<"pem", "key", "cert">>,
     sw2Telnet |-> <<"cert", "key", "pem">>,
     sw1SSH    |-> <<"cert", "key">>,
     wap1SSH   |-> <<"cert", "key">>,
     sw2REST   |-> <<"off", "cert", "key", "on">>,
     sw1CGI    |-> <<"cert", "key", "off", "on">>]

ProgramLiveOnly ==
    [routerSSH |-> <<"pem", "reload">>,
     sw2Telnet |-> <<"pem", "reload">>,
     sw1SSH    |-> <<"pem", "reload">>,
     wap1SSH   |-> <<"pem", "reload">>,
     sw2REST   |-> <<"off", "cert", "key", "on">>,
     sw1CGI    |-> <<"cert", "key", "off", "on">>]

(* The remote commands of each method.  "pem" writes the file the web      *)
(* server loads, "cert" and "key" the split ones; "reload" restarts the    *)
(* server; "rebuild" makes the loaded file out of the split ones and       *)
(* restarts; "off" and "on" switch HTTPS.                                  *)
Program ==
    [routerSSH |-> <<"pem", "key", "cert", "reload">>,
     sw2Telnet |-> <<"cert", "key", "pem", "reload">>,
     sw1SSH    |-> <<"cert", "key", "rebuild">>,
     wap1SSH   |-> <<"cert", "key", "rebuild">>,
     sw2REST   |-> <<"off", "cert", "key", "on">>,
     sw1CGI    |-> <<"cert", "key", "off", "on">>]

PCs == {"idle", "secret", "dial", "connect", "push", "hung", "verify", "down"}

TypeOK ==
    /\ issued \in [Devices -> 1..MaxIssued]
    /\ web \in [Devices -> {"on", "off", "dead"}]
    /\ serving \in [Devices -> Certs]
    /\ staged \in [Devices -> [cert : Certs \cup {Torn}, key : Certs \cup {Torn}]]
    /\ live \in [Devices -> [cert : Certs \cup {Torn}, key : Certs \cup {Torn}]]
    /\ mishap \in SUBSET Devices
    /\ pc \in PCs
    /\ turn \in DOMAIN Order
    /\ target \in Certs
    /\ method \in Methods \cup {"none"}
    /\ step \in 1..4
    /\ tries \in 1..Attempts
    /\ gauge \in [Devices -> {"absent", "stale", "match"}]
    /\ faults \in 0..MaxFaults
    /\ kills \in 0..MaxKills

(* Every device is up on the certificate it came with, and one has been    *)
(* issued.                                                                 *)
Init ==
    /\ issued = [d \in Devices |-> 1]
    /\ web = [d \in Devices |-> "on"]
    /\ serving = [d \in Devices |-> 0]
    /\ staged = [d \in Devices |-> Pair(0)]
    /\ live = [d \in Devices |-> Pair(0)]
    /\ mishap = {}
    /\ pc = "idle"
    /\ turn = 1
    /\ target = 0
    /\ method = "none"
    /\ step = 1
    /\ tries = Attempts
    /\ gauge = [d \in Devices |-> "absent"]
    /\ faults = 0
    /\ kills = 0

-----------------------------------------------------------------------------
(* The pass.                                                               *)

Here == Order[turn]

Fault ==
    /\ faults < MaxFaults
    /\ faults' = faults + 1

(* The variables of reconcileOne go out of scope. *)
ForgetLocals == target' = 0 /\ method' = "none" /\ step' = 1 /\ tries' = Attempts

NextDeviceAbandoned == turn' = 1 /\ pc' = "idle" /\ ForgetLocals

NextDevicePastEnd ==
    /\ IF turn <= Len(Order)
       THEN turn' = turn + 1 /\ pc' = "secret"
       ELSE turn' = 1 /\ pc' = "idle"
    /\ ForgetLocals

(* reconcileOne returns, and reconcile goes on to the next device or ends  *)
(* the pass.                                                               *)
NextDevice ==
    /\ IF turn < Len(Order)
       THEN turn' = turn + 1 /\ pc' = "secret"
       ELSE turn' = 1 /\ pc' = "idle"
    /\ ForgetLocals

(* The ticker fires. *)
StartPass ==
    /\ pc = "idle"
    /\ pc' = "secret"
    /\ UNCHANGED <<issued, deviceVars, turn, localVars, gauge, faults, kills>>

ReadSecretOnce ==
    /\ pc = "secret"
    /\ target' = 1
    /\ pc' = "dial"
    /\ UNCHANGED <<issued, deviceVars, turn, method, step, tries, gauge, faults, kills>>

ReadSecretOfFirst ==
    /\ pc = "secret"
    /\ target' = issued[Order[1]]
    /\ pc' = "dial"
    /\ UNCHANGED <<issued, deviceVars, turn, method, step, tries, gauge, faults, kills>>

(* tlsSecret: certificate and key come from one object, so they match. *)
ReadSecret ==
    /\ pc = "secret"
    /\ \/ /\ target' = issued[Here]
          /\ pc' = "dial"
          /\ UNCHANGED <<turn, method, step, tries, faults>>
       \/ Fault /\ NextDevice
    /\ UNCHANGED <<issued, deviceVars, gauge, kills>>

(* servedCert.  A device that cannot be dialled is left alone until the    *)
(* next pass, and so is one that serves the target.                        *)
Dial ==
    /\ pc = "dial"
    /\ \/ /\ web[Here] = "on"
          /\ serving[Here] = target
          /\ gauge' = [gauge EXCEPT ![Here] = "match"]
          /\ NextDevice
          /\ UNCHANGED faults
       \/ /\ web[Here] = "on"
          /\ serving[Here] # target
          /\ gauge' = [gauge EXCEPT ![Here] = "stale"]
          /\ method' = Primary[Here]
          /\ pc' = "connect"
          /\ UNCHANGED <<turn, target, step, tries, faults>>
       \/ web[Here] # "on" /\ NextDevice /\ UNCHANGED <<gauge, faults>>
       \/ web[Here] = "on" /\ Fault /\ NextDevice /\ UNCHANGED gauge
    /\ UNCHANGED <<issued, deviceVars, kills>>

-----------------------------------------------------------------------------
(* The push.                                                               *)

(* firstWorking: the fallback runs when the primary fails, whatever the    *)
(* error was; without one the device has failed for this pass.             *)
MethodFailed ==
    \/ /\ method # Fallback[Here]
       /\ Fallback[Here] # "none"
       /\ method' = Fallback[Here]
       /\ pc' = "connect"
       /\ step' = 1
       /\ UNCHANGED <<turn, target, tries>>
    \/ method = Fallback[Here] /\ NextDevice
    \/ Fallback[Here] = "none" /\ NextDevice

(* An SSH session that does not end holds sshCertPush.run, and with it the *)
(* only goroutine: run does not look at its context, and its 10 s are for  *)
(* the TCP connection alone.  Telnet and HTTP calls have time limits.      *)
Hangs ==
    /\ method \in SSHMethods
    /\ pc' = "hung"
    /\ UNCHANGED <<turn, localVars>>

(* A session on the device: SSH, telnet, or a login to the web server. *)
Connect ==
    /\ pc = "connect"
    /\ \/ /\ method \in WebMethods => web[Here] # "dead"
          /\ pc' = "push"
          /\ UNCHANGED <<turn, localVars, faults>>
       \/ method \in WebMethods /\ web[Here] = "dead" /\ MethodFailed /\ UNCHANGED faults
       \/ Fault /\ (MethodFailed \/ Hangs)
    /\ UNCHANGED <<issued, deviceVars, gauge, kills>>

(* The command went well: on to the next one, or to verify(). *)
Advance ==
    /\ UNCHANGED <<turn, target, method, tries>>
    /\ IF step < Len(Program[method])
       THEN step' = step + 1 /\ UNCHANGED pc
       ELSE pc' = "verify" /\ UNCHANGED step

Write(cert, key, pem) ==
    /\ staged' = [staged EXCEPT ![Here] = [cert |-> cert, key |-> key]]
    /\ live' = [live EXCEPT ![Here] = pem]
    /\ UNCHANGED <<web, serving, mishap>>

(* A file is written: the pem, the certificate or the key. *)
WriteFile(op, c) ==
    \/ op = "pem" /\ Write(staged[Here].cert, staged[Here].key, Pair(c))
    \/ op = "cert" /\ Write(c, staged[Here].key, live[Here])
    \/ op = "key" /\ Write(staged[Here].cert, c, live[Here])

(* The pair the web server is started on by a command. *)
Started(op) == IF op = "reload" THEN live[Here] ELSE staged[Here]

Works(op) == op \in {"reload", "rebuild", "on"} => Loadable(Started(op))

(* The server starts on a pair.  One it cannot load is seen by the test    *)
(* before it, and the server left as it was, or kills the server.          *)
Serve(pair) ==
    /\ live' = [live EXCEPT ![Here] = pair]
    /\ IF Loadable(pair)
       THEN /\ serving' = [serving EXCEPT ![Here] = pair.cert]
            /\ web' = [web EXCEPT ![Here] = "on"]
       ELSE /\ \E w \in {web[Here], "dead"} : web' = [web EXCEPT ![Here] = w]
            /\ UNCHANGED serving
    /\ UNCHANGED <<staged, mishap>>

(* What a command does when it runs to its end. *)
Effect(op) ==
    \/ WriteFile(op, target)
    \/ op \in {"reload", "rebuild", "on"} /\ Serve(Started(op))
    \/ /\ op = "off"
       /\ web' = [web EXCEPT ![Here] = "off"]
       /\ UNCHANGED <<serving, staged, live, mishap>>

(* What it may leave when the session breaks: a shell writes a file in     *)
(* pieces, the web interface takes it whole.                               *)
Cut(op) ==
    /\ method \in RootMethods
    /\ \/ WriteFile(op, Torn)
       \/ op = "rebuild" /\ Write(staged[Here].cert, staged[Here].key, Pair(Torn))

(* The old server is gone and the new one does not come up. *)
SpawnFails(op) ==
    /\ op \in {"reload", "rebuild"}
    /\ Here \in Fragile \ mishap
    /\ mishap' = mishap \cup {Here}
    /\ web' = [web EXCEPT ![Here] = "dead"]
    /\ UNCHANGED <<serving, staged, live>>

PushUnchecked ==
    /\ pc = "push"
    /\ LET op == Program[method][step] IN
       \/ Effect(op) /\ Advance /\ UNCHANGED faults
       \/ (Effect(op) \/ Cut(op)) /\ Fault /\ Advance
    /\ UNCHANGED <<issued, gauge, kills>>

(* One command.  It does its work; or it fails or does not end, having     *)
(* done its work, a part of it or nothing; or the server does not come up  *)
(* again, which the command may or may not notice.                         *)
Push ==
    /\ pc = "push"
    /\ LET op == Program[method][step] IN
       \/ /\ Effect(op)
          /\ IF Works(op) THEN Advance ELSE MethodFailed
          /\ UNCHANGED faults
       \/ /\ Effect(op) \/ Cut(op) \/ UNCHANGED deviceVars
          /\ Fault
          /\ MethodFailed \/ Hangs
       \/ SpawnFails(op) /\ (Advance \/ MethodFailed) /\ UNCHANGED faults
    /\ UNCHANGED <<issued, gauge, kills>>

(* A session that hung breaks after all: the device went away, or whatever *)
(* held the session there has ended.                                       *)
Break ==
    /\ pc = "hung"
    /\ MethodFailed
    /\ UNCHANGED <<issued, deviceVars, gauge, faults, kills>>

(* verify(): dial until the device serves the target or the attempts run   *)
(* out.                                                                    *)
Verify ==
    /\ pc = "verify"
    /\ \/ /\ web[Here] = "on" /\ serving[Here] = target
          /\ gauge' = [gauge EXCEPT ![Here] = "match"]
          /\ NextDevice
          /\ UNCHANGED faults
       \/ /\ \/ Fault
             \/ ~(web[Here] = "on" /\ serving[Here] = target) /\ UNCHANGED faults
          /\ IF tries > 1
             THEN tries' = tries - 1 /\ UNCHANGED <<pc, turn, target, method, step>>
             ELSE NextDevice
          /\ UNCHANGED gauge
    /\ UNCHANGED <<issued, deviceVars, kills>>

-----------------------------------------------------------------------------
(* Everything else that happens.                                           *)

(* The process ends; nothing of it is kept. *)
Kill ==
    /\ pc # "down"
    /\ kills < MaxKills
    /\ kills' = kills + 1
    /\ pc' = "down"
    /\ turn' = 1
    /\ ForgetLocals
    /\ gauge' = [d \in Devices |-> "absent"]
    /\ UNCHANGED <<issued, deviceVars, faults>>

Restart ==
    /\ pc = "down"
    /\ pc' = "idle"
    /\ UNCHANGED <<issued, deviceVars, turn, localVars, gauge, faults, kills>>

Renew(d) ==
    /\ issued[d] < MaxIssued
    /\ issued' = [issued EXCEPT ![d] = @ + 1]
    /\ UNCHANGED <<deviceVars, pc, turn, localVars, gauge, faults, kills>>

(* What the web server of a device may be started on by the device itself: *)
(* the split files where the boot copies them, either where a supervisor   *)
(* may make one out of the other, else the file it is configured to load.  *)
BootPairs(d) ==
    CASE d \in CopiesAtBoot -> {staged[d]}
      [] d \in Supervised \ CopiesAtBoot -> {staged[d], live[d]}
      [] OTHER -> {live[d]}

(* A reboot loads what is on flash, if it can, and cuts off a push. *)
Reboot(d) ==
    /\ d \in Fragile \ mishap
    /\ mishap' = mishap \cup {d}
    /\ \E p \in BootPairs(d) :
        /\ live' = [live EXCEPT ![d] = p]
        /\ web' = [web EXCEPT ![d] =
             IF @ = "off" THEN "off" ELSE IF Loadable(p) THEN "on" ELSE "dead"]
        /\ serving' = [serving EXCEPT ![d] = IF web'[d] = "on" THEN p.cert ELSE @]
    /\ IF pc \in {"push", "hung"} /\ d = Here THEN MethodFailed ELSE UNCHANGED <<pc, turn, localVars>>
    /\ UNCHANGED <<issued, staged, gauge, faults, kills>>

(* lighttpdMon starts a server that is gone. *)
Respawn(d) ==
    /\ d \in Supervised
    /\ web[d] = "dead"
    /\ \E p \in BootPairs(d) :
        /\ Loadable(p)
        /\ live' = [live EXCEPT ![d] = p]
        /\ serving' = [serving EXCEPT ![d] = p.cert]
    /\ web' = [web EXCEPT ![d] = "on"]
    /\ UNCHANGED <<issued, staged, mishap, pc, turn, localVars, gauge, faults, kills>>

Reconcile == StartPass \/ ReadSecret \/ Dial \/ Connect \/ Push \/ Verify

Next ==
    \/ Reconcile
    \/ Break
    \/ Kill
    \/ Restart
    \/ \E d \in Devices : Renew(d) \/ Reboot(d) \/ Respawn(d)

Spec == Init /\ [][Next]_vars

(* The goroutine of the loop keeps running as long as its calls end,       *)
(* Kubernetes restarts the pod, and the supervisor of a web server does    *)
(* its work.  Nothing makes a session end that hangs.                      *)
Fairness ==
    /\ WF_vars(Reconcile)
    /\ WF_vars(Restart)
    /\ \A d \in Devices : WF_vars(Respawn(d))

FairSpec == Spec /\ Fairness

-----------------------------------------------------------------------------
(* Properties.                                                             *)

RootOnly == {d \in Devices : Primary[d] \in RootMethods /\ Fallback[d] = "none"}

Current(d) == web[d] = "on" /\ serving[d] = issued[d]

(* A device installed over its root path alone keeps its web server,       *)
(* however pushes fail, are cut off and are repeated: no push restarts the *)
(* server on files it cannot load (push.go:141-160).                       *)
RootKeepsServing == \A d \in RootOnly \ mishap : web[d] = "on"

(* A device reported as matching would come back from a reboot on the      *)
(* certificate it serves now: what was installed is on flash as a pair,    *)
(* and no half-done later push has spoiled it unreported.                  *)
MatchSurvivesReboot ==
    \A d \in Devices \ mishap :
        gauge[d] = "match" =>
            /\ web[d] = "on"
            /\ \A p \in BootPairs(d) : Loadable(p) /\ p.cert = serving[d]

(* A shell that hangs for good: nothing in the code ends it, so what is    *)
(* promised below is promised unless that happens.                         *)
HungForGood == <>[](pc = "hung")

(* A device that fails never stops the others: with every error, kill and  *)
(* mishap, and after a shell that hung for a while, every device gets its  *)
(* turn again and again (main.go:118).                                     *)
EveryDeviceVisited ==
    HungForGood \/ \A i \in DOMAIN Order : []<>(pc = "secret" /\ turn = i)

(* With transient failures, kills and renewals, a device with a root path  *)
(* only ends up on the last certificate issued for it, and stays there.    *)
RootConverges == HungForGood \/ \A d \in RootOnly : <>[](d \in mishap \/ Current(d))

(* No device stays reachable and stale, whatever path it is installed by:  *)
(* it is brought onto the last certificate or it is dark.                  *)
NeverLeftStale == HungForGood \/ \A d \in Devices : <>[](Current(d) \/ web[d] # "on")

(* "one device failing never stops the others" (main.go:119), without the  *)
(* exception: also when what fails is a shell that never ends.             *)
OthersGoOn == \A i \in DOMAIN Order : []<>(pc = "secret" /\ turn = i)

(* "a restart mid-renewal is harmless" (main.go:18): every device ends up  *)
(* on the last certificate issued for it.                                  *)
RestartHarmless == \A d \in Devices : <>[]Current(d)

(* The operator delivers certificates in order. *)
Delivery == INSTANCE CertDelivery
DeliversForward == Delivery!Spec
=============================================================================
