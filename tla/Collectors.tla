---------------------------- MODULE Collectors ----------------------------
(***************************************************************************)
(* What the collectors of the five exporters read, in which order, and how *)
(* each family of series is brought up to date from an answer:             *)
(*   set     the family is overwritten                                     *)
(*   keep    overwritten if the text could be parsed                       *)
(*   reset   emptied, then filled with what was read                       *)
(*   ifany   the same, but left alone when its section is empty            *)
(*   add     filled, and never emptied                                     *)
(* A poll goes on after a read that failed; a collector over a shell has   *)
(* one read, whose output it cuts into sections.  A collector `behind' is  *)
(* started after the first poll of a shell that may hang; of a `partial'   *)
(* one a reply may lack what it should have and be taken for good: the     *)
(* modem's page is looked at for two of its four tables, and the XS508TM   *)
(* client looks at the HTTP status of a read, not at its envelope.         *)
(***************************************************************************)
EXTENDS Integers

Policies == {"set", "keep", "reset", "ifany", "add"}

(* The families that read i fills.                                         *)
Fills(i, policies) == [read : {i}, policy : policies]

(* WAX630E, over the web API and over SSH.                                 *)
APDeviceInfo == Fills(1, {"reset", "keep", "set"})
APTraffic == Fills(2, {"keep"})
APManagementVLAN == Fills(3, {"keep"})
APSyslogTarget == Fills(4, {"set", "reset"})
APWeb == [reads |-> 4, shell |-> FALSE, hangs |-> FALSE, session |-> TRUE,
          behind |-> TRUE, partial |-> FALSE,
          families |-> APDeviceInfo \cup APTraffic \cup APManagementVLAN \cup APSyslogTarget]

APProc == Fills(1, {"keep"})
APInterfaces == Fills(1, {"reset"})
APThermal == Fills(1, {"reset"})
APRadios == Fills(1, {"reset"})
APStations == Fills(1, {"reset"})
APShell == [reads |-> 1, shell |-> TRUE, hangs |-> TRUE, session |-> FALSE,
            behind |-> FALSE, partial |-> FALSE,
            families |-> APProc \cup APInterfaces \cup APThermal \cup APRadios \cup APStations]

(* PR60X, over JSON-RPC and over SSH.                                      *)
RouterIdentity == Fills(1, {"reset", "set", "keep"}) \cup Fills(2, {"reset"})
RouterLinks == Fills(3, {"set"}) \cup Fills(4, {"reset"}) \cup Fills(5, {"reset"})
RouterTraffic == Fills(6, {"add"})
RouterTables == Fills(7, {"set"}) \cup Fills(8, {"reset"}) \cup Fills(9, {"set"})
RouterServices == Fills(10, {"set"}) \cup Fills(11, {"set"}) \cup Fills(12, {"set"}) \cup Fills(13, {"reset"})
RouterWeb == [reads |-> 13, shell |-> FALSE, hangs |-> FALSE, session |-> FALSE,
              behind |-> TRUE, partial |-> FALSE,
              families |-> RouterIdentity \cup RouterLinks \cup RouterTraffic
                           \cup RouterTables \cup RouterServices]

RouterProc == Fills(1, {"keep"})
RouterInterfaces == Fills(1, {"reset"})
RouterConntrack == Fills(1, {"keep"})
RouterThermal == Fills(1, {"reset"})
RouterModules == Fills(1, {"reset"})
RouterQdisc == Fills(1, {"reset"})
RouterWAN == Fills(1, {"keep"})
RouterShell == [reads |-> 1, shell |-> TRUE, hangs |-> TRUE, session |-> FALSE,
                behind |-> FALSE, partial |-> FALSE,
                families |-> RouterProc \cup RouterInterfaces \cup RouterConntrack \cup RouterThermal
                             \cup RouterModules \cup RouterQdisc \cup RouterWAN]

(* MS510TXUP, over CGI and over SSH.                                       *)
SwitchPorts == Fills(1, {"reset", "set"}) \cup Fills(2, {"reset"}) \cup Fills(3, {"reset"})
SwitchIGMP == Fills(4, {"set"}) \cup Fills(5, {"reset"}) \cup Fills(6, {"reset"})
SwitchPoE == Fills(7, {"reset", "set", "keep"}) \cup Fills(8, {"keep", "set"})
SwitchSpanningTree == Fills(9, {"set", "reset"})
SwitchFirmware == Fills(10, {"reset", "set"})
SwitchGreen == Fills(11, {"set"}) \cup Fills(12, {"reset"})
SwitchWeb == [reads |-> 12, shell |-> FALSE, hangs |-> FALSE, session |-> FALSE,
              behind |-> TRUE, partial |-> FALSE,
              families |-> SwitchPorts \cup SwitchIGMP \cup SwitchPoE \cup SwitchSpanningTree
                           \cup SwitchFirmware \cup SwitchGreen]

ProcPoE == Fills(1, {"ifany", "keep"})
ProcLinkdown == Fills(1, {"ifany"})
ProcOptical == Fills(1, {"ifany"})
ProcVLAN == Fills(1, {"ifany"})
ProcSampler == Fills(1, {"ifany"})
ProcMIB == Fills(1, {"ifany"})
SwitchShell == [reads |-> 1, shell |-> TRUE, hangs |-> TRUE, session |-> FALSE,
                behind |-> FALSE, partial |-> FALSE,
                families |-> ProcPoE \cup ProcLinkdown \cup ProcOptical \cup ProcVLAN
                             \cup ProcSampler \cup ProcMIB]

(* XS508TM, over the web API and over telnet, whose connection has a       *)
(* deadline.                                                               *)
TenGigIdentity == Fills(1, {"reset"})
TenGigPorts == Fills(2, {"add"}) \cup Fills(3, {"add"})
TenGigSwitch == Fills(4, {"set"}) \cup Fills(5, {"set"}) \cup Fills(6, {"set"})
TenGigNeighbours == Fills(7, {"reset"})
TenGigWeb == [reads |-> 7, shell |-> FALSE, hangs |-> FALSE, session |-> FALSE,
              behind |-> FALSE, partial |-> TRUE,
              families |-> TenGigIdentity \cup TenGigPorts \cup TenGigSwitch \cup TenGigNeighbours]

TenGigProc == Fills(1, {"keep"})
TenGigPartition == Fills(1, {"keep"})
TenGigShell == [reads |-> 1, shell |-> TRUE, hangs |-> FALSE, session |-> FALSE,
                behind |-> FALSE, partial |-> FALSE,
                families |-> TenGigProc \cup TenGigPartition]

(* CM1000.                                                                 *)
CableModem == [reads |-> 1, shell |-> FALSE, hangs |-> FALSE, session |-> FALSE,
               behind |-> FALSE, partial |-> TRUE,
               families |-> Fills(1, {"reset"})]

AllCollectors == {APWeb, APShell, RouterWeb, RouterShell, SwitchWeb, SwitchShell,
                  TenGigWeb, TenGigShell, CableModem}
=============================================================================
