-------------------------- MODULE MS510Resources ---------------------------
(***************************************************************************)
(* The resources of the MS510TXUP.  Its firmware confirms writes that it   *)
(* discards, so that nearly every operation reads back, some of them in    *)
(* the client already.                                                     *)
(***************************************************************************)
EXTENDS Resources

(* Calls of the client.                                                    *)
SetSyslogState == <<"state">>
AddSyslogHost == <<"add">>
DeleteSyslogHost == <<"delete">>
SetSNTP == <<"form">>
SNTPServersOnlyLess == <<"list", "cleardiff">>
SNTPServers == <<"list", "cleardiff", "detaildiff">>
SetLocalClock == <<"formoff">>
CreateVLAN == <<"bare">>
SetVLANMembership == <<"flag">>
DeleteVLAN == <<"delete">>
SetDNSState == <<"flag">>
DNSServers == <<"fetch", "cleardiff", "detaildiff">>
SetPortMaxFrame == <<"patch", "compare">>
SetIGMPSnooping == <<"patch">>
SetIGMPSnoopingVLAN == <<"merge">>
SetIGMPQuerierVLAN == <<"patch">>
SetPoEPort == <<"merge", "compare">>
SetSTPPortEnabled == <<"fetch", "merge", "compare">>
SetSTPPortShipped == <<"fetch", "mergeoff", "compare">>
SetHTTPS == <<"mergeflag">>

-----------------------------------------------------------------------------

(* Servers that are not wanted go first, one call each, then the missing   *)
(* ones are added: what was read says which.                               *)
DNSApply == SetDNSState \o DNSServers \o <<"save">>
DNS == Setting(DNSApply, <<"show">>, <<"off">>)

(* The same for the time servers, by their addresses alone.  The clock has *)
(* one form, sent with constants for the time zone, the poll intervals and *)
(* what else is in it.  A clock that is not set by SNTP cannot be read as  *)
(* this resource.                                                          *)
SNTPApply == SetSNTP \o SNTPServers
SNTPRead == <<"on">>
SNTP ==
    With(Setting(SNTPApply \o SNTPRead \o <<"save">>, SNTPRead \o <<"show">>, SetLocalClock),
         {"clobbers"})

(* The only kind that compares what it reads back with what it asked for.  *)
IGMPQuerierVLANApply == SetIGMPQuerierVLAN \o <<"savesame">>
IGMPQuerierVLAN == Setting(IGMPQuerierVLANApply, <<"show">>, <<"off">>)

IGMPSnoopingApply == SetIGMPSnooping \o <<"save">>
IGMPSnooping == Setting(IGMPSnoopingApply, <<"show">>, <<"off">>)

(* The querier flag of the row is another resource's.  Apply carries it    *)
(* over, unless the read before it fails; Delete sends zero for it.        *)
IGMPSnoopingVLANApply == <<"peek">> \o SetIGMPSnoopingVLAN \o <<"save">>
IGMPSnoopingVLAN ==
    With(Setting(IGMPSnoopingVLANApply, <<"find">>, <<"blank">>), {"vanishes", "clobbers"})

PoEPortApplyUnread == SetPoEPort \o <<"save">>
PoEPortApply == <<"fetch">> \o SetPoEPort \o <<"save">>
PoEPort == With(Setting(PoEPortApply, <<"find">>, LeaveAlone), {"lingers"})

PortMaxFrameApply == SetPortMaxFrame \o <<"save">>
PortMaxFrame == With(Setting(PortMaxFrameApply, <<"show">>, LeaveAlone), {"lingers"})

(* Delete puts the port back to the shipped state, spanning tree on.       *)
STPPortApply == SetSTPPortEnabled \o <<"save">>
STPPort == Setting(STPPortApply, <<"find">>, SetSTPPortShipped)

(* Plain HTTP is shown and never written.                                  *)
WebAccessMS510Apply == <<"fetch">> \o SetHTTPS \o <<"save">>
WebAccessMS510 == With(Setting(WebAccessMS510Apply, <<"show">>, LeaveAlone), {"lingers"})

(* A collector is a row known by its address.  One flag turns all of them  *)
(* on or off, and each shows it as its own.                                *)
SyslogServerCreate == <<"refuse">> \o AddSyslogHost \o SetSyslogState \o <<"save">>
SyslogServerUpdate == DeleteSyslogHost \o AddSyslogHost \o SetSyslogState \o <<"save">>
SyslogServer ==
    With(Table(SyslogServerCreate, SyslogServerUpdate, <<"find">>, DeleteSyslogHost), {"aside"})

(* A VLAN is made with its name, which is never written again, and given   *)
(* its ports in a second call.                                             *)
VLANCreateBelieved == <<"refuse">> \o CreateVLAN \o SetVLANMembership \o <<"trust">>
VLANCreate == <<"refuse">> \o CreateVLAN \o SetVLANMembership \o <<"save">>
VLANUpdate == SetVLANMembership \o <<"save">>
VLAN == Table(VLANCreate, VLANUpdate, <<"find">>, DeleteVLAN)

MS510Kinds ==
    [ms510txup_dns |-> DNS,
     ms510txup_sntp |-> SNTP,
     ms510txup_igmp_querier_vlan |-> IGMPQuerierVLAN,
     ms510txup_igmp_snooping |-> IGMPSnooping,
     ms510txup_igmp_snooping_vlan |-> IGMPSnoopingVLAN,
     ms510txup_poe_port |-> PoEPort,
     ms510txup_port_max_frame |-> PortMaxFrame,
     ms510txup_stp_port |-> STPPort,
     ms510txup_web_access |-> WebAccessMS510,
     ms510txup_syslog_server |-> SyslogServer,
     ms510txup_vlan |-> VLAN]
=============================================================================
