-------------------------- MODULE XS508Resources ---------------------------
(***************************************************************************)
(* The resources of the XS508TM.  Its objects are written whole, and every *)
(* setter reads the object first, to send back what it does not manage.    *)
(***************************************************************************)
EXTENDS Resources

(* Calls of the client.                                                    *)
SetIPNetworkConfig == <<"patch">>
EnableSSH(value) == <<"fetch", value>>
EnableIPRouting(value) == <<"fetch", value>>
SetDHCPRelayServers(value) == <<value>>
SetDHCPRelayGlobal(value) == <<"fetch", value>>
SetPortMTU(value) == <<value>>
SetHTTPConfig == <<"mergeflag">>

-----------------------------------------------------------------------------

(* The list of helpers and the switch that turns relaying on.              *)
DHCPRelayApply == SetDHCPRelayServers("detail") \o SetDHCPRelayGlobal("mergeflag") \o <<"save">>
DHCPRelayDeleteHalf == SetDHCPRelayServers("clear")
DHCPRelayDelete == SetDHCPRelayServers("clear") \o SetDHCPRelayGlobal("mergeoff")
DHCPRelay == Setting(DHCPRelayApply, <<"show">>, DHCPRelayDelete)

IGMPSnoopingWrite(value) == <<"fetch", value>>
SwitchIGMPSnooping ==
    Setting(IGMPSnoopingWrite("merge") \o <<"save">>, <<"show">>, IGMPSnoopingWrite("mergeoff"))

IPRoutingApply == EnableIPRouting("merge") \o <<"save">>
IPRouting == Setting(IPRoutingApply, <<"show">>, EnableIPRouting("mergeoff"))

SSHApply == EnableSSH("merge") \o <<"save">>
SSH == Setting(SSHApply, <<"show">>, EnableSSH("mergeoff"))

PortMTUApply == SetPortMTU("patch") \o <<"save">>
PortMTU == Setting(PortMTUApply, <<"show">>, SetPortMTU("wipe"))

(* The switch may have moved: a read-back that fails is a warning.         *)
NetworkApply == SetIPNetworkConfig \o <<"saveortrust">>
Network ==
    Trusting(With(Setting(NetworkApply, <<"show">>, LeaveAlone), {"lingers"}),
             {"create", "update"})

(* Plain HTTP is shown and never written; HTTPS needs a certificate.       *)
WebAccessXS508Apply == <<"fetch", "known">> \o SetHTTPConfig \o <<"save">>
WebAccessXS508 == With(Setting(WebAccessXS508Apply, <<"show">>, LeaveAlone), {"lingers", "needs"})

(* A collector is a row known by its address.  One flag turns all on; each *)
(* shows a flag of its own.                                                *)
SwitchSyslogCreate == <<"enable", "refuse", "add", "save">>
SwitchSyslogUpdate == <<"delete", "add", "save">>
SwitchSyslog == Table(SwitchSyslogCreate, SwitchSyslogUpdate, <<"find">>, <<"delete">>)

XS508Kinds ==
    [xs508tm_dhcp_relay |-> DHCPRelay,
     xs508tm_igmp_snooping |-> SwitchIGMPSnooping,
     xs508tm_ip_routing |-> IPRouting,
     xs508tm_ssh |-> SSH,
     xs508tm_port_mtu |-> PortMTU,
     xs508tm_network |-> Network,
     xs508tm_web_access |-> WebAccessXS508,
     xs508tm_syslog_server |-> SwitchSyslog]
=============================================================================
