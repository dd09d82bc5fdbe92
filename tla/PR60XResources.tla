-------------------------- MODULE PR60XResources ---------------------------
(***************************************************************************)
(* The resources of the router: what Create, Read, Update and Delete of    *)
(* each ask of the client, and what the client asks of the router.         *)
(***************************************************************************)
EXTENDS Resources

(* Calls of the client.                                                    *)
AddPortForwardingRule == <<"draw", "insert">>
EditPortForwardingRule == <<"edit">>
AddServiceProfile == <<"draw", "insert">>
EditServiceProfile == <<"edit">>
AddStaticRoute == <<"draw", "insert">>
EditStaticRoute == <<"edit">>
SetStaticLeases == <<"patch">>
SetVLANDHCPDNS == <<"fetch", "merge">>
SetRemoteSyslog == <<"patch">>
SetSQMProfile == <<"patch">>
SetUPnPSettings == <<"patch">>
SetPortSettings == <<"merge", "compare">>
SetTimeSettings == <<"mergediff">>
SetSNMPSettings == <<"mergeflagdiff">>
SetManagementRest == <<"detaildiff">>

-----------------------------------------------------------------------------
(* Tables.  The router takes the id of a new row from the client; edit and *)
(* delete name a row by it.                                                *)

(* The two profiles a rule names must be there when it is made.  Read, and *)
(* only Read, finds the rule again that has been renumbered.  Update       *)
(* writes what tells the rule from others too.                             *)
PortForwardingCreateUnasked == <<"known">> \o AddPortForwardingRule \o <<"save">>
PortForwardingCreate == <<"known", "refuse">> \o AddPortForwardingRule \o <<"save">>
PortForwardingReadById == <<"findid">>
PortForwardingRead == <<"find">>
PortForwardingRule ==
    Trusting(With(Table(PortForwardingCreate,
                        EditPortForwardingRule \o <<"trust">>,
                        PortForwardingRead,
                        <<"deleteid">>),
                  {"renumbers", "renames", "needs"}),
             {"update"})

(* A profile that a rule names is not deleted; it may get another name.    *)
ServiceProfileCreate == <<"refuse">> \o AddServiceProfile \o <<"save">>
ServiceProfileDeleteUnasked == <<"deleteid">>
ServiceProfileDelete == <<"unused", "deleteid">>
ServiceProfile ==
    Trusting(With(Table(ServiceProfileCreate,
                        EditServiceProfile \o <<"trust">>,
                        <<"findid">>,
                        ServiceProfileDelete),
                  {"named", "byid", "renames"}),
             {"update"})

StaticRouteCreate == AddStaticRoute \o <<"saveid">>
StaticRoute ==
    Trusting(With(Table(StaticRouteCreate,
                        EditStaticRoute \o <<"trust">>,
                        <<"findid">>,
                        <<"deleteid">>),
                  {"repeats", "byid"}),
             {"update"})

-----------------------------------------------------------------------------
(* Settings.                                                               *)

(* The whole list of a VLAN is this resource's.                            *)
StaticLeasesApply == SetStaticLeases \o <<"save">>
StaticLeases == Setting(StaticLeasesApply, <<"show">>, <<"wipe">>)

VLANDHCPDNSApply == SetVLANDHCPDNS \o <<"save">>
VLANDHCPDNS == With(Setting(VLANDHCPDNSApply, <<"show">>, LeaveAlone), {"lingers"})

RemoteSyslogApply == SetRemoteSyslog \o <<"save">>
RemoteSyslog == Setting(RemoteSyslogApply, <<"show">>, <<"off">>)

SQMApply == SetSQMProfile \o <<"save">>
SQM == With(Setting(SQMApply, <<"find">>, <<"off">>), {"vanishes"})

UPnPApply == SetUPnPSettings \o <<"save">>
UPnP == Setting(UPnPApply, <<"show">>, <<"off">>)

(* Seven settings, each with a call of its own that is left out when the   *)
(* setting is as wanted.  SNMP comes first and is written back whole.      *)
(* Password recovery is shown and never written.                           *)
ManagementApply == <<"fetch">> \o SetSNMPSettings \o SetManagementRest \o <<"save">>
ManagementDelete == <<"fetch", "mergeoffdiff">>
Management == With(Setting(ManagementApply, <<"show">>, ManagementDelete), {"aside"})

PortSettingsApply == <<"fetch">> \o SetPortSettings \o <<"save">>
PortSettings == With(Setting(PortSettingsApply, <<"find">>, LeaveAlone), {"lingers"})

TimeApply == <<"fetch">> \o SetTimeSettings \o <<"save">>
Time == With(Setting(TimeApply, <<"show">>, LeaveAlone), {"lingers"})

PR60XKinds ==
    [pr60x_port_forwarding_rule |-> PortForwardingRule,
     pr60x_service_profile |-> ServiceProfile,
     pr60x_static_route |-> StaticRoute,
     pr60x_static_leases |-> StaticLeases,
     pr60x_vlan_dhcp_dns |-> VLANDHCPDNS,
     pr60x_remote_syslog |-> RemoteSyslog,
     pr60x_sqm |-> SQM,
     pr60x_upnp |-> UPnP,
     pr60x_management |-> Management,
     pr60x_port_settings |-> PortSettings,
     pr60x_time |-> Time]
=============================================================================
