------------------------- MODULE WAX630EResources --------------------------
(***************************************************************************)
(* The resources of the access point.  A write names a subtree, and the    *)
(* access point leaves what is not in it as it was; within a subtree the   *)
(* fields of others are sent back as they were read.                       *)
(***************************************************************************)
EXTENDS Resources

(* Calls of the client.                                                    *)
SetNetwork == <<"try">>
SetSyslog(value) == <<value>>
SetManagement == <<"mergeflag">>
SetRemoteAccess == <<"mergedetail">>
SetTime == <<"merge">>
SetRadio == <<"merge">>
SetSSIDDetails == <<"merge">>
SetSNMP(value) == <<"fetch", value>>

-----------------------------------------------------------------------------

(* The write restarts the network of the access point, so its error means  *)
(* nothing; a changed address is believed, any other is read back.         *)
APNetworkApply == <<"fetch">> \o SetNetwork \o <<"saveortrust">>
APNetwork ==
    Trusting(With(Setting(APNetworkApply, <<"show">>, LeaveAlone), {"lingers"}),
             {"create", "update"})

APSyslogApply == SetSyslog("patch") \o <<"save">>
APSyslog == Setting(APSyslogApply, <<"show">>, SetSyslog("off"))

(* Two subtrees, both read first.                                          *)
APManagementApply == <<"fetch">> \o SetManagement \o SetRemoteAccess \o <<"save">>
APManagement == With(Setting(APManagementApply, <<"show">>, LeaveAlone), {"lingers"})

RadioApply == <<"fetch">> \o SetRadio \o <<"save">>
Radio == With(Setting(RadioApply, <<"show">>, LeaveAlone), {"lingers"})

SNMPApply == SetSNMP("merge") \o <<"save">>
SNMP == Setting(SNMPApply, <<"show">>, SetSNMP("mergeoff"))

APTimeApply == <<"fetch">> \o SetTime \o <<"save">>
APTime == With(Setting(APTimeApply, <<"show">>, LeaveAlone), {"lingers"})

SSIDApply == <<"fetch">> \o SetSSIDDetails \o <<"save">>
SSIDRead == <<"find">>
SSID == With(Setting(SSIDApply, SSIDRead, LeaveAlone), {"vanishes", "lingers"})

WAX630EKinds ==
    [ap_network |-> APNetwork,
     ap_syslog |-> APSyslog,
     wax630e_management |-> APManagement,
     wax630e_radio |-> Radio,
     wax630e_snmp |-> SNMP,
     wax630e_time |-> APTime,
     wax630e_ssid |-> SSID]
=============================================================================
