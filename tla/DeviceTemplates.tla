--------------------------- MODULE DeviceTemplates ---------------------------
(***************************************************************************)
(* core/device_templates.py: the built-in texts of ten vendors.  Of a text *)
(* the placeholders without a default are kept; those with one are never   *)
(* left empty.  What a router makes of the text is not in the repository,  *)
(* and nothing is said of it.                                              *)
(***************************************************************************)

Policies == {"drop_invalid", "de_preference_invalid", "monitor_only"}
TemplateTypes == {"rtr_client", "rov_policy", "rollback", "risk_notice"}

Server == {"rtr_server", "rtr_port"}
Local == {"asn"}
Preferences == {"localpref_valid", "localpref_invalid", "localpref_not_found"}

(* The default texts of a vendor.  All clients and notices ask for the same. *)
Four(rov, rollback) ==
  [rtr_client |-> Server \union Local \union {"generated_at"}, rov_policy |-> rov,
   rollback |-> rollback, risk_notice |-> Server \union Local]

CiscoIosXe == Four(Local, Server \union Local)
CiscoIosXr == Four(Local, Local \union {"rtr_server"})
JuniperJunos == Four({}, {})
HuaweiVrp == Four(Local, Server \union Local)
H3c == Four(Local, Server \union Local)
AristaEos == Four(Local, Local \union {"rtr_server"})
NokiaSros == Four({}, {})
Frr == Four(Local, Server \union Local)
Bird == Four({}, {})
OpenBgpd == Four({}, Server)

DefaultTemplates ==
  [cisco_ios_xe |-> CiscoIosXe, cisco_ios_xr |-> CiscoIosXr, juniper_junos |-> JuniperJunos,
   huawei_vrp |-> HuaweiVrp, h3c |-> H3c, arista_eos |-> AristaEos, nokia_sros |-> NokiaSros,
   frr |-> Frr, bird |-> Bird, openbgpd |-> OpenBgpd]

(* The texts of the three policies. *)
Three(drop, lower, monitor) ==
  [drop_invalid |-> drop, de_preference_invalid |-> lower, monitor_only |-> monitor]

CiscoIosXePolicies == Three(Local, Local, Local)
CiscoIosXrPolicies == Three(Local, Local \union Preferences, Local)
JuniperJunosPolicies == Three({}, Preferences, Server)
HuaweiVrpPolicies == Three(Local, Local \union Preferences, Local)
H3cPolicies == Three(Local, Local, Local)
AristaEosPolicies == Three(Local, Local, Local)
NokiaSrosPolicies == Three({}, Preferences, Server)
FrrPolicies == Three(Local, Local, Local)
BirdPolicies == Three(Local, Local \union Preferences, Local)
OpenBgpdPolicies == Three({}, Preferences, {})

PolicyTemplates ==
  [cisco_ios_xe |-> CiscoIosXePolicies, cisco_ios_xr |-> CiscoIosXrPolicies,
   juniper_junos |-> JuniperJunosPolicies, huawei_vrp |-> HuaweiVrpPolicies, h3c |-> H3cPolicies,
   arista_eos |-> AristaEosPolicies, nokia_sros |-> NokiaSrosPolicies, frr |-> FrrPolicies,
   bird |-> BirdPolicies, openbgpd |-> OpenBgpdPolicies]

Vendors == DOMAIN DefaultTemplates
=============================================================================
