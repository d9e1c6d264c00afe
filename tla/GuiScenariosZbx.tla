-------------------------- MODULE GuiScenariosZbx ---------------------------
(***************************************************************************)
(* The scenario functions of ZBX-1229-ipv4_as_ipv6_old_one/test/regression/ *)
(* gui.py and the order testGUI() calls them in.  Each definition lists    *)
(* the calls of the function of the same name, one step per call.         *)
(* Facts name the column the WHERE clause or the form sets and the value  *)
(* that tells the scenario's rows apart; the other columns of a call are  *)
(* left out.  Where a condition also tests hostid or userid of a parent   *)
(* row, that link is left out.                                            *)
(***************************************************************************)
EXTENDS GuiSteps, Sequences

GUI_Login ==
  << GuiStep("sessions", "login", {}, NoRef, "done"),
     CountStep("sessions", {}, NoRef, AnyStatus, 1),
     GuiStep("sessions", "logout", {}, NoRef, "done"),
     CountStep("sessions", {}, NoRef, AnyStatus, 0) >>

(* config.php with register=update writes the single config row. *)
GUI_Config_General_Housekeeper ==
  << GuiStep("config", "update", {"alert_history=33"}, Lit(1), "done"),
     CountStep("config", {"alert_history=33"}, NoRef, AnyStatus, 1) >>

GUI_Config_General_Mediatype_Email ==
  << GuiStep("media_type", "add", {"description=Zzz"}, NoRef, "done"),
     CountStep("media_type", {"description=Zzz"}, NoRef, AnyStatus, 1),
     GetIDStep("media_type", {"description=Zzz"}, NoRef, AnyStatus, "mediatypeid"),
     GuiStep("media_type", "update", {"description=Zzz2"}, Var("mediatypeid"), "done"),
     CountStep("media_type", {"description=Zzz2"}, Var("mediatypeid"), AnyStatus, 1),
     GuiStep("media_type", "delete", {}, Var("mediatypeid"), "done"),
     CountStep("media_type", {"description=Zzz2"}, NoRef, AnyStatus, 0) >>

(* The last check looks for 'Zzz2', the email type, not for 'SMS2'. *)
GUI_Config_General_Mediatype_Script ==
  << GuiStep("media_type", "add", {"description=SMS"}, NoRef, "done"),
     CountStep("media_type", {"description=SMS"}, NoRef, AnyStatus, 1),
     GetIDStep("media_type", {"description=SMS"}, NoRef, AnyStatus, "mediatypeid"),
     GuiStep("media_type", "update", {"description=SMS2"}, Var("mediatypeid"), "done"),
     CountStep("media_type", {"description=SMS2"}, Var("mediatypeid"), AnyStatus, 1),
     GuiStep("media_type", "delete", {}, Var("mediatypeid"), "done"),
     CountStep("media_type", {"description=Zzz2"}, NoRef, AnyStatus, 0) >>

(* The update names id=1, not the id DBGetID returned. *)
GUI_Config_General_Autoregistration ==
  << GuiStep("hosts", "add", {"host=regression"}, NoRef, "done"),
     CountStep("hosts", {"host=regression"}, NoRef, AnyStatus, 1),
     GetIDStep("hosts", {"host=regression"}, NoRef, AnyStatus, "hostid"),
     GuiStep("autoreg", "add", {"pattern=*"}, NoRef, "done"),
     CountStep("autoreg", {"pattern=*"}, NoRef, AnyStatus, 1),
     GetIDStep("autoreg", {"pattern=*"}, NoRef, AnyStatus, "id"),
     GuiStep("autoreg", "update", {"pattern=***"}, Lit(1), "done"),
     CountStep("autoreg", {"pattern=***"}, NoRef, AnyStatus, 1),
     GuiStep("autoreg", "delete", {}, Var("id"), "done"),
     CountStep("autoreg", {}, Var("id"), AnyStatus, 0),
     GuiStep("hosts", "delete", {}, Var("hostid"), "done"),
     CountStep("hosts", {}, Var("hostid"), "deleted", 1) >>

GUI_Config_General_Mediatype ==
  GUI_Config_General_Mediatype_Email \o GUI_Config_General_Mediatype_Script

GUI_Config_Users ==
  << GuiStep("users", "add", {"alias=Regression", "form=1"}, NoRef, "done"),
     CountStep("users", {"alias=Regression", "form=1"}, NoRef, AnyStatus, 1),
     GetIDStep("users", {"alias=Regression"}, NoRef, AnyStatus, "id"),
     GuiStep("users", "update", {"alias=Regression2", "form=2"}, Var("id"), "done"),
     CountStep("users", {"alias=Regression2", "form=2"}, Var("id"), AnyStatus, 1),
     GuiStep("users", "delete", {}, Var("id"), "done"),
     CountStep("users", {}, Var("id"), AnyStatus, 0) >>

GUI_Config_Media ==
  << GuiStep("users", "add", {"alias=Regression", "form=1"}, NoRef, "done"),
     CountStep("users", {"alias=Regression", "form=1"}, NoRef, AnyStatus, 1),
     GetIDStep("users", {"alias=Regression"}, NoRef, AnyStatus, "userid"),
     GuiStep("media", "add", {"sendto=alex@zabbix.com"}, NoRef, "done"),
     CountStep("media", {"sendto=alex@zabbix.com"}, NoRef, AnyStatus, 1),
     GetIDStep("media", {"sendto=alex@zabbix.com"}, NoRef, AnyStatus, "mediaid"),
     GuiStep("media", "update", {"sendto=test@zabbix.com"}, Var("mediaid"), "done"),
     CountStep("media", {"sendto=test@zabbix.com"}, Var("mediaid"), AnyStatus, 1),
     GuiStep("media", "delete", {}, Var("mediaid"), "done"),
     CountStep("media", {}, Var("mediaid"), AnyStatus, 0) >>

(* Defect variant: the deleted host is checked by looking its id up again *)
(* among the status=4 hosts.                                               *)
GUI_Config_Hosts_LookupDeleted ==
  << GuiStep("hosts", "add", {"host=regression"}, NoRef, "done"),
     CountStep("hosts", {"host=regression"}, NoRef, AnyStatus, 1),
     GetIDStep("hosts", {"host=regression"}, NoRef, AnyStatus, "hostid"),
     GuiStep("hosts", "add", {"host=regression"}, NoRef, "exists"),
     CountStep("hosts", {"host=regression"}, NoRef, AnyStatus, 1),
     GuiStep("hosts", "delete", {}, Var("hostid"), "done"),
     GetIDStep("hosts", {"host=regression"}, NoRef, "deleted", "hostid") >>

GUI_Config_Hosts ==
  << GuiStep("hosts", "add", {"host=regression"}, NoRef, "done"),
     CountStep("hosts", {"host=regression"}, NoRef, AnyStatus, 1),
     GetIDStep("hosts", {"host=regression"}, NoRef, AnyStatus, "hostid"),
     GuiStep("hosts", "add", {"host=regression"}, NoRef, "exists"),
     CountStep("hosts", {"host=regression"}, NoRef, AnyStatus, 1),
     GuiStep("hosts", "delete", {}, Var("hostid"), "done"),
     CountStep("hosts", {}, Var("hostid"), "deleted", 1) >>

(* The lookup spells the name 'regression'; the group is 'Regression'. *)
GUI_Config_Hosts_Groups ==
  << GuiStep("groups", "add", {"name=Regression"}, NoRef, "done"),
     CountStep("groups", {"name=Regression"}, NoRef, AnyStatus, 1),
     GetIDStep("groups", {"name=regression"}, NoRef, AnyStatus, "id"),
     GuiStep("groups", "add", {"name=Regression"}, NoRef, "exists"),
     CountStep("groups", {"name=Regression"}, NoRef, AnyStatus, 1),
     GuiStep("groups", "delete", {}, Var("id"), "done"),
     CountStep("groups", {"name=Regression"}, NoRef, AnyStatus, 0) >>

GUI_Config_Hosts_Template_Linkage ==
  << GuiStep("hosts", "add", {"host=regression3"}, NoRef, "done"),
     CountStep("hosts", {"host=regression3"}, NoRef, AnyStatus, 1),
     GetIDStep("hosts", {"host=regression3"}, NoRef, AnyStatus, "hostid"),
     GuiStep("hosts_templates", "add", {"templateid=10001", "flags=7"}, NoRef, "done"),
     CountStep("hosts_templates", {"templateid=10001", "flags=7"}, NoRef, AnyStatus, 1),
     GetIDStep("hosts_templates", {"templateid=10001"}, NoRef, AnyStatus, "hosttemplateid"),
     GuiStep("hosts_templates", "update", {"templateid=10001", "flags=mixed"},
             Var("hosttemplateid"), "done"),
     CountStep("hosts_templates", {"templateid=10001", "flags=mixed"},
               Var("hosttemplateid"), AnyStatus, 1),
     GuiStep("hosts_templates", "delete", {}, Var("hosttemplateid"), "done"),
     CountStep("hosts_templates", {}, Var("hosttemplateid"), AnyStatus, 0),
     GuiStep("hosts", "delete", {}, Var("hostid"), "done"),
     CountStep("hosts", {}, Var("hostid"), "deleted", 1) >>

GUI_Config_Items ==
  << GuiStep("hosts", "add", {"host=regression"}, NoRef, "done"),
     CountStep("hosts", {"host=regression"}, NoRef, AnyStatus, 1),
     GetIDStep("hosts", {"host=regression"}, NoRef, AnyStatus, "hostid"),
     GuiStep("items", "add", {"key_=system.cpu.load[all,avg1]"}, NoRef, "done"),
     CountStep("items", {"key_=system.cpu.load[all,avg1]"}, NoRef, AnyStatus, 1),
     GetIDStep("items", {"key_=system.cpu.load[all,avg1]"}, NoRef, AnyStatus, "itemid"),
     StatusStep("items", Var("itemid"), "disabled"),
     CountStep("items", {}, Var("itemid"), "disabled", 1),
     StatusStep("items", Var("itemid"), "active"),
     CountStep("items", {}, Var("itemid"), "active", 1),
     GuiStep("items", "update", {"key_=system.cpu.load[all,avg5]"}, Var("itemid"), "done"),
     CountStep("items", {"key_=system.cpu.load[all,avg5]"}, Var("itemid"), AnyStatus, 1),
     GuiStep("items", "delete", {}, Var("itemid"), "done"),
     CountStep("items", {}, Var("itemid"), AnyStatus, 0),
     GuiStep("hosts", "delete", {}, Var("hostid"), "done"),
     CountStep("hosts", {}, Var("hostid"), "deleted", 1) >>

(* No database check; the delete names sysmapid=1. *)
GUI_Config_Maps ==
  << GuiStep("sysmaps", "add", {"name=Regression"}, NoRef, "done"),
     GuiStep("sysmaps", "add", {"name=Regression"}, NoRef, "exists"),
     GuiStep("sysmaps", "delete", {}, Lit(1), "done") >>

GUI_Config_Graphs ==
  << GuiStep("graphs", "add", {"name=Regression"}, NoRef, "done"),
     CountStep("graphs", {"name=Regression"}, NoRef, AnyStatus, 1),
     GetIDStep("graphs", {"name=Regression"}, NoRef, AnyStatus, "graphid"),
     GuiStep("graphs", "delete", {}, Var("graphid"), "done"),
     CountStep("graphs", {}, Var("graphid"), AnyStatus, 0) >>

(* The update is checked by id only, not by its new name 'Yo'. *)
GUI_Config_Screens ==
  << GuiStep("screens", "add", {"name=Regression"}, NoRef, "done"),
     CountStep("screens", {"name=Regression"}, NoRef, AnyStatus, 1),
     GetIDStep("screens", {"name=Regression"}, NoRef, AnyStatus, "id"),
     GuiStep("screens", "update", {"name=Yo"}, Var("id"), "done"),
     CountStep("screens", {}, Var("id"), AnyStatus, 1),
     GuiStep("screens", "delete", {}, Var("id"), "done"),
     CountStep("screens", {}, Var("id"), AnyStatus, 0) >>

(* Five pages that only show the screen; the screen is never deleted. *)
GUI_Config_Screen_Elements ==
  << GuiStep("screens", "add", {"name=Regression"}, NoRef, "done"),
     CountStep("screens", {"name=Regression"}, NoRef, AnyStatus, 1),
     GetIDStep("screens", {"name=Regression"}, NoRef, AnyStatus, "screenid") >>
  \o [i \in 1..6 |-> GuiStep("screens", "show", {}, Var("screenid"), "done")]

(* The query string carries serviceid twice, str(id) and then 1; PHP     *)
(* keeps the last, so update and delete act on service 1.                *)
GUI_Config_Services ==
  << GuiStep("services", "add", {"name=IT Services"}, NoRef, "done"),
     CountStep("services", {"name=IT Services"}, NoRef, AnyStatus, 1),
     GetIDStep("services", {"name=IT Services"}, NoRef, AnyStatus, "id"),
     GuiStep("services", "update", {"name=IT Services new"}, Lit(1), "done"),
     CountStep("services", {}, Var("id"), AnyStatus, 1),
     GuiStep("services", "delete", {}, Lit(1), "done"),
     CountStep("services", {}, Var("id"), AnyStatus, 0) >>

(* Adding the trigger also adds its functions row, keyed here by the      *)
(* trigger's id; deleting it deletes that row.                           *)
GUI_Config_Triggers ==
  << GuiStep("hosts", "add", {"host=regression"}, NoRef, "done"),
     CountStep("hosts", {"host=regression"}, NoRef, AnyStatus, 1),
     GetIDStep("hosts", {"host=regression"}, NoRef, AnyStatus, "hostid"),
     GuiStep("items", "add", {"key_=system.cpu.load[all,avg1]"}, NoRef, "done"),
     CountStep("items", {"key_=system.cpu.load[all,avg1]"}, NoRef, AnyStatus, 1),
     GetIDStep("items", {"key_=system.cpu.load[all,avg1]"}, NoRef, AnyStatus, "itemid"),
     GuiStep("triggers", "add", {"description=Processor load"}, NoRef, "done"),
     CountStep("triggers", {"description=Processor load"}, NoRef, AnyStatus, 1),
     GetIDStep("triggers", {"description=Processor load"}, NoRef, AnyStatus, "triggerid"),
     CountStep("functions", {}, Var("triggerid"), AnyStatus, 1),
     GuiStep("triggers", "delete", {}, Var("triggerid"), "done"),
     CountStep("triggers", {}, Var("triggerid"), AnyStatus, 0),
     CountStep("functions", {}, Var("triggerid"), AnyStatus, 0),
     GuiStep("items", "delete", {}, Var("itemid"), "done"),
     CountStep("items", {}, Var("itemid"), AnyStatus, 0),
     GuiStep("hosts", "delete", {}, Var("hostid"), "done"),
     CountStep("hosts", {}, Var("hostid"), "deleted", 1) >>

(* testGUI(): the order the scenario functions are called in. *)
ZbxRun ==
  << GUI_Login, GUI_Config_General_Housekeeper, GUI_Config_General_Mediatype,
     GUI_Config_General_Autoregistration, GUI_Config_Users, GUI_Config_Media,
     GUI_Config_Hosts, GUI_Config_Hosts_Groups, GUI_Config_Hosts_Template_Linkage,
     GUI_Config_Items, GUI_Config_Triggers, GUI_Config_Maps, GUI_Config_Graphs,
     GUI_Config_Screens, GUI_Config_Screen_Elements, GUI_Config_Services >>

ZbxCaptVars == {"mediatypeid", "hostid", "id", "userid", "mediaid",
                "hosttemplateid", "itemid", "graphid", "screenid", "triggerid"}
=============================================================================
